\* Two ratios, two starts, every kind of fault.  The two ratios together cost 5,
\* more than was quoted, so that the clamp to quoted_credits matters.
SPECIFICATION FairSpec
CONSTANTS
    Ratios = {"1:1", "9:16"}
    Credits <- MCCredits
    Quoted = 4
    MaxTries = 2
    MaxPosts = 3
    Faults = {"pipeline", "raise", "timeout", "crash", "expire", "refund", "half",
              "insert"}
INVARIANTS
    TypeOK
    NeverOverRefunded
    ReportedRefundIsReal
    CompletedHasMedia
    OwedIsReturnedOrCounted
    FirstAttemptSettlesExactly
PROPERTIES
    KeepsRecord
    JobEnds
CHECK_DEADLOCK FALSE
