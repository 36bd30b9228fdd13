\* A ratio fails and the refund's POST fails once, midway in Wix.
SPECIFICATION Spec
CONSTANTS
    Ratios = {"1:1", "9:16"}
    Credits <- MCCredits
    Quoted = 4
    MaxTries = 1
    MaxPosts = 3
    Faults = {"pipeline", "refund", "half"}
INVARIANT
    RefundedMeansReturned
CHECK_DEADLOCK FALSE
