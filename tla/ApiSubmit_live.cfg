\* Two requests, every handler step fair, with a failing call or crash, a
\* failed depth read and an expiry.
SPECIFICATION FairSpec
CONSTANTS
    Requests = {q1, q2}
    Refs = {r1, r2}
    None = None
    MaxQueueDepth = 1
    MaxInFlight = 2
    MaxFaults = 1
    MaxBlind = 1
    MaxExpiries = 1
PROPERTY
    ClaimedJobStarts
CHECK_DEADLOCK FALSE
