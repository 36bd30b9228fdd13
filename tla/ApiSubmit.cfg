\* Three requests over three references with a fault and an
\* expiry: duplicates, races, retries after a failure, late retries.
SPECIFICATION Spec
CONSTANTS
    Requests = {q1, q2, q3}
    Refs = {r1, r2, r3}
    None = None
    MaxQueueDepth = 1
    MaxInFlight = 2
    MaxFaults = 1
    MaxBlind = 0
    MaxExpiries = 1
SYMMETRY Symmetry
INVARIANTS
    TypeOK
    QueuedJobIsComplete
    RetryNotShed
    QueueBounded
PROPERTY
    KeepsPromise
CHECK_DEADLOCK FALSE
