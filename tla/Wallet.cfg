\* Two deliveries of a grant and a repeated spend, with one crash or failed
\* operation, slow calls and late removals of a stale lock document.
SPECIFICATION Spec
CONSTANTS
    Grants = {grant1, grant2}
    Spends = {spend1, spend2}
    Calls <- MCCalls
    Rows = {"stripe", "spend"}
    Kind <- MCKind
    Row <- MCRow
    Credits <- MCCredits
    StartBalance = 2
    None = None
    Attempts = 2
    MaxFaults = 1
    Faults = {"crash", "io", "slow", "late"}
SYMMETRY Symmetry
INVARIANTS
    TypeOK
    TimelySerialized
    NeverMinted
    CreditedOnce
    AuditedAtRest
PROPERTY KeepsAccount
CHECK_DEADLOCK FALSE
