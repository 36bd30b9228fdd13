\* One call dies in the lock; removals of its document may come late.
SPECIFICATION Spec
CONSTANTS
    Grants = {grant1, grant2}
    Spends = {spend1, spend2}
    Calls <- MCCalls
    Rows = {"stripe", "spend"}
    Kind <- MCKind
    Row <- MCRow
    Credits <- MCCredits
    StartBalance = 2
    None = None
    Attempts = 2
    MaxFaults = 1
    Faults = {"crash", "late"}
INVARIANT
    AlwaysSerialized
CHECK_DEADLOCK FALSE
