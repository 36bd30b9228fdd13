\* No fault; sweeps may come while a POST is still on its way.
SPECIFICATION Spec
CONSTANTS
    UnitCost <- MCUnitCost
    Margin = 32
    Peg = 100
    Params <- MCParams
    First = first
    Second = second
    Subs <- MCSubs
    RoleNames = {"pro"}
    StartBalance = 3490
    MaxFaults = 0
    Faults = {"early"}
INVARIANT NotFoundMeansNeverLanded
CHECK_DEADLOCK FALSE
