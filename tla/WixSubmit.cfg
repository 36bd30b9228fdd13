\* A kit, video or upscale and a second upscale of one member who can pay for a
\* kit and little more, with one crash, failed operation or dying handler.
SPECIFICATION Spec
CONSTANTS
    UnitCost <- MCUnitCost
    Margin = 32
    Peg = 100
    Params <- MCParams
    First = first
    Second = second
    Subs <- MCSubs
    RoleNames = {"pro"}
    StartBalance = 3490
    MaxFaults = 1
    Faults = {"crash", "io", "api"}
INVARIANTS TypeOK RefundedMeansNoJob HoldAccountedFor ChargedForWhatRan AnswersAreTrue
PROPERTIES KeepsEscrow IntentsAreResolved
CHECK_DEADLOCK FALSE
