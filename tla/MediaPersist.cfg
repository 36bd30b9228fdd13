\* Two polls at a time, two visits, two ratios with a file each, one rerun, one fault.
SPECIFICATION Spec
CONSTANTS
    Polls = {poll1, poll2}
    NFiles = 2
    Asset <- MCAsset
    MaxReruns = 1
    MaxVisits = 2
    MaxFaults = 1
    Faults = {"io", "crash"}
INVARIANTS TypeOK PermanentIsBacked OneRowWithoutOverlap PageShowsTheEnd
PROPERTIES PollingEnds
CHECK_DEADLOCK FALSE
