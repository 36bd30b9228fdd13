\* Two ratios and no fault of any kind.
SPECIFICATION Spec
CONSTANTS
    Ratios = {"1:1", "9:16"}
    Credits <- MCCredits
    Quoted = 4
    MaxTries = 1
    MaxPosts = 3
    Faults = {}
INVARIANT
    CompletedShowsEveryAsset
CHECK_DEADLOCK FALSE
