\* Three upscale jobs submitted one after the other.
SPECIFICATION Spec
CONSTANTS
    Kit = kit
    Video = video
    Photo = photo
    Tasks <- Three
    Job <- ThreeJob
    Service <- ThreeService
    do_expand <- ThreeExpand
    Slots = 2
    Attempts = 2
    MaxPolls = 1
    MaxFaults = 0
    TripAfter = 2
    Shapes = {"flat"}
PROPERTIES ExhaustedMeans503
