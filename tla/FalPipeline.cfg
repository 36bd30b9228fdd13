\* A full kit and a video contend for one slot; one POST's answer is lost, one
\* balance read fails or the worker dies once and ARQ runs what it may again; two
\* 402s open the circuit.
SPECIFICATION Spec
CONSTANTS
    Kit = kit
    Video = video
    Photo = photo
    Tasks <- MCTasks
    Job <- MCJob
    Service <- MCService
    do_expand <- MCExpand
    Slots = 1
    Attempts = 2
    MaxPolls = 1
    MaxFaults = 1
    TripAfter = 2
    Shapes = {"flat"}
INVARIANTS TypeOK OpenForAReason SlotsConserved StagesInOrder BoughtOnce
PROPERTIES TasksEnd CircuitFollows
