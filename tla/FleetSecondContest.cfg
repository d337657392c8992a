\* A merge that drops a confirmation the remote had accepted.
SPECIFICATION Spec
CONSTANTS
    Tasks = {"t1"}
    Actors = {"a", "b"}
    Machines = {"m1", "m2"}
    Worlds <- MCAbandoning
    MaxId = 7
    IdsPerTick = 1
PROPERTIES
    PublishedIsKept
CHECK_DEADLOCK FALSE
