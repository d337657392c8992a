\* The sync loops bring every machine to the same head.
SPECIFICATION FairSpec
CONSTANTS
    Tasks = {"t1"}
    Actors = {"a", "b"}
    Machines = {"m1", "m2"}
    Worlds <- MCWorking
    MaxId = 5
    IdsPerTick = 1
PROPERTIES
    Converges
CHECK_DEADLOCK FALSE
