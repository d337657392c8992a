\* The clock of one machine is two instants ahead of the other's.
SPECIFICATION Spec
CONSTANTS
    Tasks = {t1, t2, t3}
    Actors = {a}
    Machines = {m1, m2}
    Skew <- MCAhead
    Worlds <- MCFresh
    StatusChoices = {"open", "done", "cancelled"}
    MaxId = 5
    IdsPerTick = 1
INVARIANTS
    EveryHeadReplays
CHECK_DEADLOCK FALSE
