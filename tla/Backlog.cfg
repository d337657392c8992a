\* Edits of the graph by two machines that merge, and work on its tasks.
SPECIFICATION Spec
CONSTANTS
    Tasks = {t1, t2, t3}
    Actors = {a}
    Machines = {m1, m2}
    Skew <- MCAgree
    Worlds <- MCWorlds
    StatusChoices = {"open", "done", "cancelled"}
    MaxId = 5
    IdsPerTick = 1
INVARIANTS
    TypeOK
    EveryHeadReplays
    LoopNeedsTwoWriters
    EveryWaitHasARoot
    WalksFindTheLoops
SYMMETRY MCSymmetry
CHECK_DEADLOCK FALSE
