\* Contests settled through the gate, with every way an attempt and its lease
\* may end, and one machine on its own: who is told to merge.
SPECIFICATION Spec
CONSTANTS
    Tasks = {"t1"}
    Actors = {"a", "b"}
    Machines = {"m1", "m2"}
    Worlds <- MCContests
    MaxId = 8
    IdsPerTick = 1
INVARIANTS
    TypeOK
    FirstWinnerStands
    FirstWinnerIsAlone
    EveryWinnerStands
    OneClosePerAttempt
    OwnerHoldsTombstone
PROPERTIES
    NothingGoesBack
CHECK_DEADLOCK FALSE
