\* Failures, crashes, moves of the ref by hand and peers of any view format,
\* in every order; and a calm world, where everything settles.
SPECIFICATION FairSpec
CONSTANTS
    Notes = {n1}
    Claims = {c1}
    Foreign = {f1, f2}
    MaxCASRetries = 2
    Worlds <- MCWorlds
INVARIANTS
    TypeOK
    CommitsAreWhole
    NothingForgotten
PROPERTIES
    BranchMovesForward
    Settles
CHECK_DEADLOCK FALSE
