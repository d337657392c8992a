\* A ref moved from outside under a background flush.
SPECIFICATION FairSpec
CONSTANTS
    Notes = {n1}
    Claims = {c1}
    Foreign = {f1}
    MaxCASRetries = 2
    Worlds <- MCMovedByHand
PROPERTIES
    MemoCatchesUp
CHECK_DEADLOCK FALSE
