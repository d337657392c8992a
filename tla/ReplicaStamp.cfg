\* A newer stamp arrives between the staging of pages and their flush.
SPECIFICATION Spec
CONSTANTS
    Notes = {n1}
    Claims = {c1}
    Foreign = {f1}
    MaxCASRetries = 2
    Worlds <- MCNewerPeers
PROPERTIES
    HighestStampWins
CHECK_DEADLOCK FALSE
