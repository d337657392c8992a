\* Commands that race for a daemon, and the daemons that race for the lock.
SPECIFICATION FairSpec
CONSTANTS
    c1 = c1
    c2 = c2
    c3 = c3
    Clients = {c1, c2, c3}
    Homes = {"home"}
    Worlds <- MCWorlds
INVARIANTS
    TypeOK
    OneDaemon
    CleanTeardown
PROPERTIES
    HomeIsKept
    LaunchesEnd
CHECK_DEADLOCK FALSE
