\* Two daemons one after the other under one screen, everything in every order;
\* a daemon that stays up brings its screen up to date.
SPECIFICATION FairSpec
CONSTANTS
    Claims = {c1}
    Readers = {p}
    TTL = 1
    MaxClock = 3
    MaxFacts = 1
    MaxBoots = 2
    MaxWakeUps = 2
INVARIANTS
    TypeOK
    VersionNamesState
    NoPollIsLost
    MemoHolds
PROPERTIES
    LapsedNeverServed
    ScreenCatchesUp
