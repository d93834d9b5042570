SPECIFICATION FairSpec
CONSTANTS
    w1 = w1
    w2 = w2
    Conns <- MCOne
    IdleTimeout = 2
    MaxInbox = 2
    MaxTime = 6
INVARIANTS
    TypeOK
    ListFollowsLoops
    DisconnectIsComplete
PROPERTIES
    IdleCutsOnlyQuiet
    EndIsNoticed
CHECK_DEADLOCK FALSE
