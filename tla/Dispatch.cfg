SPECIFICATION FairSpec
CONSTANTS
    MaxCalls = 2
INVARIANTS
    TypeOK
    NestedCallsStarve
PROPERTIES
    ImplementsRemoteCalls
    FramesAreReceived
    StallsHaveReasons
CHECK_DEADLOCK FALSE
