SPECIFICATION Spec
CONSTANTS
    owner = owner
    u1 = u1
    Owner = owner
    None = None
    Closers <- MCNobody
    Configs <- MCSafetyConfigs
    MaxConns = 3
    MaxAttempts = 1
    FloatExponents = 1
    MaxTries = 2
    MaxFailures = 1
INVARIANTS
    TypeOK
    SingleReconnection
    ClosedIsTornDown
PROPERTIES
    ReopenedByReconnection
CHECK_DEADLOCK FALSE
