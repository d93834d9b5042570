SPECIFICATION Spec
CONSTANTS
    owner = owner
    u1 = u1
    Owner = owner
    None = None
    Closers <- MCNobody
    Configs <- MCDefault
    MaxConns = 2
    MaxAttempts = 1
    FloatExponents = 1
    MaxTries = 2
    MaxFailures = 1
PROPERTIES
    ExitCleansUp
CHECK_DEADLOCK FALSE
