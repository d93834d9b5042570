SPECIFICATION FairSpec
CONSTANTS
    owner = owner
    u1 = u1
    Owner = owner
    None = None
    Closers <- MCClosers
    Configs <- MCLiveConfigs
    MaxConns = 2
    MaxAttempts = 3
    FloatExponents = 2
    MaxTries = 1
    MaxFailures = 2
PROPERTIES
    CloseReturns
    GivesUpByClosing
    SilenceIsNoticed
    LossIsSignalled
CHECK_DEADLOCK FALSE
