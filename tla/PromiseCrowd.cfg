SPECIFICATION Spec
CONSTANTS
    c1 = c1
    c2 = c2
    c3 = c3
    i1 = i1
    i2 = i2
    i3 = i3
    iLong = iLong
    None = None
    Calls <- MCCalls
    Ids <- MCIds
    LongIds <- MCNoIds
    MaxPending = 2
    Ttl = 1
    SweepInterval = 1
    Cooldown = 1
    MaxRecent = 2
    Timeouts <- MCTimeouts
    Reuse = FALSE
    MaxCopies = 1
    MaxDelay = 2
    MaxTime = 2
SYMMETRY FreshSymmetry
INVARIANTS
    TypeOK
    PendingBounded
    YoungCallIsAnswerable
PROPERTIES
    StoredResponseIsReturned
    ImplementsRpcCalls
