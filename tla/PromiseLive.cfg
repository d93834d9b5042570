SPECIFICATION FairSpec
CONSTANTS
    c1 = c1
    c2 = c2
    c3 = c3
    i1 = i1
    i2 = i2
    i3 = i3
    iLong = iLong
    None = None
    Calls <- MCTwoCalls
    Ids <- MCOneId
    LongIds <- MCLongIds
    MaxPending = 1
    Ttl = 1
    SweepInterval = 1
    Cooldown = 1
    MaxRecent = 1
    Timeouts <- MCTimeouts
    Reuse = TRUE
    MaxCopies = 1
    MaxDelay = 4
    MaxTime = 4
INVARIANTS
    LeakIsBounded
PROPERTIES
    WaitsEnd
