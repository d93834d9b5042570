SPECIFICATION Spec
CONSTANTS
    c1 = c1
    c2 = c2
    c3 = c3
    i1 = i1
    i2 = i2
    i3 = i3
    iLong = iLong
    None = None
    Calls <- MCCalls
    Ids <- MCTwoIds
    LongIds <- MCNoIds
    MaxPending = 2
    Ttl = 1
    SweepInterval = 1
    Cooldown = 2
    MaxRecent = 1
    Timeouts <- MCTimeouts
    Reuse = TRUE
    MaxCopies = 1
    MaxDelay = 1
    MaxTime = 2
SYMMETRY ReuseSymmetry
INVARIANTS
    CooldownSeparatesReuse
    LateAnswersNotMisfiled
