SPECIFICATION FairSpec
CONSTANTS
    u1 = u1
    u2 = u2
    d1 = d1
    o1 = o1
    Wd = Wd
    Cb = Cb
    None = None
    Closers <- MCClosers
    Droppers <- MCDroppers
    Owners <- MCOwners
    HasWatchdog = TRUE
    CallbackCloses = TRUE
INVARIANTS
    TypeOK
    EndsOnce
    CloseIsComplete
PROPERTIES
    CallsReturn
    ChannelEnds
CHECK_DEADLOCK FALSE
