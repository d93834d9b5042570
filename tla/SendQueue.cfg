SPECIFICATION FairSpec
CONSTANTS
    s1 = s1
    s2 = s2
    s3 = s3
    s4 = s4
    Senders <- MCSenders
    Limits <- MCLimits
INVARIANTS
    TypeOK
    SlotsAccounted
    InlineNeverWaits
PROPERTIES
    WaitIsBounded
