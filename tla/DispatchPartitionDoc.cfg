SPECIFICATION FairSpec
CONSTANTS
    MaxCalls = 1
PROPERTIES
    PendingRequestsRaise
CHECK_DEADLOCK FALSE
