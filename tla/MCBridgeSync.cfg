CONSTANTS
    a1 = a1
    a2 = a2
    Accounts <- MCAccounts
    Priorities <- MCPriorities
    SYNC_MAX_CONCURRENT = 2
    MaxRequests = 3
SPECIFICATION FairSpec
INVARIANTS
    TypeOK
    SlotsAreExact
    PendingIsTrue
PROPERTIES
    QueueDrains
    PendingEnds
CHECK_DEADLOCK FALSE
