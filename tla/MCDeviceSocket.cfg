CONSTANTS
    BulkLengths <- MCBulkLengths
    unresponsiveExpectedDuringBulk = FALSE
    DEVICE_CANCEL_APDU_FLUSH_MECHANISM = TRUE
    MaxExchanges = 3
SPECIFICATION FairSpec
INVARIANTS
    HalfBulkIsMarked
    TimeoutIsOfThePrompt
PROPERTIES
    StopsWithObserver
    ConnectionCloses
    ImplementsTransportJob
CHECK_DEADLOCK FALSE
