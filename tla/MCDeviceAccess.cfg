CONSTANTS
    nano = nano
    blue = blue
    app = app
    sync = sync
    update = update
    Nobody = Nobody
    Devices <- MCDevices
    Clients <- MCClients
    Target <- MCTarget
    Policy <- MCPolicy
    TransportIds <- MCIds
    TransportId <- MCId
    BleDevices <- MCBle
    JobsMayThrow = TRUE
    MaxJobs = 3
SPECIFICATION FairSpec
INVARIANTS
    DeviceExclusion
    JobStartsClean
PROPERTIES
    NoStartAfterUnsubscribe
    RetryAfterAttemptIsOver
    QueueAdvances
    ImplementsAccessQueue
CHECK_DEADLOCK FALSE
