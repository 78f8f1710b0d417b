CONSTANTS
    bitcoin = bitcoin
    litecoin = litecoin
    dogecoin = dogecoin
    unlisted = unlisted
    nameless = nameless
    Catalog <- MCCatalog
    Unknown <- MCUnknown
    Nameless = nameless
    Deps <- MCDeps
    InitialOrders <- MCOrders
    Restores <- MCRestores
    MaxActions = 3
SPECIFICATION FairSpec
INVARIANTS
    TypeOK
    QueuesInOrder
    NothingIsForgotten
    MirrorsDevice
    PlanIsAccepted
PROPERTIES
    PredictionIsStable
    PlansAreSound
    RunnerDrains
CHECK_DEADLOCK FALSE
