SPECIFICATION Spec
CONSTANTS
    SkipLimit = 3
    DrainFor = 2
    ConnectIds = {1, 2}
    StreamIds = {1, 2}
    QueueCap = 2
    FlushBatch = 2
    TerminalCap = 1
    ChunkCap = 2
    CarryCap = 3
    DrainLimit = 2
    DriverPoll = 3
    Modes <- MCModes
INVARIANTS
    EventsReach
    WaitsEnd
    PromisesSettle
CHECK_DEADLOCK FALSE
