SPECIFICATION Spec
CONSTANTS
    None = None
    Sids = {0, 1, 4}
    Window = 2
    MaxStreams = 1
    MaxPendingBytes = 3
    MaxPendingDatagrams = 1
    Ids = {1, 2, 3, 11}
    MaxConnections = 2
    MAX_DATAGRAMS_PER_POLL = 2
    Modes <- Workloads
INVARIANTS
    QuicEventsLegal
    QuicStreamsWhole
    QuicSettles
CHECK_DEADLOCK FALSE
