SPECIFICATION Spec
CONSTANTS
    None = None
    Ids = {1, 2}
    DEFAULT_RECEIVE_WINDOW = 1
    KEEPALIVE_INTERVAL = 2
    U32_MAX = 2
    ReceiveWindow = 1
    MaxFrameLen = 1
    MaxStreams <- Window
    MaxBufferedSend = 2
    MaxTotalBufferedSend = 2
    Links = {1, 2}
    Capacity = 2
    ReadChunk = 2
    MAX_ACCEPTS_PER_POLL = 1
    MAX_READS_PER_POLL = 1
    max_sockets = 2
    backlog = 1
    Ports = {1, 2}
    connect_timeout = 2
    CLOSE_DELAY = 1
    handshake_timeout = 2
    send_stall_timeout = 2
    Modes <- Workloads
    MaxNow = 3
INVARIANTS
    EventsLegal
    FlowsWhole
    SocketsServed
CHECK_DEADLOCK FALSE
