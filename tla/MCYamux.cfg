SPECIFICATION MCSpec
CONSTANTS
    None = None
    Ids = {1, 2}
    DEFAULT_RECEIVE_WINDOW = 1
    KEEPALIVE_INTERVAL = 2
    U32_MAX = 2
    ReceiveWindow = 2
    MaxFrameLen = 1
    MaxStreams <- ServerRefuses
    MaxBufferedSend = 2
    MaxTotalBufferedSend = 3
    Workloads <- MCWorkloads
INVARIANTS
    InOrder
    SessionsAgree
PROPERTIES
    BothDirectionsFlow
    SessionsProgress
CHECK_DEADLOCK FALSE
