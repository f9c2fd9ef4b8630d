SPECIFICATION Spec
CONSTANTS
    None = None
    Ids = {1, 2}
    DEFAULT_RECEIVE_WINDOW = 1
    KEEPALIVE_INTERVAL = 2
    U32_MAX = 2
    ReceiveWindow = 1
    MaxFrameLen = 1
    MaxStreams <- Window
    MaxBufferedSend = 2
    MaxTotalBufferedSend = 2
    Bridges = {1, 2}
    MAX_RETIRED_BRIDGES = 1
    MAX_SEQUENCE = 2
    Modes <- Workloads
INVARIANTS
    CircuitsOwned
    DirectWins
    CarriesWhole
CHECK_DEADLOCK FALSE
