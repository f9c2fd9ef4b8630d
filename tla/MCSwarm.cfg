SPECIFICATION FairSpec
CONSTANTS
    None = None
    p1 = p1
    Peers = {p1}
    Conns = {1, 2}
    PingStreams = {1, 2, 3}
    PING_PAYLOAD_LEN = 1
    MAX_INBOUND_STREAMS = 2
    RequestTimeout = 1
    RemotePeer <- MCRemotePeer
    PingPayload <- MCPayload
    Workloads <- MCWorkloads
INVARIANTS
    CoreTables
    ConnectionsAgree
    StreamLife
    PingTimerArmed
PROPERTIES
    SupersededEnds
CHECK_DEADLOCK FALSE
