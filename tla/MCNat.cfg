SPECIFICATION Spec
CONSTANTS
    None = None
    R = R  T = T  r1 = r1  r2 = r2  t1 = t1  c1 = c1
    Peers = {R, T}
    Relays <- MCRelays
    AutonatServers <- MCRelays
    Conns = {r1, r2, t1, c1}
    CircuitConns = {c1}
    PeerOf <- MCPeerOf
    Streams = {1, 2}
    ConnectIds = {1}
    InboundIds = {1}
    relay_stagger = 1
    connect_deadline = 2
    circuit_handshake_timeout = 1
    relay_leg_deadline = 1
    punch_deadline = 1
    punch_max_retries = 1
    probe_deadline = 1
    probe_interval_unsettled = 1
    probe_interval_settled = 2
    confidence_threshold = 2
    confidence_window = 3
    reservation_retry_backoff = 1
    reservation_ttl = 2
    keep_alive_interval = 1
    Modes <- MCModes
    MaxInbox = 1
    MaxChunks = 2
INVARIANTS
    OneOutcome
    HoldsWhatItUses
    TickSettles
CHECK_DEADLOCK FALSE
