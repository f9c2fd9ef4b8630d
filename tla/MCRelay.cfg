SPECIFICATION Spec
CONSTANTS
    None = None
    Peers <- MCPeers
    Conns = {1, 2, 3}
    PeerOf <- MCPeerOf
    CircuitConns = {3}
    HopKeys <- MCHopKeys
    StopKeys <- MCStopKeys
    max_reservations = 1
    max_circuits = 2
    max_circuits_per_peer = 1
    max_pending_hop_requests_per_connection = 2
    max_pending_stop_requests_per_connection = 2
    reservation_duration = 2
    max_circuit_duration = 1
    max_circuit_bytes = 2
    control_stream_timeout = 2
    circuit_rate_limit_per_peer <- Rate
    MAX_PENDING_BRIDGE_SIZE = 2
    Established = {1, 2}
    MaxInbox = 2
    MaxNow = 2
    Workloads <- MCWorkloads
INVARIANTS
    AdmissionIsSound
    CircuitsCarry
PROPERTIES
    DeadlinesFirst
    RequestsResolve
CHECK_DEADLOCK FALSE
