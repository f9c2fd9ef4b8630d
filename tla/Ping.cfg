SPECIFICATION Spec
CONSTANTS
    PingStreams = {1, 2}
    PING_PAYLOAD_LEN = 2
    MAX_INBOUND_STREAMS = 1
    RequestTimeout = 1
    None = None
    Payloads <- SmallPayloads
    MaxNow = 4
INVARIANTS
    HonestExchanges
    InboundLimit
PROPERTIES
    PingsEnd
CHECK_DEADLOCK FALSE
