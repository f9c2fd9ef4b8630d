SPECIFICATION Spec
CONSTANTS
    DEFAULT_RECEIVE_WINDOW = 3
    ReceiveWindow = 5
    MaxBufferedSend = 4
    U32_MAX = 8
INVARIANTS
    NeverFails
    NoStall
CHECK_DEADLOCK FALSE
