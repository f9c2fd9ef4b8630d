SPECIFICATION Spec
CONSTANTS
    MdnsTtl = 2
    LegacyTtl = 1
    QueryInterval = 3
    FastDelay = 1
    InterfaceRefresh = 2
    PollInterval = 1
    MaxPacketAddrs = 1
    MaxAnnounced = 2
    MaxScheduled = 2
    MaxPendingActions = 3
    MaxResponsesPerTick = 2
    MaxDatagramsPerTick = 2
    MaxActionsPerTick = 2
    DrainAttempts = 4
    PeerSeq <- MCPeerSeq
    MaxKnownPeers = 1
    MaxAddrsPerPeer = 2
    AutoDial = TRUE
    DialTieBreak = TRUE
    RedialBackoff = 1
    BeaconPeerTtl = 2
    MaxObservedTtl = 2
    DialWindow = 2
    MaxDialsPerPeer = 1
    MaxDialsGlobal = 2
    MaxViolations = 1
    BeaconInterval = 2
    MaxBeaconAddrs = 2
    MaxTime = 3
    InboxCap = 3
    Modes <- MCModes
INVARIANTS
    EventsTellTheBook
    DialsControlled
    MdnsSpeaksNow
CHECK_DEADLOCK FALSE
