SPECIFICATION Spec
CONSTANTS
    None = None
    PeerSeq <- MCPeerSeq
    TopicSeq <- MCTopicSeq
    MsgSeq <- MCMsgSeq
    Picks <- MCPicks
    Modes <- MCModes
    Streams = {1, 2, 3}
    OutIds = {1, 2}
    InIds = {3}
    Local = 0
    allow_unsigned = FALSE
    seen_ttl = 2
    max_seen_messages = 1
    max_pending_per_peer = 1
    max_topics_per_peer = 2
    max_inbound_streams_per_peer = 1
    send_timeout = 1
    MaxFrameEntries = 2
    d = 1
    d_low = 1
    d_high = 1
    d_lazy = 1
    heartbeat_interval = 1
    mcache_len = 2
    mcache_gossip = 1
    max_mcache_messages = 2
    fanout_ttl = 1
    prune_backoff = 2
    unsubscribe_backoff = 1
    max_backoff = 3
    max_ihave_length = 2
    max_ihave_messages_per_heartbeat = 1
    max_iwant_ids_per_heartbeat = 2
    max_iwant_serves_per_heartbeat = 1
INVARIANTS
    MeshAgrees
    DecisionsStand
    LinksKept
PROPERTIES
    WrittenOrTold
CHECK_DEADLOCK FALSE
