----------------------------- MODULE Gossipsub -----------------------------
(* GossipsubAgent (crates/pubsub/src/gossipsub/agent.rs) with its message cache.

   For a peer that is known, `g.peers[p]` is the code's PeerState: one outbound stream whose
   sender is Idle, Opening, Negotiating or Ready with at most one frame in flight,
   and behind it queues of subscriptions, control items and messages.  A control
   buffer is a set of items: its BTreeMaps keep one entry per item and the topology
   decision of a topic is a GRAFT or a PRUNE, never both.  The peers that the random
   generator selects come first in `pick`, a sequence per topic.  PRUNE's backoff
   field and the two protocol versions are left out. *)
EXTENDS PubsubShared

CONSTANTS d, d_low, d_high, d_lazy, heartbeat_interval, mcache_len, mcache_gossip,
          max_mcache_messages, fanout_ttl, prune_backoff, unsubscribe_backoff, max_backoff,
          max_ihave_length, max_ihave_messages_per_heartbeat,
          max_iwant_ids_per_heartbeat, max_iwant_serves_per_heartbeat

ASSUME ConfigAssumption ==          \* GossipsubConfig::validate
    /\ {d, d_high, mcache_len, prune_backoff, unsubscribe_backoff, max_backoff,
        max_ihave_length} \subseteq Nat
    /\ d_low \in 1..d /\ d <= d_high
    /\ mcache_gossip \in 1..mcache_len
    /\ prune_backoff \in 1..max_backoff /\ unsubscribe_backoff <= max_backoff
    /\ 0 \notin {heartbeat_interval, max_mcache_messages, max_ihave_length, send_timeout,
                 max_pending_per_peer, max_topics_per_peer, max_inbound_streams_per_peer}

Graft(t)     == [k |-> "Graft", t |-> t, id |-> None]
Prune(t)     == [k |-> "Prune", t |-> t, id |-> None]
IHave(t, id) == [k |-> "IHave", t |-> t, id |-> id]
IWant(id)    == [k |-> "IWant", t |-> None, id |-> id]

Over(seq, Item(_)) == [i \in DOMAIN seq |-> Item(seq[i])]
\* The order of fn pop_first.
ControlOrder ==
    Over(TopicSeq, Graft) \o Over(TopicSeq, Prune)
    \o FlattenSeq([i \in DOMAIN TopicSeq |-> [j \in DOMAIN MsgSeq |-> IHave(TopicSeq[i], MsgSeq[j])]])
    \o Over(MsgSeq, IWant)

\* The decision that a GRAFT or a PRUNE replaces.
Opposite(item) == [item EXCEPT !.k = IF @ = "Graft" THEN "Prune" ELSE "Graft"]
Topology(item) == item.k \in {"Graft", "Prune"}
Replaces(c, item) == Topology(item) /\ Opposite(item) \in c

\* ControlBuffer::insert, which answers false where Fits is false
Fits(c, item, max_items) == item \in c \/ Replaces(c, item) \/ Cardinality(c) < max_items
Insert(c, item, max_items) ==
    IF ~Fits(c, item, max_items) THEN c
    ELSE (IF Replaces(c, item) THEN c \ {Opposite(item)} ELSE c) \union {item}

\* ControlBuffer::evict_gossip
EvictGossip(c) ==
    LET gossip == Sorted({item \in c : ~Topology(item)}, ControlOrder)
        wants == SelectSeq(gossip, LAMBDA item : item.k = "IWant")
    IN IF gossip = <<>> THEN c
       ELSE c \ {IF wants # <<>> THEN Last(wants) ELSE Last(gossip)}

\* Mutant of RestoreOlder: the items that failed are queued behind the newer ones.
RestoreNewer(c, items, max_items) ==
    FoldLeft(LAMBDA acc, item : Insert(acc, item, max_items), c, items)

\* ControlBuffer::restore_older
RestoreOlder(c, items, max_items) ==
    FoldLeft(LAMBDA acc, item : Insert(acc, item, max_items), {}, items \o Sorted(c, ControlOrder))

\* ControlBuffer::take_frame
TakeFrame(c) ==
    LET ordered == Sorted(c, ControlOrder)
    IN SubSeq(ordered, 1, Min({Len(ordered), MaxFrameEntries}))

-----------------------------------------------------------------------------
(* MessageCache: the windows, newest first, each in the order of insertion.  The
   code's `messages` and `insertion_order` hold the same entries. *)
CacheSize(windows) == FoldLeft(LAMBDA n, w : n + Len(w), 0, windows)
Cached(g) == UNION {ToSet(g.mcache[i]) : i \in DOMAIN g.mcache}

McachePut(g, m, topics) ==
    LET put == [g.mcache EXCEPT ![1] = Append(@, [m |-> m, topics |-> topics])]
        oldest == CHOOSE i \in DOMAIN put :
                      put[i] # <<>> /\ \A j \in DOMAIN put : j > i => put[j] = <<>>
    IN IF \E entry \in Cached(g) : entry.m.id = m.id THEN g
       ELSE [g EXCEPT !.mcache = IF CacheSize(put) > max_mcache_messages
                                 THEN [put EXCEPT ![oldest] = Tail(@)] ELSE put]

GossipIds(g, t) ==
    {entry.m.id : entry \in {x \in UNION {ToSet(g.mcache[i]) :
                                 i \in 1..Min({mcache_gossip, Len(g.mcache)})} : t \in x.topics}}

McacheShift(g) ==
    [g EXCEPT !.mcache = SubSeq(<<<<>>>> \o @, 1, Min({Len(@) + 1, mcache_len}))]

-----------------------------------------------------------------------------
(* Peers and timers. *)
Idle == [st |-> "Idle", s |-> None, left |-> 0, in_flight |-> None]
Opening == [Idle EXCEPT !.st = "Opening", !.left = send_timeout]
Negotiating(s, left) == [Idle EXCEPT !.st = "Negotiating", !.s = s, !.left = left]
Ready(s) == [Idle EXCEPT !.st = "Ready", !.s = s]
Establishing(sender) == sender.st \in {"Opening", "Negotiating"}

PeerStateDefault ==
    [sender |-> Idle, pending_messages |-> <<>>, acknowledged_topics |-> {},
     unsubscribe_tombstones |-> {}, subscription_queue |-> <<>>,
     inbound |-> [s \in Streams |-> None], remote_topics |-> {},
     advertised_version |-> FALSE, outbound_version |-> FALSE, pending_control |-> {}]

\* PeerState::queued_work
QueuedWork(state) ==
    Len(state.pending_messages) + Cardinality(state.pending_control)
    + IF state.sender.in_flight # None /\ state.sender.in_flight.kind = "Control"
      THEN Len(state.sender.in_flight.items) ELSE 0

\* fn new
New ==
    [topics |-> {}, peers |-> <<>>, roles |-> [p \in Peers |-> [s \in Streams |-> None]],
     mesh |-> [t \in Topics |-> {}], fanout |-> [t \in Topics |-> None],
     fanout_left |-> [t \in Topics |-> 0],
     backoff |-> [t \in Topics |-> [p \in Peers |-> 0]],
     mcache |-> <<<<>>>>, seen |-> <<>>, iwant_requested |-> {},
     ihave_budget |-> [p \in Peers |-> 0], iwant_served |-> [p \in Peers |-> 0],
     next_heartbeat |-> None, next_seqno |-> 1, actions |-> <<>>, events |-> <<>>]

\* fn arm_heartbeat
ArmHeartbeat(g) ==
    IF g.next_heartbeat # None THEN g ELSE [g EXCEPT !.next_heartbeat = heartbeat_interval]

\* fn is_backed_off, fn record_backoff
IsBackedOff(g, t, p) == g.backoff[t][p] > 0
RecordBackoffAll(g, t, ps, duration) ==
    [g EXCEPT !.backoff[t] = [p \in Peers |-> IF p \in ps THEN Max({@[p], duration}) ELSE @[p]]]
RecordBackoff(g, t, p, duration) == RecordBackoffAll(g, t, {p}, duration)

\* fn peer_is_eligible, fn eligible_topic_peers
PeerIsEligible(g, p, t) ==
    /\ Known(g, p)
    /\ g.peers[p].advertised_version
    /\ t \in g.peers[p].remote_topics
    /\ ~IsBackedOff(g, t, p)
EligibleTopicPeers(g, t) == {p \in Peers : PeerIsEligible(g, p, t)}

\* fn select_peers: the first `count` of the candidates in the shuffled order
SelectPeers(candidates, count, order) ==
    LET at == {i \in DOMAIN order : order[i] \in candidates}
    IN {order[i] : i \in {x \in at : Cardinality({y \in at : y <= x}) <= count}}
\* `current` filled up to `count` from `candidates`
FillUp(current, candidates, count, order) ==
    IF Cardinality(current) >= count THEN current
    ELSE current \union SelectPeers(candidates \ current, count - Cardinality(current), order)

-----------------------------------------------------------------------------
(* Sending.  A frame goes out when the stream is ready and none is in flight:
   subscriptions first, then control items, then the oldest message. *)

\* fn queue_control: g with the item queued, and whether it was
Queued(g, p, item) ==
    LET c == g.peers[p].pending_control
    IN Known(g, p) /\ \/ Fits(c, item, max_pending_per_peer)
                      \/ Topology(item) /\ Fits(EvictGossip(c), item, max_pending_per_peer)
WithControl(c, item) ==
    IF Fits(c, item, max_pending_per_peer) \/ ~Topology(item)
    THEN Insert(c, item, max_pending_per_peer)
    ELSE Insert(EvictGossip(c), item, max_pending_per_peer)
WithControls(state, items) ==
    [state EXCEPT !.pending_control = FoldLeft(WithControl, @, items)]
QueueControlAll(g, ps, items) ==
    [g EXCEPT !.peers = [p \in DOMAIN @ |-> IF p \in ps THEN WithControls(@[p], items) ELSE @[p]]]
QueueControl(g, p, item) == QueueControlAll(g, {p}, <<item>>)

\* fn queue_message
QueueMessage(g, p, m) ==
    IF ~Known(g, p) THEN g
    ELSE IF Len(g.peers[p].pending_messages) >= max_pending_per_peer
         THEN Raise(g, OutboundFailure(p))
         ELSE [g EXCEPT !.peers[p].pending_messages = Append(@, m)]

SubOpts(subscribe, ts) ==
    [i \in 1..Cardinality(ts) |-> [subscribe |-> subscribe, topic |-> Sorted(ts, TopicSeq)[i]]]

\* fn enqueue_live_subscription_diff
LiveSubscriptionDiff(g, p) ==
    SubOpts(TRUE, g.topics \ g.peers[p].acknowledged_topics)
    \o SubOpts(FALSE, g.peers[p].acknowledged_topics \ g.topics)

InFlight(g, p, commit) ==
    Push([g EXCEPT !.peers[p].sender.in_flight = commit],
         SendStream(p, g.peers[p].sender.s, commit))

\* fn emit_next_frame
EmitNextFrame(g, p) ==
    LET state == g.peers[p]
        subs == IF state.subscription_queue # <<>> THEN state.subscription_queue
                ELSE LiveSubscriptionDiff(g, p)
        count == Min({Len(subs), MaxFrameEntries})
        items == TakeFrame(state.pending_control)
    IN CASE ~state.outbound_version -> g
         [] state.outbound_version /\ subs # <<>> ->
              InFlight([g EXCEPT !.peers[p].subscription_queue = SubSeq(subs, count + 1, Len(subs))],
                       p, [kind |-> "Subscriptions", items |-> SubSeq(subs, 1, count)])
         [] state.outbound_version /\ subs = <<>> /\ items # <<>> ->
              InFlight([g EXCEPT !.peers[p].pending_control = @ \ ToSet(items)],
                       p, [kind |-> "Control", items |-> items])
         [] state.outbound_version /\ subs = <<>> /\ items = <<>> ->
              IF state.pending_messages = <<>> THEN g
              ELSE InFlight(g, p, [kind |-> "Message", items |-> <<Head(state.pending_messages)>>])

\* fn drive_sender, fn drive_all_senders
DriveSender(g, p) ==
    IF ~Known(g, p) THEN g
    ELSE CASE g.peers[p].sender.st = "Idle" ->
                IF ~g.peers[p].advertised_version THEN g
                ELSE Push([g EXCEPT !.peers[p].sender = Opening], OpenStream(p))
           [] g.peers[p].sender.st = "Ready" /\ g.peers[p].sender.in_flight = None ->
                EmitNextFrame(g, p)
           [] OTHER -> g
DriveAllSenders(g) == FoldLeft(DriveSender, g, PeerSeq)

\* PeerState::record_unsubscribe
RecordUnsubscribe(tombstones, t) ==
    LET ordered == Sorted(tombstones \union {t}, TopicSeq)
    IN ToSet(SubSeq(ordered, Max({1, Len(ordered) - max_topics_per_peer + 1}), Len(ordered)))

\* fn commit_frame
CommitSub(tombstones, sub) ==
    IF sub.subscribe THEN tombstones \ {sub.topic} ELSE RecordUnsubscribe(tombstones, sub.topic)
CommitFrame(g, p, commit) ==
    CASE commit.kind = "Subscriptions" ->
           [g EXCEPT !.peers[p].acknowledged_topics = Candidate(@, commit.items),
                     !.peers[p].unsubscribe_tombstones = FoldLeft(CommitSub, @, commit.items)]
      [] commit.kind = "Message" -> [g EXCEPT !.peers[p].pending_messages = Tail(@)]
      [] OTHER -> g

\* Mutant of RestoreCommit: a message that failed is given up.
RestoreCommitDropsMessage(g, p, commit) ==
    CASE commit.kind = "Control" -> [g EXCEPT !.peers[p].pending_control =
                                        RestoreOlder(@, commit.items, max_pending_per_peer)]
      [] commit.kind = "Message" -> [g EXCEPT !.peers[p].pending_messages = Tail(@)]
      [] OTHER -> g

\* fn restore_commit
RestoreCommit(g, p, commit) ==
    IF commit.kind # "Control" THEN g
    ELSE [g EXCEPT !.peers[p].pending_control =
             RestoreOlder(@, commit.items, max_pending_per_peer)]

\* The sender starts over on a stream of its own.
SenderLost(g, p) ==
    [g EXCEPT !.peers[p].sender = Idle, !.peers[p].outbound_version = FALSE,
              !.peers[p].subscription_queue = <<>>]

\* fn send_result
SendResult(g, p, s, ok) ==
    LET commit == g.peers[p].sender.in_flight
        taken == [g EXCEPT !.peers[p].sender.in_flight = None]
    IN IF ~Known(g, p) \/ g.peers[p].sender.s # s \/ commit = None THEN g
       ELSE IF ok THEN DriveSender(CommitFrame(taken, p, commit), p)
       ELSE Raise(SenderLost(Push(RestoreCommit(taken, p, commit), ResetStream(p, s)), p),
                  OutboundFailure(p))

\* fn stream_open_result; `s` is None when the open failed
StreamOpenResult(g, p, s) ==
    IF ~Known(g, p) \/ g.peers[p].sender.st # "Opening"
    THEN IF s = None THEN g ELSE RejectStream(g, p, s)
    ELSE IF s = None THEN Raise([g EXCEPT !.peers[p].sender = Idle], OutboundFailure(p))
    ELSE [g EXCEPT !.peers[p].sender = Negotiating(s, @.left), !.roles[p][s] = "Outbound"]

-----------------------------------------------------------------------------
(* The application's calls. *)

\* fn subscribe
Subscribe(g, t, pick) ==
    LET eligible == EligibleTopicPeers(g, t)
        reused == IF g.fanout[t] = None THEN {} ELSE g.fanout[t] \intersect eligible
        kept == SelectPeers(reused, d, pick[t])
        selected == FillUp(kept, eligible, d, pick[t])
        joined == {p \in selected : Queued(g, p, Graft(t))}
        told == QueueControlAll(g, selected, <<Graft(t)>>)
    IN IF t \in g.topics THEN g
       ELSE DriveAllSenders([told EXCEPT !.topics = @ \union {t}, !.mesh[t] = joined,
                                         !.fanout[t] = None, !.fanout_left[t] = 0])

\* fn unsubscribe
Unsubscribe(g, t) ==
    LET left == RecordBackoffAll([g EXCEPT !.topics = @ \ {t}, !.mesh[t] = {}],
                                 t, g.mesh[t], unsubscribe_backoff)
    IN IF t \notin g.topics THEN g
       ELSE DriveAllSenders(QueueControlAll(left, g.mesh[t], <<Prune(t)>>))

\* fn select_fanout
SelectFanout(g, t, pick) ==
    LET eligible == EligibleTopicPeers(g, t)
        reused == IF g.fanout_left[t] > 0 /\ g.fanout[t] # None
                  THEN g.fanout[t] \intersect eligible ELSE {}
    IN [g EXCEPT !.fanout[t] = FillUp(reused, eligible, d, pick[t]), !.fanout_left[t] = fanout_ttl]

\* fn publish: the recipients are chosen, then checked for room, then served
SendTo(g, p, recipients, m) ==
    IF p \notin recipients \/ ~Known(g, p) THEN g
    ELSE DriveSender([g EXCEPT !.peers[p].pending_messages = Append(@, m)], p)
PublishTo(g, t, recipients) ==
    LET m == BuildSigned(g.next_seqno, t)
        recorded == McachePut(SeenInsert([g EXCEPT !.next_seqno = @ + 1],
                                         SeenKey(m.id, TRUE)), m, {t})
    IN IF \E p \in recipients : Known(g, p)
             /\ Len(g.peers[p].pending_messages) >= max_pending_per_peer
       THEN g
       ELSE FoldLeft(LAMBDA acc, p : SendTo(acc, p, recipients, m), recorded, PeerSeq)
Publish(g, t, pick) ==
    IF t \in g.topics
    THEN PublishTo(ArmHeartbeat(g), t,
                   IF g.mesh[t] # {} THEN g.mesh[t]
                   ELSE SelectPeers(EligibleTopicPeers(g, t), d, pick[t]))
    ELSE LET chosen == SelectFanout(ArmHeartbeat(g), t, pick)
         IN PublishTo(chosen, t, chosen.fanout[t])

-----------------------------------------------------------------------------
(* Incoming RPCs. *)

\* fn apply_subscriptions
ApplySubscriptions(g, p, s, subs) ==
    LET old == g.peers[p].remote_topics
        new == Candidate(old, subs)
        gone == [t \in Topics |-> IF t \in old \ new THEN {p} ELSE {}]
    IN IF Cardinality(new) > max_topics_per_peer THEN ViolationReset(g, p, s)
       ELSE [g EXCEPT !.peers[p].remote_topics = new,
                      !.mesh = [t \in Topics |-> @[t] \ gone[t]],
                      !.fanout = [t \in Topics |-> IF @[t] = None THEN None ELSE @[t] \ gone[t]],
                      !.events = @ \o TopicEvents(p, new \ old, old \ new)]

\* fn graft_new_subscriptions
GraftNew(g, p, t) ==
    IF /\ t \in g.topics
       /\ Cardinality(g.mesh[t]) < d_low /\ p \notin g.mesh[t]
       /\ PeerIsEligible(g, p, t)
       /\ Queued(g, p, Graft(t))
    THEN [QueueControl(g, p, Graft(t)) EXCEPT !.mesh[t] = @ \union {p}]
    ELSE g
GraftNewSubscriptions(g, p, added) ==
    FoldLeft(LAMBDA acc, t : IF t \in added THEN GraftNew(acc, p, t) ELSE acc, g, TopicSeq)

\* fn process_control, its four loops
OnGraft(g, p, t) ==
    CASE t \notin g.topics \/ p \in g.mesh[t] -> g
      [] t \in g.topics /\ p \notin g.mesh[t] ->
           IF \/ t \notin g.peers[p].remote_topics
              \/ IsBackedOff(g, t, p)
              \/ Cardinality(g.mesh[t]) >= d_high
           THEN QueueControl(RecordBackoff(g, t, p, prune_backoff), p, Prune(t))
           ELSE [g EXCEPT !.mesh[t] = @ \union {p}]

\* Mutant of OnPrune: the peer stays in the mesh.
OnPruneKeepsMember(g, p, t, supplied) == RecordBackoff(g, t, p, prune_backoff)

\* The remote names its backoff, or 0 for none.
OnPrune(g, p, t, supplied) ==
    RecordBackoff([g EXCEPT !.mesh[t] = @ \ {p}], t, p,
                  IF supplied = 0 THEN prune_backoff ELSE Min({supplied, max_backoff}))

Ask(g, p, id) ==
    IF \/ Cardinality(g.iwant_requested) >= max_iwant_ids_per_heartbeat
       \/ SeenContains(g, SeenKey(id, TRUE))
       \/ id \in g.iwant_requested
    THEN g
    ELSE QueueControl([g EXCEPT !.iwant_requested = @ \union {id}], p, IWant(id))
OnIHave(g, p, t, ids) ==
    IF t \notin g.topics \/ g.ihave_budget[p] >= max_ihave_messages_per_heartbeat THEN g
    ELSE FoldLeft(LAMBDA acc, id : Ask(acc, p, id), [g EXCEPT !.ihave_budget[p] = @ + 1],
                  SubSeq(ids, 1, Min({Len(ids), max_ihave_length})))

Serve(g, p, id) ==
    LET entries == {entry \in Cached(g) : entry.m.id = id}
        full == Len(g.peers[p].pending_messages) >= max_pending_per_peer
    IN IF g.iwant_served[p] >= max_iwant_serves_per_heartbeat \/ entries = {} THEN g
       ELSE [QueueMessage(g, p, (CHOOSE entry \in entries : TRUE).m) EXCEPT
                !.iwant_served[p] = IF full THEN @ ELSE @ + 1]
OnIWant(g, p, ids) == FoldLeft(LAMBDA acc, id : Serve(acc, p, id), g, ids)

ProcessControl(g, p, control) ==
    LET grafted == FoldLeft(LAMBDA acc, t : OnGraft(acc, p, t), g, control.graft)
        pruned(h) == FoldLeft(LAMBDA acc, x : OnPrune(acc, p, x.t, x.backoff), h, control.prune)
        asked(h) == FoldLeft(LAMBDA acc, x : OnIHave(acc, p, x.t, x.ids), h, control.ihave)
    IN OnIWant(asked(pruned(grafted)), p, control.iwant)

\* fn process_message
Forward(g, p, recipients, m) ==
    IF p \notin recipients THEN g
    ELSE IF Len(g.peers[p].pending_messages) >= max_pending_per_peer THEN QueueMessage(g, p, m)
    ELSE DriveSender(QueueMessage(g, p, m), p)
ProcessMessage(g, arrival, m) ==
    LET interested == m.topics \intersect g.topics
        key == SeenKey(m.id, Signed(m))
        recipients == UNION {g.mesh[t] : t \in interested} \ {arrival, m.from}
        told == Raise(SeenInsert(g, key), Message(arrival, key))
    IN CASE ~SourceAndSeqno(m) -> Raise(g, ProtocolViolation(arrival))
         [] SourceAndSeqno(m) /\ SeenContains(g, key) -> g
         [] SourceAndSeqno(m) /\ ~SeenContains(g, key) ->
              IF ~Verify(m) THEN Raise(g, ProtocolViolation(arrival))
              ELSE IF interested = {} THEN g
              ELSE McachePut(FoldLeft(LAMBDA acc, p : Forward(acc, p, recipients, m), told, PeerSeq),
                             m, interested)

\* fn process_rpc
ProcessRpc(g, p, s, rpc) ==
    LET applied == ApplySubscriptions(g, p, s, rpc.subs)
        added == applied.peers[p].remote_topics \ g.peers[p].remote_topics
        delivered == FoldLeft(LAMBDA acc, m : ProcessMessage(acc, p, m), applied, rpc.publish)
    IN IF applied.roles[p][s] = "Rejected" THEN applied
       ELSE DriveSender(GraftNewSubscriptions(ProcessControl(delivered, p, rpc.control), p, added), p)

\* fn on_stream_data, fn take_frame: the frames of one chunk, until one resets the stream
OnFrame(g, p, s, frame) ==
    IF ~Known(g, p) \/ g.peers[p].inbound[s] = None THEN g
    ELSE CASE frame.kind = "Malformed" -> ViolationReset(g, p, s)
           [] frame.kind = "Partial" -> [g EXCEPT !.peers[p].inbound[s] = "Partial"]
           [] frame.kind = "Rpc" -> ProcessRpc([g EXCEPT !.peers[p].inbound[s] = "Empty"], p, s, frame)
OnStreamData(g, p, s, chunk) ==
    IF g.roles[p][s] # "Inbound" THEN g
    ELSE FoldLeft(LAMBDA acc, frame : OnFrame(acc, p, s, frame), g, chunk)

-----------------------------------------------------------------------------
(* fn handle_event. *)

\* fn remove_peer
RemovePeer(g, p) ==
    LET told == IF Known(g, p) /\ QueuedWork(g.peers[p]) > 0 THEN Raise(g, OutboundFailure(p)) ELSE g
    IN [Drop(told, p) EXCEPT !.roles[p] = [s \in Streams |-> None],
                    !.ihave_budget[p] = 0, !.iwant_served[p] = 0,
                    !.mesh = [t \in Topics |-> @[t] \ {p}],
                    !.fanout = [t \in Topics |-> IF @[t] = None THEN None ELSE @[t] \ {p}]]

\* fn on_connection_established
OnConnectionEstablished(g, p) ==
    IF ~Known(g, p) THEN ArmHeartbeat(g)
    ELSE Put(RemovePeer(ArmHeartbeat(g), p), p, PeerStateDefault)
OnConnectionClosed(g, p) == RemovePeer(ArmHeartbeat(g), p)

\* The PeerReady arm; `supported` when the peer speaks meshsub
OnPeerReady(g, p, supported) ==
    IF ~supported THEN ArmHeartbeat(g)
    ELSE DriveSender([Ensure(ArmHeartbeat(g), p, PeerStateDefault)
                         EXCEPT !.peers[p].advertised_version = TRUE], p)

\* Mutant of OnStreamReady: withdrawals are not repeated on the new stream.
OnStreamReadyNoWithdrawals(g, p, s, initiated_locally) ==
    IF ~initiated_locally
    THEN OnInboundReady(Ensure(ArmHeartbeat(g), p, PeerStateDefault), p, s)
    ELSE DriveSender([ArmHeartbeat(g) EXCEPT !.peers[p].outbound_version = TRUE,
                                             !.peers[p].subscription_queue = SubOpts(TRUE, g.topics),
                                             !.peers[p].sender = Ready(s)], p)

\* fn on_stream_ready
OnStreamReady(g, p, s, initiated_locally) ==
    LET resync == SubOpts(TRUE, g.topics)
                  \o SubOpts(FALSE, g.peers[p].unsubscribe_tombstones \ g.topics)
    IN IF ~initiated_locally
       THEN OnInboundReady(Ensure(ArmHeartbeat(g), p, PeerStateDefault), p, s)
       ELSE IF ~Known(g, p) \/ g.peers[p].sender.st # "Negotiating" \/ g.peers[p].sender.s # s
       THEN ArmHeartbeat(g)
       ELSE DriveSender([ArmHeartbeat(g) EXCEPT
                            !.peers[p].outbound_version = TRUE,
                            !.peers[p].subscription_queue = resync,
                            !.peers[p].sender = Ready(s)], p)

\* fn on_stream_closed: a close of any outbound stream forgets the version and the
\* queued subscriptions, and ends the sender when the stream is the sender's own
OnStreamClosed(g, p, s) ==
    LET dropped == DropRole(ArmHeartbeat(g), p, s)
        sender == g.peers[p].sender
        cleared == [dropped EXCEPT !.peers[p].outbound_version = FALSE,
                                   !.peers[p].subscription_queue = <<>>]
    IN CASE g.roles[p][s] = "Outbound" /\ Known(g, p) ->
              IF sender.s # s THEN cleared
              ELSE IF sender.st = "Negotiating" THEN Raise(SenderLost(dropped, p), OutboundFailure(p))
              ELSE IF sender.in_flight = None THEN SenderLost(dropped, p)
              ELSE RestoreCommit(SenderLost(dropped, p), p, sender.in_flight)
         [] g.roles[p][s] = "Inbound" -> DropInbound(dropped, p, s)
         [] OTHER -> dropped

-----------------------------------------------------------------------------
(* fn handle_tick and fn heartbeat. *)

ExpireFanout(g) ==
    [g EXCEPT !.fanout = [t \in Topics |-> IF g.fanout_left[t] = 0 THEN None ELSE @[t]]]

\* The mesh of one topic: members that are not eligible any more are pruned, then the
\* mesh is filled up to d below d_low, and cut down to d above d_high.
PruneAll(g, t, ps) ==
    LET pruned == {p \in ps : Queued(g, p, Prune(t))}
    IN RecordBackoffAll(QueueControlAll(g, pruned, <<Prune(t)>>), t, pruned, prune_backoff)
MaintainMesh(g, t, order) ==
    IF t \notin g.topics THEN g ELSE
    LET eligible == EligibleTopicPeers(g, t)
        current == g.mesh[t] \intersect eligible
        stripped == PruneAll(g, t, g.mesh[t] \ eligible)
        grafted == FillUp(current, eligible, d, order) \ current
        cut == current \ SelectPeers(current, d, order)
    IN CASE Cardinality(current) < d_low ->
              [QueueControlAll(stripped, grafted, <<Graft(t)>>) EXCEPT
                  !.mesh[t] = current \union {p \in grafted : Queued(stripped, p, Graft(t))}]
         [] Cardinality(current) > d_high ->
              [PruneAll(stripped, t, cut) EXCEPT
                  !.mesh[t] = current \ {p \in cut : Queued(stripped, p, Prune(t))}]
         [] OTHER -> [stripped EXCEPT !.mesh[t] = current]

MaintainFanout(g, pick) ==
    LET Kept(t) == FillUp(g.fanout[t] \intersect EligibleTopicPeers(g, t),
                          EligibleTopicPeers(g, t), d, pick[t])
    IN [g EXCEPT !.fanout = [t \in Topics |-> IF @[t] = None THEN None ELSE Kept(t)]]

\* IHAVE to d_lazy peers of the topic outside the mesh and the fanout
EmitGossip(g, t, order) ==
    LET ids == Sorted(GossipIds(g, t), MsgSeq)
        candidates == {p \in Peers : /\ Known(g, p)
                                     /\ g.peers[p].advertised_version
                                     /\ t \in g.peers[p].remote_topics
                                     /\ p \notin g.mesh[t]
                                     /\ g.fanout[t] # None => p \notin g.fanout[t]}
        sent == SubSeq(ids, 1, Min({Len(ids), max_ihave_length}))
    IN QueueControlAll(g, SelectPeers(candidates, d_lazy, order),
                       [i \in DOMAIN sent |-> IHave(t, sent[i])])

Heartbeat(g, pick) ==
    LET reset == ExpireFanout([g EXCEPT !.ihave_budget = [p \in Peers |-> 0],
                                        !.iwant_served = [p \in Peers |-> 0],
                                        !.iwant_requested = {}])
        meshed == FoldLeft(LAMBDA acc, t : MaintainMesh(acc, t, pick[t]), reset, TopicSeq)
        gossiped(h) == FoldLeft(LAMBDA acc, t : EmitGossip(acc, t, pick[t]), h, TopicSeq)
    IN DriveAllSenders(McacheShift(gossiped(MaintainFanout(meshed, pick))))

\* The establishment of a stream that took too long.
TimeOut(g, p) ==
    LET sender == g.peers[p].sender
        rejected == IF sender.st = "Negotiating" THEN RejectStream(g, p, sender.s) ELSE g
    IN IF Known(g, p) /\ Establishing(sender) /\ sender.left = 0
       THEN Raise(SenderLost(rejected, p), OutboundFailure(p)) ELSE g

HandleTick(g, pick) ==
    LET expired == FoldLeft(TimeOut, SeenGc(ArmHeartbeat(g)), PeerSeq)
    IN IF g.next_heartbeat = 0
       THEN [Heartbeat(expired, pick) EXCEPT !.next_heartbeat = heartbeat_interval]
       ELSE expired

\* fn next_timeout: whether a timer is due
TickDue(g) ==
    \/ g.next_heartbeat = 0
    \/ g.seen # <<>> /\ Head(g.seen).left = 0
    \/ \E p \in Peers : Known(g, p) /\ Establishing(g.peers[p].sender) /\ g.peers[p].sender.left = 0

\* A unit of time.
Elapse(g) ==
    [g EXCEPT !.next_heartbeat = IF @ = None THEN None ELSE Down(@),
              !.fanout_left = [t \in Topics |-> Down(@[t])],
              !.backoff = [t \in Topics |-> [p \in Peers |-> Down(@[t][p])]],
              !.seen = [i \in DOMAIN @ |-> SeenAged(@[i])],
              !.peers = [p \in DOMAIN @ |-> SenderAged(@[p])]]
=============================================================================
