------------------------------ MODULE Floodsub ------------------------------
(* FloodsubAgent (crates/pubsub/src/agent.rs).  Every RPC travels on an outbound
   stream of its own: opened, negotiated, written and half-closed, and committed
   when the stream closes.  Per peer one such RPC is under way; `work` freezes the
   topics it announces or the message it carries. *)
EXTENDS PubsubShared

Idle == [st |-> "Idle", s |-> None, left |-> 0, work |-> None]

PeerStateDefault ==
    [sender |-> Idle, pending |-> <<>>, sent_topics |-> {},
     inbound |-> [s \in Streams |-> None], remote_topics |-> {}]

Announce(snapshot) == [kind |-> "Subscriptions", snapshot |-> snapshot, m |-> None]
Carry(m) == [kind |-> "Publish", snapshot |-> {}, m |-> m]

\* PeerState::queued_work
QueuedWork(state) ==
    Len(state.pending)
    + IF state.sender.work # None /\ state.sender.work.kind = "Subscriptions" THEN 1 ELSE 0

\* fn new
New ==
    [topics |-> {}, peers |-> <<>>, roles |-> [p \in Peers |-> [s \in Streams |-> None]],
     seen |-> <<>>, next_seqno |-> 1, actions |-> <<>>, events |-> <<>>]

\* fn drive_sender, fn drive_all_senders
DriveSender(g, p) ==
    LET state == g.peers[p]
        work == IF state.sent_topics # g.topics THEN Announce(g.topics) ELSE Carry(Head(state.pending))
    IN IF \/ ~Known(g, p)
          \/ state.sender.st # "Idle"
          \/ state.sent_topics = g.topics /\ state.pending = <<>>
       THEN g
       ELSE Push([g EXCEPT !.peers[p].sender =
                     [st |-> "Opening", s |-> None, left |-> send_timeout, work |-> work]],
                 OpenStream(p))
DriveAllSenders(g) == FoldLeft(DriveSender, g, PeerSeq)

\* fn fail_in_flight
FailInFlight(g, p, work) ==
    Raise(IF work.kind = "Publish" /\ Known(g, p)
          THEN [g EXCEPT !.peers[p].pending = Tail(@)] ELSE g,
          OutboundFailure(p))

SenderIdle(g, p) == [g EXCEPT !.peers[p].sender = Idle]
\* fn reject_stream, which also forgets the stream's reassembly buffer
RejectOwn(g, p, s) == DropInbound(RejectStream(g, p, s), p, s)

-----------------------------------------------------------------------------
(* The application's calls and the driver's answers. *)

\* fn subscribe, fn unsubscribe
Subscribe(g, t) ==
    IF t \in g.topics THEN g ELSE DriveAllSenders([g EXCEPT !.topics = @ \union {t}])
Unsubscribe(g, t) ==
    IF t \notin g.topics THEN g ELSE DriveAllSenders([g EXCEPT !.topics = @ \ {t}])

Enqueue(g, p, m) == DriveSender([g EXCEPT !.peers[p].pending = Append(@, m)], p)
HasRoom(g, p) == Len(g.peers[p].pending) < max_pending_per_peer
Subscribers(g, topics) ==
    {p \in Peers : Known(g, p) /\ g.peers[p].remote_topics \intersect topics # {}}

\* fn publish
Publish(g, t) ==
    LET recipients == Subscribers(g, {t})
        m == BuildSigned(g.next_seqno, t)
        recorded == SeenInsert([g EXCEPT !.next_seqno = @ + 1], SeenKey(m.id, TRUE))
    IN IF \E p \in recipients : ~HasRoom(g, p) THEN g
       ELSE FoldLeft(LAMBDA acc, p : Enqueue(acc, p, m), recorded, Sorted(recipients, PeerSeq))

\* fn send_result
SendResult(g, p, s, ok) ==
    LET sender == g.peers[p].sender
    IN IF ok \/ ~Known(g, p) \/ sender.st # "AwaitingClose" \/ sender.s # s THEN g
       ELSE DriveSender(FailInFlight(RejectOwn(SenderIdle(g, p), p, s), p, sender.work), p)

\* fn stream_open_result
StreamOpenResult(g, p, s) ==
    IF ~Known(g, p) \/ g.peers[p].sender.st # "Opening"
    THEN IF s = None THEN g ELSE RejectOwn(g, p, s)
    ELSE IF s = None THEN FailInFlight(SenderIdle(g, p), p, g.peers[p].sender.work)
    ELSE [g EXCEPT !.peers[p].sender = [@ EXCEPT !.st = "Negotiating", !.s = s],
                   !.roles[p][s] = "Outbound"]

-----------------------------------------------------------------------------
(* fn handle_event. *)

\* fn on_connection_established, fn on_connection_closed, fn drop_peer_work
DropPeerWork(g, p) == IF QueuedWork(g.peers[p]) > 0 THEN Raise(g, OutboundFailure(p)) ELSE g
Forget(g, p) == [DropPeerWork(g, p) EXCEPT !.roles[p] = [s \in Streams |-> None]]
OnConnectionEstablished(g, p) == IF Known(g, p) THEN Put(Forget(g, p), p, PeerStateDefault) ELSE g
OnConnectionClosed(g, p) == IF Known(g, p) THEN Drop(Forget(g, p), p) ELSE g

\* The PeerReady arm; `supported` when the peer speaks floodsub
OnPeerReady(g, p, supported) ==
    IF supported THEN DriveSender(Ensure(g, p, PeerStateDefault), p) ELSE g

\* fn on_stream_ready
OnStreamReady(g, p, s, initiated_locally) ==
    LET sender == g.peers[p].sender
        written == Push(Push(g, SendStream(p, s, sender.work)), CloseStreamWrite(p, s))
    IN IF ~initiated_locally THEN OnInboundReady(Ensure(g, p, PeerStateDefault), p, s)
       ELSE IF ~Known(g, p) \/ sender.st # "Negotiating" \/ sender.s # s THEN g
       ELSE [written EXCEPT !.peers[p].sender.st = "AwaitingClose"]

\* fn on_stream_closed: the one place where work commits
Commit(g, p, work) ==
    IF work.kind = "Subscriptions" THEN [g EXCEPT !.peers[p].sent_topics = work.snapshot]
    ELSE [g EXCEPT !.peers[p].pending = Tail(@)]
OnStreamClosed(g, p, s) ==
    LET dropped == DropRole(g, p, s)
        sender == g.peers[p].sender
    IN CASE g.roles[p][s] = "Outbound" /\ Known(g, p) ->
              IF sender.s # s THEN dropped
              ELSE IF sender.st = "AwaitingClose"
              THEN DriveSender(Commit(SenderIdle(dropped, p), p, sender.work), p)
              ELSE DriveSender(FailInFlight(SenderIdle(dropped, p), p, sender.work), p)
         [] g.roles[p][s] = "Inbound" -> DropInbound(dropped, p, s)
         [] OTHER -> dropped

\* fn process_message
ProcessMessage(g, arrival, m) ==
    LET key == SeenKey(m.id, Signed(m))
        seen == SeenInsert(g, key)
        told == IF m.topics \intersect g.topics # {} THEN Raise(seen, Message(arrival, key)) ELSE seen
        recipients == Subscribers(g, m.topics) \ {arrival, m.from}
        Forward(acc, p) == IF HasRoom(acc, p) THEN Enqueue(acc, p, m) ELSE acc
    IN IF ~Verify(m) THEN Raise(g, ProtocolViolation(arrival))
       ELSE IF SeenContains(g, key) THEN g
       ELSE FoldLeft(Forward, told, Sorted(recipients, PeerSeq))

\* fn process_rpc
ProcessRpc(g, p, s, rpc) ==
    LET old == g.peers[p].remote_topics
        new == Candidate(old, rpc.subs)
        applied == [g EXCEPT !.peers[p].remote_topics = new,
                             !.events = @ \o TopicEvents(p, new \ old, old \ new)]
    IN IF Cardinality(new) > max_topics_per_peer THEN ViolationReset(g, p, s)
       ELSE FoldLeft(LAMBDA acc, m : ProcessMessage(acc, p, m), applied, rpc.publish)

\* fn on_stream_data, fn take_frame
OnStreamData(g, p, s, chunk) ==
    LET Step(acc, frame) ==
            IF ~Known(acc, p) \/ acc.peers[p].inbound[s] = None THEN acc
            ELSE CASE frame.kind = "Malformed" -> ViolationReset(acc, p, s)
                   [] frame.kind = "Partial" -> [acc EXCEPT !.peers[p].inbound[s] = "Partial"]
                   [] frame.kind = "Rpc" ->
                        ProcessRpc([acc EXCEPT !.peers[p].inbound[s] = "Empty"], p, s, frame)
    IN IF g.roles[p][s] # "Inbound" THEN g ELSE FoldLeft(Step, g, chunk)

-----------------------------------------------------------------------------
(* Time. *)
Stuck(g, p) == Known(g, p) /\ g.peers[p].sender.st # "Idle" /\ g.peers[p].sender.left = 0

\* fn handle_tick
TimeOut(g, p) ==
    LET sender == g.peers[p].sender
        idle == SenderIdle(g, p)
        rejected == IF sender.st = "Opening" THEN idle ELSE RejectOwn(idle, p, sender.s)
    IN IF Stuck(g, p) THEN DriveSender(FailInFlight(rejected, p, sender.work), p) ELSE g
HandleTick(g) == FoldLeft(TimeOut, SeenGc(g), PeerSeq)

\* fn next_timeout: whether a timer is due
TickDue(g) == (\E p \in Peers : Stuck(g, p)) \/ (g.seen # <<>> /\ Head(g.seen).left = 0)

Elapse(g) ==
    [g EXCEPT !.seen = [i \in DOMAIN @ |-> SeenAged(@[i])],
              !.peers = [p \in DOMAIN @ |-> SenderAged(@[p])]]
=============================================================================
