------------------------------- MODULE Pubsub -------------------------------
(* A pubsub router under its driver (crates/minip2p/src/std/pubsub.rs): the swarm's
   events, the application's calls and the passing of time reach the router one at
   a time, and the driver drains the router's actions into the swarm, with their
   answers, before the next (`pump`).  PubsubAgent (engine.rs) is the router or the
   other, as the workload says (`mode.engine`).

   The swarm and the remote peers are the environment: connections come, go and are
   superseded, a stream may be refused, fail to negotiate, lose what was written to
   it, or close.  `view[p]` is what peer p has been told of our subscriptions. *)
EXTENDS Gossipsub

CONSTANTS
    OutIds, InIds,      \* stream ids that we open, and that the remote opens
    Picks,              \* what the random generator may select: orders of peers
    Modes               \* a sequence of workloads [engine, peers, chunks, fuel]: one is chosen

\* What decoding guarantees of the RPCs in a chunk.
Decoded(rpc) ==
    /\ IsSeq(rpc.publish)
    /\ IsSeq(rpc.control.graft) /\ IsSeq(rpc.control.prune)
    /\ IsSeq(rpc.control.ihave) /\ IsSeq(rpc.control.iwant)
    /\ \A i \in 1..Len(rpc.control.prune) : rpc.control.prune[i].backoff \in Nat
    /\ \A i \in 1..Len(rpc.control.ihave) : IsSeq(rpc.control.ihave[i].ids)

ASSUME WorkloadAssumption ==
    /\ Picks \subseteq [Topics -> Seq(Peers)]
    /\ \A i \in DOMAIN Modes : \A chunk \in Modes[i].chunks :
           /\ IsSeq(chunk)
           /\ \A n \in 1..Len(chunk) : /\ chunk[n].kind \in {"Rpc", "Partial", "Malformed"}
                                       /\ chunk[n].kind = "Rpc" => Decoded(chunk[n])

F == INSTANCE Floodsub

VARIABLES
    g,          \* the router
    link,       \* link[p]: [up, ready, out, in], the connection to p and its streams
    view,       \* view[p]: the topics that p believes we are subscribed to
    decided,    \* decided[p][t]: our last GRAFT or PRUNE of topic t for p
    said,       \* said[p][t]: the last of them that the swarm accepted, or "Crowded"
    window,     \* window[key]: [left, newer], the time before a message may be
                \* delivered again, and the messages that the router took up since
    mode, fuel  \* the workload and what is left of it
vars == <<g, link, view, decided, said, window, mode, fuel>>

Gossip == mode.engine = "Gossipsub"
NoStream == [s \in Streams |-> None]
Unconnected == [up |-> FALSE, ready |-> FALSE, out |-> NoStream, in |-> NoStream]
NoDecision == [t \in Topics |-> None]
SeenKeys == ToSet(MsgSeq) \X BOOLEAN

Init ==
    /\ mode \in Range(Modes)
    /\ fuel = mode.fuel
    /\ g = IF Gossip THEN New ELSE F!New
    /\ link = [p \in Peers |-> Unconnected]
    /\ view = [p \in Peers |-> {}]
    /\ decided = [p \in Peers |-> NoDecision]
    /\ said = [p \in Peers |-> NoDecision]
    /\ window = [key \in SeenKeys |-> [left |-> 0, newer |-> {}]]

-----------------------------------------------------------------------------
(* A stimulus reaches the router when its actions are drained.  The driver moves the
   router's events to its own queue: `g.events` holds those of the last step. *)
Drained == g.actions = <<>>
Polled == [g EXCEPT !.events = <<>>]
Spend(what) == fuel[what] > 0 /\ fuel' = [fuel EXCEPT ![what] = @ - 1]

Messages(h) == {h.events[i].key : i \in {j \in DOMAIN h.events : h.events[j].e = "Message"}}
\* The messages that h takes up in this step, and those it delivers behind `key`.
TakenUp(h) == Messages(h) \union ({h.seen[i].key : i \in DOMAIN h.seen}
                                     \ {g.seen[i].key : i \in DOMAIN g.seen})
Behind(h, key) ==
    {h.events[j].key : j \in {k \in DOMAIN h.events :
        h.events[k].e = "Message" /\ \E i \in 1..(k - 1) : h.events[i].key = key}}
Delivered(h) ==
    window' = [key \in SeenKeys |->
                  IF key \in Messages(h) THEN [left |-> seen_ttl, newer |-> Behind(h, key)]
                  ELSE IF window[key].left = 0 THEN window[key]
                  ELSE [window[key] EXCEPT !.newer = @ \union TakenUp(h)]]

\* The decision that is queued for a peer, or in flight to it and not withdrawn since.
Decision(h, p, t) ==
    LET pending == h.peers[p].pending_control
        in_flight == h.peers[p].sender.in_flight
        sent == IF in_flight = None THEN {} ELSE ToSet(in_flight.items)
    IN CASE Graft(t) \in pending -> "Graft"
         [] Prune(t) \in pending -> "Prune"
         [] Graft(t) \in sent \ pending -> "Graft"
         [] Prune(t) \in sent \ pending -> "Prune"
         [] OTHER -> decided[p][t]
Decided(h) ==
    decided' = [p \in Peers |->
                   IF ~Gossip \/ ~Known(h, p) THEN NoDecision
                   ELSE [t \in Topics |-> Decision(h, p, t)]]

\* The router after a stimulus, and after the answer to an action
Fed(h) == g' = h /\ Delivered(h) /\ Decided(h) /\ UNCHANGED mode
Answered(h) == g' = h /\ Delivered(h) /\ UNCHANGED <<decided, mode>>

\* PubsubAgent::subscribe, unsubscribe, publish
AppSubscribe(t, pick) ==
    /\ Drained /\ Spend("calls") /\ t \notin g.topics
    /\ Fed(IF Gossip THEN Subscribe(Polled, t, pick) ELSE F!Subscribe(Polled, t))
    /\ UNCHANGED <<link, view, said>>

AppUnsubscribe(t) ==
    /\ Drained /\ Spend("calls") /\ t \in g.topics
    /\ Fed(IF Gossip THEN Unsubscribe(Polled, t) ELSE F!Unsubscribe(Polled, t))
    /\ UNCHANGED <<link, view, said>>

AppPublish(t, pick) ==
    /\ Drained /\ Spend("publishes")
    /\ Fed(IF Gossip THEN Publish(Polled, t, pick) ELSE F!Publish(Polled, t))
    /\ UNCHANGED <<link, view, said>>

\* A connection is established, supersedes the one there is, or closes: with it goes
\* what was said over it.
Reconnected(p, connection, h) ==
    /\ link' = [link EXCEPT ![p] = connection]
    /\ view' = [view EXCEPT ![p] = {}]
    /\ said' = [said EXCEPT ![p] = NoDecision]
    /\ decided' = [decided EXCEPT ![p] = NoDecision]
    /\ g' = h /\ UNCHANGED <<window, mode>>

\* Peers join one after the other: a bound on the interleavings that are explored.
Met(p) == link[p].ready /\ \E s \in InIds : link[p].in[s] # None

ConnectionEstablished(p) ==
    /\ Drained /\ Spend("connections") /\ p \in mode.peers
    /\ \A q \in Peers \ {p} : link[q].up => Met(q)
    /\ Reconnected(p, [Unconnected EXCEPT !.up = TRUE],
                   IF Gossip THEN OnConnectionEstablished(Polled, p)
                   ELSE F!OnConnectionEstablished(Polled, p))

ConnectionClosed(p) ==
    /\ Drained /\ Spend("faults") /\ link[p].up
    /\ Reconnected(p, Unconnected, IF Gossip THEN OnConnectionClosed(Polled, p)
                                   ELSE F!OnConnectionClosed(Polled, p))

PeerReady(p) ==
    /\ Drained /\ link[p].up /\ ~link[p].ready
    /\ link' = [link EXCEPT ![p].ready = TRUE]
    /\ Fed(IF Gossip THEN OnPeerReady(Polled, p, TRUE) ELSE F!OnPeerReady(Polled, p, TRUE))
    /\ UNCHANGED <<view, said, fuel>>

\* The negotiation of a stream that we opened ends; a reset stream has reported its
\* close before.
OutboundReady(p, s) ==
    /\ Drained /\ link[p].out[s] = "Negotiating"
    /\ \A x \in Streams : link[p].out[x] # "Closing"
    /\ link' = [link EXCEPT ![p].out[s] = "Open"]
    /\ Fed(IF Gossip THEN OnStreamReady(Polled, p, s, TRUE) ELSE F!OnStreamReady(Polled, p, s, TRUE))
    /\ UNCHANGED <<view, said, fuel>>

InboundReady(p, s) ==
    /\ Drained /\ Spend("streams") /\ link[p].up /\ link[p].in[s] = None
    /\ link' = [link EXCEPT ![p].in[s] = "Open"]
    /\ Fed(IF Gossip THEN OnStreamReady(Polled, p, s, FALSE) ELSE F!OnStreamReady(Polled, p, s, FALSE))
    /\ UNCHANGED <<view, said>>

StreamData(p, s, chunk) ==
    /\ Drained /\ Spend("chunks") /\ link[p].in[s] = "Open"
    /\ Fed(IF Gossip THEN OnStreamData(Polled, p, s, chunk) ELSE F!OnStreamData(Polled, p, s, chunk))
    /\ UNCHANGED <<link, view, said>>

RemoteWriteClosed(p, s) ==
    /\ Drained /\ Spend("faults") /\ link[p].in[s] = "Open"
    /\ link' = [link EXCEPT ![p].in[s] = "Eof"]
    /\ Fed(OnRemoteWriteClosed(IF Gossip THEN ArmHeartbeat(Polled) ELSE Polled, p, s))
    /\ UNCHANGED <<view, said>>

\* A stream closes: the remote ends or resets it, or a reset of ours is reported.
Closes(p, s, direction) ==
    /\ Drained
    /\ link' = [link EXCEPT ![p][direction][s] = None]
    /\ Fed(IF Gossip THEN OnStreamClosed(Polled, p, s) ELSE F!OnStreamClosed(Polled, p, s))
    /\ UNCHANGED <<view, said>>

StreamClosed(p, s, direction) ==
    /\ link[p][direction][s] = "Closing"
    /\ Closes(p, s, direction) /\ UNCHANGED fuel

\* The remote reads floodsub's RPC to its end and closes its own half.
RemoteFinishes(p, s) ==
    /\ link[p].out[s] = "Closed"
    /\ Closes(p, s, "out") /\ UNCHANGED fuel

RemoteResets(p, s, direction) ==
    /\ link[p][direction][s] \notin {None, "Closing"}
    /\ Spend("faults") /\ Closes(p, s, direction)

\* PubsubDriver::tick, a unit of time later
Ticked(h, pick) ==
    CASE Gossip  -> IF TickDue(h) THEN HandleTick(h, pick) ELSE h
      [] ~Gossip -> IF F!TickDue(h) THEN F!HandleTick(h) ELSE h
Tick(pick) ==
    /\ Drained /\ Spend("ticks")
    /\ g' = Ticked(IF Gossip THEN Elapse(Polled) ELSE F!Elapse(Polled), pick)
    /\ Decided(g')
    /\ window' = [key \in SeenKeys |->
                     IF window[key].left > 1 THEN [window[key] EXCEPT !.left = @ - 1]
                     ELSE [left |-> 0, newer |-> {}]]
    /\ UNCHANGED <<link, view, said, mode>>

-----------------------------------------------------------------------------
(* PubsubDriver::execute, on the first of the queued actions. *)
Action == Head(g.actions)
Rest == [Polled EXCEPT !.actions = Tail(@)]
Is(op) == ~Drained /\ Action.op = op

FreeIds(p) == {s \in OutIds : link[p].out[s] = None}

OpenSucceeds ==
    /\ Is("OpenStream") /\ link[Action.peer].up /\ FreeIds(Action.peer) # {}
    /\ LET p == Action.peer
           s == Min(FreeIds(p))
       IN /\ link' = [link EXCEPT ![p].out[s] = "Negotiating"]
          /\ Answered(IF Gossip THEN StreamOpenResult(Rest, p, s) ELSE F!StreamOpenResult(Rest, p, s))
    /\ UNCHANGED <<view, said, fuel>>

OpenFails ==
    /\ Is("OpenStream")
    /\ IF link[Action.peer].up /\ FreeIds(Action.peer) # {} THEN Spend("faults") ELSE UNCHANGED fuel
    /\ Answered(IF Gossip THEN StreamOpenResult(Rest, Action.peer, None)
           ELSE F!StreamOpenResult(Rest, Action.peer, None))
    /\ UNCHANGED <<link, view, said>>

\* What p learns from a frame that reaches it.
Learns(p, data) ==
    CASE data.kind = "Subscriptions" /\ Gossip -> Candidate(view[p], data.items)
      [] data.kind = "Subscriptions" /\ ~Gossip ->
           (view[p] \union data.snapshot) \ (g.peers[p].sent_topics \ data.snapshot)
      [] OTHER -> view[p]
SaidWith(before, data) ==
    IF data.kind # "Control" THEN before
    ELSE [t \in Topics |-> CASE Graft(t) \in ToSet(data.items) -> "Graft"
                             [] Prune(t) \in ToSet(data.items) -> "Prune"
                             [] OTHER -> before[t]]

\* The write is accepted; what the transport holds is lost with the stream when the
\* stream breaks, and reaches the peer otherwise.
SendSucceeds(breaks) ==
    /\ Is("SendStream")
    /\ LET p == Action.peer
           s == Action.s
           lost == breaks \/ link[p].out[s] = "Broken"
       IN /\ link[p].out[s] \in {"Open", "Broken"}
          /\ breaks => Spend("faults") /\ link[p].out[s] = "Open"
          /\ ~breaks => UNCHANGED fuel
          /\ link' = IF lost THEN [link EXCEPT ![p].out[s] = "Broken"] ELSE link
          /\ view' = IF lost THEN view ELSE [view EXCEPT ![p] = Learns(p, Action.data)]
          /\ said' = [said EXCEPT ![p] = SaidWith(@, Action.data)]
          /\ Answered(IF Gossip THEN SendResult(Rest, p, s, TRUE) ELSE F!SendResult(Rest, p, s, TRUE))

\* The frame that is put back and what was queued behind it exceed the queue, and the
\* decision about t is among the latter.
Subject(item) == IF Topology(item) THEN Graft(item.t) ELSE item
Crowded(p, data, t) ==
    LET back == {Subject(item) : item \in ToSet(data.items)}
        behind == {Subject(item) : item \in g.peers[p].pending_control}
    IN /\ data.kind = "Control"
       /\ Cardinality(back \union behind) > max_pending_per_peer
       /\ Graft(t) \in behind \ back

SendFails ==
    /\ Is("SendStream") /\ Spend("faults")
    /\ said' = IF ~Gossip THEN said
               ELSE [said EXCEPT ![Action.peer] =
                        [t \in Topics |-> IF Crowded(Action.peer, Action.data, t) THEN "Crowded" ELSE @[t]]]
    /\ Answered(IF Gossip THEN SendResult(Rest, Action.peer, Action.s, FALSE)
           ELSE F!SendResult(Rest, Action.peer, Action.s, FALSE))
    /\ UNCHANGED <<link, view>>

\* A half-close that fails changes nothing; one that completes an inbound stream ends it.
CloseWrite ==
    /\ Is("CloseStreamWrite")
    /\ LET p == Action.peer
           s == Action.s
       IN link' = CASE link[p].in[s] = "Eof" -> [link EXCEPT ![p].in[s] = "Closing"]
                    [] link[p].out[s] = "Open" -> [link EXCEPT ![p].out[s] = "Closed"]
                    [] OTHER -> link
    /\ Answered(Rest)
    /\ UNCHANGED <<view, said, fuel>>

Reset ==
    /\ Is("ResetStream")
    /\ LET p == Action.peer
           s == Action.s
       IN link' = CASE link[p].out[s] # None -> [link EXCEPT ![p].out[s] = "Closing"]
                    [] link[p].in[s] # None -> [link EXCEPT ![p].in[s] = "Closing"]
                    [] OTHER -> link
    /\ Answered(Rest)
    /\ UNCHANGED <<view, said, fuel>>

Next ==
    \/ \E t \in Topics, pick \in Picks : AppSubscribe(t, pick) \/ AppPublish(t, pick)
    \/ \E t \in Topics : AppUnsubscribe(t)
    \/ \E p \in Peers : ConnectionEstablished(p) \/ ConnectionClosed(p) \/ PeerReady(p)
    \/ \E p \in Peers, s \in OutIds : OutboundReady(p, s) \/ RemoteFinishes(p, s)
    \/ \E p \in Peers, s \in InIds : InboundReady(p, s) \/ RemoteWriteClosed(p, s)
    \/ \E p \in Peers, s \in InIds, chunk \in mode.chunks : StreamData(p, s, chunk)
    \/ \E p \in Peers, s \in OutIds :
           StreamClosed(p, s, "out") \/ RemoteResets(p, s, "out")
    \/ \E p \in Peers, s \in InIds : StreamClosed(p, s, "in") \/ RemoteResets(p, s, "in")
    \/ \E pick \in Picks : Tick(pick)
    \/ OpenSucceeds \/ OpenFails
    \/ \E breaks \in BOOLEAN : SendSucceeds(breaks)
    \/ SendFails \/ CloseWrite \/ Reset

Spec == Init /\ [][Next]_vars

-----------------------------------------------------------------------------
(* Properties. *)

(* The router's tables agree.  A member of the mesh of a topic is a known peer that
   is subscribed to it and is not backed off, in a topic of ours; the mesh never
   outgrows d_high; and a topic has a fanout only while we are not subscribed to it.
   Subscribing, GRAFT, PRUNE, the remote's subscriptions, the heartbeat and the loss
   of a connection each keep their part of it. *)
MeshAgrees ==
    Gossip =>
        \A t \in Topics :
            /\ \A p \in g.mesh[t] : /\ t \in g.topics
                                    /\ Known(g, p) /\ t \in g.peers[p].remote_topics
                                    /\ g.backoff[t][p] = 0
            /\ Cardinality(g.mesh[t]) <= d_high
            /\ t \in g.topics => g.fanout[t] = None

(* A decision about a topic is the last one that the swarm accepted, or it is queued. *)
Stands(p, t) ==
    \/ decided[p][t] = said[p][t]
    \/ decided[p][t] = "Graft" /\ Graft(t) \in g.peers[p].pending_control
    \/ decided[p][t] = "Prune" /\ Prune(t) \in g.peers[p].pending_control

(* The last decision about a topic reaches the peer: it is the last one that the
   swarm accepted, or it is queued, through refused frames that are put back among
   the items queued since.  The exception is the queue that such a frame overfills:
   restore_older then keeps what it puts back and drops the decision queued behind. *)
DecisionsStand ==
    Gossip /\ Drained =>
        \A p \in Peers, t \in Topics : Stands(p, t) \/ said[p][t] = "Crowded"

(* When gossipsub has nothing left to say on a stream that works, the peer knows our
   subscriptions: a withdrawal that was lost with an earlier stream has been repeated
   on this one (unsubscribe_tombstones).  Floodsub keeps no tombstones and promises
   less: a withdrawal whose RPC was lost with its stream is not repeated. *)
SubscriptionsKnown ==
    Gossip /\ Drained =>
        \A p \in Peers :
            Known(g, p) /\ g.peers[p].sender.st = "Ready" /\ link[p].out[g.peers[p].sender.s] = "Open"
                => view[p] = g.topics

(* The router owns exactly the streams that are open, so that no event of a stream
   of its own reaches the application and no entry is left behind for a later
   stream with the same id. *)
OwnsOpenStreams ==
    Drained => \A p \in Peers, s \in Streams :
                   OwnsStream(g, p, s) <=> link[p].out[s] # None \/ link[p].in[s] # None

(* A message is delivered to the application at most once within seen_ttl, whichever
   peers it arrives from, unless max_seen_messages others were taken up since and
   pushed it out of the cache of what was seen. *)
DeliveredOnce ==
    [][\A key \in Messages(g') :
          window[key].left = 0 \/ Cardinality(window[key].newer) >= max_seen_messages]_vars

(* A message leaves the queue of its peer when a stream accepted the write of it, or
   with an OutboundFailure that the application sees.  It is no receipt: what a
   stream accepted and lost with its end is told to nobody.  Gossipsub gives up only
   when the connection is gone, and writes the message again otherwise; floodsub
   gives up the message whose RPC failed. *)
Backlog(h, p) ==
    IF ~Known(h, p) THEN <<>>
    ELSE IF Gossip THEN h.peers[p].pending_messages ELSE h.peers[p].pending
Failed(h, p) == \E i \in DOMAIN h.events : h.events[i] = OutboundFailure(p)
Accepted(p) ==
    IF Gossip THEN Is("SendStream") /\ Action.data.kind = "Message" /\ Action.peer = p
    ELSE g.peers[p].sender.st = "AwaitingClose"
NoUnwrittenLoss ==
    [][\A p \in Peers :
          Len(Backlog(g', p)) < Len(Backlog(g, p)) =>
              IF Failed(g', p) THEN Gossip => ~link'[p].ready
              ELSE Accepted(p) /\ Backlog(g', p) = Tail(Backlog(g, p))]_vars

(* The two ends of a link agree on its subscriptions once it is quiet, over streams that are open. *)
LinksKept == SubscriptionsKnown /\ OwnsOpenStreams

(* A message is handed to a stream of each peer it is queued for, or its loss is told;
   one that arrives is delivered once while the router can remember it. *)
WrittenOrTold == DeliveredOnce /\ NoUnwrittenLoss
=============================================================================
