----------------------------- MODULE SwarmCore -----------------------------
(***************************************************************************)
(* The sans-IO swarm state machine (crates/swarm/src/core.rs): every       *)
(* handler as an operator from the core's state, a record, to its next     *)
(* state.  The module has no variables; SwarmRuntime owns the state, feeds *)
(* the inputs and drains the three output queues.                          *)
(*                                                                         *)
(* Data is abstracted to what the control depends on.  A synthetic peer id *)
(* (minip2p-synthetic-conn-N) is the connection id N itself.  Bytes of     *)
(* multistream-select are replaced by what the negotiator makes of them    *)
(* (`line`), Identify messages by whether they decode and whether they     *)
(* list the user protocol, and addresses by whether one is recorded.       *)
(***************************************************************************)
EXTENDS PingProtocol, SequencesExt

CONSTANTS
    Conns,      \* connection ids, ordered as the BTreeMap keys are
    Peers       \* verified peer ids

Kinds == {"Ping", "IdentifyInitiator", "IdentifyResponder", "User"}

ASSUME SwarmAssumption ==
    /\ Conns \subseteq Nat
    /\ Conns \cap Peers = {}
    /\ None \notin Peers /\ None \notin Nat /\ None \notin Kinds

Sids    == PingStreams
Keys    == Conns \X Sids
PeerIds == Peers \cup Conns      \* verified ids and synthetic ones

\* SwarmAction and SwarmEvent, reduced to the ids they carry.
Action(type, c, s) == [type |-> type, conn |-> c, stream |-> s]
OpenStream(c, tok) == [type |-> "OpenStream", conn |-> c, token |-> tok]
Event(type, p, c, s) == [type |-> type, peer |-> p, conn |-> c, stream |-> s]

\* struct SwarmCore and SwarmCore::new.
InitialCore ==
    [ conn_to_peer         |-> [c \in Conns |-> None],
      peer_to_conn         |-> [p \in PeerIds |-> None],
      conn_to_remote_addr  |-> {},
      inbound_negotiators  |-> {},
      outbound_negotiators |-> [key \in Keys |-> None],
      stream_owner         |-> [key \in Keys |-> None],
      reset_pending        |-> {},
      abandoned_streams    |-> {},
      pending_opens        |-> {},
      next_open_token      |-> 1,
      pending_pings        |-> [p \in PeerIds |-> None],
      ping_deadlines       |-> [p \in PeerIds |-> None],
      peer_info            |-> [p \in PeerIds |-> None],
      ready_peers          |-> {},
      established_peers    |-> {},
      ping                 |-> [p \in PeerIds |-> None],
      identify             |-> [p \in PeerIds |-> None],
      events               |-> <<>>,
      actions              |-> <<>>,
      after_event_actions  |-> <<>> ]

Emit(k, e) == [k EXCEPT !.events = Append(@, e)]
Act(k, a)  == [k EXCEPT !.actions = Append(@, a)]

EmitError(k, p, c, s) == Emit(k, Event("Error", p, c, s))

-----------------------------------------------------------------------------
(* Lookups. *)

\* fn established_peer_for_conn
EstablishedPeerForConn(k, c) ==
    IF k.conn_to_peer[c] \in k.established_peers THEN k.conn_to_peer[c] ELSE None

\* The first match of a BTreeMap scan is the smallest connection id.
FirstConn(S) == CHOOSE c \in S : \A d \in S : c <= d

\* fn conn_for_owned_stream and fn require_stream_conn scan stream_owner for a
\* stream id: ids are only unique per connection, so the peer decides.
OwningConns(k, p, s, kind) ==
    {c \in Conns : k.stream_owner[<<c, s>>] = kind /\ k.conn_to_peer[c] = p}

\* fn has_pending_ping_stream
HasPendingPingStream(k, p) ==
    /\ k.peer_to_conn[p] # None
    /\ LET c == k.peer_to_conn[p]
       IN  \/ \E s \in Sids : k.outbound_negotiators[<<c, s>>] = "Ping"
           \/ \E o \in k.pending_opens : o.conn_id = c /\ o.target = "Ping"

PingOf(k, p) == IF k.ping[p] = None THEN DefaultPeerState ELSE k.ping[p]

FindNegotiatedPingStream(k, p) == PingOf(k, p).outbound_stream

\* fn queue_open_protocol_stream
QueueOpenProtocolStream(k, p, target) ==
    LET c   == k.peer_to_conn[p]
        tok == k.next_open_token
    IN  [k EXCEPT !.next_open_token = tok + 1,
                  !.pending_opens = @ \cup {[token |-> tok, conn_id |-> c, target |-> target]},
                  !.actions = Append(@, OpenStream(c, tok))]

\* fn try_emit_peer_ready
TryEmitPeerReady(k, p) ==
    IF p \in k.ready_peers \/ k.peer_info[p] = None \/ k.peer_to_conn[p] = None
    THEN k
    ELSE Emit([k EXCEPT !.ready_peers = @ \cup {p}], Event("PeerReady", p, None, None))

\* fn ensure_peer_id_for_conn: a connection without a peer gets its synthetic one.
EnsurePeerIdForConn(k, c) ==
    IF k.conn_to_peer[c] # None
    THEN k
    ELSE [k EXCEPT !.conn_to_peer[c] = c, !.peer_to_conn[c] = c]

\* A mutant of RecordPingDeadline: due at the timeout instead of past it.
RecordPingDeadlineEarly(k, p, now) == [k EXCEPT !.ping_deadlines[p] = now + RequestTimeout]

\* fn record_ping_deadline: the ping is overdue strictly past its timeout.
RecordPingDeadline(k, p, now) == [k EXCEPT !.ping_deadlines[p] = now + RequestTimeout + 1]

-----------------------------------------------------------------------------
(* Ping and Identify, run by the core. *)

\* fn execute_ping_action: dropped unless the peer still owns the stream.
PingActionsFor(k, p, acts) ==
    LET owned == SelectSeq(acts, LAMBDA a : OwningConns(k, p, a.stream, "Ping") # {})
    IN  [i \in DOMAIN owned |->
            Action(IF owned[i].type = "Send" THEN "SendStream" ELSE owned[i].type,
                   FirstConn(OwningConns(k, p, owned[i].stream, "Ping")), owned[i].stream)]

\* fn handle_ping_event: which events reach the application, and which disarm
\* the core's copy of the timer.
PingEventsFor(k, p, evs) ==
    LET shown == SelectSeq(evs, LAMBDA e :
                    e.type \in {"RttMeasured", "Timeout", "ProtocolViolation"})
    IN  [i \in DOMAIN shown |->
            CASE shown[i].type = "RttMeasured" -> Event("PingRttMeasured", p, None, None)
              [] shown[i].type = "Timeout"     -> Event("PingTimeout", p, None, None)
              [] OTHER                         -> Event("Error", p, k.peer_to_conn[p], None)]

Disarms(evs) ==
    \E i \in DOMAIN evs : evs[i].type \in {"RttMeasured", "Timeout", "OutboundStreamClosed"}

\* fn drain_ping_outputs after an input left `out` for peer p.
DrainPing(k, p, out) ==
    [k EXCEPT !.ping[p] = out.state,
              !.actions = @ \o PingActionsFor(k, p, out.actions),
              !.events = @ \o PingEventsFor(k, p, out.events),
              !.ping_deadlines[p] = IF Disarms(out.events) THEN None ELSE @]

\* An input that does not create the peer's entry leaves an absent one absent.
InformPing(k, p, out) ==
    LET drained == DrainPing(k, p, out)
    IN  IF k.ping[p] = None THEN [drained EXCEPT !.ping[p] = None] ELSE drained

\* struct PeerIdentifyState: the stream we answer on, and those we read from.
DefaultIdentifyState == [outbound_stream |-> None, inbound_streams |-> {}]

IdentifyOf(k, p) == IF k.identify[p] = None THEN DefaultIdentifyState ELSE k.identify[p]

\* execute_identify_action picks the connection by the peer alone.
IdentifyAct(k, p, type, s) ==
    IF k.peer_to_conn[p] = None THEN k ELSE Act(k, Action(type, k.peer_to_conn[p], s))

\* identify: fn register_outbound_stream, refused while one answer is under way
\* (the entry is created either way).
IdentifyRespond(k, p, s) ==
    IF IdentifyOf(k, p).outbound_stream # None
    THEN [k EXCEPT !.identify[p] = IdentifyOf(k, p)]
    ELSE LET st == [IdentifyOf(k, p) EXCEPT !.outbound_stream = s]
             k1 == IdentifyAct([k EXCEPT !.identify[p] = st], p, "SendStream", s)
         IN  IdentifyAct(k1, p, "CloseStreamWrite", s)

\* identify: fn register_inbound_stream
IdentifyListen(k, p, s) ==
    [k EXCEPT !.identify[p] = [IdentifyOf(k, p) EXCEPT !.inbound_streams = @ \cup {s}]]

Reading(k, p, s) == s \in IdentifyOf(k, p).inbound_streams

StopReading(k, p, s) ==
    [k EXCEPT !.identify[p].inbound_streams = @ \ {s}]

\* identify: fn on_stream_data, where only an oversized message does anything.
IdentifyData(k, p, s, oversized) ==
    IF Reading(k, p, s) /\ oversized
    THEN EmitError(StopReading(k, p, s), None, None, None)
    ELSE k

\* identify: fn on_stream_remote_write_closed and fn handle_identify_event.  The
\* message is complete: `info` is None when it does not decode, else whether it
\* lists the user protocol.
IdentifyFinished(k, p, s, info) ==
    IF ~Reading(k, p, s)
    THEN k
    ELSE LET k1 == IdentifyAct(StopReading(k, p, s), p, "CloseStreamWrite", s)
         IN  IF info = None
             THEN EmitError(k1, None, None, None)
             ELSE TryEmitPeerReady(Emit([k1 EXCEPT !.peer_info[p] = info],
                                        Event("IdentifyReceived", p, None, None)), p)

\* identify: fn on_stream_closed forgets a peer without streams.
IdentifyClosed(k, p, s) ==
    IF k.identify[p] = None
    THEN k
    ELSE LET st == [outbound_stream |-> IF k.identify[p].outbound_stream = s
                                        THEN None ELSE k.identify[p].outbound_stream,
                    inbound_streams |-> k.identify[p].inbound_streams \ {s}]
         IN  [k EXCEPT !.identify[p] = IF st = DefaultIdentifyState THEN None ELSE st]

-----------------------------------------------------------------------------
(* Connections and identities. *)

\* Every trace of the connection's streams and opens.
ForgetConnectionStreams(k, c) ==
    LET off == {c} \X Sids
    IN  [k EXCEPT !.stream_owner = [key \in Keys |-> IF key \in off THEN None ELSE @[key]],
                  !.outbound_negotiators = [key \in Keys |-> IF key \in off THEN None ELSE @[key]],
                  !.inbound_negotiators = @ \ off,
                  !.reset_pending = @ \ off,
                  !.abandoned_streams = @ \ off,
                  !.pending_opens = {o \in @ : o.conn_id # c}]

\* Everything the core keeps by peer id, except its connection.
ForgetPeer(k, p) ==
    [k EXCEPT !.ping[p] = None,
              !.identify[p] = None,
              !.ping_deadlines[p] = None,
              !.peer_info[p] = None,
              !.ready_peers = @ \ {p},
              !.established_peers = @ \ {p}]

\* connection_action_matches, used to purge a queue.
ActionsNotOn(q, c) == SelectSeq(q, LAMBDA a : a.conn # c)

\* A mutant of SupersedeConnection: the transport is told before the application.
SupersedeClosesAtOnce(k, old) ==
    LET p  == k.conn_to_peer[old]
        k1 == IF p = None THEN k
              ELSE ForgetPeer(Emit([k EXCEPT !.conn_to_peer[old] = None],
                                   Event("ConnectionClosed", p, old, None)), p)
    IN  [ForgetConnectionStreams(k1, old) EXCEPT
            !.conn_to_remote_addr = @ \ {old},
            !.actions = Append(ActionsNotOn(@, old), Action("CloseConnection", old, None))]

\* fn supersede_connection: the application learns of the close at once, the
\* transport only after that event has been surfaced; a ping that was queued
\* moves to the replacement.
SupersedeConnection(k, old) ==
    LET p  == k.conn_to_peer[old]
        k1 == IF p = None THEN k
              ELSE ForgetPeer(Emit([k EXCEPT !.conn_to_peer[old] = None],
                                   Event("ConnectionClosed", p, old, None)), p)
    IN  [ForgetConnectionStreams(k1, old) EXCEPT
            !.conn_to_remote_addr = @ \ {old},
            !.actions = ActionsNotOn(@, old),
            !.after_event_actions =
                Append(ActionsNotOn(@, old), Action("CloseConnection", old, None))]

\* A mutant of RegisterConnection: the previous connection is left alone.
RegisterNoSupersede(k, c, p) ==
    LET k1 == Emit([k EXCEPT !.conn_to_peer[c] = p, !.peer_to_conn[p] = c,
                             !.established_peers = @ \cup {p}],
                   Event("ConnectionEstablished", p, c, None))
    IN  QueueOpenProtocolStream(k1, p, "IdentifyInitiator")

\* fn register_connection: the last connection to a peer wins.
RegisterConnection(k, c, p) ==
    LET isNew == k.conn_to_peer[c] = None
        k1 == IF k.peer_to_conn[p] \notin {None, c}
              THEN SupersedeConnection(k, k.peer_to_conn[p]) ELSE k
        k2 == [k1 EXCEPT !.conn_to_peer[c] = p, !.peer_to_conn[p] = c]
        k3 == Emit([k2 EXCEPT !.established_peers = @ \cup {p}],
                   Event("ConnectionEstablished", p, c, None))
        k4 == QueueOpenProtocolStream(k3, p, "IdentifyInitiator")
    IN  CASE ~isNew -> k2
          [] isNew /\ k4.pending_pings[p] # None /\ FindNegotiatedPingStream(k4, p) = None
                   /\ ~HasPendingPingStream(k4, p) -> QueueOpenProtocolStream(k4, p, "Ping")
          [] OTHER -> k4

\* A map entry re-keyed from `old` to `new`, as `if let Some(v) = map.remove(old)`
\* does.
Rekey(f, old, new) ==
    IF f[old] = None THEN f ELSE [f EXCEPT ![new] = f[old], ![old] = None]

RekeySet(S, old, new) == IF old \in S THEN (S \ {old}) \cup {new} ELSE S

\* fn migrate_buffered_events
MigrateBufferedEvents(evs, old, new) ==
    [i \in DOMAIN evs |-> IF evs[i].peer = old THEN [evs[i] EXCEPT !.peer = new] ELSE evs[i]]

\* Everything known under the placeholder moves to the verified peer.
MigratePeer(k, old, new) ==
    [k EXCEPT !.peer_to_conn[old] = None,
              !.ping = Rekey(@, old, new),
              !.identify = Rekey(@, old, new),
              !.pending_pings = Rekey(@, old, new),
              !.ping_deadlines = Rekey(@, old, new),
              !.peer_info = Rekey(@, old, new),
              !.ready_peers = RekeySet(@, old, new),
              !.established_peers = RekeySet(@, old, new),
              !.events = MigrateBufferedEvents(@, old, new)]

\* fn upgrade_connection_identity
UpgradeConnectionIdentity(k, c, p) ==
    LET stale == k.conn_to_peer[c]
        k1 == IF stale = None THEN k ELSE MigratePeer(k, stale, p)
        k2 == [k1 EXCEPT !.conn_to_peer[c] = p,
                         !.peer_to_conn[p] = c,
                         !.established_peers = @ \cup {p}]
        k3 == TryEmitPeerReady(Emit(k2, Event("ConnectionEstablished", p, c, None)), p)
    IN  IF stale = p THEN k ELSE QueueOpenProtocolStream(k3, p, "IdentifyInitiator")

RecordAddr(k, c) == [k EXCEPT !.conn_to_remote_addr = @ \cup {c}]

\* fn handle_transport_event, the connection events.  `p` is the peer id of the
\* endpoint, None when the transport does not know it yet.
HandleConnected(k, c, p) ==
    IF p = None
    THEN EnsurePeerIdForConn(RecordAddr(k, c), c)
    ELSE RegisterConnection(RecordAddr(k, c), c, p)

HandlePeerIdentityVerified(k, c, p) == UpgradeConnectionIdentity(RecordAddr(k, c), c, p)

HandleIncomingConnection(k, c) == RecordAddr(k, c)

HandleTransportError(k, c) == EmitError(k, EstablishedPeerForConn(k, c), c, None)

\* fn handle_connection_closed
HandleConnectionClosed(k, c) ==
    LET p  == k.conn_to_peer[c]
        k1 == [k EXCEPT !.conn_to_peer[c] = None,
                        !.conn_to_remote_addr = @ \ {c}]
    IN  ForgetConnectionStreams(
            IF p = None \/ k.peer_to_conn[p] # c THEN k1
            ELSE Emit(ForgetPeer([k1 EXCEPT !.peer_to_conn[p] = None, !.pending_pings[p] = None],
                                 p), Event("ConnectionClosed", p, c, None)), c)

-----------------------------------------------------------------------------
(* Streams. *)

SendStream(k, c, s)  == Act(k, Action("SendStream", c, s))
QueueReset(k, c, s)  == Act(k, Action("ResetStream", c, s))

\* fn handle_stream_opened: the driver's answer to OpenStream.  The dialer's
\* multistream header is sent at once.
HandleStreamOpened(k, c, s, tok) ==
    LET matching == {o \in k.pending_opens : o.token = tok}
        k1 == [k EXCEPT !.pending_opens = @ \ matching]
        o  == CHOOSE x \in matching : TRUE
    IN  CASE matching = {} -> EmitError(k, None, None, None)
          [] matching # {} /\ o.conn_id # c ->
                EmitError(k1, EstablishedPeerForConn(k1, c), c, None)
          [] OTHER -> SendStream([k1 EXCEPT !.outbound_negotiators[<<c, s>>] = o.target], c, s)

\* fn handle_open_stream_failed
HandleOpenStreamFailed(k, tok) ==
    LET matching == {o \in k.pending_opens : o.token = tok}
        o  == CHOOSE x \in matching : TRUE
    IN  IF matching = {}
        THEN EmitError(k, None, None, None)
        ELSE EmitError([k EXCEPT !.pending_opens = @ \ matching],
                       EstablishedPeerForConn(k, o.conn_id), o.conn_id, None)

\* fn handle_incoming_stream: the listener's multistream header is sent at once.
HandleIncomingStream(k, c, s) ==
    SendStream([k EXCEPT !.inbound_negotiators = @ \cup {<<c, s>>}], c, s)

\* fn dispatch_protocol_data
DispatchProtocolData(k, c, s, data, oversized, now) ==
    LET kind == k.stream_owner[<<c, s>>]
        k1   == EnsurePeerIdForConn(k, c)
        p    == k1.conn_to_peer[c]
    IN  CASE kind = None -> k
          [] kind = "Ping" -> InformPing(k1, p, OnStreamData(PingOf(k1, p), s, data, now))
          [] kind = "IdentifyInitiator" -> IdentifyData(k1, p, s, oversized)
          [] kind = "IdentifyResponder" -> k1
          [] kind = "User" -> Emit(k1, Event("StreamData", p, c, s))

\* fn on_inbound_negotiated; the protocol is one of inbound_protocols.
OnInboundNegotiated(k, c, s, protocol) ==
    LET k1    == EnsurePeerIdForConn(k, c)
        p     == k1.conn_to_peer[c]
        Own(kind) == [k1 EXCEPT !.stream_owner[<<c, s>>] = kind]
    IN  CASE protocol = "ping" ->
                DrainPing(Own("Ping"), p, RegisterInboundStream(PingOf(k1, p), s))
          [] protocol = "identify" ->
                IF IdentifyOf(k1, p).outbound_stream # None
                THEN QueueReset(EmitError(IdentifyRespond(k1, p, s), p, c, None), c, s)
                ELSE IdentifyRespond(Own("IdentifyResponder"), p, s)
          [] protocol = "user" -> Emit(Own("User"), Event("StreamReady", p, c, s))

\* The Ping part of fn on_outbound_negotiated: a second ping stream is refused,
\* a queued payload is sent as soon as the stream is registered.
OnPingNegotiated(k, p, c, s, now) ==
    LET st == PingOf(k, p)
        k1 == DrainPing(k, p, RegisterOutboundStream(st, s))
        k2 == [k1 EXCEPT !.pending_pings[p] = None]
    IN  CASE RegisterOutboundRejected(st, s) ->
                QueueReset(EmitError([k EXCEPT !.stream_owner[<<c, s>>] = None,
                                               !.ping[p] = st], p, c, None), c, s)
          [] ~RegisterOutboundRejected(st, s) /\ k1.pending_pings[p] # None ->
                IF SendPingRejected(k1.ping[p])
                THEN EmitError(k2, p, c, None)
                ELSE RecordPingDeadline(
                        DrainPing(k2, p, SendPing(k1.ping[p], k1.pending_pings[p], now)), p, now)
          [] OTHER -> k1

\* fn on_outbound_negotiated
OnOutboundNegotiated(k, c, s, target, now) ==
    LET k1 == EnsurePeerIdForConn(k, c)
        p  == k1.conn_to_peer[c]
        k2 == [k1 EXCEPT !.stream_owner[<<c, s>>] = target]
    IN  CASE target = "Ping" -> OnPingNegotiated(k2, p, c, s, now)
          [] target = "IdentifyInitiator" -> IdentifyListen(k2, p, s)
          [] target = "User" -> Emit(k2, Event("StreamReady", p, c, s))

\* The bytes the negotiator did not consume go to the protocol it settled on.
WithRemaining(k, c, s, data, oversized, now) ==
    IF data = <<>> THEN k ELSE DispatchProtocolData(k, c, s, data, oversized, now)

NegotiationFailed(k, c, s) ==
    QueueReset(EmitError(k, EstablishedPeerForConn(k, c), c, s), c, s)

\* fn feed_inbound_negotiator.  `line` is what the listener made of the bytes:
\* nothing yet, an unsupported protocol (it answers na and stays), an error, or
\* the protocol agreed on (it echoes it first).
FeedInboundNegotiator(k, c, s, line, data, oversized, now) ==
    LET gone == [k EXCEPT !.inbound_negotiators = @ \ {<<c, s>>}]
    IN  CASE line = "incomplete" -> k
          [] line = "unavailable" -> SendStream(k, c, s)
          [] line = "error" -> NegotiationFailed(gone, c, s)
          [] line \in {"ping", "identify", "user"} ->
                WithRemaining(OnInboundNegotiated(SendStream(gone, c, s), c, s, line),
                              c, s, data, oversized, now)

\* fn feed_outbound_negotiator: na is final for a dialer.
FeedOutboundNegotiator(k, c, s, line, data, oversized, now) ==
    LET target == k.outbound_negotiators[<<c, s>>]
        gone   == [k EXCEPT !.outbound_negotiators[<<c, s>>] = None]
    IN  CASE line = "incomplete" -> k
          [] line = "header" -> SendStream(k, c, s)
          [] line \in {"unavailable", "error"} -> NegotiationFailed(gone, c, s)
          [] line = "accepted" ->
                WithRemaining(OnOutboundNegotiated(gone, c, s, target, now),
                              c, s, data, oversized, now)

\* fn handle_stream_data: a stream is first a listener's, then a dialer's
\* negotiation, and only then its owner's.
HandleStreamData(k, c, s, line, data, oversized, now) ==
    CASE <<c, s>> \in k.inbound_negotiators ->
            FeedInboundNegotiator(k, c, s, line, data, oversized, now)
      [] <<c, s>> \notin k.inbound_negotiators /\ k.outbound_negotiators[<<c, s>>] # None ->
            FeedOutboundNegotiator(k, c, s, line, data, oversized, now)
      [] OTHER -> DispatchProtocolData(k, c, s, data, oversized, now)

\* fn handle_stream_remote_write_closed
HandleStreamRemoteWriteClosed(k, c, s, info) ==
    LET kind == k.stream_owner[<<c, s>>]
        k1   == EnsurePeerIdForConn(k, c)
        p    == k1.conn_to_peer[c]
    IN  CASE kind = None -> k
          [] kind = "Ping" -> InformPing(k1, p, OnStreamRemoteWriteClosed(PingOf(k1, p), s))
          [] kind = "IdentifyInitiator" -> IdentifyFinished(k1, p, s, info)
          [] kind = "IdentifyResponder" -> k1
          [] kind = "User" -> Emit(k1, Event("StreamRemoteWriteClosed", p, c, s))

\* fn handle_stream_closed
HandleStreamClosed(k, c, s) ==
    LET key  == <<c, s>>
        kind == k.stream_owner[key]
        p    == k.conn_to_peer[c]
        k1   == [k EXCEPT !.reset_pending = @ \ {key},
                          !.abandoned_streams = @ \ {key},
                          !.inbound_negotiators = @ \ {key},
                          !.outbound_negotiators[key] = None]
        k2   == [k1 EXCEPT !.stream_owner[key] = None]
    IN  CASE key \in k.abandoned_streams -> k1
          [] key \notin k.abandoned_streams /\ (kind = None \/ p = None) -> k2
          [] OTHER ->
                CASE kind = "Ping" -> InformPing(k2, p, OnStreamClosed(PingOf(k2, p), s))
                  [] kind \in {"IdentifyInitiator", "IdentifyResponder"} ->
                        IdentifyClosed(k2, p, s)
                  [] kind = "User" -> Emit(k2, Event("StreamClosed", p, c, s))

\* fn handle_tick: the pings that timed out, then deadlines that nothing is
\* waiting for.  One peer's timeout does not touch another's.
HandleTick(k, now) ==
    LET due    == {p \in PeerIds : TimedOut(PingOf(k, p), now)}
        Out(p) == OnTick(PingOf(k, p), now)
        order  == SetToSeq(due)
        InTurn(Outputs(_)) == FlattenSeq([i \in DOMAIN order |-> Outputs(order[i])])
    IN  [k EXCEPT
            !.ping = [p \in PeerIds |-> IF p \in due THEN Out(p).state ELSE @[p]],
            !.actions = @ \o InTurn(LAMBDA p : PingActionsFor(k, p, Out(p).actions)),
            !.events = @ \o InTurn(LAMBDA p : PingEventsFor(k, p, Out(p).events)),
            !.ping_deadlines =
                [p \in PeerIds |-> IF p \in due \/ (@[p] # None /\ @[p] <= now)
                                  THEN None ELSE @[p]]]

-----------------------------------------------------------------------------
(* What the application asks for.  Each intent has a guard, the code's early *)
(* returns, and an effect.                                                  *)

\* fn ping: on the negotiated stream, behind one under negotiation, or on a
\* new one.
PingAccepted(k, p) ==
    /\ k.peer_to_conn[p] # None
    /\ FindNegotiatedPingStream(k, p) # None => ~SendPingRejected(PingOf(k, p))

PingPeer(k, p, payload, now) ==
    LET queued == [k EXCEPT !.pending_pings[p] = payload]
    IN  CASE FindNegotiatedPingStream(k, p) # None ->
                DrainPing(RecordPingDeadline(k, p, now), p, SendPing(PingOf(k, p), payload, now))
          [] FindNegotiatedPingStream(k, p) = None /\ HasPendingPingStream(k, p) -> queued
          [] OTHER -> QueueOpenProtocolStream(queued, p, "Ping")

\* fn open_stream, for the user protocol.
OpenStreamAccepted(k, p) ==
    /\ k.peer_to_conn[p] # None
    /\ p \in k.ready_peers => k.peer_info[p] = "supported"

OpenUserStream(k, p) == QueueOpenProtocolStream(k, p, "User")

UserConns(k, p, s) == OwningConns(k, p, s, "User")

\* fn send_stream and fn close_stream_write
SendUserStream(k, p, s)  == Act(k, Action("SendStream", FirstConn(UserConns(k, p, s)), s))
CloseStreamWrite(k, p, s) == Act(k, Action("CloseStreamWrite", FirstConn(UserConns(k, p, s)), s))

\* A mutant of ResetOnce: a pending reset is not noticed.
ResetEveryTime(k, key) == QueueReset([k EXCEPT !.reset_pending = @ \cup {key}], key[1], key[2])

\* A user-stream reset is queued unless one is already pending.
ResetOnce(k, key) ==
    IF key \in k.reset_pending
    THEN k
    ELSE QueueReset([k EXCEPT !.reset_pending = @ \cup {key}], key[1], key[2])

\* fn reset_stream
ResetUserStream(k, p, s) == ResetOnce(k, <<FirstConn(UserConns(k, p, s)), s>>)

\* fn reset_stream_failed
ResetStreamFailed(k, c, s) == [k EXCEPT !.reset_pending = @ \ {<<c, s>>}]

\* SwarmEvent::matches_stream: by peer and stream id, whatever the connection.
MatchesStream(e, p, s) ==
    /\ e.type \in {"StreamReady", "StreamData", "StreamRemoteWriteClosed", "StreamClosed"}
    /\ e.peer = p
    /\ e.stream = s

WithoutStream(evs, p, s) == SelectSeq(evs, LAMBDA e : ~MatchesStream(e, p, s))

\* stream_action_matches, used to purge a queue.
ActionsNotOnStream(q, c, s) ==
    SelectSeq(q, LAMBDA a : ~(/\ a.type \in {"SendStream", "CloseStreamWrite", "ResetStream"}
                             /\ a.conn = c
                             /\ a.stream = s))

\* fn forget_stream: ownership moves to another layer.
ForgetStream(k, c, s) ==
    [k EXCEPT !.stream_owner[<<c, s>>] = None,
              !.outbound_negotiators[<<c, s>>] = None,
              !.inbound_negotiators = @ \ {<<c, s>>},
              !.reset_pending = @ \ {<<c, s>>},
              !.abandoned_streams = @ \ {<<c, s>>},
              !.actions = ActionsNotOnStream(@, c, s),
              !.after_event_actions = ActionsNotOnStream(@, c, s)]

\* The connections on which fn abandon_stream finds the stream, in its order of
\* preference: abandoned before, still negotiating, owned by the user.
AbandonedConns(k, p, s) ==
    {c \in Conns : <<c, s>> \in k.abandoned_streams /\ k.conn_to_peer[c] = p}

DialingConns(k, p, s) ==
    {c \in Conns : k.outbound_negotiators[<<c, s>>] # None /\ k.conn_to_peer[c] = p}

\* fn abandon_stream: queued events go even when the stream is unknown.
AbandonStream(k, p, s) ==
    LET k1    == [k EXCEPT !.events = WithoutStream(@, p, s)]
        again == AbandonedConns(k, p, s)
        conns == IF DialingConns(k, p, s) # {} THEN DialingConns(k, p, s) ELSE UserConns(k, p, s)
        key   == <<FirstConn(conns), s>>
    IN  CASE again # {} -> ResetOnce(k1, <<FirstConn(again), s>>)
          [] again = {} /\ conns = {} -> k1
          [] OTHER -> [ResetOnce(k1, key) EXCEPT
                        !.abandoned_streams = @ \cup {key},
                        !.stream_owner[key] = None,
                        !.inbound_negotiators = @ \ {key},
                        !.outbound_negotiators[key] = None]

\* fn disconnect
Disconnect(k, p) == Act(k, Action("CloseConnection", k.peer_to_conn[p], None))

\* fn next_timeout: the earliest armed ping timer, relative to now.
NextTimeout(k, now) ==
    LET armed == {k.ping_deadlines[p] : p \in PeerIds} \ {None}
        due   == CHOOSE d \in armed : \A e \in armed : d <= e
    IN  IF armed = {} THEN None ELSE IF due > now THEN due - now ELSE 0
=============================================================================
