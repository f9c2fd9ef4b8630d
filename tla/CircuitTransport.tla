-------------------------- MODULE CircuitTransport --------------------------
(***************************************************************************)
(* CircuitTransport, crates/circuit/src/lib.rs: connections over a relay's *)
(* bridge streams, next to the connections of the transport it wraps (a    *)
(* TransportSet).  A bridge is adopted once the relay protocol has opened  *)
(* it; from then on its events feed a SecureMux session and never reach    *)
(* the host, not even those that arrive after the circuit is gone.         *)
(*                                                                         *)
(* A site x is one endpoint at work: its circuit transport c, the set it   *)
(* wraps, and the network.  The network is external: q[e][i] are the       *)
(* events the i-th member of e's set has ready, and a bridge, stream b on  *)
(* the connection to the relay, is what an end may still do with it.       *)
(***************************************************************************)
EXTENDS SecureMux

-----------------------------------------------------------------------------
(***************************************************************************)
(* TransportSet, crates/transport/src/set.rs: several transports behind    *)
(* one.  A call on a connection is routed by the namespace of its id       *)
(* (connection_id.rs), a dial by the kind of the address; a poll polls     *)
(* every member, and what one reports is not lost when another fails.      *)
(*                                                                         *)
(* A member is its kind, the namespaces it claims and whether its next     *)
(* poll fails; the events it has ready are in the network's q.             *)
(***************************************************************************)

\* struct ConnectionId, struct ConnectionIdAllocator
ConnectionId(namespace, sequence) == [ns |-> namespace, seq |-> sequence]
IsCircuit(id) == id.ns = "circuit"
Peek(alloc, MAX_SEQUENCE) == IF alloc > MAX_SEQUENCE THEN None ELSE ConnectionId("circuit", alloc)

\* enum TransportEvent
Event(ev, id, s, v) == [ev |-> ev, id |-> id, s |-> s, v |-> v]

\* struct TransportSet
NewSet == [members |-> <<>>, pending |-> <<>>, failures |-> <<>>]

\* fn conflict, fn insert
Claimed(set)  == UNION {set.members[i].namespaces : i \in DOMAIN set.members}
Conflict(set, kind, namespaces) ==
    \/ namespaces = {}
    \/ \E i \in DOMAIN set.members : set.members[i].kind = kind
    \/ namespaces \intersect Claimed(set) # {}
Insert(set, kind, namespaces) ==
    IF Conflict(set, kind, namespaces) THEN set
    ELSE [set EXCEPT !.members = Append(@, [kind |-> kind, namespaces |-> namespaces, fails |-> FALSE])]

\* fn index_for_id, fn index_for_addr: 0 when no member owns it.
IndexForId(set, id) == SelectInSeq(set.members, LAMBDA m : id.ns \in m.namespaces)
IndexForAddr(set, kind) == SelectInSeq(set.members, LAMBDA m : m.kind = kind)

\* Mutant of PollMember: the events collected so far go with a failing member.
PollMemberDrops(acc, i) ==
    IF acc.set.members[i].fails
    THEN [acc EXCEPT !.set.failures = Append(@, i), !.set.members[i].fails = FALSE, !.set.pending = <<>>]
    ELSE [acc EXCEPT !.set.pending = @ \o acc.q[i], !.q[i] = <<>>]

\* fn poll: every member, even after one fails.
PollMember(acc, i) ==
    IF acc.set.members[i].fails
    THEN [acc EXCEPT !.set.failures = Append(@, i), !.set.members[i].fails = FALSE]
    ELSE [acc EXCEPT !.set.pending = @ \o acc.q[i], !.q[i] = <<>>]
Answer(set, q, failed, events) == [set |-> set, q |-> q, failed |-> failed, events |-> events]
Settle(acc) ==
    IF acc.set.failures # <<>>
    THEN Answer([acc.set EXCEPT !.failures = Tail(@)], acc.q, TRUE, <<>>)
    ELSE Answer([acc.set EXCEPT !.pending = <<>>], acc.q, FALSE, acc.set.pending)
SetPoll(set, q) ==
    IF set.pending # <<>> THEN Answer([set EXCEPT !.pending = <<>>], q, FALSE, set.pending)
    ELSE IF set.failures # <<>> THEN Answer([set EXCEPT !.failures = Tail(@)], q, TRUE, <<>>)
    ELSE Settle(FoldLeft(PollMember, [set |-> set, q |-> q], [i \in DOMAIN set.members |-> i]))

-----------------------------------------------------------------------------
(* The circuit transport *)

CONSTANTS
    Bridges,                \* the streams that a relay may bridge
    MAX_RETIRED_BRIDGES,
    MAX_SEQUENCE

Ends     == {"A", "B"}
Other(e) == IF e = "A" THEN "B" ELSE "A"
Relay    == ConnectionId("tcp", 1)      \* the connection to the relay
Direct   == ConnectionId("quic", 1)     \* a connection to the other end
Seqs     == 1..MAX_SEQUENCE
CircuitId(n) == ConnectionId("circuit", n)

\* struct CircuitTransport, struct Circuit
NewTransport ==
    [ circuits |-> [n \in Seqs |-> None], retired |-> <<>>, active_inner |-> {},
      direct_by_conn |-> {}, pending |-> <<>>, next |-> 1 ]
NewCircuit(b, remote_peer, role, identity) ==
    [ bridge |-> b, remote_peer |-> remote_peer, role |-> role,
      session |-> NewSecure(role, identity, remote_peer) ]

\* bridge_index, direct_by_peer
Riding(x, b)  == {n \in Seqs : x.c.circuits[n] # None /\ x.c.circuits[n].bridge = b}
IsDirect(x, peer) == \E d \in x.c.direct_by_conn : d.peer = peer
IsReady(x, n) == IsEstablished(x.c.circuits[n].session)
IsRetired(x, b) == \E i \in DOMAIN x.c.retired : x.c.retired[i] = b

Push(x, ev)  == [x EXCEPT !.c.pending = Append(@, ev)]
Fault(x, er) == [x EXCEPT !.err = IF @ = None THEN er ELSE @]

-----------------------------------------------------------------------------
(* The wrapped transport (external). *)

Queue(x, e, i, ev) == [x EXCEPT !.net.q[e][i] = Append(@, ev)]
ToRelayMember(x) == IndexForId(x.set, Relay)
BridgeEvent(x, e, ev, b, v) == Queue(x, e, ToRelayMember(x), Event(ev, Relay, b, v))

MayWrite(x, e, b) == x.net.up[e] /\ x.net.open[e][b] /\ ~x.net.fin[e][b]
\* A write is refused when the stream is not writable and when the relay's connection
\* buffers no more.
SendBridge(x, e, b, tok) ==
    IF ~MayWrite(x, e, b) \/ e \in x.net.full THEN Fault(x, "fault")
    ELSE IF ~x.net.open[Other(e)][b] THEN x
    ELSE BridgeEvent(x, Other(e), "StreamData", b, <<tok>>)
\* The last end to finish writing closes the stream for both.
CloseBridge(x, e, b) ==
    LET shut == [x EXCEPT !.net.fin[e][b] = TRUE]
        told == BridgeEvent(shut, Other(e), "StreamRemoteWriteClosed", b, None)
    IN  IF ~MayWrite(x, e, b) THEN Fault(x, "fault")
        ELSE IF ~x.net.open[Other(e)][b] THEN shut
        ELSE IF ~x.net.fin[Other(e)][b] THEN told
        ELSE BridgeEvent(BridgeEvent([told EXCEPT !.net.open["A"][b] = FALSE, !.net.open["B"][b] = FALSE],
                                     e, "StreamClosed", b, None), Other(e), "StreamClosed", b, None)
ResetBridge(x, e, b) ==
    LET gone == [x EXCEPT !.net.open["A"][b] = FALSE, !.net.open["B"][b] = FALSE]
    IN  IF ~(x.net.up[e] /\ x.net.open[e][b]) THEN x
        ELSE IF ~x.net.open[Other(e)][b] THEN BridgeEvent(gone, e, "StreamClosed", b, None)
        ELSE BridgeEvent(BridgeEvent(gone, e, "StreamClosed", b, None), Other(e), "StreamClosed", b, None)

-----------------------------------------------------------------------------
(* Retired bridges: their late events are dropped, as long as they are remembered. *)

\* Mutant of RetireBridge: nothing is remembered.
RetireNothing(x, b) == x

RetireBridge(x, b) ==
    LET order == Append(x.c.retired, b)
    IN  IF IsRetired(x, b) THEN x
        ELSE [x EXCEPT !.c.retired = IF Len(order) > MAX_RETIRED_BRIDGES THEN Tail(order) ELSE order]
ReleaseRetiredBridge(x, b) == [x EXCEPT !.c.retired = SelectSeq(@, LAMBDA k : k # b)]
ReleaseRetiredBridgesForConnection(x) == [x EXCEPT !.c.retired = <<>>]

-----------------------------------------------------------------------------
(* fn pump, fn fail_circuit *)

Named(o) == CASE o = "Established" -> "Connected"
              [] o = "Data" -> "StreamData"
              [] o = "RemoteWriteClosed" -> "StreamRemoteWriteClosed"
              [] OTHER -> o

\* A verified direct connection outranks a relayed one.
PumpOne(x, e, n, out) ==
    CASE x.err # None -> x
      [] x.err = None /\ out.o = "Write" -> SendBridge(x, e, x.c.circuits[n].bridge, out.v)
      [] x.err = None /\ out.o = "Established" /\ IsDirect(x, out.v) -> Fault(x, "fault")
      [] OTHER -> Push(x, Event(Named(out.o), CircuitId(n), out.s, out.v))
Pump(x, e, n) ==
    FoldLeft(LAMBDA y, out : PumpOne(y, e, n, out),
             [x EXCEPT !.c.circuits[n].session.outputs = <<>>, !.err = None],
             x.c.circuits[n].session.outputs)

FailCircuit(x, e, n, emit_error) ==
    LET b     == x.c.circuits[n].bridge
        reset == ResetBridge(RetireBridge([x EXCEPT !.c.circuits[n] = None, !.err = None], b), e, b)
    IN  IF x.c.circuits[n] = None THEN x
        ELSE Push(IF emit_error THEN Push(reset, Event("Error", CircuitId(n), None, None)) ELSE reset,
                  Event("Closed", CircuitId(n), None, None))

\* The session after an input is pumped whether or not the input failed.
Settled(x, e, n, pre_ready, fed) ==
    LET error == IF fed # None THEN fed ELSE x.err
    IN  IF error = None THEN x ELSE FailCircuit(x, e, n, pre_ready \/ error # "GoAway")
Drive(x, e, n, session) ==
    FoldLeft(LAMBDA y, pumped : Settled(pumped, e, n, ~IsReady(x, n), session.err), x,
             <<Pump([x EXCEPT !.c.circuits[n].session = [session EXCEPT !.err = None]], e, n)>>)
Feed(x, e, n, data) ==
    FoldLeft(LAMBDA y, session : Drive(y, e, n, session), x,
             <<HandleInput(x.c.circuits[n].session, data)>>)

-----------------------------------------------------------------------------
(* fn inject_bridge_data, fn inject_bridge_remote_write_closed, fn inject_bridge_closed *)

FailRiding(x, e, ns) ==
    FoldLeft(LAMBDA y, n : FailCircuit(y, e, n, ~IsReady(x, n)), x, SetToSortSeq(ns, LAMBDA a, b : a < b))
InjectBridgeData(x, e, b, data) ==
    FoldLeft(LAMBDA y, n : Feed(y, e, n, data), x, SetToSeq(Riding(x, b)))
InjectBridgeRemoteWriteClosed(x, e, b) == FailRiding(x, e, Riding(x, b))
InjectBridgeClosed(x, e, b) == FailRiding(ReleaseRetiredBridge(x, b), e, Riding(x, b))

Inject(x, e, ev) ==
    CASE ev.ev = "StreamData" -> InjectBridgeData(x, e, ev.s, ev.v)
      [] ev.ev = "StreamRemoteWriteClosed" -> InjectBridgeRemoteWriteClosed(x, e, ev.s)
      [] ev.ev = "StreamClosed" -> InjectBridgeClosed(x, e, ev.s)

-----------------------------------------------------------------------------
(* fn adopt_bridge.  an adoption is [bridge, peer, role, data, fin]. *)

AdoptFails(x, a) ==
    \/ a.fin \/ Relay \notin x.c.active_inner \/ IsDirect(x, a.peer) \/ Peek(x.c.next, MAX_SEQUENCE) = None
Adopted(x, e, a, n) ==
    LET fresh == [x EXCEPT !.c.next = @ + 1, !.c.circuits[n] = NewCircuit(a.bridge, a.peer, a.role, e)]
    IN  IF a.role = "Responder" THEN Push(fresh, Event("IncomingConnection", CircuitId(n), None, None))
        ELSE fresh
\* A session that starts and then takes what arrived before the adoption.
Begin(x, e, n) ==
    LET y == Pump([x EXCEPT !.c.circuits[n].session = Start(@)], e, n)
    IN  IF y.err # None THEN FailCircuit(y, e, n, TRUE) ELSE y
AdoptBridge(x, e, a) ==
    IF Riding(x, a.bridge) # {} \/ AdoptFails(x, a) THEN x
    ELSE FoldLeft(LAMBDA y, step : CASE step = "adopt" -> Adopted(y, e, a, x.c.next)
                                     [] step = "start" -> Begin(y, e, x.c.next)
                                     [] step = "feed"  -> IF a.data = <<>> THEN y
                                                          ELSE InjectBridgeData(y, e, a.bridge, a.data),
                  x, <<"adopt", "start", "feed">>)

-----------------------------------------------------------------------------
(* fn handle_inner_event *)

\* Mutant of RecordDirect: circuits under way go on.
RecordDirectOnly(x, e, id, peer) ==
    [x EXCEPT !.c.direct_by_conn = {d \in @ : d.conn # id} \union {[conn |-> id, peer |-> peer]}]

RecordDirect(x, e, id, peer) ==
    LET known  == [x EXCEPT !.c.direct_by_conn =
                      {d \in @ : d.conn # id} \union {[conn |-> id, peer |-> peer]}]
        losers == {n \in Seqs : x.c.circuits[n] # None /\ ~IsReady(x, n) /\ x.c.circuits[n].remote_peer = peer}
    IN  FailRiding(known, e, losers)
RemoveDirect(x, id) == [x EXCEPT !.c.direct_by_conn = {d \in @ : d.conn # id}]

\* fn reject_inner_collision.  No member of the set owns a circuit's id, so that its
\* inner.close is refused, and the refusal ignored.
RejectInnerCollision(x, id) ==
    Push(RemoveDirect([x EXCEPT !.c.active_inner = @ \ {id}], id), Event("Error", id, None, None))

\* The relay's connection is gone: circuits that ride on it fail first.
OnClosed(x, e, id) ==
    LET gone == RemoveDirect([x EXCEPT !.c.active_inner = @ \ {id}], id)
        rode == IF id # Relay THEN gone
                ELSE ReleaseRetiredBridgesForConnection(
                         FailRiding(gone, e, {n \in Seqs : x.c.circuits[n] # None}))
    IN  Push(rode, Event("Closed", id, None, None))

HandleInnerEvent(x, e, ev) ==
    LET bridge == ev.id = Relay /\ ev.s # None
        mine   == bridge /\ Riding(x, ev.s) # {}
        late   == bridge /\ IsRetired(x, ev.s)
    IN  CASE IsCircuit(ev.id) -> RejectInnerCollision(x, ev.id)
          [] ~IsCircuit(ev.id) /\ ev.ev = "IncomingConnection" ->
                Push([x EXCEPT !.c.active_inner = @ \union {ev.id}], ev)
          [] ~IsCircuit(ev.id) /\ ev.ev = "Connected" ->
                Push(RecordDirect([x EXCEPT !.c.active_inner = @ \union {ev.id}], e, ev.id, ev.v), ev)
          [] ~IsCircuit(ev.id) /\ ev.ev = "PeerIdentityVerified" -> Push(RecordDirect(x, e, ev.id, ev.v), ev)
          [] ~IsCircuit(ev.id) /\ ev.ev \in {"StreamData", "StreamRemoteWriteClosed"} ->
                IF mine THEN Inject(x, e, ev) ELSE IF late THEN x ELSE Push(x, ev)
          [] ~IsCircuit(ev.id) /\ ev.ev = "StreamClosed" ->
                IF mine \/ late THEN Inject(x, e, ev) ELSE Push(x, ev)
          [] ~IsCircuit(ev.id) /\ ev.ev = "Closed" -> OnClosed(x, e, ev.id)

-----------------------------------------------------------------------------
(* The host's calls on a circuit. *)

\* fn operate_session
Operated(x, e, n, refused) ==
    IF x.err # None THEN [FailCircuit(x, e, n, FALSE) EXCEPT !.err = "PollError"]
    ELSE IF refused \in {"Protocol", "GoAway"} THEN [FailCircuit(x, e, n, FALSE) EXCEPT !.err = "PollError"]
    ELSE Fault(x, refused)
OperateSession(x, e, n, session) ==
    FoldLeft(LAMBDA y, pumped : Operated(pumped, e, n, session.err), x,
             <<Pump([x EXCEPT !.c.circuits[n].session = [session EXCEPT !.err = None]], e, n)>>)
OpenStreamOn(x, e, n) ==
    LET y == OperateSession(x, e, n, SessionOpen(x.c.circuits[n].session))
    IN  IF y.err # None THEN y
        ELSE Push(y, Event("StreamOpened", CircuitId(n), x.c.circuits[n].session.yamux.next_stream_id, None))
SendStream(x, e, n, s, data) == OperateSession(x, e, n, SessionSend(x.c.circuits[n].session, s, data))
CloseStreamWrite(x, e, n, s) == OperateSession(x, e, n, SessionCloseWrite(x.c.circuits[n].session, s))
ResetStream(x, e, n, s)      == OperateSession(x, e, n, SessionReset(x.c.circuits[n].session, s))

\* fn close: a GoAway and a half-close, or a reset, and one Closed.
CloseCircuit(x, e, n) ==
    LET b     == x.c.circuits[n].bridge
        away  == SessionGoAway(x.c.circuits[n].session)
        flush == Pump([x EXCEPT !.c.circuits[n].session = [away EXCEPT !.err = None]], e, n)
        shut  == CloseBridge(flush, e, b)
        left  == IF away.err = None /\ flush.err = None /\ shut.err = None THEN shut ELSE ResetBridge(flush, e, b)
    IN  Push(RetireBridge([left EXCEPT !.c.circuits[n] = None, !.err = None], b),
             Event("Closed", CircuitId(n), None, None))

-----------------------------------------------------------------------------
(* fn poll *)

Keepalive(x, e, n, now) ==
    IF x.c.circuits[n] = None \/ ~IsReady(x, n) THEN x
    ELSE Drive(x, e, n, SessionPoll(x.c.circuits[n].session, now))
Took(x, e, r, now) ==
    LET fed == FoldLeft(LAMBDA y, ev : HandleInnerEvent(y, e, ev),
                        [x EXCEPT !.set = r.set, !.net.q[e] = r.q, !.err = None], r.events)
    IN  IF r.failed THEN Fault([x EXCEPT !.set = r.set, !.net.q[e] = r.q], "PollError")
        ELSE FoldLeft(LAMBDA y, n : Keepalive(y, e, n, now), fed, [i \in Seqs |-> i])
PollTransport(x, e, now) ==
    IF x.c.pending # <<>> THEN x
    ELSE FoldLeft(LAMBDA y, r : Took(y, e, r, now), x, <<SetPoll(x.set, x.net.q[e])>>)
=============================================================================
