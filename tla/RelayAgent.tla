----------------------------- MODULE RelayAgent -----------------------------
(* RelayServerAgent (crates/relay-server/src/agent.rs) with the wire machines it
   drives, HopResponder and StopInitiator (crates/relay/src/server.rs), as
   operators that take the agent `a` to its next state.  `a.actions` and
   `a.events` are its output queues.

   A stream is a pair <<connection, stream id>>.  A connection belongs to one
   peer.  The agent drains a wire machine as soon as it fed it, so that a worker
   is reduced to its phase.  A correlation token stands for exactly one queued
   action, which carries the pending operation itself; only the open of a STOP
   stream outlives its action, in `a.opening`.  Frames arrive whole, bytes behind
   a frame are its payload. *)
EXTENDS Integers, Sequences, FiniteSets, FiniteSetsExt

CONSTANTS
    None,
    Peers, Conns,
    PeerOf,             \* the peer of each connection
    CircuitConns,       \* connections that are circuits themselves
    HopKeys, StopKeys,  \* inbound HOP streams and outbound STOP streams
    max_reservations, max_circuits, max_circuits_per_peer,
    max_pending_hop_requests_per_connection,
    max_pending_stop_requests_per_connection,
    reservation_duration,
    max_circuit_duration, max_circuit_bytes,    \* 0 is unlimited
    control_stream_timeout,
    circuit_rate_limit_per_peer,                \* None or a RateLimit
    MAX_PENDING_BRIDGE_SIZE

Keys == HopKeys \cup StopKeys
Conn(k) == k[1]
Peer(k) == PeerOf[Conn(k)]

\* struct RelayServerAgent and RelayServerAgent::new.
NewAgent ==
    [ accepting        |-> TRUE,
      connections      |-> {},
      reservations     |-> [p \in Peers |-> None],
      hop_workers      |-> [k \in HopKeys |-> None],
      rejected         |-> {},
      pending_circuits |-> [k \in HopKeys |-> None],
      stop_to_source   |-> [k \in StopKeys |-> None],
      circuits         |-> [k \in HopKeys |-> None],
      opening          |-> {},
      buckets          |-> [p \in Peers |-> None],
      swept            |-> FALSE,   \* last_event_tick_ms is the current time
      actions          |-> <<>>,
      events           |-> <<>> ]

Workers(a)  == {k \in HopKeys : a.hop_workers[k] # None}
Pending(a)  == {k \in HopKeys : a.pending_circuits[k] # None}
Circuits(a) == {k \in HopKeys : a.circuits[k] # None}

Raise(a, e) == [a EXCEPT !.events = Append(@, e)]
Error(kind) == [event |-> "Error", kind |-> kind]
Queue(a, act) == [a EXCEPT !.actions = Append(@, act)]

\* fn queue_send, fn queue_close_for and fn queue_reset.  `src` is the HOP stream
\* that the operation belongs to.
QueueSend(a, to, effect, src, data) ==
    Queue(a, [op |-> "Send", to |-> to, effect |-> effect, src |-> src, data |-> data])
QueueClose(a, to, leg, src) == Queue(a, [op |-> "Close", to |-> to, leg |-> leg, src |-> src])
QueueReset(a, to) == Queue(a, [op |-> "Reset", to |-> to])
ResetIf(a, condition, to) == IF condition THEN QueueReset(a, to) ELSE a

\* fn cancel_operations
Cancel(a, Cancelled(_)) ==
    [a EXCEPT !.actions = SelectSeq(@, LAMBDA act : ~Cancelled(act))]

\* fn cancel_pending_control_ops
CancelPendingControlOps(a, k) ==
    Cancel([a EXCEPT !.opening = @ \ {k}],
           LAMBDA act : \/ act.op = "Open" /\ act.src = k
                        \/ act.op = "Send" /\ act.src = k
                                           /\ act.effect \in {"StopRequest", "CommitCircuit"})

\* fn cancel_pending_hop_ops
CancelPendingHopOps(a, k) ==
    Cancel(a, LAMBDA act : \/ act.op = "Send" /\ act.to = k
                                              /\ act.effect \in {"CommitReservation", "CompleteHop"}
                           \/ act.op = "Close" /\ act.to = k)

\* fn cancel_forward_ops
CancelForwardOps(a, k) ==
    Cancel(a, LAMBDA act : act.op = "Send" /\ act.src = k /\ act.effect = "Forward")

\* fn complete_hop
CompleteHop(a, k) ==
    IF a.hop_workers[k] = None THEN a ELSE [a EXCEPT !.hop_workers[k].deadline = None]

-----------------------------------------------------------------------------
(* TokenBuckets (limiter.rs), for one key.  A missing bucket is full. *)

Refilled(b, now) ==
    LET r == circuit_rate_limit_per_peer
        n == (now - b.last_refill) \div r.refill_interval
    IN  [b EXCEPT !.tokens = IF @ + n > r.capacity THEN r.capacity ELSE @ + n,
                  !.last_refill = @ + n * r.refill_interval]

BucketDue(b) == b.last_refill + circuit_rate_limit_per_peer.refill_interval

\* fn sweep
Swept(b, now) ==
    IF b = None THEN None
    ELSE IF BucketDue(b) > now THEN b
    ELSE IF Refilled(b, now).tokens < circuit_rate_limit_per_peer.capacity THEN Refilled(b, now)
    ELSE None

\* fn consume: the bucket before the token is taken.
Bucket(a, p, now) ==
    LET b == Swept(a.buckets[p], now)
    IN  IF b = None THEN [tokens |-> circuit_rate_limit_per_peer.capacity, last_refill |-> now]
        ELSE Refilled(b, now)

CircuitRateExceeded(a, p, now) ==
    circuit_rate_limit_per_peer # None /\ Bucket(a, p, now).tokens = 0

\* fn consume_circuit_limits
ConsumeCircuitLimits(a, p, now) ==
    IF circuit_rate_limit_per_peer = None THEN a
    ELSE LET b == Bucket(a, p, now)
         IN  [a EXCEPT !.buckets[p] = IF b.tokens = 0 THEN b ELSE [b EXCEPT !.tokens = @ - 1]]

-----------------------------------------------------------------------------
(* Denials and failures of a CONNECT. *)

\* HopResponder: fn queue_status_and_close, drained by fn drain_hop.
Answer(a, k) ==
    QueueClose(QueueSend([a EXCEPT !.hop_workers[k].phase = "answered",
                                   !.hop_workers[k].bridge = <<>>],
                         k, "CompleteHop", k, <<"status">>),
               k, None, k)

\* HopResponder: fn reject, through fn feed_hop.
Reject(a, k) ==
    IF a.hop_workers[k].phase = "connecting" THEN Answer(a, k) ELSE Raise(a, Error("InternalInvariant"))

\* fn deny_connect and the drain_hop that follows it.
DenyConnect(a, k, dst, status) ==
    IF a.hop_workers[k] = None THEN a
    ELSE Reject(Raise(a, [event |-> "CircuitDenied", key |-> k, status |-> status]), k)

\* The part that fn fail_pending_connect and fn abort_pending_connect share.
DropPending(a, k) ==
    LET stop == a.pending_circuits[k].stop_stream
        a1 == CancelPendingControlOps([a EXCEPT !.pending_circuits[k] = None], k)
    IN  IF stop = None THEN a1
        ELSE QueueReset([a1 EXCEPT !.stop_to_source[stop] = None], stop)

\* fn fail_pending_connect
FailPendingConnect(a, k, status) ==
    IF a.pending_circuits[k] = None THEN a
    ELSE DenyConnect(DropPending(a, k), k, a.pending_circuits[k].dst, status)

\* fn abort_pending_connect
AbortPendingConnect(a, k) ==
    IF a.pending_circuits[k] = None THEN a ELSE DropPending(a, k)

\* hop_workers.remove
RemoveWorker(a, k) == [a EXCEPT !.hop_workers[k] = None]

\* fn abort_pending_connect_both
AbortPendingConnectBoth(a, k) ==
    LET a1 == AbortPendingConnect(a, k)
    IN  IF a1.hop_workers[k] = None THEN a1 ELSE QueueReset(RemoveWorker(a1, k), k)

-----------------------------------------------------------------------------
(* Committed circuits. *)

\* fn close_circuit.  `reset` names the legs that are reset.
CloseCircuit(a, k, reason, reset) ==
    LET dst_stream == a.circuits[k].dst_stream
        ended == CancelForwardOps([RemoveWorker(a, k) EXCEPT
                                       !.circuits[k] = None,
                                       !.stop_to_source[dst_stream] = None], k)
    IN  IF a.circuits[k] = None THEN a
        ELSE Raise(ResetIf(ResetIf(ended, "Source" \in reset, k),
                           "Destination" \in reset, dst_stream),
                   [event |-> "CircuitClosed", key |-> k, reason |-> reason])

BothLegs == {"Source", "Destination"}
OtherLeg(leg) == IF leg = "Source" THEN "Destination" ELSE "Source"

\* The stream of a leg.
LegStream(a, k, leg) == IF leg = "Source" THEN k ELSE a.circuits[k].dst_stream

\* fn queue_forward, for the bytes that come from leg `from`.
QueueForward(a, k, from, bytes) ==
    IF bytes = <<>> \/ a.circuits[k] = None THEN a
    ELSE IF from \in a.circuits[k].in_flight
    THEN Raise(CloseCircuit(a, k, "InternalFailure", BothLegs), Error("InternalInvariant"))
    ELSE QueueSend([a EXCEPT !.circuits[k].in_flight = @ \cup {from}],
                   LegStream(a, k, OtherLeg(from)), "Forward", k, bytes)

\* fn finish_eof_if_drained
FinishEofIfDrained(a, k) ==
    LET c == a.circuits[k]
    IN  IF c # None /\ c.eof = BothLegs /\ c.write_closed = BothLegs /\ c.in_flight = {}
        THEN CloseCircuit(a, k, "Eof", {})
        ELSE a

\* fn forward_accepted
ForwardAccepted(a, k, from, n) ==
    LET a1 == [a EXCEPT !.circuits[k].in_flight = @ \ {from}, !.circuits[k].bytes[from] = @ + n]
    IN  IF a.circuits[k] = None THEN a
        ELSE IF max_circuit_bytes # 0 /\ a1.circuits[k].bytes[from] > max_circuit_bytes
        THEN CloseCircuit(a1, k, "ByteLimit", BothLegs)
        ELSE FinishEofIfDrained(a1, k)

\* Mutant of CircuitEof: the half-close overtakes data that is still queued.
CircuitEofOvertakes(a, k, leg) ==
    IF a.circuits[k] = None \/ leg \in a.circuits[k].eof THEN a
    ELSE LET stopped == QueueClose([a EXCEPT !.circuits[k].eof = @ \cup {leg}, !.actions = <<>>],
                                   LegStream(a, k, OtherLeg(leg)), OtherLeg(leg), k)
         IN  FinishEofIfDrained([stopped EXCEPT !.actions = @ \o a.actions], k)

\* fn circuit_eof: the leg finished, the other one is half-closed.
CircuitEof(a, k, leg) ==
    IF a.circuits[k] = None \/ leg \in a.circuits[k].eof THEN a
    ELSE FinishEofIfDrained(
            QueueClose([a EXCEPT !.circuits[k].eof = @ \cup {leg}],
                       LegStream(a, k, OtherLeg(leg)), OtherLeg(leg), k), k)

\* fn circuit_close_accepted
CircuitCloseAccepted(a, k, leg) ==
    IF a.circuits[k] = None THEN a
    ELSE FinishEofIfDrained([a EXCEPT !.circuits[k].write_closed = @ \cup {leg}], k)

\* fn append_pending_payload
AppendPendingPayload(a, k, from, bytes) ==
    IF a.pending_circuits[k] = None THEN a
    ELSE IF Len(a.pending_circuits[k].pipelined[from] \o bytes) <= MAX_PENDING_BRIDGE_SIZE
    THEN [a EXCEPT !.pending_circuits[k].pipelined[from] = @ \o bytes]
    ELSE Raise(AbortPendingConnectBoth(a, k), Error("PayloadBound"))

\* fn commit_circuit: the circuit takes the place of the pending one.
Committed(a, k, now) ==
    Raise([a EXCEPT !.pending_circuits[k] = None,
                    !.circuits[k] =
                        [ dst          |-> a.pending_circuits[k].dst,
                          dst_stream   |-> a.pending_circuits[k].stop_stream,
                          deadline     |-> IF max_circuit_duration = 0 THEN None
                                           ELSE now + max_circuit_duration,
                          bytes        |-> [leg \in BothLegs |-> 0],
                          eof          |-> {},
                          write_closed |-> {},
                          in_flight    |-> {} ]],
          [event |-> "CircuitOpened", key |-> k])

\* fn commit_circuit: what arrived from pending circuit c goes out.
ForwardPipelined(a, k, c) ==
    QueueForward(QueueForward(a, k, "Source", c.pipelined["Source"]),
                 k, "Destination", c.pipelined["Destination"])

EofIf(a, condition, k, leg) == IF condition THEN CircuitEof(a, k, leg) ELSE a

\* fn commit_circuit
CommitCircuit(a, k, now) ==
    LET c == a.pending_circuits[k]
    IN  IF c = None THEN a
        ELSE IF c.stop_stream = None THEN [a EXCEPT !.pending_circuits[k] = None]
        ELSE EofIf(EofIf(ForwardPipelined(Committed(a, k, now), k, c),
                         "Source" \in c.eof, k, "Source"),
                   "Destination" \in c.eof, k, "Destination")
-----------------------------------------------------------------------------
(* Admission. *)

\* Mutant of PeerCircuitCount: circuits count only once they are committed.
CommittedCircuitCount(a, p) ==
    Cardinality({k \in Circuits(a) : p \in {Peer(k), a.circuits[k].dst}})

\* fn peer_circuit_count
PeerCircuitCount(a, p) ==
    Cardinality({k \in Pending(a)  : p \in {Peer(k), a.pending_circuits[k].dst}})
  + Cardinality({k \in Circuits(a) : p \in {Peer(k), a.circuits[k].dst}})

CommitsQueued(a) == {i \in DOMAIN a.actions : a.actions[i].op = "Send"
                                              /\ a.actions[i].effect = "CommitReservation"}

\* fn decide_reservation, of a worker that is not on a circuit.
DecideReservation(a, k, now) ==
    LET p       == Peer(k)
        renewed == a.reservations[p] # None /\ a.reservations[p].conn = Conn(k)
        queued  == {a.actions[i].data : i \in CommitsQueued(a)}
        live    == Cardinality({q \in Peers : a.reservations[q] # None})
        initial == Cardinality({r \in queued : ~r.renewed})
        status  == CASE ~a.accepting -> "ReservationRefused"
                     [] \/ \E r \in queued : Peer(r.stream) = p
                        \/ ~renewed /\ live + initial >= max_reservations -> "ResourceLimitExceeded"
                     [] OTHER -> None
        record  == [stream |-> k, renewed |-> renewed, deadline |-> now + reservation_duration]
    IN  IF status # None
        THEN Answer(Raise(a, [event |-> "ReservationDenied", peer |-> p, status |-> status]), k)
        ELSE QueueClose(QueueSend([a EXCEPT !.hop_workers[k].phase = "answered"],
                                  k, "CommitReservation", k, record),
                        k, None, k)

\* The status with which fn decide_connect denies, None when it admits.
ConnectDenial(a, k, dst, now) ==
    LET r == a.reservations[dst]
    IN  CASE ~a.accepting -> "PermissionDenied"
          [] \/ CircuitRateExceeded(a, Peer(k), now)
             \/ PeerCircuitCount(a, Peer(k)) >= max_circuits_per_peer
             \/ Peer(k) # dst /\ PeerCircuitCount(a, dst) >= max_circuits_per_peer
             \/ Cardinality(Pending(a)) + Cardinality(Circuits(a)) >= max_circuits
                -> "ResourceLimitExceeded"
          [] r = None -> "NoReservation"
          [] r.conn \notin a.connections -> "NoReservation"
          [] Cardinality({j \in Pending(a) : /\ a.pending_circuits[j].dst_conn = r.conn
                                             /\ a.pending_circuits[j].stop_deadline # None})
                >= max_pending_stop_requests_per_connection -> "ResourceLimitExceeded"
          [] OTHER -> None

\* fn decide_connect
DecideConnect(a, k, dst, now) ==
    LET denial == ConnectDenial(a, k, dst, now)
        a1 == IF a.accepting THEN ConsumeCircuitLimits(a, Peer(k), now) ELSE a
        conn == a.reservations[dst].conn
    IN  IF denial # None THEN DenyConnect(a1, k, dst, denial)
        ELSE Queue([a1 EXCEPT
                        !.opening = @ \cup {k},
                        !.pending_circuits[k] =
                            [ dst           |-> dst,
                              dst_conn      |-> conn,
                              stop_stream   |-> None,
                              stop          |-> None,
                              stop_deadline |-> now + control_stream_timeout,
                              pipelined     |-> [leg \in BothLegs |-> <<>>],
                              eof           |-> {} ]],
                   [op |-> "Open", src |-> k, conn |-> conn])

-----------------------------------------------------------------------------
(* Streams of the service. *)

\* fn on_hop_ready
OnHopReady(a, k, now) ==
    LET busy == {j \in Workers(a) : Conn(j) = Conn(k) /\ a.hop_workers[j].deadline # None}
    IN  IF \/ Conn(k) \notin a.connections
           \/ Cardinality(busy) >= max_pending_hop_requests_per_connection
        THEN QueueReset([a EXCEPT !.rejected = @ \cup {k}], k)
        ELSE [a EXCEPT !.hop_workers[k] = [ phase    |-> "waiting",
                                            rwc      |-> FALSE,
                                            bridge   |-> <<>>,
                                            deadline |-> now + control_stream_timeout ]]

\* fn drain_hop, its ReservationRequested and ConnectRequested arms.
HopRequested(a, k, frame, bytes, now) ==
    LET viaCircuit == Conn(k) \in CircuitConns
        connecting == [a EXCEPT !.hop_workers[k].phase = "connecting",
                                !.hop_workers[k].bridge = bytes]
        denied     == [event |-> "ReservationDenied", peer |-> Peer(k), status |-> "PermissionDenied"]
    IN  CASE frame.type = "Reserve" /\ viaCircuit  -> Answer(Raise(a, denied), k)
          [] frame.type = "Reserve" /\ ~viaCircuit -> DecideReservation(a, k, now)
          [] frame.type = "Connect" /\ viaCircuit  ->
                DenyConnect(connecting, k, frame.dst, "PermissionDenied")
          [] frame.type = "Connect" /\ ~viaCircuit -> DecideConnect(connecting, k, frame.dst, now)

\* HopResponder: fn on_data.
HopData(a, k, frame, bytes, now) ==
    LET w    == a.hop_workers[k]
        over == [a EXCEPT !.hop_workers[k].phase = "answered"]
    IN  CASE w.rwc \/ w.phase = "answered" -> a
          [] w.phase = "bridged" -> QueueForward(a, k, "Source", bytes)
          [] w.phase = "connecting" -> Raise(a, Error("InternalInvariant"))
          [] w.phase = "waiting" ->
                CASE frame.type = "Garbage" \/ Len(bytes) > MAX_PENDING_BRIDGE_SIZE -> QueueReset(over, k)
                  [] frame.type = "Malformed" -> Answer(a, k)
                  [] OTHER -> HopRequested(a, k, frame, bytes, now)

\* fn drain_stop, the arm of Outcome(Accepted): the source is told, what it sent
\* along with its request joins the pipelined bytes.
StopAccepted(a, k) ==
    LET w  == a.hop_workers[k]
        a1 == [a EXCEPT !.pending_circuits[k].stop_deadline = None]
        a2 == QueueSend([a1 EXCEPT !.hop_workers[k].phase = IF w.rwc THEN "answered" ELSE "bridged",
                                   !.hop_workers[k].bridge = <<>>],
                        k, "CommitCircuit", k, <<"status">>)
    IN  IF w = None THEN FailPendingConnect(a1, k, "ConnectionFailed")
        ELSE IF w.phase # "connecting"
        THEN FailPendingConnect(Raise(a1, Error("InternalInvariant")), k, "ConnectionFailed")
        ELSE AppendPendingPayload(a2, k, "Source", w.bridge)

\* fn drain_stop: what the initiator has decided becomes actions and the end, or the
\* acceptance, of the CONNECT.
DrainStop(a, k, outcome, bytes) ==
    LET stop == a.pending_circuits[k].stop_stream
        told == QueueClose(QueueSend(a, stop, "StopRequest", k, <<"status">>), stop, None, k)
    IN  CASE outcome = "Garbage"   -> FailPendingConnect(QueueReset(a, stop), k, "MalformedMessage")
          [] outcome = "Malformed" -> FailPendingConnect(told, k, "MalformedMessage")
          [] outcome = "Refused"   -> FailPendingConnect(a, k, "UnexpectedMessage")
          [] outcome = "Ok"        -> AppendPendingPayload(StopAccepted(a, k), k, "Destination", bytes)
          [] outcome = "Bridge"    -> AppendPendingPayload(a, k, "Destination", bytes)

\* StopInitiator: fn on_data.
StopData(a, k, frame, bytes) ==
    LET stop  == a.pending_circuits[k].stop
        After == IF frame.type = "Ok" THEN "bridged" ELSE "done"
    IN  CASE stop = "bridged" -> DrainStop(a, k, "Bridge", bytes)
          [] stop = "done"    -> a
          [] stop = "waiting" -> DrainStop([a EXCEPT !.pending_circuits[k].stop = After],
                                           k, frame.type, bytes)

\* StopInitiator: fn remote_write_closed and fn remote_reset, with fn drain_stop.
StopEnds(a, k) ==
    IF a.pending_circuits[k].stop = "waiting"
    THEN FailPendingConnect(a, k, "ConnectionFailed")
    ELSE [a EXCEPT !.pending_circuits[k].stop = "done"]

\* The source of a STOP stream that is still being set up, and of a circuit.
Source(a, k) == IF k \in StopKeys THEN a.stop_to_source[k] ELSE None
Leg(k) == IF k \in HopKeys THEN "Source" ELSE "Destination"

\* The circuit that stream k is a leg of, None if there is none.
CircuitOf(a, k) ==
    LET s == IF k \in HopKeys THEN k ELSE Source(a, k)
    IN  IF s # None /\ s \in Circuits(a) THEN s ELSE None

\* A STOP stream whose initiator still takes input (fn feed_stop).
FeedsStop(a, k) ==
    LET s == Source(a, k)
    IN  s # None /\ s \in Pending(a) /\ a.pending_circuits[s].stop # None

\* fn handle_event, StreamData
OnStreamData(a, k, frame, bytes, now) ==
    IF k \in HopKeys
    THEN IF k \in Pending(a) THEN AppendPendingPayload(a, k, "Source", bytes)
         ELSE IF k \in Workers(a) THEN HopData(a, k, frame, bytes, now)
         ELSE IF k \in a.rejected THEN a
         ELSE QueueForward(a, k, "Source", bytes)
    ELSE IF FeedsStop(a, k) THEN StopData(a, Source(a, k), frame, bytes)
         ELSE IF CircuitOf(a, k) # None THEN QueueForward(a, Source(a, k), "Destination", bytes)
         ELSE a

\* HopResponder: fn remote_write_closed
HopRemoteWriteClosed(a, k) ==
    [a EXCEPT !.hop_workers[k].rwc = TRUE,
              !.hop_workers[k].phase = IF @ \in {"waiting", "bridged"} THEN "answered" ELSE @]

\* fn handle_event, StreamRemoteWriteClosed
OnStreamRemoteWriteClosed(a, k) ==
    CASE CircuitOf(a, k) # None -> CircuitEof(a, CircuitOf(a, k), Leg(k))
      [] k \in HopKeys /\ k \in Workers(a) ->
            HopRemoteWriteClosed(IF k \in Pending(a)
                                 THEN [a EXCEPT !.pending_circuits[k].eof = @ \cup {"Source"}]
                                 ELSE a, k)
      [] k \in StopKeys /\ FeedsStop(a, k) ->
            StopEnds([a EXCEPT !.pending_circuits[Source(a, k)].eof = @ \cup {"Destination"}],
                     Source(a, k))
      [] k \in HopKeys /\ k \in Pending(a) -> RemoveWorker(AbortPendingConnect(a, k), k)
      [] OTHER -> a

\* fn handle_event, StreamClosed
OnStreamClosed(a, k) ==
    CASE CircuitOf(a, k) # None ->
            CloseCircuit(a, CircuitOf(a, k), "StreamReset", {OtherLeg(Leg(k))})
      [] k \in StopKeys /\ FeedsStop(a, k) -> StopEnds(a, Source(a, k))
      [] k \in HopKeys /\ k \in Pending(a) -> RemoveWorker(AbortPendingConnect(a, k), k)
      [] k \in HopKeys /\ k \in Workers(a) -> RemoveWorker(CancelPendingHopOps(a, k), k)
      [] OTHER -> [a EXCEPT !.rejected = @ \ {k}]

-----------------------------------------------------------------------------
(* Connections and deadlines. *)

\* The reservation of p ends.
CloseReservation(a, p, reason) ==
    Raise([a EXCEPT !.reservations[p] = None],
          [event |-> "ReservationClosed", peer |-> p, reason |-> reason])

\* fn on_connection_closed, its steps: the circuits over c, the CONNECTs from and
\* to it, its reservation and its workers.
CloseCircuitsOver(a, c) ==
    LET Lost(k) == IF Conn(k) = c THEN "Source" ELSE "Destination"
        CloseOne(k, b) == CloseCircuit(b, k, "ConnectionClosed", {OtherLeg(Lost(k))})
    IN  FoldSet(CloseOne, a, {k \in Circuits(a) : c \in {Conn(k), Conn(a.circuits[k].dst_stream)}})

\* The STOP stream of a CONNECT is gone with its connection.
ForgetStopStream(a, k) ==
    LET stop == a.pending_circuits[k].stop_stream
    IN  IF stop = None THEN a
        ELSE [a EXCEPT !.stop_to_source[stop] = None, !.pending_circuits[k].stop_stream = None]

DropPendingOver(a, c) ==
    LET DropOne(k, b) ==
            IF Conn(k) = c THEN AbortPendingConnect(b, k)
            ELSE FailPendingConnect(ForgetStopStream(b, k), k, "ConnectionFailed")
    IN  FoldSet(DropOne, a, {k \in Pending(a) : c \in {Conn(k), a.pending_circuits[k].dst_conn}})

CloseReservationOver(a, c, cause) ==
    LET r == a.reservations[PeerOf[c]]
    IN  IF r # None /\ r.conn = c THEN CloseReservation(a, PeerOf[c], cause) ELSE a

EndWorkersOf(a, c) ==
    LET EndOne(k, b) == RemoveWorker(CancelPendingHopOps(b, k), k)
    IN  FoldSet(EndOne, a, {k \in Workers(a) : Conn(k) = c})

\* fn on_connection_closed
OnConnectionClosed(a, c, cause) ==
    LET dropped == DropPendingOver(CloseCircuitsOver(a, c), c)
    IN  [EndWorkersOf(CloseReservationOver([dropped EXCEPT !.connections = @ \ {c}], c, cause), c)
            EXCEPT !.rejected = {k \in @ : Conn(k) # c}]

\* A reservation that p holds over another connection is superseded.
SupersedeReservation(a, p, c) ==
    IF a.reservations[p] # None /\ a.reservations[p].conn # c
    THEN CloseReservation(a, p, "Superseded") ELSE a

\* fn on_connection_established
OnConnectionEstablished(a, c) ==
    LET Replace(d, b) == OnConnectionClosed(b, d, "Superseded")
        replaced == FoldSet(Replace, a, {d \in a.connections \ {c} : PeerOf[d] = PeerOf[c]})
    IN  [SupersedeReservation(replaced, PeerOf[c], c) EXCEPT !.connections = @ \cup {c}]

Due(deadline, now) == deadline # None /\ deadline <= now

\* fn handle_tick, its sweeps.
ExpireReservations(a, now) ==
    LET Expire(p, b) == CloseReservation(b, p, "Expired")
    IN  FoldSet(Expire, a, {p \in Peers : /\ a.reservations[p] # None
                                          /\ a.reservations[p].deadline <= now})

LimitCircuits(a, now) ==
    LET Limit(k, b) == CloseCircuit(b, k, "DurationLimit", BothLegs)
    IN  FoldSet(Limit, a, {k \in Circuits(a) : Due(a.circuits[k].deadline, now)})

\* The runtime error that reports a request cut short is left out.
TimeOutWorkers(a, now) ==
    LET TimeOut(k, b) ==
            IF k \in Pending(b)
            THEN FailPendingConnect([b EXCEPT !.hop_workers[k].deadline = None], k, "ConnectionFailed")
            ELSE IF k \in Workers(b)
            THEN QueueReset(CancelPendingHopOps(RemoveWorker(b, k), k), k)
            ELSE b
    IN  FoldSet(TimeOut, a, {k \in Workers(a) : Due(a.hop_workers[k].deadline, now)})

TimeOutStops(a, now) ==
    LET GiveUp(k, b) == FailPendingConnect(b, k, "ConnectionFailed")
    IN  FoldSet(GiveUp, a, {k \in Pending(a) : Due(a.pending_circuits[k].stop_deadline, now)})

\* fn handle_tick
HandleTick(a, now) ==
    [TimeOutStops(TimeOutWorkers(LimitCircuits(ExpireReservations(a, now), now), now), now)
        EXCEPT !.swept = TRUE, !.buckets = [p \in Peers |-> Swept(@[p], now)]]

\* Mutant of TickBeforeEvent: events overtake deadlines.
NoTickBeforeEvent(a, now) == a

\* fn tick_before_event
TickBeforeEvent(a, now) == IF a.swept THEN a ELSE HandleTick(a, now)

\* Mutant of TimeoutIsDue: requests do not wake the host.
TimeoutIsDueForCommitted(a, now) ==
    \/ \E p \in Peers : a.reservations[p] # None /\ a.reservations[p].deadline <= now
    \/ \E k \in Circuits(a) : Due(a.circuits[k].deadline, now)

\* fn next_timeout: something is due.
TimeoutIsDue(a, now) ==
    \/ \E p \in Peers : \/ a.reservations[p] # None /\ a.reservations[p].deadline <= now
                        \/ a.buckets[p] # None /\ BucketDue(a.buckets[p]) <= now
    \/ \E k \in Workers(a)  : Due(a.hop_workers[k].deadline, now)
    \/ \E k \in Pending(a)  : Due(a.pending_circuits[k].stop_deadline, now)
    \/ \E k \in Circuits(a) : Due(a.circuits[k].deadline, now)

-----------------------------------------------------------------------------
(* Results that the host echoes. *)

\* fn stream_open_result: `stream` is None when the open failed.
StreamOpenResult(a, k, stream) ==
    LET a1 == [a EXCEPT !.opening = @ \ {k}]
    IN  CASE k \notin a.opening ->
                IF stream # None /\ Conn(stream) \in a.connections THEN QueueReset(a, stream) ELSE a
          [] k \in a.opening /\ stream = None -> FailPendingConnect(a1, k, "ConnectionFailed")
          [] k \in a.opening /\ stream # None ->
                IF k \notin Pending(a) THEN QueueReset(a1, stream)
                ELSE IF Conn(stream) # a.pending_circuits[k].dst_conn
                THEN FailPendingConnect(QueueReset(a1, stream), k, "NoReservation")
                ELSE QueueSend([a1 EXCEPT !.pending_circuits[k].stop_stream = stream,
                                          !.pending_circuits[k].stop = "waiting",
                                          !.stop_to_source[stream] = k],
                               stream, "StopRequest", k, <<"connect">>)

\* fn send_stream_result, Ok
SendAccepted(a, act, now) ==
    CASE act.effect = "CommitReservation" ->
            LET p == Peer(act.to)
            IN  CompleteHop(
                    IF Conn(act.to) \in a.connections
                    THEN Raise([a EXCEPT !.reservations[p] = [conn     |-> Conn(act.to),
                                                              deadline |-> act.data.deadline]],
                               [event |-> "ReservationAccepted", peer |-> p,
                                renewed |-> act.data.renewed])
                    ELSE a, act.to)
      [] act.effect = "CommitCircuit" -> CommitCircuit(CompleteHop(a, act.src), act.src, now)
      [] act.effect = "StopRequest" -> a
      [] act.effect = "Forward" ->
            ForwardAccepted(a, act.src, IF act.to = act.src THEN "Destination" ELSE "Source",
                            Len(act.data))
      [] act.effect = "CompleteHop" -> CompleteHop(a, act.to)

\* fn send_stream_result, Err
SendRefused(a, act) ==
    CASE act.effect = "Forward" -> CloseCircuit(a, act.src, "ForwardFailed", BothLegs)
      [] act.effect = "CommitCircuit" ->
            IF act.src \in Pending(a) THEN AbortPendingConnectBoth(a, act.src) ELSE a
      [] act.effect = "StopRequest" -> FailPendingConnect(a, act.src, "ConnectionFailed")
      [] act.effect \in {"CommitReservation", "CompleteHop"} -> CompleteHop(a, act.to)

\* fn close_stream_write_result
CloseStreamWriteResult(a, act, ok) ==
    IF act.leg = None THEN a
    ELSE IF ok THEN CircuitCloseAccepted(a, act.src, act.leg)
    ELSE CloseCircuit(a, act.src, "InternalFailure", BothLegs)

\* fn set_accepting
SetAccepting(a, accepting) == [a EXCEPT !.accepting = accepting]
=============================================================================
