------------------------------ MODULE NatAgent ------------------------------
(* NatAgent (crates/nat/src/agent.rs) with its housekeeping and its inbound circuits:
   swarm events, ticks and the driver's results are handed to the connect attempts,
   the inbound circuits and the housekeeping, in id order.  Machines that are done
   are reaped at the end of each call. *)
EXTENDS NatAttempt

-----------------------------------------------------------------------------
(* Prober and ReservationManager (crates/nat/src/housekeeping.rs): AutoNAT probes
   judged over a window of samples, and one relay reservation that is acquired,
   renewed and moved to the next relay.  The reservation's renewal time is the
   relay's choice: complete_acquire takes it as a parameter. *)

\* `config.probing` says whether autonat_servers is configured.
ServerAt(idx) == AutonatServers[(idx % Len(AutonatServers)) + 1]
RelayAt(idx)  == Relays[(idx % Len(Relays)) + 1]
Holding(stage) == stage \in {"WaitStreamReady", "AwaitResponse"}

\* Prober::new and ReservationManager::new
NewProber(probing) ==
    [verdict |-> "Unknown", window |-> <<>>, public |-> FALSE, flight |-> None,
     next |-> IF probing THEN 0 ELSE None, idx |-> 0]

NewReservations(policy) ==
    [state |-> "Idle", relay |-> None, stage |-> None, stream |-> None, timer |-> None,
     alive_at |-> None, idx |-> 0, needs_sync |-> policy # "Never", held |-> None]

-----------------------------------------------------------------------------
(* Prober *)

\* fn abort_flight and fn finish_flight end the flight's stream.
EndFlight(n, Ending(_, _)) ==
    LET f == n.prober.flight
    IN  [IF f # None /\ Holding(f.stage) THEN Ending(n, <<f.server, f.stream>>) ELSE n
            EXCEPT !.prober.flight = None]

CloseAndRelease(n, k) == ReleaseStream(Push(n, CloseStreamWrite(k[1], k[2])), k)

\* fn abort_flight
AbortFlight(n) ==
    [EndFlight(n, ResetAndRelease) EXCEPT !.prober.idx = (@ + 1) % Len(AutonatServers),
                                          !.prober.next = probe_interval_unsettled]

\* fn finish_flight and fn schedule_next
FinishFlight(n) ==
    [EndFlight(n, CloseAndRelease) EXCEPT
        !.prober.next = IF n.prober.verdict = "Unknown" THEN probe_interval_unsettled
                        ELSE probe_interval_settled]

OpenProbe(p) == OpenStream("OpenProbe", None, p, AUTONAT)
Flight(p, stage) == [server |-> p, stage |-> stage, stream |-> None, deadline |-> probe_deadline]
WithFlight(n, p, stage) == [n EXCEPT !.prober.flight = Flight(p, stage), !.prober.next = None]

\* fn start_probe
StartProbe(n) ==
    LET p == ServerAt(n.prober.idx)
    IN  IF ~n.config.probing \/ ~n.listening
        THEN [n EXCEPT !.prober.next = probe_interval_unsettled]
        ELSE IF n.ready[p] # None
        THEN IF AUTONAT \in n.ready[p] THEN WithFlight(Push(n, OpenProbe(p)), p, "Opening")
             ELSE [n EXCEPT !.prober.idx = (@ + 1) % Len(AutonatServers),
                            !.prober.next = probe_interval_unsettled]
        ELSE WithFlight(IF IsConnected(n, p) \/ SessionDialPending(n, p) THEN n
                        ELSE PushSessionDial(n, "ProbeDial", None, p, probe_deadline),
                        p, "WaitPeerReady")

FlightIs(n, p, stage) ==
    n.prober.flight # None /\ n.prober.flight.server = p /\ n.prober.flight.stage = stage

\* Prober::on_tick
ProberTick(n) ==
    LET expired == n.prober.flight # None /\ n.prober.flight.deadline = 0
        m == IF expired THEN AbortFlight(n) ELSE n
    IN  IF m.prober.flight = None /\ m.prober.next = 0 THEN StartProbe(m) ELSE m

\* Prober::on_peer_ready
ProberPeerReady(n, p) ==
    IF ~FlightIs(n, p, "WaitPeerReady") THEN n
    ELSE IF AUTONAT \in n.ready[p]
    THEN [Push(n, OpenProbe(p)) EXCEPT !.prober.flight.stage = "Opening"]
    ELSE AbortFlight(n)

\* Prober::on_peer_disconnected: nothing is reset, the connection is gone.
ProberDisconnected(n, p) ==
    IF n.prober.flight = None THEN n
    ELSE IF n.prober.flight.server # p THEN n
    ELSE [EndFlight(n, ReleaseStream) EXCEPT !.prober.idx = (@ + 1) % Len(AutonatServers),
                                             !.prober.next = probe_interval_unsettled]

\* Prober::on_dial_result, for an error
ProbeDialFailed(n) ==
    IF n.prober.flight = None THEN n
    ELSE IF n.prober.flight.stage = "WaitPeerReady" THEN AbortFlight(n) ELSE n

\* Prober::on_stream_open_result
ProbeOpenResult(n, p, s) ==
    IF ~FlightIs(n, p, "Opening") THEN PushIf(n, s # None, ResetStream(p, s))
    ELSE IF s = None THEN AbortFlight(n)
    ELSE [OwnStream(n, <<p, s>>, Role("AutonatProbe", None)) EXCEPT
            !.prober.flight.stage = "WaitStreamReady", !.prober.flight.stream = s]

Votes(w, value) == Cardinality({k \in DOMAIN w : w[k] = value})
AtLeastOne(x) == IF x < 1 THEN 1 ELSE x
Least(x, y) == IF x < y THEN x ELSE y

\* The N-of-M rule of fn record_sample
Judge(w, verdict) ==
    LET window == AtLeastOne(confidence_window)
        threshold == Least(AtLeastOne(confidence_threshold), window)
    IN  IF Votes(w, "Public") >= threshold THEN "Public"
        ELSE IF Votes(w, "Private") >= threshold THEN "Private" ELSE verdict

Window(w, sample) ==
    LET longer == Append(w, sample)
    IN  IF Len(longer) > AtLeastOne(confidence_window) THEN Tail(longer) ELSE longer

\* fn record_sample.  A public address list is kept as whether there is one; an
\* unchanged verdict may only replace the list.
RecordSample(n, sample) ==
    LET w == Window(n.prober.window, sample)
        new == Judge(w, n.prober.verdict)
    IN  IF sample \in {"Unknown", "PublicUndialable"} THEN n
        ELSE IF new = n.prober.verdict
        THEN [n EXCEPT !.prober.window = w, !.prober.public = @ \/ (new = "Public" /\ sample = "Public")]
        ELSE [Raise(n, [event |-> "ReachabilityChanged", new |-> new]) EXCEPT
                !.prober.window = w, !.prober.verdict = new,
                !.prober.public = (new = "Public" /\ sample = "Public")]

\* Prober::on_stream_input
ProbeStreamInput(n, s, input, frame) ==
    LET f == n.prober.flight
    IN  IF f = None THEN n
        ELSE IF ~Holding(f.stage) \/ f.stream # s THEN n
        ELSE CASE input = "Ready" /\ f.stage = "WaitStreamReady" ->
                    [Push(n, SendStream(f.server, s, "Dial")) EXCEPT !.prober.flight.stage = "AwaitResponse"]
               [] input = "Data" /\ f.stage = "AwaitResponse" ->
                    CASE Verdict(frame) = "None"  -> n
                      [] Verdict(frame) = "Error" -> AbortFlight(n)
                      [] OTHER                    -> RecordSample(FinishFlight(n), Verdict(frame))
               [] input = "Closed" -> AbortFlight(n)
               [] OTHER -> n

-----------------------------------------------------------------------------
(* ReservationManager.  `timer` is the deadline of an acquisition, the renewal
   time of a reservation or the end of a backoff. *)

\* fn wanted
Wanted(n) ==
    \/ n.config.policy = "Always"
    \/ n.config.policy = "WhenPrivate" /\ n.prober.verdict # "Public"

Lost(n, relay) == IF relay = None THEN n
                  ELSE Raise(n, [event |-> "RelayReservationLost", relay |-> relay])

DropReserveStream(n, Ending(_, _)) ==
    IF n.res.state = "Acquiring" /\ Holding(n.res.stage)
    THEN Ending(n, <<n.res.relay, n.res.stream>>) ELSE n

Idled(r) == [r EXCEPT !.state = "Idle", !.relay = None, !.stage = None, !.stream = None,
                      !.timer = None, !.alive_at = None, !.held = None]

\* fn release
Release(n) ==
    LET lost == IF n.res.state = "Reserved" THEN n.res.relay
                ELSE IF n.res.state = "Acquiring" THEN n.res.held ELSE None
    IN  [Lost(DropReserveStream(n, ResetAndRelease), lost) EXCEPT !.res = Idled(@)]

\* The end of fn fail_acquire and of fn on_peer_disconnected
BackOff(n, lost) ==
    [Lost(n, lost) EXCEPT !.res = [Idled(@) EXCEPT !.state = "Backoff",
                                                   !.timer = reservation_retry_backoff,
                                                   !.idx = (n.res.idx + 1) % Len(Relays)]]

\* fn fail_acquire
FailAcquire(n) == BackOff(DropReserveStream(n, ResetAndRelease), n.res.held)

Acquiring(n, p, stage) ==
    [n EXCEPT !.res = [@ EXCEPT !.state = "Acquiring", !.relay = p, !.stage = stage, !.stream = None,
                                !.timer = relay_leg_deadline, !.alive_at = None]]

OpenReserve(p) == OpenStream("OpenReserve", None, p, HOP)

\* fn begin_acquire
BeginAcquire(n) ==
    LET p == RelayAt(n.res.idx)
    IN  IF n.ready[p] # None
        THEN IF HOP \in n.ready[p] THEN Acquiring(Push(n, OpenReserve(p)), p, "Opening")
             ELSE BackOff(n, n.res.held)
        ELSE Acquiring(IF IsConnected(n, p) \/ SessionDialPending(n, p) THEN n
                       ELSE PushSessionDial(n, "ReserveDial", None, p, relay_leg_deadline),
                       p, "WaitPeerReady")

\* fn sync
Sync(n) ==
    LET m == [n EXCEPT !.res.needs_sync = FALSE]
        due == n.res.timer = 0
    IN  IF ~Wanted(n) THEN Release(m)
        ELSE CASE n.res.state = "Idle" -> BeginAcquire(m)
               [] n.res.state = "Backoff" /\ due -> BeginAcquire(m)
               [] n.res.state = "Reserved" /\ due ->
                    BeginAcquire([m EXCEPT !.res.held = n.res.relay])
               [] n.res.state = "Reserved" /\ ~due /\ n.res.alive_at = 0 ->
                    [Push(m, [op |-> "Ping", peer |-> n.res.relay]) EXCEPT
                        !.res.alive_at = keep_alive_interval]
               [] n.res.state = "Acquiring" /\ due -> FailAcquire(m)
               [] OTHER -> m

\* ReservationManager::on_peer_ready
ReservePeerReady(n, p) ==
    IF n.res.state # "Acquiring" \/ n.res.stage # "WaitPeerReady" \/ n.res.relay # p THEN n
    ELSE IF HOP \in n.ready[p] THEN [Push(n, OpenReserve(p)) EXCEPT !.res.stage = "Opening"]
    ELSE FailAcquire(n)

\* ReservationManager::on_peer_disconnected
ReserveDisconnected(n, p) ==
    IF n.res.relay # p THEN n
    ELSE IF n.res.state = "Reserved" THEN BackOff(n, p)
    ELSE IF n.res.state = "Acquiring" THEN BackOff(DropReserveStream(n, ReleaseStream), n.res.held)
    ELSE n

\* ReservationManager::on_dial_result, for an error
ReserveDialFailed(n) ==
    IF n.res.state = "Acquiring" /\ n.res.stage = "WaitPeerReady" THEN FailAcquire(n) ELSE n

\* ReservationManager::on_stream_open_result
ReserveOpenResult(n, p, s) ==
    IF n.res.state # "Acquiring" \/ n.res.stage # "Opening" \/ n.res.relay # p
    THEN PushIf(n, s # None, ResetStream(p, s))
    ELSE IF s = None THEN FailAcquire(n)
    ELSE [OwnStream(n, <<p, s>>, Role("HopReserve", None)) EXCEPT
            !.res.stage = "WaitStreamReady", !.res.stream = s]

\* fn complete_acquire
CompleteAcquire(n, renew_in) ==
    [Raise(CloseAndRelease(n, <<n.res.relay, n.res.stream>>),
           [event |-> "RelayReserved", relay |-> n.res.relay])
        EXCEPT !.res = [@ EXCEPT !.state = "Reserved", !.held = None, !.stage = None, !.stream = None,
                                 !.timer = renew_in, !.alive_at = keep_alive_interval]]

\* ReservationManager::on_stream_input
ReserveStreamInput(n, s, input, frame) ==
    IF n.res.state # "Acquiring" \/ ~Holding(n.res.stage) \/ n.res.stream # s THEN n
    ELSE CASE input = "Ready" /\ n.res.stage = "WaitStreamReady" ->
                [Push(n, SendStream(n.res.relay, s, "Reserve")) EXCEPT !.res.stage = "AwaitResponse"]
           [] input = "Data" /\ n.res.stage = "AwaitResponse" ->
                CASE HopResponse(frame) = "None"     -> n
                  [] HopResponse(frame) = "Accepted" -> CompleteAcquire(n, reservation_ttl)
                  [] OTHER                           -> FailAcquire(n)
           [] input = "Closed" -> FailAcquire(n)
           [] OTHER -> n

\* Housekeeping::on_tick and on_peer_ready
HousekeepingTick(n) == Sync(ProberTick(n))
HousekeepingPeerReady(n, p) == ReservePeerReady(ProberPeerReady(n, p), p)

\* Housekeeping::on_stream_input: a verdict that flips reconciles the reservation.
ProbeInput(n, s, input, frame) ==
    LET m == ProbeStreamInput(n, s, input, frame)
    IN  IF m.prober.verdict = n.prober.verdict THEN m ELSE Sync(m)

\* Housekeeping::next_deadline
HousekeepingDue(n) ==
    \/ n.prober.next = 0
    \/ n.prober.flight # None /\ n.prober.flight.deadline = 0
    \/ n.res.state = "Idle" /\ n.res.needs_sync
    \/ n.res.state # "Idle" /\ 0 \in {n.res.timer, n.res.alive_at}

-----------------------------------------------------------------------------
(* InboundCircuit (crates/nat/src/inbound.rs): a circuit that a configured relay
   bridges to us.  STOP is accepted, the bridge is promoted, and the circuit's
   source is invited to punch.  The UDP blasts are kept as the fact that they are
   scheduled: a datagram changes no state.  `source` is the peer that the STOP
   CONNECT named. *)

In(n, j) == n.inbound[j]
InboundDone(n, j) == [n EXCEPT !.inbound[j].done = TRUE]
StopKey(x) == <<x.relay, x.stream>>

\* fn new
NewInbound(c, s) ==
    [inner |-> c, relay |-> PeerOf[c], stream |-> s, source |-> None,
     dcutr |-> None, dstream |-> None, dcutr_dl |-> None, exchange |-> relay_leg_deadline,
     blast |-> None, linger |-> None, released |-> FALSE, promoted |-> None, handshake |-> None,
     announced |-> FALSE, done |-> FALSE]

\* fn abandon
Abandon(n, j, reset) ==
    LET x == In(n, j)
    IN  InboundDone(IF x.released THEN n
                    ELSE ReleaseStream(PushIf(n, reset, ResetStream(x.relay, x.stream)), StopKey(x)), j)

\* fn promote.  Bytes that the relay pipelined behind CONNECT go with the bridge.
PromoteInbound(n, j, tail) ==
    LET x == In(n, j)
    IN  [Push(ReleaseStream(n, StopKey(x)),
              PromoteBridge("PromoteInbound", j, x.inner, x.stream, tail, FALSE))
            EXCEPT !.inbound[j].released = TRUE]

\* fn on_stop_input, and the send of STATUS
OnStopInput(n, j, chunk) ==
    LET x == In(n, j)
        answered == Push(n, SendStream(x.relay, x.stream, "Status"))
    IN  CASE StopRequest(chunk.frame) = "None"     -> n
          [] StopRequest(chunk.frame) = "Error"    -> Abandon(n, j, TRUE)
          [] StopRequest(chunk.frame) = "Unusable" -> Abandon(answered, j, TRUE)
          [] OTHER -> PromoteInbound([answered EXCEPT !.inbound[j].source = chunk.source], j, chunk.tail)

\* fn on_stream_input
OnStopStreamInput(n, j, c, s, input, chunk) ==
    LET x == In(n, j)
    IN  IF x = None THEN n
        ELSE IF x.done \/ c # x.inner \/ s # x.stream THEN n
        ELSE CASE input = "Data" /\ x.source = None -> OnStopInput(n, j, chunk)
               [] input = "Closed" -> Abandon(n, j, FALSE)
               [] OTHER -> n

\* fn on_promote_result
InboundPromoteResult(n, j, result) ==
    IF In(n, j) = None THEN n
    ELSE IF result \in Conns
    THEN [n EXCEPT !.inbound[j].promoted = result,
                   !.inbound[j].handshake = circuit_handshake_timeout]
    ELSE InboundDone(n, j)

\* fn finish_dcutr
FinishDcutr(n, j) ==
    LET x == In(n, j)
    IN  [IF x.dstream = None THEN n ELSE ResetAndRelease(n, <<x.source, x.dstream>>)
            EXCEPT !.inbound[j].dcutr = None, !.inbound[j].dcutr_dl = None,
                   !.inbound[j].dstream = None]

\* fn on_dcutr_open_result, and stream_open_result for a circuit that ended
InboundOpenResult(n, j, p, s) ==
    IF In(n, j) = None THEN PushIf(n, s # None, ResetStream(p, s))
    ELSE IF s = None THEN [InboundDone(n, j) EXCEPT !.inbound[j].linger = None]
    ELSE [OwnStream(n, <<p, s>>, Role("DcutrInbound", j)) EXCEPT
            !.inbound[j].dstream = s, !.inbound[j].dcutr = "Pending",
            !.inbound[j].dcutr_dl = relay_leg_deadline]

\* The CONNECT reply: blast the addresses that survive the filter, send SYNC, and
\* linger for the initiator's whole retry window.
DialNow(n, j, s, frame) ==
    FinishDcutr([Push(n, SendStream(In(n, j).source, s, "Sync")) EXCEPT
                    !.inbound[j].blast = IF frame = "Addrs" THEN punch_deadline ELSE @,
                    !.inbound[j].linger = punch_deadline * (1 + punch_max_retries)], j)

\* fn on_dcutr_stream_input
OnDcutrInboundInput(n, j, s, input, frame) ==
    LET x == In(n, j)
    IN  IF x = None THEN n
        ELSE IF x.dstream # s \/ x.dcutr = None THEN n
        ELSE CASE input = "Ready" /\ x.dcutr = "Pending" ->
                    [Push(n, SendStream(x.source, s, "Connect")) EXCEPT !.inbound[j].dcutr = "AwaitingReply"]
               [] input = "Data" /\ x.dcutr = "AwaitingReply" /\ DcutrReply(frame) = "DialNow" ->
                    DialNow(n, j, s, frame)
               [] input = "Data" /\ x.dcutr = "AwaitingReply" /\ DcutrReply(frame) = "Error" ->
                    InboundDone(FinishDcutr(n, j), j)
               [] input \in {"RemoteWriteClosed", "Closed"} -> InboundDone(FinishDcutr(n, j), j)
               [] OTHER -> n

\* fn on_connection_established for the promoted circuit
InboundCircuitUp(n, j, p) ==
    LET x == In(n, j)
        m == [n EXCEPT !.inbound[j].handshake = None]
    IN  IF IsDirectlyConnected(n, p)
        THEN [InboundDone(m, j) EXCEPT !.inbound[j].blast = None, !.inbound[j].linger = None]
        ELSE IF x.announced THEN m
        ELSE [IF n.config.force_relay THEN InboundDone(m, j)
              ELSE Push(m, OpenStream("OpenDcutrInbound", j, p, DCUTR)) EXCEPT
                !.events = Append(@, [event |-> "InboundPathEstablished", peer |-> p]),
                !.inbound[j].announced = TRUE]

\* fn on_connection_established
InboundEstablished(n, j, c) ==
    LET x == In(n, j)
    IN  IF x = None THEN n
        ELSE IF x.done \/ x.source # PeerOf[c] THEN n
        ELSE IF c \notin CircuitConns
        THEN [Raise(n, [event |-> "InboundDirectUpgrade", peer |-> PeerOf[c]]) EXCEPT
                !.inbound[j].blast = None, !.inbound[j].linger = None,
                !.inbound[j].done = x.released]
        ELSE IF x.promoted = c THEN InboundCircuitUp(n, j, PeerOf[c]) ELSE n

\* fn on_connection_closed
InboundClosed(n, j, c) ==
    LET x == In(n, j)
    IN  IF x = None THEN n
        ELSE IF x.promoted = c \/ (c = x.inner /\ ~x.released) THEN InboundDone(n, j) ELSE n

-----------------------------------------------------------------------------
(* fn on_tick, one phase per deadline. *)

ExchangePhase(n, j) ==
    IF ~In(n, j).released /\ In(n, j).exchange = 0 THEN Abandon(n, j, TRUE) ELSE n

BlastPhase(n, j) == IF In(n, j).blast = 0 THEN [n EXCEPT !.inbound[j].blast = None] ELSE n

LingerPhase(n, j) ==
    LET x == In(n, j)
    IN  IF x.linger # 0 THEN n
        ELSE [n EXCEPT !.inbound[j].linger = None, !.inbound[j].blast = None,
                       !.inbound[j].done = x.released /\ (x.announced \/ x.handshake = None)]

HandshakePhase(n, j) ==
    LET x == In(n, j)
    IN  IF x.handshake # 0 THEN n
        ELSE [PushIf(n, x.promoted # None, CloseCircuit(x.promoted)) EXCEPT
                !.inbound[j].handshake = None, !.inbound[j].promoted = None, !.inbound[j].done = TRUE]

DcutrPhase(n, j) ==
    IF In(n, j).dcutr_dl = 0 THEN InboundDone(FinishDcutr(n, j), j) ELSE n

InboundTick(n, j) ==
    IF In(n, j) = None THEN n
    ELSE DcutrPhase(HandshakePhase(LingerPhase(BlastPhase(ExchangePhase(n, j), j), j), j), j)

\* fn next_deadline
InboundDue(x) ==
    0 \in {x.blast, x.linger, x.handshake, x.dcutr_dl} \/ (~x.released /\ x.exchange = 0)

-----------------------------------------------------------------------------
(* The agent *)

\* NatAgent::new
NewAgent(config) ==
    [ config   |-> config,
      attempts |-> [i \in ConnectIds |-> None],
      inbound  |-> [j \in InboundIds |-> None],
      next     |-> [connect |-> 1, inbound |-> 1],
      prober   |-> NewProber(config.probing),
      res      |-> NewReservations(config.policy),
      listening |-> FALSE,
      registry |-> [k \in Keys |-> None],
      bound    |-> [k \in Keys |-> None],
      connected |-> [p \in Peers |-> {}],
      ready    |-> [p \in Peers |-> None],
      dialing  |-> [p \in Peers |-> 0],
      pending_disconnects   |-> {},
      reconcile_disconnects |-> {},
      actions  |-> <<>>,
      events   |-> <<>> ]

\* What happens to attempt i, or to circuit j, when x does: an event of the swarm, a
\* tick, or for an attempt the failure of a session dial that it may have waited on.
AttemptHears(n, i, x) ==
    CASE x.event = "ConnectionEstablished" -> AttemptEstablished(n, i, x.conn)
      [] x.event = "ConnectionClosed"      -> AttemptClosed(n, i, x.conn)
      [] x.event = "PeerReady"             -> AttemptPeerReady(n, i, x.peer)
      [] x.event = "Tick"                  -> AttemptTick(n, i)
      [] OTHER -> IF i = x.id \/ n.attempts[i] = None THEN n
                  ELSE IF ~n.attempts[i].relay \/ x.peer # RelayPeer THEN n
                  ELSE RedriveRelayLeg(n, i)

InboundHears(n, j, x) ==
    CASE x.event = "ConnectionEstablished" -> InboundEstablished(n, j, x.conn)
      [] x.event = "ConnectionClosed"      -> InboundClosed(n, j, x.conn)
      [] OTHER                             -> InboundTick(n, j)

\* for attempt in attempts.values_mut(), for circuit in inbound.values_mut()
ForAttempts(n, x) == FoldLeft(LAMBDA m, i : AttemptHears(m, i, x), n, [i \in ConnectIds |-> i])
ForInbound(n, x) == FoldLeft(LAMBDA m, j : InboundHears(m, j, x), n, [j \in InboundIds |-> j])

\* fn reap_done
ReapDone(n) ==
    [n EXCEPT
        !.attempts = [i \in ConnectIds |-> IF @[i] # None /\ @[i].done THEN None ELSE @[i]],
        !.inbound  = [j \in InboundIds |-> IF @[j] # None /\ @[j].done THEN None ELSE @[j]]]

\* fn connect_with_relay_policy
ConnectWithRelayPolicy(n, p, candidates, allow_relay) ==
    LET i == n.next.connect
        m == [n EXCEPT !.next.connect = i + 1]
    IN  ReapDone(IF IsDirectlyConnected(n, p)
                 THEN Raise(m, [event |-> "PathEstablished", id |-> i, path |-> "DirectDialed"])
                 ELSE StartAttempt(m, i, p, IF n.config.force_relay THEN 0 ELSE candidates, allow_relay))

\* fn cancel
Cancel(n, i) == ReapDone(CancelAttempt(n, i))

-----------------------------------------------------------------------------
(* handle_event_with_disposition_classified *)

OnConnectionEstablished(n, e) ==
    LET p == PeerOf[e.conn]
        m == [n EXCEPT !.pending_disconnects = @ \ {p}, !.reconcile_disconnects = @ \ {p},
                       !.dialing[p] = 0, !.connected[p] = @ \cup {e.conn}]
    IN  ForInbound(ForAttempts(m, e), e)

\* The agent forgets the streams that it knows to be of the connection.
ForgetStreamsOf(n, c) ==
    LET gone == {k \in Keys : n.bound[k] = c}
    IN  [n EXCEPT !.registry = [k \in Keys |-> IF k \in gone THEN None ELSE @[k]],
                  !.bound = [k \in Keys |-> IF k \in gone THEN None ELSE @[k]]]

OnConnectionClosed(n, e) ==
    LET p == PeerOf[e.conn]
        last == n.connected[p] = {e.conn}
        m == [n EXCEPT !.connected[p] = @ \ {e.conn}, !.ready[p] = IF last THEN None ELSE @]
        attempts == [ForAttempts(m, e) EXCEPT !.pending_disconnects = @ \cup (IF last THEN {p} ELSE {})]
    IN  [ForgetStreamsOf(ForInbound(attempts, e), e.conn) EXCEPT !.dialing[p] = 0]

OnPeerReady(n, e) ==
    HousekeepingPeerReady(ForAttempts([n EXCEPT !.ready[e.peer] = e.protocols], e), e.peer)

\* An inbound stream of a control protocol: a STOP of a configured relay becomes a
\* circuit, a DCUtR stream goes to the attempt that waits for it, all others are
\* refused.
OnInboundControl(n, c, s, protocol) ==
    LET p == PeerOf[c]
        k == <<p, s>>
        takers == {i \in ConnectIds : AcceptsDcutr(n.attempts[i], p, c)}
        m == BindStream(n, k, c)
        j == n.next.inbound
    IN  CASE ~CanBind(n, k, c) -> Push(n, ResetStream(p, s))
          [] CanBind(n, k, c) /\ protocol = DCUTR /\ takers # {} ->
                OnDcutrStreamOpened(OwnStream(m, k, Role("DcutrAttempt", Min(takers))), Min(takers), s)
          [] CanBind(n, k, c) /\ protocol = STOP /\ p \in Range(Relays) ->
                [OwnStream(m, k, Role("StopInbound", j)) EXCEPT
                    !.next.inbound = j + 1, !.inbound[j] = NewInbound(c, s)]
          [] OTHER -> OwnStream(Push(m, ResetStream(p, s)), k, Role("RejectedControl", None))

\* fn route_stream, for a stream that the agent owns on this connection
Route(n, c, s, input, chunk) ==
    LET role == n.registry[<<PeerOf[c], s>>]
    IN  CASE role.kind = "HopConnect"   -> OnHopStreamInput(n, role.id, c, s, input, chunk)
          [] role.kind = "HopReserve"   -> ReserveStreamInput(n, s, input, chunk.frame)
          [] role.kind = "AutonatProbe" -> ProbeInput(n, s, input, chunk.frame)
          [] role.kind = "StopInbound"  -> OnStopStreamInput(n, role.id, c, s, input, chunk)
          [] role.kind = "DcutrAttempt" ->
                IF n.attempts[role.id] = None THEN n
                ELSE OnDcutrStreamInput(n, role.id, s, input, chunk.frame)
          [] role.kind = "DcutrInbound" -> OnDcutrInboundInput(n, role.id, s, input, chunk.frame)
          [] OTHER -> n

Owns(n, c, s) == n.registry[<<PeerOf[c], s>>] # None
Routed(n, c, s) == Owns(n, c, s) /\ n.bound[<<PeerOf[c], s>>] = c

NoChunk == [frame |-> "Incomplete", tail |-> 0, source |-> None]

\* StreamReady of any other stream: bound and routed when the peer's id is owned.
OnStreamReady(n, c, s) ==
    IF Owns(n, c, s) /\ CanBind(n, <<PeerOf[c], s>>, c)
    THEN Route(BindStream(n, <<PeerOf[c], s>>, c), c, s, "Ready", NoChunk) ELSE n

\* StreamData, StreamRemoteWriteClosed and StreamClosed
OnStream(n, c, s, input, chunk) ==
    IF ~Routed(n, c, s) THEN n
    ELSE IF input = "Closed" THEN ReleaseStream(Route(n, c, s, input, chunk), <<PeerOf[c], s>>)
    ELSE Route(n, c, s, input, chunk)

HandleEvent(n, e) ==
    ReapDone(CASE e.event = "ConnectionEstablished" -> OnConnectionEstablished(n, e)
               [] e.event = "ConnectionClosed"      -> OnConnectionClosed(n, e)
               [] e.event = "PeerReady"             -> OnPeerReady(n, e)
               [] e.event = "InboundStream"         -> OnInboundControl(n, e.conn, e.s, e.protocol)
               [] e.event = "StreamReady"           -> OnStreamReady(n, e.conn, e.s)
               [] OTHER                             -> OnStream(n, e.conn, e.s, e.event, e.chunk))

-----------------------------------------------------------------------------

\* A peer whose last connection closed is reported to the housekeeping at the
\* second tick, when no replacement has come.  Only the peer of the probe and that of the
\* reservation matter to it.
ReconcileDisconnects(n) ==
    LET gone == {p \in n.reconcile_disconnects : ~IsConnected(n, p)}
        f    == n.prober.flight
        m    == IF f = None THEN n ELSE IF f.server \in gone THEN ProberDisconnected(n, f.server) ELSE n
    IN  [IF n.res.relay \in gone THEN ReserveDisconnected(m, n.res.relay) ELSE m EXCEPT
            !.reconcile_disconnects = n.pending_disconnects, !.pending_disconnects = {}]

\* fn handle_tick
HandleTick(n) ==
    LET x == [event |-> "Tick"]
    IN  ReapDone(ForInbound(HousekeepingTick(ForAttempts(ReconcileDisconnects(n), x)), x))

\* fn next_timeout returns 0
MachineDue(n) ==
    \/ \E i \in ConnectIds : n.attempts[i] # None /\ AttemptDue(n.attempts[i])
    \/ \E j \in InboundIds : n.inbound[j] # None /\ InboundDue(n.inbound[j])
    \/ HousekeepingDue(n)
TickDue(n) == n.pending_disconnects # {} \/ n.reconcile_disconnects # {} \/ MachineDue(n)

\* fn dial_result.  An error of a session dial sends the other attempts that
\* waited on it to dial themselves, before the owner hears of it.
DialFailed(n, act) ==
    LET shared == act.purpose \in {"RelayDial", "ProbeDial", "ReserveDial"} /\ n.dialing[act.peer] > 0
        m == IF ~shared THEN n
             ELSE ForAttempts([n EXCEPT !.dialing[act.peer] = 0],
                              [event |-> "DialFailed", id |-> act.id, peer |-> act.peer])
    IN  ReapDone(CASE act.purpose = "ProbeDial"   -> ProbeDialFailed(m)
                   [] act.purpose = "ReserveDial" -> ReserveDialFailed(m)
                   [] OTHER                       -> AttemptDialFailed(m, act.id, act.purpose))

\* fn stream_open_result; `s` is None for an error.
StreamOpenResult(n, act, s) ==
    ReapDone(CASE act.purpose = "OpenHop"     -> AttemptOpenResult(n, act.id, s)
               [] act.purpose = "OpenProbe"   -> ProbeOpenResult(n, act.peer, s)
               [] act.purpose = "OpenReserve" -> ReserveOpenResult(n, act.peer, s)
               [] OTHER                       -> InboundOpenResult(n, act.id, act.peer, s))

\* fn promote_result; `result` is a connection or the error.
PromoteResult(n, act, result) ==
    ReapDone(IF act.purpose = "PromoteAttempt" THEN AttemptPromoteResult(n, act.id, result)
             ELSE InboundPromoteResult(n, act.id, result))
=============================================================================
