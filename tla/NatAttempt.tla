----------------------------- MODULE NatAttempt -----------------------------
(* ConnectAttempt (crates/nat/src/attempt.rs): direct dials race a relay leg; a
   bridged circuit becomes the path and DCUtR may replace it by a direct one.
   An operator takes the agent `n` and the id `i` of an attempt to the agent after
   the call.  `leg` is the RelayLeg without its payload, which is `stream`. *)
EXTENDS Integers, Sequences, FiniteSets, FiniteSetsExt, SequencesExt

-----------------------------------------------------------------------------
(* The state that the machines of the NAT agent share (`Shared` in
   crates/nat/src/agent.rs), as operators on the agent's record `n`, and the wire
   machines that the agent drives: HopConnect, HopReservation and StopResponder
   (crates/relay/src/client.rs), DcutrInitiator and DcutrResponder
   (crates/dcutr/src/lib.rs) and AutoNatClient (crates/autonat/src/lib.rs).

   A timer holds the time that is left: the code's `now >= deadline` is 0, and
   None is a timer that is not armed.  A correlation token lives from the action
   that carries it to the driver's synchronous answer, so the action carries the
   purpose itself.  Error texts and addresses are left out, except whether a list
   of addresses is empty. *)

CONSTANTS
    None,
    Peers, Relays,          \* Relays is NatConfig::relays, a sequence
    AutonatServers,         \* NatConfig::autonat_servers, a sequence
    Conns, PeerOf,          \* connection ids and the peer of each
    CircuitConns,           \* the ids that is_circuit() recognises
    Streams,                \* stream ids, unique within one connection only
    ConnectIds, InboundIds, \* ids handed out in order: 1..k
    relay_stagger, connect_deadline, circuit_handshake_timeout, relay_leg_deadline,
    punch_deadline, punch_max_retries, probe_deadline, probe_interval_unsettled,
    probe_interval_settled, confidence_threshold, confidence_window,
    reservation_retry_backoff, reservation_ttl, keep_alive_interval

Paths == {"Relayed", "DirectDialed", "DirectPunched"}

ASSUME NatAssumption ==
    /\ ConnectIds = 1..Cardinality(ConnectIds) /\ IsFiniteSet(ConnectIds)
    /\ InboundIds = 1..Cardinality(InboundIds) /\ IsFiniteSet(InboundIds)
    /\ None \notin Paths /\ None \notin Nat

HOP == "hop"
STOP == "stop"
DCUTR == "dcutr"
AUTONAT == "autonat"

Keys == Peers \X Streams

\* NatAction and NatEvent
Push(n, action) == [n EXCEPT !.actions = Append(@, action)]
Raise(n, event) == [n EXCEPT !.events = Append(@, event)]
PushIf(n, condition, action) == IF condition THEN Push(n, action) ELSE n

Dial(purpose, id, p)   == [op |-> "Dial", purpose |-> purpose, id |-> id, peer |-> p]
OpenStream(purpose, id, p, protocol) ==
    [op |-> "OpenStream", purpose |-> purpose, id |-> id, peer |-> p, protocol |-> protocol]
SendStream(p, s, data) == [op |-> "SendStream", peer |-> p, s |-> s, data |-> data]
CloseStreamWrite(p, s) == [op |-> "CloseStreamWrite", peer |-> p, s |-> s]
ResetStream(p, s)      == [op |-> "ResetStream", peer |-> p, s |-> s]
CloseCircuit(c)        == [op |-> "CloseCircuit", conn |-> c]
PromoteBridge(purpose, id, c, s, data, eof) ==
    [op |-> "PromoteBridge", purpose |-> purpose, id |-> id, conn |-> c, s |-> s,
     data |-> data, eof |-> eof]

\* fn is_connected, fn is_directly_connected
IsConnected(n, p) == n.connected[p] # {}
IsDirectlyConnected(n, p) == n.connected[p] \ CircuitConns # {}

\* fn session_dial_pending: pending_session_dials holds at most one entry per peer
\* that has not expired, since a machine dials only when this is false.
SessionDialPending(n, p) == n.dialing[p] > 0

\* fn push_session_dial
PushSessionDial(n, purpose, id, p, deadline) ==
    Push([n EXCEPT !.dialing[p] = deadline], Dial(purpose, id, p))

\* fn own_stream, fn release_stream, fn bind_stream
OwnStream(n, k, role) == [n EXCEPT !.registry[k] = role]
ReleaseStream(n, k) == [n EXCEPT !.registry[k] = None, !.bound[k] = None]
CanBind(n, k, c) == n.bound[k] \in {None, c}
BindStream(n, k, c) == [n EXCEPT !.bound[k] = c]
ResetAndRelease(n, k) == ReleaseStream(Push(n, ResetStream(k[1], k[2])), k)

Role(kind, id) == [kind |-> kind, id |-> id]

-----------------------------------------------------------------------------
(* Wire machines.  A chunk of bytes is [frame, tail]: what decode_frame finds at
   its head and the bytes behind it.  An "Incomplete" frame is buffered, and its
   rest arrives in a later chunk. *)

\* HopConnect and HopReservation: fn try_decode_response
HopResponse(frame) ==
    CASE frame = "Incomplete" -> "None"
      [] frame = "StatusOk"   -> "Accepted"
      [] frame = "StatusErr"  -> "Refused"
      [] OTHER                -> "Error"

\* StopResponder: fn on_data and fn try_decode_connect.  A CONNECT that names no
\* valid peer id is decoded and rejected by the circuit.
StopRequest(frame) ==
    CASE frame = "Incomplete" -> "None"
      [] frame = "Connect"    -> "Request"
      [] frame = "BadSource"  -> "Unusable"
      [] OTHER                -> "Error"

\* DcutrResponder: fn try_decode.  CONNECT and then SYNC, each exactly once.
DcutrResponderNext(state, frame) ==
    CASE frame = "Incomplete"                                       -> state
      [] state = "AwaitingConnect" /\ frame \in {"Addrs", "NoAddrs"} -> "AwaitingSync"
      [] state = "AwaitingSync" /\ frame = "Sync"                   -> "Done"
      [] OTHER                                                      -> "Failed"

\* DcutrInitiator: fn on_data and fn try_decode_reply
DcutrReply(frame) ==
    CASE frame = "Incomplete"             -> "None"
      [] frame \in {"Addrs", "NoAddrs"}   -> "DialNow"
      [] OTHER                            -> "Error"

\* AutoNatClient: fn try_decode_response
Verdict(frame) ==
    CASE frame = "Incomplete"                        -> "None"
      [] frame = "DialOk"                            -> "Public"
      [] frame = "DialOkNoAddrs"                     -> "PublicUndialable"
      [] frame \in {"DialError", "DialRefused"}      -> "Private"
      [] frame \in {"BadRequest", "InternalError"}   -> "Unknown"
      [] OTHER                                       -> "Error"

-----------------------------------------------------------------------------
(* The connect attempt *)

At(n, i) == n.attempts[i]
RelayPeer == Relays[1]
HopKey(n, i) == <<RelayPeer, At(n, i).stream>>
Done(n, i) == [n EXCEPT !.attempts[i].done = TRUE]

\* fn accepts_dcutr
AcceptsDcutr(a, p, c) ==
    /\ a # None
    /\ ~a.done /\ ~a.settled /\ ~a.dials
    /\ a.peer = p /\ a.promoted = c
    /\ a.best = "Relayed" /\ a.dstream = None

\* fn teardown_dcutr_stream
TeardownDcutr(n, i) ==
    IF At(n, i).dstream = None THEN [n EXCEPT !.attempts[i].dcutr = None]
    ELSE [ResetAndRelease(n, <<At(n, i).peer, At(n, i).dstream>>)
            EXCEPT !.attempts[i].dstream = None, !.attempts[i].dcutr = None]

\* The first half of fn teardown_relay_leg: the stream that the leg holds.
DropLegStream(n, i) ==
    LET a == At(n, i)
    IN  IF a.leg \in {"WaitHopReady", "AwaitHopStatus"}
        THEN ResetAndRelease(n, HopKey(n, i))
        ELSE IF a.leg = "Bridged"
        THEN ReleaseStream(PushIf(n, ~a.released /\ a.alive, ResetStream(RelayPeer, a.stream)),
                           HopKey(n, i))
        ELSE n

\* The second half: every field of the leg, and the promoted circuit.
Disarmed(n, i) ==
    LET a == At(n, i)
    IN  [PushIf(n, a.promoted # None, CloseCircuit(a.promoted)) EXCEPT
            !.attempts[i] = [a EXCEPT !.leg = "Inactive", !.relay_dl = None, !.punch_dl = None,
                                      !.alive = FALSE, !.promoted = None]]

\* fn teardown_relay_leg
TeardownRelayLeg(n, i) == Disarmed(DropLegStream(TeardownDcutr(n, i), i), i)

\* fn fail
Fail(n, i) ==
    Done(Raise(TeardownRelayLeg(n, i), [event |-> "ConnectFailed", id |-> i]), i)

\* fn cancel
CancelAttempt(n, i) == Done(TeardownRelayLeg(n, i), i)

\* fn fail_if_no_legs_remain
FailIfNoLegsRemain(n, i) ==
    LET a == At(n, i)
    IN  IF a.best = None /\ a.live = 0 /\ a.leg \in {"Failed", "Inactive"} /\ ~a.done
        THEN Fail(n, i) ELSE n

LegFailed(n, i) == [n EXCEPT !.attempts[i].leg = "Failed", !.attempts[i].relay_dl = None]

\* Mutant of FailRelayLeg: the stream is reset and stays registered.
FailRelayLegKeepsStream(n, i) == FailIfNoLegsRemain(LegFailed(n, i), i)

\* fn fail_relay_leg
FailRelayLeg(n, i) ==
    FailIfNoLegsRemain(
        LegFailed(IF At(n, i).leg \in {"WaitHopReady", "AwaitHopStatus"}
                  THEN ResetAndRelease(n, HopKey(n, i)) ELSE n, i), i)

\* fn open_hop
OpenHop(n, i) ==
    [Push(n, OpenStream("OpenHop", i, RelayPeer, HOP)) EXCEPT !.attempts[i].leg = "OpeningHop"]

\* fn begin_relay_leg, after relay_deadline is armed
EnterRelayLeg(n, i) ==
    IF n.ready[RelayPeer] # None
    THEN IF HOP \in n.ready[RelayPeer] THEN OpenHop(n, i) ELSE FailRelayLeg(n, i)
    ELSE [IF IsConnected(n, RelayPeer) \/ SessionDialPending(n, RelayPeer) THEN n
          ELSE PushSessionDial(n, "RelayDial", i, RelayPeer, relay_leg_deadline)
            EXCEPT !.attempts[i].leg = "WaitRelayReady"]

\* fn begin_relay_leg
BeginRelayLeg(n, i) ==
    EnterRelayLeg([n EXCEPT !.attempts[i].relay_dl = relay_leg_deadline], i)

\* fn redrive_relay_leg
RedriveRelayLeg(n, i) ==
    LET a == At(n, i)
    IN  IF \/ a.done \/ a.leg # "WaitRelayReady"
           \/ a.relay_dl \in {None, 0}
           \/ IsConnected(n, RelayPeer) \/ SessionDialPending(n, RelayPeer)
        THEN n
        ELSE PushSessionDial(n, "RelayDial", i, RelayPeer, relay_leg_deadline)

NewAttempt(p, candidates, relay) ==
    [peer |-> p, connect |-> connect_deadline, live |-> candidates, relay |-> relay,
     leg |-> "Inactive", stream |-> None, until |-> None, relay_dl |-> None,
     dcutr |-> None, dstream |-> None, alive |-> FALSE, released |-> FALSE, inner |-> None,
     promoted |-> None, requested |-> FALSE, rwc |-> FALSE, data |-> 0,
     addrs |-> FALSE, dials |-> FALSE, punch_dl |-> None, window |-> 0,
     best |-> None, settled |-> FALSE, done |-> FALSE]

WithDirectDials(n, i, p, candidates) ==
    [n EXCEPT !.actions = @ \o [k \in 1..candidates |-> Dial("DirectDial", i, p)]]

\* fn start, with `candidates` direct addresses left by select_direct_addrs
StartAttempt(n, i, p, candidates, relay) ==
    LET m == WithDirectDials([n EXCEPT !.attempts[i] = NewAttempt(p, candidates, relay)],
                                  i, p, candidates)
    IN  IF candidates = 0 /\ ~relay THEN Raise(n, [event |-> "ConnectFailed", id |-> i])
        ELSE IF ~relay THEN m
        ELSE IF n.config.force_relay \/ relay_stagger = 0 \/ candidates = 0 THEN BeginRelayLeg(m, i)
        ELSE [m EXCEPT !.attempts[i].leg = "WaitStagger", !.attempts[i].until = relay_stagger]

-----------------------------------------------------------------------------
(* The bridge and the hole punch. *)

\* fn promote_bridge
PromoteAttempt(n, i) ==
    LET a == At(n, i)
    IN  IF a.released \/ a.leg # "Bridged" \/ a.inner = None THEN n
        ELSE [Push(ReleaseStream(n, HopKey(n, i)),
                   PromoteBridge("PromoteAttempt", i, a.inner, a.stream, a.data, a.rwc))
                EXCEPT !.attempts[i].released = TRUE, !.attempts[i].requested = TRUE,
                       !.attempts[i].data = 0]

\* fn settle_after_punch, after the DCUtR stream is torn down
Settle(n, i) ==
    LET a == At(n, i)
    IN  IF a.alive /\ a.leg = "Bridged"
        THEN LET m == PromoteAttempt([n EXCEPT !.attempts[i].settled = TRUE], i)
             IN  IF a.best # None THEN Done(Raise(m, [event |-> "FellBackToRelay", id |-> i]), i) ELSE m
        ELSE IF a.alive THEN [n EXCEPT !.attempts[i].settled = TRUE]
        ELSE IF a.best # None
        THEN IF a.live = 0 /\ a.punch_dl = None THEN Done(n, i) ELSE n
        ELSE IF a.live > 0 \/ a.punch_dl # None THEN n
        ELSE Fail(n, i)

\* fn settle_after_punch
SettleAfterPunch(n, i) == IF At(n, i).done THEN n ELSE Settle(TeardownDcutr(n, i), i)

\* fn issue_punch_dials.  The punch addresses stand for one address or none.
IssuePunchDials(n, i) ==
    [PushIf(n, At(n, i).addrs, Dial("PunchDial", i, At(n, i).peer)) EXCEPT !.attempts[i].dials = TRUE]

\* fn on_punch_window_elapsed
OnPunchWindowElapsed(n, i) ==
    LET m == Raise(n, [event |-> "HolePunchFailed", id |-> i])
    IN  IF At(n, i).window < 1 + punch_max_retries
        THEN [IssuePunchDials(m, i) EXCEPT !.attempts[i].window = @ + 1,
                                           !.attempts[i].punch_dl = punch_deadline]
        ELSE SettleAfterPunch([m EXCEPT !.attempts[i].punch_dl = None], i)

\* fn punch_failed_permanently
PunchFailedPermanently(n, i) ==
    SettleAfterPunch([Raise(n, [event |-> "HolePunchFailed", id |-> i])
                        EXCEPT !.attempts[i].punch_dl = None], i)

\* fn finish_failed_dcutr
FinishFailedDcutr(n, i) ==
    LET m == Raise(TeardownDcutr(n, i), [event |-> "HolePunchFailed", id |-> i])
    IN  Done([Raise(m, [event |-> "FellBackToRelay", id |-> i]) EXCEPT !.attempts[i].settled = TRUE], i)

\* fn on_dcutr_stream_opened
OnDcutrStreamOpened(n, i, s) ==
    [n EXCEPT !.attempts[i].dstream = s, !.attempts[i].dcutr = "AwaitingConnect"]

\* The outputs of the DcutrResponder: our CONNECT reply, or the punch that SYNC starts.
OnDcutrOutput(n, i, s, frame, next) ==
    CASE next = "AwaitingSync" /\ frame # "Incomplete" ->
            [Push(n, SendStream(At(n, i).peer, s, "ConnectReply")) EXCEPT
                !.attempts[i].addrs = (frame = "Addrs"), !.attempts[i].dcutr = next]
      [] next = "Done" ->
            IF ~At(n, i).addrs THEN PunchFailedPermanently(TeardownDcutr(n, i), i)
            ELSE [IssuePunchDials(TeardownDcutr(n, i), i) EXCEPT
                    !.attempts[i].window = 1, !.attempts[i].punch_dl = punch_deadline]
      [] OTHER -> n

\* fn on_dcutr_stream_input.  RemoteWriteClosed and Closed decode nothing new.
OnDcutrStreamInput(n, i, s, input, frame) ==
    LET next == DcutrResponderNext(At(n, i).dcutr, frame)
    IN  IF At(n, i).dstream # s \/ At(n, i).dcutr = None \/ input = "Ready" THEN n
        ELSE IF input # "Data" \/ next = "Failed" THEN FinishFailedDcutr(n, i)
        ELSE OnDcutrOutput(n, i, s, frame, next)

-----------------------------------------------------------------------------
(* Connections. *)

\* fn announce_relay_path and the rest of on_connection_established for a circuit
CircuitEstablished(n, i) ==
    LET a == At(n, i)
        m == IF a.best # None THEN n
             ELSE [Raise(n, [event |-> "PathEstablished", id |-> i, path |-> "Relayed"])
                     EXCEPT !.attempts[i].best = "Relayed"]
    IN  IF n.config.force_relay THEN Done(m, i)
        ELSE IF a.settled THEN Done(Raise(m, [event |-> "FellBackToRelay", id |-> i]), i)
        ELSE m

\* A connection that is not a circuit: a first path, or an upgrade of the relayed one.
DirectEstablished(n, i) ==
    LET a == At(n, i)
        path == IF a.dials /\ a.live = 0 THEN "DirectPunched" ELSE "DirectDialed"
        event == IF a.best = None THEN "PathEstablished" ELSE "PathUpgraded"
    IN  IF a.best \notin {None, "Relayed"} THEN n
        ELSE Done(TeardownRelayLeg([Raise(n, [event |-> event, id |-> i, path |-> path])
                                      EXCEPT !.attempts[i].best = path], i), i)

\* fn on_connection_established
AttemptEstablished(n, i, c) ==
    LET a == At(n, i)
    IN  IF a = None THEN n
        ELSE IF a.done \/ PeerOf[c] # a.peer THEN n
        ELSE IF c \notin CircuitConns THEN DirectEstablished(n, i)
        ELSE IF a.promoted = c THEN CircuitEstablished(n, i) ELSE n

\* fn on_bridge_lost
OnBridgeLost(n, i) ==
    LET a == At(n, i)
    IN  IF ~a.alive THEN n
        ELSE [IF a.released THEN n ELSE ReleaseStream(n, HopKey(n, i)) EXCEPT
                !.attempts[i] = [a EXCEPT !.alive = FALSE, !.released = TRUE, !.leg = "Failed"]]

\* fn on_connection_closed.  Waiting for the relay and opening a stream belong to
\* the peer, not to a connection, and survive.
AttemptClosed(n, i, c) ==
    LET a == At(n, i)
    IN  IF a = None THEN n
        ELSE IF a.done THEN n
        ELSE IF a.promoted = c
        THEN SettleAfterPunch([n EXCEPT !.attempts[i].promoted = None, !.attempts[i].alive = FALSE], i)
        ELSE IF ~a.relay \/ PeerOf[c] # RelayPeer \/ (a.inner # None /\ a.inner # c) THEN n
        ELSE IF a.leg \in {"WaitHopReady", "AwaitHopStatus"}
        THEN FailIfNoLegsRemain(LegFailed(ReleaseStream(n, HopKey(n, i)), i), i)
        ELSE IF a.leg = "Bridged" THEN OnBridgeLost(n, i)
        ELSE n

\* fn on_peer_ready
AttemptPeerReady(n, i, p) ==
    LET a == At(n, i)
    IN  IF a = None THEN n
        ELSE IF a.done \/ a.leg # "WaitRelayReady" \/ p # RelayPeer THEN n
        ELSE IF HOP \in n.ready[p] THEN OpenHop(n, i) ELSE FailRelayLeg(n, i)

-----------------------------------------------------------------------------
(* Results of the driver and input of the HOP stream. *)

\* fn on_dial_result, for an error.  Success changes nothing.
AttemptDialFailed(n, i, purpose) ==
    IF At(n, i) = None THEN n
    ELSE IF At(n, i).done THEN n
    ELSE CASE purpose = "DirectDial" ->
                FailIfNoLegsRemain([n EXCEPT !.attempts[i].live = Max({0, @ - 1})], i)
           [] purpose = "RelayDial" -> FailRelayLeg(n, i)
           [] OTHER -> n

\* fn on_stream_open_result, and stream_open_result for an attempt that ended
AttemptOpenResult(n, i, s) ==
    IF At(n, i) = None THEN PushIf(n, s # None, ResetStream(RelayPeer, s))
    ELSE IF At(n, i).done \/ At(n, i).leg # "OpeningHop"
    THEN PushIf(n, s # None, ResetStream(RelayPeer, s))
    ELSE IF s = None THEN FailRelayLeg(n, i)
    ELSE [OwnStream(n, <<RelayPeer, s>>, Role("HopConnect", i)) EXCEPT
            !.attempts[i].leg = "WaitHopReady", !.attempts[i].stream = s]

\* fn on_bridged, with the bytes coalesced behind STATUS
OnBridged(n, i, tail) ==
    PromoteAttempt([n EXCEPT !.attempts[i].leg = "Bridged", !.attempts[i].relay_dl = None,
                             !.attempts[i].alive = TRUE, !.attempts[i].data = @ + tail,
                             !.attempts[i].settled = @ \/ n.config.force_relay], i)

\* fn on_hop_data
OnHopData(n, i, chunk) ==
    CASE HopResponse(chunk.frame) = "None"     -> n
      [] HopResponse(chunk.frame) = "Accepted" -> OnBridged(n, i, chunk.tail)
      [] OTHER                                 -> FailRelayLeg(n, i)

\* fn on_stream_closed
OnHopClosed(n, i, s) ==
    LET a == At(n, i)
    IN  IF a.stream # s THEN n
        ELSE IF a.leg \in {"WaitHopReady", "AwaitHopStatus"} THEN FailRelayLeg(n, i)
        ELSE IF a.leg = "Bridged" THEN OnBridgeLost(n, i) ELSE n

\* fn on_stream_input.  A half-close finds no frame in HopConnect's buffer that
\* fn on_hop_data has not already decoded.
OnHopStreamInput(n, i, c, s, input, chunk) ==
    LET a == At(n, i)
        here == a.stream = s
    IN  IF a = None THEN n
        ELSE IF a.done THEN n
        ELSE CASE input = "Ready" ->
                    IF a.leg = "WaitHopReady" /\ here
                    THEN [Push(n, SendStream(RelayPeer, s, "Connect")) EXCEPT
                            !.attempts[i].leg = "AwaitHopStatus", !.attempts[i].inner = c]
                    ELSE [n EXCEPT !.attempts[i].inner = c]
               [] input = "Data" /\ a.leg = "AwaitHopStatus" /\ here ->
                    OnHopData(n, i, chunk)
               [] input = "Data" /\ a.leg = "Bridged" /\ here ->
                    [n EXCEPT !.attempts[i].data = @ + chunk.tail]
               [] input = "RemoteWriteClosed" /\ a.leg = "Bridged" /\ here ->
                    [n EXCEPT !.attempts[i].rwc = TRUE]
               [] input = "Closed" -> OnHopClosed(n, i, s)
               [] OTHER -> n

\* fn on_promote_result
AttemptPromoteResult(n, i, result) ==
    IF At(n, i) = None THEN n
    ELSE IF result \in Conns THEN [n EXCEPT !.attempts[i].promoted = result]
    ELSE LET m == [n EXCEPT !.attempts[i].alive = FALSE, !.attempts[i].leg = "Failed"]
         IN  IF result = "PeerAlreadyDirect" THEN m ELSE FailIfNoLegsRemain(m, i)

-----------------------------------------------------------------------------
(* fn on_tick, one phase per deadline. *)

StaggerPhase(n, i) ==
    IF At(n, i).leg = "WaitStagger" /\ At(n, i).until = 0
    THEN BeginRelayLeg([n EXCEPT !.attempts[i].until = None], i) ELSE n

RelayPhase(n, i) == IF At(n, i).relay_dl = 0 THEN FailRelayLeg(n, i) ELSE n

PunchPhase(n, i) == IF At(n, i).punch_dl = 0 THEN OnPunchWindowElapsed(n, i) ELSE n

\* Mutant of ConnectPhase: an attempt with a live direct dial waits on.
ConnectPhaseWaitsForDials(n, i) ==
    IF At(n, i).done \/ At(n, i).connect # 0 \/ At(n, i).live > 0 THEN n
    ELSE IF At(n, i).best # None THEN SettleAfterPunch([n EXCEPT !.attempts[i].punch_dl = None], i)
    ELSE Fail(n, i)

\* Mutant of ConnectPhase: the deadline fails the attempt whatever was announced.
ConnectPhaseAlwaysFails(n, i) ==
    IF At(n, i).done \/ At(n, i).connect # 0 THEN n ELSE Fail(n, i)

ConnectPhase(n, i) ==
    IF At(n, i).done \/ At(n, i).connect # 0 THEN n
    ELSE IF At(n, i).best # None
    THEN SettleAfterPunch([n EXCEPT !.attempts[i].live = 0, !.attempts[i].punch_dl = None], i)
    ELSE Fail([n EXCEPT !.attempts[i].live = 0], i)

AttemptTick(n, i) ==
    IF At(n, i) = None THEN n
    ELSE ConnectPhase(PunchPhase(RedriveRelayLeg(RelayPhase(StaggerPhase(n, i), i), i), i), i)

\* fn next_deadline
AttemptDue(a) ==
    0 \in {a.connect, a.relay_dl, a.punch_dl} \/ (a.leg = "WaitStagger" /\ a.until = 0)
=============================================================================
