---------------------------- MODULE RelayServer ----------------------------
(* The relay server as the std endpoint runs it: RelayServerDriver
   (crates/minip2p/src/std/relay_server.rs) between the agent of RelayAgent and
   the swarm, whose peers open HOP streams, answer STOP streams, write, finish,
   reset, disconnect and reconnect.

   The host is one thread.  It feeds the agent one swarm event, executes every
   action that the agent queued, then takes the next event; deadlines are swept
   in between.  The swarm runs ahead of the agent: `conn` and `stream` are its
   tables, `inbox` holds what it reported and the driver has not read yet.  The
   host does nothing else while actions wait, so that peers move only between
   two rounds.  Stream ids are those of the swarm; a payload byte is a pair of
   the stream it was written to and its position. *)
EXTENDS RelayAgent, SequencesExt

CONSTANTS
    Established,        \* connections that the agent knows from the start
    MaxInbox,           \* swarm events that wait for the driver
    MaxNow,
    Workloads           \* what the peers and the application may do, one of which an
                        \* execution has

Requests == [type : {"Reserve", "Malformed", "Garbage"}] \cup [type : {"Connect"}, dst : Peers]

(* A workload: the frames that the peer of a HOP stream may send, none for a stream
   that is not opened; the payload bytes a peer may write per stream; the streams it
   may finish; how many resets, lost connections, refused sends and opens there are;
   when the application may pause and resume; and whether a source that sent payload
   along with its CONNECT writes more before it is answered. *)
Workload ==
    [ requests   : [HopKeys -> SUBSET Requests],
      bytes      : [Keys -> Nat],
      finishing  : SUBSET Keys,
      MaxFaults  : Nat,
      PauseTimes : SUBSET Nat,
      hasty      : BOOLEAN ]

ASSUME WorkloadAssumption == \A w \in Workloads : w \in Workload

VARIABLES
    ag,             \* the agent
    pending_opens,  \* per STOP stream: the CONNECT it is being opened for
    conn, stream,   \* the swarm's connections and streams
    inbox,
    fin, shut,      \* streams finished by the peer, and by the relay
    said,           \* per stream: None, or whether the peer's control frame asked
                    \* for a circuit, and with payload behind it
    wrote,          \* per stream: how many payload bytes the peer wrote
    heard,          \* per stream: what the peer was sent
    seen,           \* what the application was told
    legs,           \* per STOP stream: the CONNECT it was opened for, kept
    faults,         \* faults so far
    now,
    work            \* the workload

net  == <<conn, stream, fin, shut>>
peer == <<said, wrote>>
vars == <<ag, pending_opens, net, inbox, peer, heard, seen, legs, faults, now, work>>

Live(k) == stream[k] = "open"
Idle == ag.actions = <<>>
Fault == faults < work.MaxFaults /\ faults' = faults + 1
NoFault == UNCHANGED faults

Init ==
    /\ ag = FoldSet(LAMBDA c, a : OnConnectionEstablished(a, c), NewAgent, Established)
    /\ pending_opens = [k \in StopKeys |-> None]
    /\ conn = [c \in Conns |-> IF c \in Established THEN "up" ELSE "unused"]
    /\ stream = [k \in Keys |-> "unused"]
    /\ inbox = <<>>
    /\ fin = {} /\ shut = {}
    /\ said = [k \in Keys |-> None]
    /\ wrote = [k \in Keys |-> 0]
    /\ heard = [k \in Keys |-> <<>>]
    /\ seen = [reserved |-> {}, opened |-> {}, closed |-> {}, errors |-> {}, refused |-> {}, paired |-> TRUE]
    /\ legs = [k \in StopKeys |-> None]
    /\ faults = 0
    /\ now = 0
    /\ work \in Workloads

-----------------------------------------------------------------------------
(* Events of the agent, as the application counts them. *)

See(s, e) ==
    CASE e.event = "ReservationAccepted" ->
            [s EXCEPT !.reserved = @ \cup {e.peer},
                      !.paired = @ /\ (e.renewed <=> e.peer \in s.reserved)]
      [] e.event = "ReservationClosed" ->
            [s EXCEPT !.reserved = @ \ {e.peer}, !.paired = @ /\ e.peer \in s.reserved]
      [] e.event = "CircuitOpened" ->
            [s EXCEPT !.opened = @ \cup {e.key}, !.paired = @ /\ e.key \notin s.opened]
      [] e.event = "CircuitClosed" ->
            [s EXCEPT !.closed = @ \cup {e.key},
                      !.paired = @ /\ e.key \in s.opened \ s.closed]
      [] e.event = "Error" -> [s EXCEPT !.errors = @ \cup {e.kind}]
      [] OTHER -> s

\* fn pump, the agent's events: they are handed to the application.
Pump(a) ==
    /\ ag' = [a EXCEPT !.events = <<>>]
    /\ seen' = FoldLeft(See, seen, a.events)

-----------------------------------------------------------------------------
(* The driver. *)

\* fn ingest, the opens that a closing connection fails.
FailOpens(a, c) ==
    LET Fail(k, b) == StreamOpenResult(b, pending_opens[k], None)
    IN  FoldSet(Fail, a, {k \in StopKeys : Conn(k) = c /\ pending_opens[k] # None})

\* The event that resolves an open: fn ingest hands it to the agent without a
\* sweep of the deadlines.
ResolvesOpen(e) ==
    /\ e.type \in {"StreamReady", "StreamClosed"}
    /\ e.key \in StopKeys
    /\ pending_opens[e.key] # None

\* RelayServerAgent::handle_event
HandleEvent(a, e) ==
    CASE e.type = "ConnectionEstablished"   -> OnConnectionEstablished(a, e.conn)
      [] e.type = "ConnectionClosed"        -> OnConnectionClosed(a, e.conn, e.cause)
      [] e.type = "StreamReady"             -> OnHopReady(a, e.key, now)
      [] e.type = "StreamData"              -> OnStreamData(a, e.key, e.frame, e.bytes, now)
      [] e.type = "StreamRemoteWriteClosed" -> OnStreamRemoteWriteClosed(a, e.key)
      [] e.type = "StreamClosed"            -> OnStreamClosed(a, e.key)

\* fn ingest
Ingest ==
    /\ Idle /\ inbox # <<>>
    /\ inbox' = Tail(inbox)
    /\ LET e == Head(inbox)
       IN  /\ pending_opens' =
                [k \in StopKeys |->
                    IF \/ ResolvesOpen(e) /\ k = e.key
                       \/ e.type = "ConnectionClosed" /\ Conn(k) = e.conn
                    THEN None ELSE pending_opens[k]]
           /\ Pump(IF ResolvesOpen(e)
                   THEN StreamOpenResult(ag, pending_opens[e.key],
                                         IF e.type = "StreamReady" THEN e.key ELSE None)
                   ELSE HandleEvent(
                            TickBeforeEvent(IF e.type = "ConnectionClosed"
                                            THEN FailOpens(ag, e.conn) ELSE ag, now), e))
    /\ UNCHANGED <<net, peer, heard, legs, faults, now, work>>

\* fn tick
HostTick ==
    /\ Idle /\ TimeoutIsDue(ag, now)
    /\ Pump(HandleTick(ag, now))
    /\ UNCHANGED <<pending_opens, net, inbox, peer, heard, legs, faults, now, work>>

Popped == [ag EXCEPT !.actions = Tail(@)]

\* SwarmCore::require_stream_conn: the stream of the peer that has this id, on
\* whichever connection.
Addressed(k) == {t \in Keys : Live(t) /\ t[2] = k[2] /\ Peer(t) = Peer(k)}

StreamClosed(k) == [type |-> "StreamClosed", key |-> k]

\* fn execute, OpenStream: the open fails, or the swarm starts to negotiate.
ExecuteOpen ==
    \E act \in {Head(ag.actions)} :
    /\ act.op = "Open"
    /\ \/ /\ IF conn[act.conn] = "up" THEN Fault ELSE NoFault
          /\ Pump(StreamOpenResult(Popped, act.src, None))
          /\ UNCHANGED <<pending_opens, stream, legs>>
       \/ \E k \in StopKeys :
            /\ Conn(k) = act.conn /\ conn[act.conn] = "up"
            /\ stream[k] = "unused"
            /\ \A j \in StopKeys : Conn(j) = Conn(k) /\ stream[j] = "unused" => j[2] >= k[2]
            /\ stream' = [stream EXCEPT ![k] = "negotiating"]
            /\ pending_opens' = [pending_opens EXCEPT ![k] = act.src]
            /\ legs' = [legs EXCEPT ![k] = act.src]
            /\ Pump(Popped)
            /\ NoFault
    /\ UNCHANGED <<conn, fin, shut, inbox, peer, heard, now, work>>

\* What a send puts on the wire.
Wire(act) == IF act.effect = "CommitReservation" THEN <<"status">> ELSE act.data

\* fn execute, SendStream: the transport takes the bytes, or it refuses them.
ExecuteSend ==
    \E act \in {Head(ag.actions)} :
    /\ act.op = "Send"
    /\ \/ \E t \in Addressed(act.to) \ shut :
            /\ heard' = [heard EXCEPT ![t] = @ \o Wire(act)]
            /\ Pump(SendAccepted(Popped, act, now))
            /\ NoFault
       \/ /\ IF Addressed(act.to) \ shut # {} THEN Fault ELSE NoFault
          /\ \E a \in {SendRefused(Popped, act)} :
                /\ ag' = [a EXCEPT !.events = <<>>]
                /\ seen' = [FoldLeft(See, seen, a.events)
                              EXCEPT !.refused = @ \cup (Addressed(act.to) \ shut)]
          /\ UNCHANGED heard
    /\ UNCHANGED <<pending_opens, net, inbox, peer, legs, now, work>>

\* fn execute, CloseStreamWrite: a stream that the peer finished closes.
ExecuteClose ==
    \E act \in {Head(ag.actions)} :
    /\ act.op = "Close"
    /\ \/ \E t \in Addressed(act.to) :
            /\ shut' = shut \cup {t}
            /\ stream' = [stream EXCEPT ![t] = IF t \in fin THEN "closed" ELSE @]
            /\ inbox' = IF t \in fin THEN Append(inbox, StreamClosed(t)) ELSE inbox
            /\ Pump(CloseStreamWriteResult(Popped, act, TRUE))
       \/ /\ Addressed(act.to) = {}
          /\ Pump(CloseStreamWriteResult(Popped, act, FALSE))
          /\ UNCHANGED <<shut, stream, inbox>>
    /\ UNCHANGED <<pending_opens, conn, fin, peer, heard, legs, faults, now, work>>

\* fn execute, ResetStream
ExecuteReset ==
    \E act \in {Head(ag.actions)} :
    /\ act.op = "Reset"
    /\ stream' = [k \in Keys |-> IF k \in Addressed(act.to) THEN "closed" ELSE stream[k]]
    /\ inbox' = inbox \o SetToSeq({StreamClosed(k) : k \in Addressed(act.to)})
    /\ Pump(Popped)
    /\ UNCHANGED <<pending_opens, conn, fin, shut, peer, heard, legs, faults, now, work>>

Execute ==
    /\ ag.actions # <<>>
    /\ ExecuteOpen \/ ExecuteSend \/ ExecuteClose \/ ExecuteReset

-----------------------------------------------------------------------------
(* The application, the peers and the transport. *)

\* Endpoint::set_relay_server_accepting
AppSetsAccepting ==
    /\ Idle /\ now \in work.PauseTimes
    /\ ag' = SetAccepting(ag, ~ag.accepting)
    /\ UNCHANGED <<pending_opens, net, inbox, peer, heard, seen, legs, faults, now, work>>

Report(events) ==
    /\ Idle /\ Len(inbox) + Len(events) <= MaxInbox
    /\ inbox' = inbox \o events
    /\ UNCHANGED <<ag, pending_opens, heard, seen, legs, now, work>>

\* The streams once connection c is gone.
Dropped(c) == [k \in Keys |-> IF Conn(k) = c /\ stream[k] # "unused" THEN "closed" ELSE stream[k]]

\* A connection comes up.  It supersedes the peer's other one, which the swarm
\* reports first.
Connect(c) ==
    LET old == {d \in Conns : conn[d] = "up" /\ PeerOf[d] = PeerOf[c]}
    IN  /\ conn[c] = "unused"
        /\ \A d \in Conns : PeerOf[d] = PeerOf[c] /\ d < c => conn[d] # "unused"
        /\ conn' = [d \in Conns |-> IF d = c THEN "up" ELSE IF d \in old THEN "down" ELSE conn[d]]
        /\ stream' = [k \in Keys |-> IF Conn(k) \in old /\ stream[k] # "unused"
                                     THEN "closed" ELSE stream[k]]
        /\ IF old = {} THEN NoFault ELSE Fault
        /\ Report(SetToSeq({[type |-> "ConnectionClosed", conn |-> d, cause |-> "Superseded"] : d \in old})
                  \o <<[type |-> "ConnectionEstablished", conn |-> c]>>)
        /\ UNCHANGED <<fin, shut, peer>>

Disconnect(c) ==
    /\ conn[c] = "up"
    /\ conn' = [conn EXCEPT ![c] = "down"]
    /\ stream' = Dropped(c)
    /\ Fault
    /\ Report(<<[type |-> "ConnectionClosed", conn |-> c, cause |-> "ConnectionClosed"]>>)
    /\ UNCHANGED <<fin, shut, peer>>

\* A peer opens a HOP stream and negotiates it.
RemoteOpensHop(k) ==
    /\ k \in HopKeys /\ conn[Conn(k)] = "up" /\ stream[k] = "unused"
    /\ work.requests[k] # {}
    /\ \A j \in HopKeys : Conn(j) = Conn(k) /\ stream[j] = "unused" => j[2] >= k[2]
    /\ stream' = [stream EXCEPT ![k] = "open"]
    /\ NoFault
    /\ Report(<<[type |-> "StreamReady", key |-> k]>>)
    /\ UNCHANGED <<conn, fin, shut, peer>>

\* A STOP stream is negotiated, or it is not: then the swarm reports an error
\* that the driver does not read.
StopNegotiated(k) ==
    /\ k \in StopKeys /\ stream[k] = "negotiating"
    /\ stream' = [stream EXCEPT ![k] = "open"]
    /\ NoFault
    /\ Report(<<[type |-> "StreamReady", key |-> k]>>)
    /\ UNCHANGED <<conn, fin, shut, peer>>

StopNegotiationFails(k) ==
    /\ k \in StopKeys /\ stream[k] = "negotiating"
    /\ stream' = [stream EXCEPT ![k] = "closed"]
    /\ Fault
    /\ Report(<<>>)
    /\ UNCHANGED <<conn, fin, shut, peer>>

Data(k, frame, n) ==
    [type |-> "StreamData", key |-> k, frame |-> frame,
     bytes |-> [i \in 1..n |-> <<k, wrote[k] + i>>]]

CanWrite(k) == Live(k) /\ k \notin fin

Replies == {[type |-> t] : t \in {"Ok", "Refused", "Malformed", "Garbage"}}

\* A source sends its request, with or without payload behind it.
RemoteRequests(k, frame, n) ==
    /\ CanWrite(k) /\ said[k] = None /\ n <= work.bytes[k]
    /\ n > 0 => frame.type = "Connect"
    /\ said' = [said EXCEPT ![k] = IF frame.type # "Connect" THEN "no circuit"
                                   ELSE IF n > 0 THEN "coalesced" ELSE "circuit"]
    /\ wrote' = [wrote EXCEPT ![k] = n]
    /\ NoFault
    /\ Report(<<Data(k, frame, n)>>)
    /\ UNCHANGED net

\* A destination answers a STOP CONNECT, with or without payload behind it.
RemoteReplies(k, frame, n) ==
    /\ CanWrite(k) /\ said[k] = None /\ heard[k] # <<>> /\ n <= work.bytes[k]
    /\ n > 0 => frame.type = "Ok"
    /\ said' = [said EXCEPT ![k] = IF frame.type = "Ok" THEN "circuit" ELSE "no circuit"]
    /\ wrote' = [wrote EXCEPT ![k] = n]
    /\ NoFault
    /\ Report(<<Data(k, frame, n)>>)
    /\ UNCHANGED net

\* A peer writes a payload byte to a circuit, or to what it hopes will be one.
RemoteWrites(k) ==
    /\ CanWrite(k) /\ said[k] \in {"circuit", "coalesced"}
    /\ said[k] = "coalesced" /\ ~work.hasty => heard[k] # <<>>
    /\ wrote[k] < work.bytes[k]
    /\ wrote' = [wrote EXCEPT ![k] = @ + 1]
    /\ NoFault
    /\ Report(<<Data(k, None, 1)>>)
    /\ UNCHANGED <<net, said>>

\* A peer finishes a stream: the stream closes if the relay finished it too.
RemoteFins(k) ==
    /\ CanWrite(k) /\ k \in work.finishing
    /\ fin' = fin \cup {k}
    /\ stream' = [stream EXCEPT ![k] = IF k \in shut THEN "closed" ELSE @]
    /\ NoFault
    /\ Report(<<[type |-> "StreamRemoteWriteClosed", key |-> k]>>
              \o IF k \in shut THEN <<StreamClosed(k)>> ELSE <<>>)
    /\ UNCHANGED <<conn, shut, peer>>

RemoteResets(k) ==
    /\ Live(k)
    /\ stream' = [stream EXCEPT ![k] = "closed"]
    /\ Fault
    /\ Report(<<StreamClosed(k)>>)
    /\ UNCHANGED <<conn, fin, shut, peer>>

AdvanceTime ==
    /\ Idle /\ now < MaxNow
    /\ now' = now + 1
    /\ ag' = [ag EXCEPT !.swept = FALSE]
    /\ UNCHANGED <<pending_opens, net, inbox, peer, heard, seen, legs, faults, work>>

Next ==
    \/ Ingest \/ HostTick \/ Execute
    \/ AppSetsAccepting \/ AdvanceTime
    \/ \E c \in Conns : Connect(c) \/ Disconnect(c)
    \/ \E k \in Keys : \/ RemoteOpensHop(k) \/ StopNegotiated(k) \/ StopNegotiationFails(k)
                       \/ RemoteWrites(k) \/ RemoteFins(k) \/ RemoteResets(k)
    \/ \E k \in HopKeys  : \E f \in work.requests[k], n \in {0, 1} : RemoteRequests(k, f, n)
    \/ \E k \in StopKeys : \E f \in Replies, n \in {0, 1} : RemoteReplies(k, f, n)

\* The endpoint's loop polls the swarm, executes the agent's actions and sweeps
\* its deadlines as long as it runs: a step of the host that stays enabled is
\* taken.  (This is weak fairness of the host's steps, with their enabling
\* condition spelled out.)  Time passes.
Host == Ingest \/ Execute \/ HostTick
HostRests == Idle /\ inbox = <<>> /\ ~TimeoutIsDue(ag, now)
Fairness == ([]<>HostRests \/ []<><<Host>>_vars) /\ WF_vars(AdvanceTime)

Spec == Init /\ [][Next]_vars /\ Fairness

-----------------------------------------------------------------------------
(* Correctness. *)

Frames == {"status", "connect"}

\* The admission limits hold at every moment, with a CONNECT counted from its
\* admission to the end of its circuit (fn decide_reservation, fn decide_connect,
\* fn on_hop_ready).
LimitsHold ==
    /\ Cardinality({p \in Peers : ag.reservations[p] # None}) <= max_reservations
    /\ Cardinality(Pending(ag)) + Cardinality(Circuits(ag)) <= max_circuits
    /\ \A p \in Peers :
        Cardinality({k \in Pending(ag)  : p \in {Peer(k), ag.pending_circuits[k].dst}}
               \cup {k \in Circuits(ag) : p \in {Peer(k), ag.circuits[k].dst}})
          <= max_circuits_per_peer
    /\ \A c \in Conns :
        /\ Cardinality({k \in Workers(ag) : Conn(k) = c /\ ag.hop_workers[k].deadline # None})
              <= max_pending_hop_requests_per_connection
        /\ Cardinality({k \in Pending(ag) : ag.pending_circuits[k].dst_conn = c})
              <= max_pending_stop_requests_per_connection

\* The STOP streams of the agent, through the CONNECTs that hold them.
HeldStops ==
    ({ag.pending_circuits[k].stop_stream : k \in Pending(ag)} \ {None})
    \cup {ag.circuits[k].dst_stream : k \in Circuits(ag)}

\* The agent's tables agree: stop_to_source is the inverse of the pending and the
\* committed circuits, a CONNECT is one or the other and has its HOP worker, a
\* reservation and a circuit live on connections that the agent knows.
TablesAgree ==
    /\ Pending(ag) \cap Circuits(ag) = {}
    /\ Pending(ag) \cup Circuits(ag) \subseteq Workers(ag)
    /\ {s \in StopKeys : ag.stop_to_source[s] # None} = HeldStops
    /\ \A k \in Circuits(ag) : ag.stop_to_source[ag.circuits[k].dst_stream] = k
    /\ \A k \in Pending(ag) : LET s == ag.pending_circuits[k].stop_stream
                              IN  s # None => ag.stop_to_source[s] = k
    /\ \A p \in Peers : ag.reservations[p] # None => ag.reservations[p].conn \in ag.connections
    /\ \A k \in Workers(ag) : Conn(k) \in ag.connections
    /\ \A s \in HeldStops : Conn(s) \in ag.connections

\* Every committed reservation and circuit is reported once when it begins and
\* once when it ends, whatever ends it (README of minip2p-relay-server:
\* "Exactly-once typed reservation/circuit events").
LifecyclePaired ==
    /\ seen.paired
    /\ seen.reserved = {p \in Peers : ag.reservations[p] # None}
    /\ seen.opened \ seen.closed = Circuits(ag)

\* The agent never meets a state that it calls an internal invariant violation:
\* a second send in one direction before the first was echoed, a decision on a
\* request that the wire machine does not have (fn queue_forward, fn feed_hop).
NoInternalError == "InternalInvariant" \notin seen.errors

\* Once the driver is done with an event and nothing waits, the agent owns no
\* stream that the swarm has closed (fn handle_event, fn on_connection_closed).
OwnsOnlyLive ==
    Idle /\ inbox = <<>> =>
        /\ \A k \in Workers(ag) \cup ag.rejected : Live(k)
        /\ \A s \in HeldStops : Live(s)

\* A STOP stream that the relay opened is never left behind: between two events
\* it is being negotiated, its open is about to be resolved, the agent holds it,
\* or it is finished (fn stream_open_result resets what it has no use for).
NoStrayStop ==
    Idle => \A s \in StopKeys :
        Live(s) => \/ s \in HeldStops
                   \/ pending_opens[s] # None
                   \/ s \in shut

\* The payload a peer was sent, without the control frame in front of it.
Payload(k) == SelectSeq(heard[k], LAMBDA x : x \notin Frames)
Partners(k) == IF k \in StopKeys THEN {legs[k]} \ {None} ELSE {s \in StopKeys : legs[s] = k}

\* What a peer reads on a stream is one control frame and then bytes that the other
\* leg's peer wrote, each at most once and none taken from another circuit
\* (fn append_pending_payload, fn commit_circuit, fn queue_forward).
CarriedOnce ==
    \A k \in Keys :
        heard[k] # <<>> =>
            /\ heard[k][1] \in Frames
            /\ Len(Payload(k)) = Len(heard[k]) - 1
            /\ IsInjective(Payload(k))
            /\ \A b \in Range(Payload(k)) : b[1] \in Partners(k) /\ b[2] <= wrote[b[1]]

\* A committed circuit is a byte pipe (crates/relay/README.md line 20: "the stream now
\* acting as a bidirectional byte pipe"): a peer reads what the other leg's peer wrote,
\* from the first byte on and in the order it was written.  There is one exception, a source
\* that sends payload along with its CONNECT and more of it before the answer:
\* append_pending_payload keeps the later bytes, and the HOP responder hands out the one it
\* retained behind them (agent.rs 1125-1131, 1279).  All the others keep their order.
InOrder ==
    \A k \in Keys :
        Payload(k) # <<>> =>
            \E j \in Partners(k) :
                LET later == SelectSeq(Payload(k), LAMBDA b : b[2] > 1)
                IN  \/ Payload(k) = [i \in 1..Len(Payload(k)) |-> <<j, i>>]
                    \/ /\ work.hasty /\ said[j] = "coalesced"
                       /\ later = [i \in 1..Len(later) |-> <<j, i + 1>>]

\* A leg of a circuit that the relay finished received all that the other leg's
\* peer wrote before it finished, unless the transport refused a part
\* (fn circuit_eof).
EofIsComplete ==
    \A k \in Circuits(ag) \cup seen.closed :
        \A s \in Partners(k) :
            /\ s \in shut \ seen.refused => Len(Payload(s)) = wrote[k]
            /\ k \in shut \ seen.refused => Len(Payload(k)) = wrote[s]

DeadlineIsDue(a) ==
    \/ \E p \in Peers : a.reservations[p] # None /\ a.reservations[p].deadline <= now
    \/ \E k \in Workers(a)  : Due(a.hop_workers[k].deadline, now)
    \/ \E k \in Pending(a)  : Due(a.pending_circuits[k].stop_deadline, now)
    \/ \E k \in Circuits(a) : Due(a.circuits[k].deadline, now)

\* Deadlines win: when the agent has handled an event, nothing that was due is
\* left, although it sweeps only once per clock reading (fn tick_before_event).
\* The result of an open is no such event.
DeadlinesFirst ==
    [][ Len(inbox') < Len(inbox) /\ ~ResolvesOpen(Head(inbox)) => ~DeadlineIsDue(ag') ]_vars

\* A CONNECT is admitted at most capacity times, plus once per refill interval
\* (TokenBuckets).
RateHolds ==
    circuit_rate_limit_per_peer # None =>
        \A p \in Peers :
            Cardinality({k \in HopKeys : Peer(k) = p /\ \E s \in StopKeys : legs[s] = k})
              <= circuit_rate_limit_per_peer.capacity
                 + now \div circuit_rate_limit_per_peer.refill_interval

\* A request that waits for its sender or for a destination; its deadline, if it
\* has one, is within the modelled time.
Unanswered(k) ==
    LET due == {w.deadline : w \in {ag.hop_workers[k]} \ {None}}
               \cup {c.stop_deadline : c \in {ag.pending_circuits[k]} \ {None}}
    IN  /\ k \in Pending(ag) \/ (k \in Workers(ag) /\ ag.hop_workers[k].phase = "waiting")
        /\ \A d \in due : d = None \/ d <= MaxNow

\* No request stays unanswered: it is decided, becomes a circuit or is ended by
\* the time its deadline is swept, whatever the peers do or fail to do
\* (fn next_timeout, fn handle_tick).
RequestsResolve == \A k \in HopKeys : Unanswered(k) ~> ~Unanswered(k)

\* What the relay keeps is within its limits, agrees with itself, with the swarm and
\* with what the application was told.
AdmissionIsSound == LimitsHold /\ TablesAgree /\ LifecyclePaired /\ OwnsOnlyLive /\ RateHolds

\* A circuit carries what its ends wrote, whole before an end of stream, nothing twice, and
\* in order but for the payload of a CONNECT whose source did not wait for the answer (see
\* InOrder); it leaves no stream and no broken invariant behind.
CircuitsCarry == NoInternalError /\ NoStrayStop /\ CarriedOnce /\ InOrder /\ EofIsComplete
=============================================================================
