-------------------------------- MODULE Nat --------------------------------
(* NatDriver (crates/minip2p/src/std/nat.rs) around the NAT agent, and the swarm and
   the network that it drives.

   The driver is one thread: an event or a tick is followed by the agent's actions,
   each executed with a synchronous result, and then by its events, before anything
   else happens.  The swarm and the remote peers are nondeterministic: a dial is
   refused, hangs or succeeds, a connection replaces the peer's older one (Closed
   before Established, as the swarm reports it), relays and targets answer with any
   frame.  Time passes at any point, so a tick may be late. *)
EXTENDS NatAgent, TLC

CONSTANTS
    Modes,          \* configurations, with the workload that the run gives each
    MaxInbox,       \* swarm events that wait for the driver
    MaxChunks       \* stream inputs that a remote sends on one stream

VARIABLES
    n,              \* the agent
    conns,          \* the swarm's connections
    streams,        \* its streams
    identified,     \* connections whose PeerReady was reported
    inbox,          \* swarm events not yet ingested
    promoted,       \* NatDriver::promoted
    paths,          \* NatDriver::paths
    reserved,       \* NatDriver::reserved_relays
    log,            \* the events of each connect id
    fuel            \* what is left of the workload

vars == <<n, conns, streams, identified, inbox, promoted, paths, reserved, log, fuel>>
swarm == <<conns, streams, identified, inbox>>
driver == <<promoted, paths, reserved, log>>

\* What a remote may send on a stream of each protocol.  Every frame that the
\* machine does not expect is Garbage to it.
Frames(protocol) ==
    {"Incomplete", "Garbage"} \cup
    CASE protocol = HOP     -> {"StatusOk", "StatusErr"}
      [] protocol = STOP    -> {"Connect", "BadSource"}
      [] protocol = DCUTR   -> {"Addrs", "NoAddrs", "Sync"}
      [] protocol = AUTONAT -> {"DialOk", "DialOkNoAddrs", "DialError", "BadRequest"}
      [] OTHER              -> {}

ConnStreams == Conns \X Streams
Up(p) == {c \in Conns : PeerOf[c] = p /\ conns[c] = "up"}
Resting == n.actions = <<>> /\ n.events = <<>>
Room == Resting /\ Len(inbox) < MaxInbox

Init ==
    \E mode \in Modes :
        /\ n = NewAgent(mode.config)
        /\ fuel = mode.fuel
        /\ conns = [c \in Conns |-> IF c \in mode.unused THEN "gone" ELSE "idle"]
        /\ streams = [x \in ConnStreams |-> None]
        /\ identified = {}
        /\ inbox = <<>>
        /\ promoted = [x \in ConnStreams |-> None]
        /\ paths = [p \in Peers |-> None]
        /\ reserved = {}
        /\ log = [i \in ConnectIds |-> <<>>]

-----------------------------------------------------------------------------
(* The swarm and the network, modelled from how the driver uses them. *)

\* What goes with a connection: its streams, and the circuits bridged over it once
\* the driver hears of it.
Without(s, c) == [x \in ConnStreams |-> IF x[1] = c THEN None ELSE s[x]]

Closed(c) == [event |-> "ConnectionClosed", conn |-> c]

\* A handshake completes.  The peer's older connection is superseded.  A direct
\* connection ends the circuits of the peer that are in their handshake, and a
\* circuit does not come up beside a direct connection.
Establish(c) ==
    /\ Room
    /\ conns[c] = "dialing"
    /\ c \in CircuitConns => Up(PeerOf[c]) \subseteq CircuitConns
    /\ conns' = [x \in Conns |->
                    IF x = c THEN "up"
                    ELSE IF \/ x \in Up(PeerOf[c])
                            \/ x \in CircuitConns /\ conns[x] = "dialing" /\ PeerOf[x] = PeerOf[c]
                    THEN "gone" ELSE conns[x]]
    /\ streams' = [x \in ConnStreams |-> IF x[1] \in Up(PeerOf[c]) THEN None ELSE streams[x]]
    /\ inbox' = inbox \o SetToSeq({Closed(o) : o \in Up(PeerOf[c])})
                      \o << [event |-> "ConnectionEstablished", conn |-> c] >>
    /\ UNCHANGED <<n, identified, fuel>> /\ UNCHANGED driver

\* The remote peer dials us.
Accept(c) ==
    /\ Room /\ fuel.accepts > 0
    /\ conns[c] = "idle" /\ c \notin CircuitConns
    /\ conns' = [conns EXCEPT ![c] = "dialing"]
    /\ fuel' = [fuel EXCEPT !.accepts = @ - 1]
    /\ UNCHANGED <<n, streams, identified, inbox>> /\ UNCHANGED driver

\* A dial or a circuit's handshake dies without a word.
Vanish(c) ==
    /\ Resting
    /\ conns[c] = "dialing"
    /\ conns' = [conns EXCEPT ![c] = "gone"]
    /\ UNCHANGED <<n, streams, identified, inbox, fuel>> /\ UNCHANGED driver

Disconnect(c) ==
    /\ Room /\ fuel.closes > 0
    /\ conns[c] = "up"
    /\ conns' = [conns EXCEPT ![c] = "gone"]
    /\ streams' = Without(streams, c)
    /\ inbox' = Append(inbox, Closed(c))
    /\ fuel' = [fuel EXCEPT !.closes = @ - 1]
    /\ UNCHANGED <<n, identified>> /\ UNCHANGED driver

Identified(c, protocols) ==
    /\ Room
    /\ conns[c] = "up" /\ c \notin identified
    /\ identified' = identified \cup {c}
    /\ inbox' = Append(inbox, [event |-> "PeerReady", peer |-> PeerOf[c], protocols |-> protocols])
    /\ UNCHANGED <<n, conns, streams, fuel>> /\ UNCHANGED driver

Stream(kind, phase) == [kind |-> kind, phase |-> phase, chunks |-> 0]
\* An id is used once on a connection.
Ended == Stream(None, "ended")
FreeStreams(c) == {s \in Streams : streams[<<c, s>>] = None}

\* A stream that we opened is negotiated.
Negotiated(c, s) ==
    /\ Room
    /\ streams[<<c, s>>] # None /\ streams[<<c, s>>].phase = "opening"
    /\ streams' = [streams EXCEPT ![<<c, s>>].phase = "ready"]
    /\ inbox' = Append(inbox, [event |-> "StreamReady", conn |-> c, s |-> s])
    /\ UNCHANGED <<n, conns, identified, fuel>> /\ UNCHANGED driver

\* A remote peer opens a control stream: a relay its STOP, a target its DCUtR.
Incoming(c, s, protocol) ==
    /\ Room /\ fuel.incoming > 0
    /\ conns[c] = "up" /\ s \in FreeStreams(c)
    /\ protocol = IF c \in CircuitConns THEN DCUTR ELSE STOP
    /\ protocol = STOP => n.next.inbound \in InboundIds
    /\ streams' = [streams EXCEPT ![<<c, s>>] = Stream(protocol, "ready")]
    /\ inbox' = Append(inbox, [event |-> "InboundStream", conn |-> c, s |-> s, protocol |-> protocol])
    /\ fuel' = [fuel EXCEPT !.incoming = @ - 1]
    /\ UNCHANGED <<n, conns, identified>> /\ UNCHANGED driver

\* A remote peer sends, half-closes or closes a stream.
Remote(c, s, input, frame, tail) ==
    LET x == <<c, s>>
    IN  /\ Room
        /\ streams[x] # None /\ streams[x].phase = "ready" /\ streams[x].kind # "app"
        /\ frame \in Frames(streams[x].kind)
        /\ streams[x].chunks < MaxChunks
        /\ tail > 0 => frame \in {"StatusOk", "Connect"}
        /\ streams' = IF input = "Closed" THEN [streams EXCEPT ![x] = Ended]
                      ELSE IF input = "Data" /\ frame = "Incomplete" THEN streams
                      ELSE [streams EXCEPT ![x].chunks = @ + 1]
        /\ inbox' = Append(inbox, [event |-> input, conn |-> c, s |-> s,
                                   chunk |-> [frame |-> frame, tail |-> tail,
                                              source |-> CHOOSE p \in Peers : p \notin Range(Relays)]])
        /\ UNCHANGED <<n, conns, identified, fuel>> /\ UNCHANGED driver

\* The application opens a stream of its own.
AppOpens(c, s) ==
    /\ Resting /\ fuel.app > 0
    /\ conns[c] = "up" /\ s \in FreeStreams(c)
    /\ streams' = [streams EXCEPT ![<<c, s>>] = Stream("app", "opening")]
    /\ fuel' = [fuel EXCEPT !.app = @ - 1]
    /\ UNCHANGED <<n, conns, identified, inbox>> /\ UNCHANGED driver

Less(t) == IF t \in {None, 0} THEN t ELSE t - 1

\* What a unit of time leaves of the timers of each machine
AttemptLater(a) ==
    IF a = None THEN None
    ELSE [a EXCEPT !.connect = Less(@), !.until = Less(@), !.relay_dl = Less(@), !.punch_dl = Less(@)]
InboundLater(x) ==
    IF x = None THEN None
    ELSE [x EXCEPT !.exchange = Less(@), !.blast = Less(@), !.linger = Less(@), !.handshake = Less(@),
                   !.dcutr_dl = Less(@)]
FlightLater(f) == IF f = None THEN None ELSE [f EXCEPT !.deadline = Less(@)]
ProberLater(p) == [p EXCEPT !.next = Less(@), !.flight = FlightLater(@)]
ReservationsLater(r) == [r EXCEPT !.timer = Less(@), !.alive_at = Less(@)]

\* One unit of time.  An event that waits longer is one that happens later.
Elapse ==
    /\ Resting /\ inbox = <<>>
    /\ n' = [n EXCEPT
        !.attempts = [i \in ConnectIds |-> AttemptLater(@[i])],
        !.inbound = [j \in InboundIds |-> InboundLater(@[j])],
        !.dialing = [p \in Peers |-> Less(@[p])],
        !.prober = ProberLater(@),
        !.res = ReservationsLater(@)]
    /\ n' # n
    /\ UNCHANGED <<fuel>> /\ UNCHANGED swarm /\ UNCHANGED driver

-----------------------------------------------------------------------------
(* The driver. *)

\* The bridges that the driver injected go on being its circuit's.
Bridges(c) == {x \in ConnStreams : x[1] = c /\ promoted[x] # None}
GoneCircuits == {c \in CircuitConns : conns[c] = "gone"}
Pruned(p, dead) == [x \in ConnStreams |-> IF p[x] \in dead THEN None ELSE p[x]]

\* Circuits that lost their bridge: an established one is reported closed.
CloseCircuits(dead) ==
    /\ conns' = [c \in Conns |-> IF c \in dead THEN "gone" ELSE conns[c]]
    /\ streams' = [x \in ConnStreams |-> IF x[1] \in dead THEN None ELSE streams[x]]
    /\ inbox' = Tail(inbox) \o SetToSeq({Closed(c) : c \in {d \in dead : conns[d] = "up"}})

\* fn inject_straggler: an event of a bridge stream is the circuit's.
InjectStraggler(e) ==
    LET dead == IF e.event = "Data" THEN {} ELSE {promoted[<<e.conn, e.s>>]}
    IN  /\ CloseCircuits(dead)
        /\ promoted' = Pruned(promoted, dead \cup GoneCircuits)
        /\ UNCHANGED <<n, identified, paths, reserved, log, fuel>>

IsStraggler(e) ==
    e.event \in {"Data", "RemoteWriteClosed", "Closed"} /\ promoted[<<e.conn, e.s>>] # None

\* The path of a peer goes with its last connection.
PathsAfter(e) ==
    IF e.event = "ConnectionClosed" /\ Up(PeerOf[e.conn]) = {}
    THEN [paths EXCEPT ![PeerOf[e.conn]] = None] ELSE paths

\* fn ingest
Ingest ==
    /\ Resting /\ inbox # <<>>
    /\ LET e == Head(inbox)
           dead == IF e.event = "ConnectionClosed" THEN {promoted[x] : x \in Bridges(e.conn)} ELSE {}
       IN  IF IsStraggler(e) THEN InjectStraggler(e)
           ELSE /\ n' = HandleEvent(n, e)
                /\ CloseCircuits(dead)
                /\ promoted' = Pruned(promoted, dead \cup GoneCircuits)
                /\ paths' = PathsAfter(e)
                /\ UNCHANGED <<identified, reserved, log, fuel>>

\* fn tick
Tick ==
    /\ Resting /\ TickDue(n)
    /\ n' = HandleTick(n)
    /\ promoted' = Pruned(promoted, GoneCircuits)
    /\ UNCHANGED <<paths, reserved, log, fuel>> /\ UNCHANGED swarm

Popped == [n EXCEPT !.actions = Tail(@)]

\* fn execute, for a dial: refused, or under way as one of the peer's connections.
\* A circuit is never dialed.
ExecuteDial ==
    LET act == Head(n.actions)
    IN  /\ n.actions # <<>> /\ act.op = "Dial"
        /\ \/ n' = DialFailed(Popped, act) /\ UNCHANGED conns
           \/ /\ n' = Popped
              /\ \E c \in Conns \ CircuitConns :
                    /\ PeerOf[c] = act.peer /\ conns[c] = "idle"
                    /\ conns' = [conns EXCEPT ![c] = "dialing"]
        /\ UNCHANGED <<streams, identified, inbox, fuel>> /\ UNCHANGED driver

\* fn execute, for a stream: on the peer's connection of this moment.
ExecuteOpen ==
    LET act == Head(n.actions)
    IN  /\ n.actions # <<>> /\ act.op = "OpenStream"
        /\ \/ n' = StreamOpenResult(Popped, act, None) /\ UNCHANGED streams
           \/ \E c \in Up(act.peer) :
                /\ FreeStreams(c) # {}
                /\ n' = StreamOpenResult(Popped, act, Min(FreeStreams(c)))
                /\ streams' = [streams EXCEPT ![<<c, Min(FreeStreams(c))>>] = Stream(act.protocol, "opening")]
        /\ UNCHANGED <<conns, identified, inbox, fuel>> /\ UNCHANGED driver

\* fn execute, for a reset: by peer and stream id, on the connection of this moment.
ExecuteReset ==
    LET act == Head(n.actions)
    IN  /\ n.actions # <<>> /\ act.op = "ResetStream"
        /\ n' = Popped
        /\ streams' = [x \in ConnStreams |-> IF x[1] \in Up(act.peer) /\ x[2] = act.s THEN Ended ELSE streams[x]]
        /\ UNCHANGED <<conns, identified, inbox, fuel>> /\ UNCHANGED driver

\* fn execute, for what changes nothing that the agent can see.
ExecuteSend ==
    /\ n.actions # <<>> /\ Head(n.actions).op \in {"SendStream", "CloseStreamWrite", "Ping"}
    /\ n' = Popped
    /\ UNCHANGED <<fuel>> /\ UNCHANGED swarm /\ UNCHANGED driver

\* The circuit ids that adopt_bridge can hand out for a peer
FreeCircuits(p) == {c \in CircuitConns : PeerOf[c] = p /\ conns[c] = "idle"}

\* fn execute, for a promotion
ExecutePromote ==
    LET act == Head(n.actions)
        x == <<act.conn, act.s>>
        target == CHOOSE p \in Peers : p \notin Range(Relays)
    IN  /\ n.actions # <<>> /\ act.op = "PromoteBridge"
        /\ IF promoted[x] # None
           THEN n' = PromoteResult(Popped, act, promoted[x]) /\ UNCHANGED <<conns, streams, promoted>>
           ELSE IF Up(target) \ CircuitConns # {}
           THEN /\ n' = PromoteResult(Popped, act, "PeerAlreadyDirect")
                /\ streams' = [streams EXCEPT ![x] = Ended]
                /\ UNCHANGED <<conns, promoted>>
           ELSE \/ /\ n' = PromoteResult(Popped, act, "Failed")
                   /\ streams' = [streams EXCEPT ![x] = Ended]
                   /\ UNCHANGED <<conns, promoted>>
                \/ \E c \in FreeCircuits(target) :
                    /\ conns[act.conn] = "up"
                    /\ n' = PromoteResult(Popped, act, c)
                    /\ conns' = [conns EXCEPT ![c] = "dialing"]
                    /\ promoted' = [promoted EXCEPT ![x] = c]
                    /\ UNCHANGED streams
        /\ UNCHANGED <<identified, inbox, paths, reserved, log, fuel>>

\* fn execute, for a circuit
ExecuteCloseCircuit ==
    LET act == Head(n.actions)
    IN  /\ n.actions # <<>> /\ act.op = "CloseCircuit"
        /\ n' = Popped
        /\ conns' = [conns EXCEPT ![act.conn] = "gone"]
        /\ streams' = Without(streams, act.conn)
        /\ inbox' = IF conns[act.conn] = "up" THEN Append(inbox, Closed(act.conn)) ELSE inbox
        /\ promoted' = Pruned(promoted, {act.conn})
        /\ UNCHANGED <<identified, paths, reserved, log, fuel>>

\* fn observe
PathAfter(p, e) ==
    CASE e.event \in {"PathEstablished", "PathUpgraded"} -> e.path
      [] e.event = "InboundPathEstablished"              -> "Relayed"
      [] e.event = "InboundDirectUpgrade"                -> "DirectPunched"
      [] OTHER                                           -> p
Concerns(e, p) ==
    IF "peer" \in DOMAIN e THEN e.peer = p ELSE "id" \in DOMAIN e /\ p \notin Range(Relays)

\* fn pump takes the agent's events, one by one, when its actions are done.
Observe ==
    LET e == Head(n.events)
    IN  /\ n.actions = <<>> /\ n.events # <<>>
        /\ n' = [n EXCEPT !.events = Tail(@)]
        /\ paths' = [p \in Peers |-> IF Concerns(e, p) THEN PathAfter(paths[p], e) ELSE paths[p]]
        /\ reserved' = CASE e.event = "RelayReserved" -> reserved \cup {e.relay}
                         [] e.event = "RelayReservationLost" -> reserved \ {e.relay}
                         [] OTHER -> reserved
        /\ log' = IF "id" \in DOMAIN e THEN [log EXCEPT ![e.id] = Append(@, e)] ELSE log
        /\ UNCHANGED <<promoted, fuel>> /\ UNCHANGED swarm

-----------------------------------------------------------------------------
(* The application. *)

Connect(p, candidates, allow_relay) ==
    /\ Resting /\ fuel.connects > 0 /\ n.next.connect \in ConnectIds
    /\ <<candidates, allow_relay>> \in fuel.policies
    /\ n' = ConnectWithRelayPolicy(n, p, candidates, allow_relay)
    /\ fuel' = [fuel EXCEPT !.connects = @ - 1]
    /\ UNCHANGED swarm /\ UNCHANGED driver

CancelConnect(i) ==
    /\ Resting /\ fuel.cancels > 0 /\ n.attempts[i] # None
    /\ n' = Cancel(n, i)
    /\ fuel' = [fuel EXCEPT !.cancels = @ - 1]
    /\ UNCHANGED swarm /\ UNCHANGED driver

\* fn set_listen_addrs
SetListenAddrs ==
    /\ Resting /\ ~n.listening /\ n.config.probing
    /\ n' = [n EXCEPT !.listening = TRUE]
    /\ UNCHANGED fuel /\ UNCHANGED swarm /\ UNCHANGED driver

Driver == Ingest \/ Tick \/ ExecuteDial \/ ExecuteOpen \/ ExecuteReset \/ ExecuteSend
            \/ ExecutePromote \/ ExecuteCloseCircuit \/ Observe

Network ==
    \/ \E c \in Conns : Establish(c) \/ Accept(c) \/ Vanish(c) \/ Disconnect(c)
    \/ \E c \in Conns, protocols \in {{}, {HOP, AUTONAT}} : Identified(c, protocols)
    \/ \E c \in Conns, s \in Streams : Negotiated(c, s) \/ AppOpens(c, s)
    \/ \E c \in Conns, s \in Streams, protocol \in {STOP, DCUTR} : Incoming(c, s, protocol)
    \/ \E c \in Conns, s \in Streams :
        \/ \E frame \in UNION {Frames(protocol) : protocol \in {HOP, STOP, DCUTR, AUTONAT}}, tail \in {0, 1} : Remote(c, s, "Data", frame, tail)
        \/ \E input \in {"RemoteWriteClosed", "Closed"} : Remote(c, s, input, "Incomplete", 0)

Application ==
    \/ \E p \in Peers \ Range(Relays), candidates \in {0, 1}, allow_relay \in BOOLEAN :
        Connect(p, candidates, allow_relay)
    \/ \E i \in ConnectIds : CancelConnect(i)
    \/ SetListenAddrs

Next == Driver \/ Network \/ Elapse \/ Application

Spec == Init /\ [][Next]_vars

-----------------------------------------------------------------------------
(* Properties. *)

\* Every connect id ends in one outcome: ConnectFailed alone, or PathEstablished,
\* followed by failed punches and at most one PathUpgraded (of a relayed path
\* only) or FellBackToRelay, which is the last word.
OneOutcome ==
    \A i \in ConnectIds :
        LET names == [k \in DOMAIN log[i] |-> log[i][k].event]
        IN  names # <<>> =>
              /\ names[1] \in {"PathEstablished", "ConnectFailed"}
              /\ names[1] = "ConnectFailed" => Len(names) = 1
              /\ \A k \in 2..Len(names) :
                    /\ names[k] \in {"HolePunchFailed", "PathUpgraded", "FellBackToRelay"}
                    /\ log[i][1].path = "Relayed"
                    /\ names[k] # "HolePunchFailed" => k = Len(names)

\* The machine that a registered stream belongs to is alive and holds that stream.
HeldBy(k, role) ==
    CASE role.kind = "HopConnect" ->
            n.attempts[role.id] # None /\ HopKey(n, role.id) = k
                /\ n.attempts[role.id].leg \in {"WaitHopReady", "AwaitHopStatus", "Bridged"}
      [] role.kind = "DcutrAttempt" ->
            n.attempts[role.id] # None /\ <<n.attempts[role.id].peer, n.attempts[role.id].dstream>> = k
      [] role.kind = "StopInbound" ->
            n.inbound[role.id] # None /\ StopKey(n.inbound[role.id]) = k /\ ~n.inbound[role.id].released
      [] role.kind = "DcutrInbound" ->
            n.inbound[role.id] # None /\ <<n.inbound[role.id].source, n.inbound[role.id].dstream>> = k
      [] role.kind = "HopReserve" ->
            n.res.state = "Acquiring" /\ Holding(n.res.stage) /\ <<n.res.relay, n.res.stream>> = k
      [] role.kind = "AutonatProbe" ->
            n.prober.flight # None /\ Holding(n.prober.flight.stage)
                /\ <<n.prober.flight.server, n.prober.flight.stream>> = k
      [] OTHER -> TRUE

\* The DCUtR stream of an inbound circuit that ended before the stream was
\* negotiated: no connection is recorded for it, so nothing drops it.
LeftBehind(role) == role.kind = "DcutrInbound" /\ n.inbound[role.id] = None

StreamsHaveOwners ==
    \A k \in Keys : n.registry[k] # None =>
        HeldBy(k, n.registry[k]) \/ LeftBehind(n.registry[k])

\* A circuit in its handshake belongs to a machine that will close it in time.
CircuitsHaveOwners ==
    Resting => \A c \in CircuitConns : conns[c] = "dialing" =>
        \/ \E i \in ConnectIds : n.attempts[i] # None /\ n.attempts[i].promoted = c
        \/ \E j \in InboundIds : n.inbound[j] # None /\ n.inbound[j].promoted = c

\* The relay addresses that the endpoint advertises are those of the reservation
\* that is held, or is being renewed.
AdvertisedIsHeld ==
    Resting => reserved = (IF n.res.state = "Reserved" THEN {n.res.relay} ELSE {})
                            \cup (IF n.res.held = None THEN {} ELSE {n.res.held})

\* A stream of the application is never taken for one of the agent's.
AppStreamsAreFree ==
    Resting => \A x \in ConnStreams :
        streams[x] # None /\ streams[x].kind = "app" =>
            n.registry[<<PeerOf[x[1]], x[2]>>] = None

\* A peer whose path the driver reports as relayed is connected.
PathIsUsable ==
    Resting /\ inbox = <<>> => \A p \in Peers : paths[p] = "Relayed" => Up(p) # {}

\* A tick leaves no machine's timer due, so that next_timeout does not send the
\* driver round again at once, and an inbound circuit always has a timer that will
\* end it.
TickSettles ==
    Resting =>
        /\ TickDue(n) => ~MachineDue(HandleTick(n))
        /\ \A j \in InboundIds : n.inbound[j] # None /\ n.inbound[j].released =>
            {n.inbound[j].handshake, n.inbound[j].dcutr_dl, n.inbound[j].linger} # {None}

(* What the agent holds is used and what it reports is there: streams and circuits have   *)
(* owners, advertised addresses have reservations, relayed paths have connections.        *)
HoldsWhatItUses == StreamsHaveOwners /\ CircuitsHaveOwners /\ AdvertisedIsHeld /\ PathIsUsable
=============================================================================
