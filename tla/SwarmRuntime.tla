---------------------------- MODULE SwarmRuntime ----------------------------
(***************************************************************************)
(* The swarm core under the runtime that drives it                         *)
(* (crates/swarm/src/runtime.rs), between an application and a transport.  *)
(*                                                                         *)
(* The runtime's poll is: flush what the previous call deferred, take one  *)
(* batch of events from the transport, feed each to the core and flush,    *)
(* tick, flush, and return the buffered events.  An application call is    *)
(* the core's intent followed by a flush.  A flush executes the core's     *)
(* actions one by one (an action can feed a result back), then moves its   *)
(* events to the buffer, then sets aside the actions that must wait for    *)
(* the application to see those events.                                    *)
(*                                                                         *)
(* The transport is external: it is any transport that keeps the contract  *)
(* of crates/transport/src/transport.rs.  A batch is computed before the   *)
(* core reacts to it, so what the core does to a stream while a batch is   *)
(* processed only takes effect for the next batch (`fresh`, `dying`).      *)
(***************************************************************************)
EXTENDS SwarmCore

CONSTANTS
    RemotePeer,       \* [Conns -> Peers]: who is at the other end
    PingPayload,      \* the payload of the application's pings
    Workloads         \* the environments to explore, one of which an execution has

(* A workload: the connections there are; whether the transport may report
   Connected before the peer is known; the stream ids the transport gives out here
   and the remote uses; the protocols and the chunks of bytes the remote sends; how
   the application drives ("poll", "poll_next") and which calls it makes; the bounds
   on transport events per poll, on calls and on the clock. *)
Workload ==
    [ conns     : SUBSET Conns,
      late      : BOOLEAN,
      local     : SUBSET Sids,
      remote    : SUBSET Sids,
      protocols : SUBSET {"user", "identify", "ping"},
      chunks    : SUBSET Seq({"x"}),
      drivers   : SUBSET {"poll", "poll_next"},
      calls     : SUBSET {"ping", "open", "write", "reset", "abandon", "forget", "disconnect"},
      MaxBatch  : Nat,
      MaxCalls  : Nat,
      MaxNow    : Nat ]

ASSUME RuntimeAssumption ==
    /\ RemotePeer \in [Conns -> Peers]
    /\ \A w \in Workloads : w \in Workload /\ w.local \cap w.remote = {}

VARIABLES
    core,          \* the SwarmCore
    event_buffer,  \* events surfaced, not yet taken by the application
    deferred,      \* SwarmRuntime::after_event_actions
    flushing,      \* inside flush_actions
    phase,         \* where poll is
    driver,        \* who called poll
    tconn,         \* transport: [Conns -> ConnStates]
    tstream,       \* transport: [Keys -> StreamStates]
    now,
    app,           \* what the application was told of each connection
    batch, calls,  \* counted against MaxBatch and MaxCalls
    work           \* the workload

vars == <<core, event_buffer, deferred, flushing, phase, driver, tconn, tstream, now, app, batch, calls, work>>

Phases       == {"idle", "flushed", "batch", "tick"}
ConnStates   == {"idle", "incoming", "anonymous", "up", "closing", "closed"}
StreamStates == {"none", "fresh", "open", "finished", "dying", "reset", "closed"}

Live(key) == tconn[key[1]] \in {"anonymous", "up"} /\ tstream[key] \in {"fresh", "open", "finished"}

Init ==
    /\ core = InitialCore
    /\ event_buffer = <<>>
    /\ deferred = <<>>
    /\ flushing = FALSE
    /\ phase = "idle"
    /\ driver = None
    /\ tconn = [c \in Conns |-> "idle"]
    /\ tstream = [key \in Keys |-> "none"]
    /\ now = 0
    /\ app = [c \in Conns |-> "unseen"]
    /\ batch = 0
    /\ calls = 0
    /\ work \in Workloads

-----------------------------------------------------------------------------
(* flush_actions and dispatch_action. *)

\* The start of fn flush_actions: deferred actions run first, provided the
\* application has taken every event that was to precede them.
BeginFlush(k) ==
    /\ flushing' = TRUE
    /\ IF event_buffer = <<>>
       THEN core' = [k EXCEPT !.actions = deferred \o @] /\ deferred' = <<>>
       ELSE core' = k /\ UNCHANGED deferred

FreeLocalSids(c) == {s \in work.local : tstream[<<c, s>>] = "none"}

\* transport.open_stream: the ids of a connection are handed out in order and
\* can run out.
DispatchOpenStream(k, a) ==
    \/ /\ tconn[a.conn] \in {"anonymous", "up"}
       /\ FreeLocalSids(a.conn) # {}
       /\ LET s == FirstConn(FreeLocalSids(a.conn))
          IN  /\ core' = HandleStreamOpened(k, a.conn, s, a.token)
              /\ tstream' = [tstream EXCEPT ![<<a.conn, s>>] = "fresh"]
       /\ UNCHANGED tconn
    \/ /\ tconn[a.conn] \notin {"anonymous", "up"} \/ FreeLocalSids(a.conn) = {}
       /\ core' = HandleOpenStreamFailed(k, a.token)
       /\ UNCHANGED <<tconn, tstream>>

\* transport.send_stream and transport.close_stream_write: a refusal comes back
\* as a runtime error.
DispatchWrite(k, a) ==
    /\ core' = IF Live(<<a.conn, a.stream>>) THEN k ELSE EmitError(k, None, a.conn, a.stream)
    /\ UNCHANGED <<tconn, tstream>>

\* transport.reset_stream: refused for a stream the transport no longer has,
\* which, in the middle of a batch, the core may not know yet.
DispatchReset(k, a) ==
    \/ /\ Live(<<a.conn, a.stream>>)
       /\ core' = k
       /\ tstream' = [tstream EXCEPT ![<<a.conn, a.stream>>] = "dying"]
       /\ UNCHANGED tconn
    \/ /\ ~Live(<<a.conn, a.stream>>) \/ phase = "batch"
       /\ core' = EmitError(ResetStreamFailed(k, a.conn, a.stream), None, a.conn, a.stream)
       /\ UNCHANGED <<tconn, tstream>>

\* transport.close: an unknown connection is not an error.
DispatchClose(k, a) ==
    /\ core' = k
    /\ tconn' = [tconn EXCEPT ![a.conn] = IF @ \in {"idle", "closed"} THEN @ ELSE "closing"]
    /\ UNCHANGED tstream

\* fn dispatch_action for the next action of the core.
DispatchAction ==
    /\ flushing
    /\ core.actions # <<>>
    /\ LET a == Head(core.actions)
           k == [core EXCEPT !.actions = Tail(@)]
       IN  \/ a.type = "OpenStream" /\ DispatchOpenStream(k, a)
           \/ a.type \in {"SendStream", "CloseStreamWrite"} /\ DispatchWrite(k, a)
           \/ a.type = "ResetStream" /\ DispatchReset(k, a)
           \/ a.type = "CloseConnection" /\ DispatchClose(k, a)
    /\ UNCHANGED <<event_buffer, deferred, flushing, phase, driver, now, app, batch, calls, work>>

\* A mutant of SurfaceEvents: the newest events are read first.
SurfaceNewestFirst ==
    /\ flushing
    /\ core.actions = <<>>
    /\ event_buffer' = core.events \o event_buffer
    /\ deferred' = deferred \o core.after_event_actions
    /\ core' = [core EXCEPT !.events = <<>>, !.after_event_actions = <<>>]
    /\ flushing' = FALSE
    /\ UNCHANGED <<phase, driver, tconn, tstream, now, app, batch, calls, work>>

\* The actions are done: events are surfaced, and what the core ordered after
\* them is set aside.  The flush is over.  (Such an action is only ever queued
\* together with an event, so saw_event of the code is set.)
SurfaceEvents ==
    /\ flushing
    /\ core.actions = <<>>
    /\ event_buffer' = event_buffer \o core.events
    /\ deferred' = deferred \o core.after_event_actions
    /\ core' = [core EXCEPT !.events = <<>>, !.after_event_actions = <<>>]
    /\ flushing' = FALSE
    /\ UNCHANGED <<phase, driver, tconn, tstream, now, app, batch, calls, work>>

-----------------------------------------------------------------------------
(* poll. *)

\* poll_next calls poll only once it has handed over everything it had.
PollStarts ==
    /\ phase = "idle" /\ ~flushing
    /\ driver' \in work.drivers
    /\ driver' = "poll_next" => event_buffer = <<>>
    /\ \E t \in {now, now + 1} : t <= work.MaxNow /\ now' = t
    /\ phase' = "flushed"
    /\ BeginFlush(core)
    /\ UNCHANGED <<event_buffer, tconn, tstream, app, batch, calls, work>>

\* transport.poll: what was opened or reset before is in effect for this batch.
TransportPolled ==
    /\ phase = "flushed" /\ ~flushing
    /\ phase' = "batch"
    /\ batch' = 0
    /\ tstream' = [key \in Keys |-> CASE tstream[key] = "fresh" -> "open"
                                      [] tstream[key] = "dying" -> "reset"
                                      [] OTHER -> tstream[key]]
    /\ UNCHANGED <<core, event_buffer, deferred, flushing, driver, tconn, now, app, calls, work>>

\* One event of the batch: the core handles it and the runtime flushes.
Deliver(k) ==
    /\ phase = "batch" /\ ~flushing
    /\ batch < work.MaxBatch
    /\ batch' = batch + 1
    /\ BeginFlush(k)
    /\ UNCHANGED <<event_buffer, phase, driver, now, app, calls, work>>

IncomingConnection(c) ==
    /\ tconn[c] = "idle"
    /\ tconn' = [tconn EXCEPT ![c] = "incoming"]
    /\ UNCHANGED tstream
    /\ Deliver(HandleIncomingConnection(core, c))

\* A dialed connection comes straight from "idle".
Connected(c) ==
    /\ tconn[c] \in {"idle", "incoming"}
    /\ UNCHANGED tstream
    /\ \E known \in {TRUE, ~work.late} :
        /\ tconn' = [tconn EXCEPT ![c] = IF known THEN "up" ELSE "anonymous"]
        /\ Deliver(HandleConnected(core, c, IF known THEN RemotePeer[c] ELSE None))

\* Repeated for a connection whose peer is already known, as QUIC does.
PeerIdentityVerified(c) ==
    /\ tconn[c] = "anonymous"
    /\ tconn' = [tconn EXCEPT ![c] = "up"]
    /\ UNCHANGED tstream
    /\ Deliver(HandlePeerIdentityVerified(core, c, RemotePeer[c]))

TransportError(c) ==
    /\ tconn[c] = "up"
    /\ UNCHANGED <<tconn, tstream>>
    /\ Deliver(HandleTransportError(core, c))

\* Closed is the last event of a connection.
Closed(c) ==
    /\ tconn[c] \in {"incoming", "anonymous", "up", "closing"}
    /\ tconn' = [tconn EXCEPT ![c] = "closed"]
    /\ UNCHANGED tstream
    /\ Deliver(HandleConnectionClosed(core, c))

\* A stream can have events in this batch if it was not opened in it.
Readable(c, s) ==
    /\ tconn[c] \in {"anonymous", "up"}
    /\ tstream[<<c, s>>] \in {"open", "finished", "dying"}

IncomingStream(c, s) ==
    /\ tconn[c] \in {"anonymous", "up"}
    /\ s \in work.remote /\ tstream[<<c, s>>] = "none"
    /\ tstream' = [tstream EXCEPT ![<<c, s>>] = "open"]
    /\ UNCHANGED tconn
    /\ Deliver(HandleIncomingStream(core, c, s))

\* What a chunk can mean, given where the stream's negotiation is.
Lines(c, s) ==
    CASE <<c, s>> \in core.inbound_negotiators ->
            {"incomplete", "unavailable", "error"} \cup work.protocols
      [] <<c, s>> \notin core.inbound_negotiators /\ core.outbound_negotiators[<<c, s>>] # None ->
            {"incomplete", "header", "unavailable", "error", "accepted"}
      [] OTHER -> {"none"}

Payloads(line) ==
    CASE line = "none" -> work.chunks
      [] line \in work.protocols \cup {"accepted"} -> work.chunks \cup {<<>>}
      [] OTHER -> {<<>>}

StreamData(c, s) ==
    /\ Readable(c, s) /\ tstream[<<c, s>>] # "finished"
    /\ UNCHANGED <<tconn, tstream>>
    /\ \E line \in Lines(c, s) : \E data \in Payloads(line) :
        Deliver(HandleStreamData(core, c, s, line, data, Len(data) > 1, now))

StreamRemoteWriteClosed(c, s) ==
    /\ Readable(c, s) /\ tstream[<<c, s>>] # "finished"
    /\ tstream' = [tstream EXCEPT ![<<c, s>>] = IF @ = "dying" THEN @ ELSE "finished"]
    /\ UNCHANGED tconn
    /\ \E info \in IF core.stream_owner[<<c, s>>] = "IdentifyInitiator"
                   THEN {"supported", "unsupported", None} ELSE {None} :
        Deliver(HandleStreamRemoteWriteClosed(core, c, s, info))

StreamClosed(c, s) ==
    /\ \/ Readable(c, s)
       \/ tconn[c] \in {"anonymous", "up"} /\ tstream[<<c, s>>] = "reset"
    /\ tstream' = [tstream EXCEPT ![<<c, s>>] = "closed"]
    /\ UNCHANGED tconn
    /\ Deliver(HandleStreamClosed(core, c, s))

Tick ==
    /\ phase = "batch" /\ ~flushing
    /\ phase' = "tick"
    /\ BeginFlush(HandleTick(core, now))
    /\ UNCHANGED <<event_buffer, driver, tconn, tstream, now, app, batch, calls, work>>

-----------------------------------------------------------------------------
(* The application. *)

AppSees(view, e) ==
    CASE e.type = "ConnectionEstablished" -> [view EXCEPT ![e.conn] = "open"]
      [] e.type = "ConnectionClosed"      -> [view EXCEPT ![e.conn] = "closed"]
      [] OTHER -> view

\* poll hands over the whole buffer.
PollReturns ==
    /\ phase = "tick" /\ ~flushing
    /\ driver = "poll" \/ event_buffer = <<>>
    /\ driver' = None
    /\ phase' = "idle"
    /\ event_buffer' = <<>>
    /\ app' = FoldLeft(AppSees, app, event_buffer)
    /\ UNCHANGED <<core, deferred, flushing, tconn, tstream, now, batch, calls, work>>

\* poll_next keeps it, and the application takes one event at a time.
PollNextReturns ==
    /\ phase = "tick" /\ ~flushing
    /\ driver = "poll_next"
    /\ event_buffer # <<>>
    /\ driver' = None
    /\ phase' = "idle"
    /\ event_buffer' = Tail(event_buffer)
    /\ app' = AppSees(app, Head(event_buffer))
    /\ UNCHANGED <<core, deferred, flushing, tconn, tstream, now, batch, calls, work>>

TakeBuffered ==
    /\ phase = "idle" /\ ~flushing
    /\ "poll_next" \in work.drivers
    /\ event_buffer # <<>>
    /\ event_buffer' = Tail(event_buffer)
    /\ app' = AppSees(app, Head(event_buffer))
    /\ UNCHANGED <<core, deferred, flushing, phase, driver, tconn, tstream, now, batch, calls, work>>

Call(name) ==
    /\ phase = "idle" /\ ~flushing
    /\ name \in work.calls
    /\ calls < work.MaxCalls
    /\ calls' = calls + 1
    /\ UNCHANGED <<phase, driver, tconn, tstream, now, app, batch, work>>

AppPings(p) ==
    /\ Call("ping")
    /\ PingAccepted(core, p)
    /\ BeginFlush(PingPeer(core, p, PingPayload, now))
    /\ UNCHANGED event_buffer

AppOpensStream(p) ==
    /\ Call("open")
    /\ OpenStreamAccepted(core, p)
    /\ BeginFlush(OpenUserStream(core, p))
    /\ UNCHANGED event_buffer

AppWrites(p, s) ==
    /\ Call("write")
    /\ UserConns(core, p, s) # {}
    /\ BeginFlush(SendUserStream(core, p, s)) \/ BeginFlush(CloseStreamWrite(core, p, s))
    /\ UNCHANGED event_buffer

AppResets(p, s) ==
    /\ Call("reset")
    /\ UserConns(core, p, s) # {}
    /\ BeginFlush(ResetUserStream(core, p, s))
    /\ UNCHANGED event_buffer

\* fn abandon_stream of the runtime also empties its own buffer of the stream,
\* and flushes only if the core knew it.
AppAbandons(p, s) ==
    /\ Call("abandon")
    /\ event_buffer' = WithoutStream(event_buffer, p, s)
    /\ IF AbandonedConns(core, p, s) \cup DialingConns(core, p, s) \cup UserConns(core, p, s) = {}
       THEN core' = AbandonStream(core, p, s) /\ UNCHANGED <<flushing, deferred>>
       ELSE /\ flushing' = TRUE
            /\ IF event_buffer' = <<>>
               THEN /\ core' = [AbandonStream(core, p, s) EXCEPT !.actions = deferred \o @]
                    /\ deferred' = <<>>
               ELSE core' = AbandonStream(core, p, s) /\ UNCHANGED deferred

\* fn forget_stream does not flush.
AppForgets(c, s) ==
    /\ Call("forget")
    /\ core.stream_owner[<<c, s>>] = "User"
    /\ core' = ForgetStream(core, c, s)
    /\ UNCHANGED <<event_buffer, deferred, flushing>>

AppDisconnects(p) ==
    /\ Call("disconnect")
    /\ core.peer_to_conn[p] # None
    /\ BeginFlush(Disconnect(core, p))
    /\ UNCHANGED event_buffer

-----------------------------------------------------------------------------
Runtime == DispatchAction \/ SurfaceEvents \/ PollStarts \/ TransportPolled \/ Tick
            \/ PollReturns \/ PollNextReturns \/ TakeBuffered

Transport ==
    \E c \in work.conns :
        \/ IncomingConnection(c)
        \/ Connected(c)
        \/ PeerIdentityVerified(c)
        \/ TransportError(c)
        \/ Closed(c)
        \/ \E s \in Sids :
            IncomingStream(c, s) \/ StreamData(c, s) \/ StreamRemoteWriteClosed(c, s)
                \/ StreamClosed(c, s)

Application ==
    \/ \E p \in Peers : AppPings(p) \/ AppOpensStream(p) \/ AppDisconnects(p)
    \/ \E p \in Peers, s \in Sids : AppWrites(p, s) \/ AppResets(p, s) \/ AppAbandons(p, s)
    \/ \E c \in Conns, s \in Sids : AppForgets(c, s)

Next == Runtime \/ Transport \/ Application

Spec == Init /\ [][Next]_vars

\* The application keeps calling poll and the runtime's calls return.
FairSpec == Spec /\ WF_vars(Runtime)

-----------------------------------------------------------------------------
(* Properties. *)

\* peer_to_conn and conn_to_peer are inverse to each other after every mix of
\* connects, supersessions and closes: the debug_assert of
\* queue_open_protocol_stream (core.rs:1015) holds, and no connection is left
\* behind in conn_to_peer (register_connection, core.rs:1062: "close it so it
\* doesn't orphan in conn_to_peer").
NoOrphan ==
    /\ \A p \in PeerIds : core.peer_to_conn[p] # None => core.conn_to_peer[core.peer_to_conn[p]] = p
    /\ \A c \in Conns : core.conn_to_peer[c] # None => core.peer_to_conn[core.conn_to_peer[c]] = c

\* Nothing is kept under the id of a peer without a connection, however it lost
\* the connection: a later one starts from scratch.  That includes the
\* placeholder of a connection whose peer is verified by now: a ping in flight and
\* its timer moved with the identity (core.rs:1151).
PeerStateOnlyWhileConnected ==
    \A p \in PeerIds : core.peer_to_conn[p] = None =>
        /\ core.ping[p] = None
        /\ core.identify[p] = None
        /\ core.pending_pings[p] = None
        /\ core.ping_deadlines[p] = None
        /\ core.peer_info[p] = None
        /\ p \notin core.ready_peers \cup core.established_peers

\* A connection with a verified peer has left its placeholder: no table leads back
\* to it and no event that is still to be surfaced names it
\* (migrate_buffered_events, core.rs:1215).
PlaceholderIsLeft ==
    \A c \in Conns : core.conn_to_peer[c] \in Peers =>
        /\ core.peer_to_conn[c] = None
        /\ \A i \in DOMAIN core.events : core.events[i].peer # c

\* A stream is in one stage only: negotiated by a listener, by a dialer, owned by
\* a protocol, or abandoned; and its connection is one the transport has not
\* reported closed.
StagesOf(key) ==
    {i \in 1..4 :
        \/ i = 1 /\ key \in core.inbound_negotiators
        \/ i = 2 /\ core.outbound_negotiators[key] # None
        \/ i = 3 /\ core.stream_owner[key] # None
        \/ i = 4 /\ key \in core.abandoned_streams}

StreamStages ==
    \A key \in Keys :
        /\ Cardinality(StagesOf(key)) <= 1
        /\ StagesOf(key) # {} => tconn[key[1]] # "closed" /\ tstream[key] # "closed"

Visible == event_buffer \o core.events

\* abandon_stream: no event of an abandoned stream is left to be read, in the
\* core or in the runtime's buffer, from the call until the stream closes.
AbandonedIsSilent ==
    \A i \in DOMAIN Visible : <<Visible[i].conn, Visible[i].stream>> \notin core.abandoned_streams
                                \/ Visible[i].type = "Error"

\* "A reset is queued at most once" (core.rs:584), the one the transport already
\* accepted included.
ResetQueuedOnce ==
    \A key \in core.reset_pending :
        LET queued == {i \in DOMAIN core.actions :
                        core.actions[i] = Action("ResetStream", key[1], key[2])}
        IN  Cardinality(queued) + (IF tstream[key] \in {"dying", "reset"} THEN 1 ELSE 0) = 1

\* What the application knows of connection c before event i is delivered.
KnownBefore(i, c) ==
    LET news == {j \in 1..(i - 1) : Visible[j].conn = c
                    /\ Visible[j].type \in {"ConnectionEstablished", "ConnectionClosed"}}
        last == CHOOSE j \in news : \A l \in news : l <= j
    IN  IF news = {} THEN app[c]
        ELSE IF Visible[last].type = "ConnectionEstablished" THEN "open" ELSE "closed"

StreamEvents == {"StreamReady", "StreamData", "StreamRemoteWriteClosed", "StreamClosed"}

\* The application can trust connection ids: a connection is announced once,
\* closed once after that, and the events of its streams lie in between, through
\* supersessions whose transport close is still to come.  Events that carry a
\* synthetic peer id are left out: the core can surface one (an error of a stream of
\* a connection whose peer is still unknown).
ConnectionEventsOrdered ==
    \A i \in DOMAIN Visible :
        LET e == Visible[i]
        IN  e.peer \in Peers =>
            /\ e.type = "ConnectionEstablished" => KnownBefore(i, e.conn) = "unseen"
            /\ e.type \in StreamEvents \cup {"ConnectionClosed"} => KnownBefore(i, e.conn) = "open"

\* At any time the application sees at most one open connection per peer, and
\* the core agrees with it once the buffer is read.
OneConnectionPerPeer ==
    event_buffer = <<>> /\ ~flushing =>
        \A c \in Conns : app[c] = "open" => core.peer_to_conn[RemotePeer[c]] = c

\* Stream events come in the order the consumer relies on: ready first, nothing
\* after the close.
StreamEventsOrdered ==
    \A i, j \in DOMAIN Visible :
        /\ i < j
        /\ Visible[i].conn = Visible[j].conn
        /\ Visible[i].stream = Visible[j].stream
        /\ Visible[i].type \in StreamEvents
        /\ Visible[j].type \in StreamEvents
        => Visible[i].type # "StreamClosed" /\ Visible[j].type # "StreamReady"

\* supersede_connection defers the close "until the eager old-connection event
\* has been yielded" (core.rs:371): the transport is asked to close a connection
\* the core gave up only after the application was told.
SupersededCloseIsSeen ==
    [][\A c \in Conns :
        tconn[c] \in {"anonymous", "up"} /\ tconn'[c] = "closing"
            => core.conn_to_peer[c] \in Peers \/ app[c] = "closed"]_vars

\* A superseded connection, reported closed to the application before the
\* transport was told, is eventually closed there as well: the deferred close
\* (runtime.rs:605) is not lost behind unread events or later actions.
SupersededIsClosed ==
    \A c \in Conns : (app[c] = "closed" /\ tconn[c] = "up") ~> tconn[c] \in {"closing", "closed"}

\* The core keeps its own copy of the ping timer (core.rs:186), and next_timeout
\* is all the driver sleeps by: while a ping is in flight it must fire no later
\* than the first instant at which the ping protocol would give up.
PingTimerArmed ==
    \A p \in PeerIds : PingOf(core, p).pending_ping # None =>
        LET overdue == PingOf(core, p).pending_ping.sent_at + RequestTimeout + 1
            wait    == NextTimeout(core, now)
        IN  wait # None /\ now + wait <= Max({now, overdue})

\* The core's connections agree with the events it raises and with what the application
\* was told, also when the peer is verified only after the core raised some.
ConnectionsAgree == ConnectionEventsOrdered /\ OneConnectionPerPeer /\ PlaceholderIsLeft

\* What is left to be read of a stream is in order and stops when it is abandoned, and
\* it is reset once.
StreamLife == AbandonedIsSilent /\ ResetQueuedOnce /\ StreamEventsOrdered

\* The core's tables are sound: the two connection maps are inverse, what it keeps per
\* peer lives as long as the peer's connection, and a stream is in one stage at most,
\* while it exists.
CoreTables == NoOrphan /\ PeerStateOnlyWhileConnected /\ StreamStages

\* A superseded connection is closed, and not before the application knows.
SupersededEnds == SupersededCloseIsSeen /\ SupersededIsClosed
=============================================================================
