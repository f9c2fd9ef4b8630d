---------------------------- MODULE TcpTransport ----------------------------
(***************************************************************************)
(* TcpTransport, transports/tcp/src/transport.rs, over either provider:    *)
(* connections that upgrade their socket with SecureMux, and the events    *)
(* they queue for the host.  A method is an operator from site to site;    *)
(* x.err is the Teardown or TransportError it ends with.                   *)
(***************************************************************************)
EXTENDS TcpNet

CONSTANTS
    MAX_ACCEPTS_PER_POLL, MAX_READS_PER_POLL,             \* StdTcpProvider
    max_sockets, backlog, Ports, connect_timeout,         \* SmoltcpConfig
    CLOSE_DELAY,                                          \* smoltcp
    handshake_timeout, send_stall_timeout                 \* TcpConfig, with the limits of an end

S == INSTANCE StdTcp
M == INSTANCE SmoltcpTcp

ConnIds == Links                       \* the namespace: an id for each connection
IdSeq == SetToSortSeq(ConnIds, LAMBDA a, b : a < b)

\* struct TcpTransport, struct Connection; limits are [max_connections, max_buffered_send]
NewTransport(kind, limits) ==
    [ kind |-> kind, limits |-> limits, conns |-> [id \in ConnIds |-> None], next_id |-> 1, pending |-> <<>>,
      prov |-> IF kind = "Std" THEN S!NewProvider ELSE M!NewProvider ]
NewConnection(socket, inbound, session) ==
    [ socket |-> socket, inbound |-> inbound, linked |-> inbound, session |-> session,
      outbound |-> <<>>, stalled_since |-> None, authenticate_by |-> None ]

Std(x) == x.t.kind = "Std"
Live(x) == {id \in ConnIds : x.t.conns[id] # None}
\* by_socket
IdsOf(x, l) == {id \in ConnIds : x.t.conns[id] # None /\ x.t.conns[id].socket = l}

Event(ev, id, s, v) == [ev |-> ev, id |-> id, s |-> s, v |-> v]
Push(x, ev) == [x EXCEPT !.t.pending = Append(@, ev)]
Clear(x)    == [x EXCEPT !.err = None]
Fault(x, e) == [x EXCEPT !.err = IF @ = None THEN e ELSE @]

-----------------------------------------------------------------------------
(* fn pump, fn flush, fn fail_connection *)

Named(o) == CASE o = "Established" -> "Connected"
              [] o = "Data" -> "StreamData"
              [] o = "RemoteWriteClosed" -> "StreamRemoteWriteClosed"
              [] OTHER -> o
PumpOne(x, id, out) ==
    CASE x.err # None -> x
      [] x.err = None /\ out.o = "Write" ->
           IF Len(x.t.conns[id].outbound) + 1 > x.t.limits.max_buffered_send THEN Fault(x, "fault")
           ELSE [x EXCEPT !.t.conns[id].outbound = Append(@, out.v)]
      [] OTHER -> Push(x, Event(Named(out.o), id, out.s, out.v))
Pump(x, id) ==
    FoldLeft(LAMBDA y, out : PumpOne(y, id, out),
             [x EXCEPT !.t.conns[id].session.outputs = <<>>], x.t.conns[id].session.outputs)

\* Mutant of Flush: what a short write leaves over is forgotten.
FlushForgetsRest(x, e, id) ==
    LET c     == x.t.conns[id]
        sent  == IF Std(x) THEN S!Send(x, e, c.socket, c.outbound) ELSE M!Send(x, e, c.socket, c.outbound)
        fails == IF Std(x) THEN S!SendFails(x, e, c.socket) ELSE M!SendFails(x, e, c.socket)
    IN  IF x.err # None \/ ~c.linked \/ c.outbound = <<>> THEN x
        ELSE IF fails THEN Fault(x, "fault")
        ELSE [sent EXCEPT !.t.conns[id].outbound = <<>>]

\* fn flush: a connection that is not linked yet keeps what it has.
Flush(x, e, id) ==
    LET c    == x.t.conns[id]
        n    == IF Std(x) THEN S!AcceptedTokens(x, e, c.socket, c.outbound)
                ELSE M!AcceptedTokens(x, e, c.socket, c.outbound)
        sent == IF Std(x) THEN S!Send(x, e, c.socket, c.outbound) ELSE M!Send(x, e, c.socket, c.outbound)
        fails == IF Std(x) THEN S!SendFails(x, e, c.socket) ELSE M!SendFails(x, e, c.socket)
    IN  IF x.err # None \/ ~c.linked \/ c.outbound = <<>> THEN x
        ELSE IF fails THEN Fault(x, "fault")
        ELSE [sent EXCEPT !.t.conns[id].outbound = SubSeq(@, n + 1, Len(@))]

PumpAndFlush(x, e, id) ==
    FoldLeft(LAMBDA y, step : IF step = "flush" THEN Flush(y, e, id) ELSE Pump(y, id),
             x, <<"flush", "pump", "flush">>)

AbortSocket(x, e, l) == IF Std(x) THEN S!Abort(x, e, l) ELSE M!Abort(x, e, l)

\* Mutant of FailConnection: the socket is left to the provider.
FailConnectionKeepsSocket(x, e, id, emit_error) ==
    LET gone == [x EXCEPT !.t.conns[id] = None]
    IN  IF x.t.conns[id] = None THEN x
        ELSE Push(IF emit_error THEN Push(gone, Event("Error", id, None, None)) ELSE gone,
                  Event("Closed", id, None, None))

FailConnection(x, e, id, emit_error) ==
    LET gone == AbortSocket([x EXCEPT !.t.conns[id] = None], e, x.t.conns[id].socket)
    IN  IF x.t.conns[id] = None THEN x
        ELSE Push(IF emit_error THEN Push(gone, Event("Error", id, None, None)) ELSE gone,
                  Event("Closed", id, None, None))

\* fn drive_connection: the session after an input, and what it makes of it.
DriveConnection(x, e, id, session) ==
    LET fresh  == ~IsEstablished(x.t.conns[id].session)
        fed    == session.err
        pumped == PumpAndFlush([x EXCEPT !.t.conns[id].session = [session EXCEPT !.err = None], !.err = None],
                               e, id)
        error  == IF fed # None THEN fed ELSE pumped.err
    IN  IF error = None THEN pumped
        ELSE FailConnection(Clear(pumped), e, id, fresh \/ error # "GoAway")

\* fn operate_session: a refusal leaves the session, a failed write ends it.
OperateSession(x, e, id, session) ==
    LET pumped == PumpAndFlush([x EXCEPT !.t.conns[id].session = [session EXCEPT !.err = None], !.err = None],
                               e, id)
    IN  IF pumped.err # None THEN [FailConnection(Clear(pumped), e, id, FALSE) EXCEPT !.err = "PollError"]
        ELSE IF session.err \in {"Protocol", "GoAway"}
        THEN [FailConnection(pumped, e, id, FALSE) EXCEPT !.err = "PollError"]
        ELSE Fault(pumped, session.err)

-----------------------------------------------------------------------------
(* fn handle_provider_event *)

\* fn accept: the ceiling first, so that a shed connection costs nothing.
Accept(x, e, l) ==
    LET id    == x.t.next_id
        named == [x EXCEPT !.t.next_id = @ + 1,
                           !.t.conns[id] = NewConnection(l, TRUE, NewSecure("Responder", e, None))]
    IN  IF Cardinality(Live(x)) >= x.t.limits.max_connections \/ id \notin ConnIds THEN AbortSocket(x, e, l)
        ELSE DriveConnection(Push(named, Event("IncomingConnection", id, None, None)), e, id,
                             Start(named.t.conns[id].session))

\* fn close_from_provider
CloseFromProvider(x, e, id, graceful) ==
    FailConnection(x, e, id, ~IsEstablished(x.t.conns[id].session) \/ ~graceful)

HandleProviderEvent(x, e, ev) ==
    LET ids == IdsOf(x, ev.l)
        id  == CHOOSE i \in ids : TRUE
    IN  CASE ev.ev = "Accepted" -> Accept(x, e, ev.l)
          [] ev.ev = "Connected" ->
               IF ids = {} THEN AbortSocket(x, e, ev.l)
               ELSE DriveConnection([x EXCEPT !.t.conns[id].linked = TRUE], e, id, Start(x.t.conns[id].session))
          [] ev.ev = "Received" ->
               IF ids = {} THEN x
               ELSE FoldLeft(LAMBDA y, session : DriveConnection(y, e, id, session),
                             x, <<HandleInput(x.t.conns[id].session, ev.v)>>)
          [] ev.ev = "RemoteWriteClosed" -> IF ids = {} THEN x ELSE CloseFromProvider(x, e, id, FALSE)
          [] ev.ev = "Closed" -> IF ids = {} THEN x ELSE CloseFromProvider(x, e, id, ev.v = None)

-----------------------------------------------------------------------------
(* The host's calls. *)

\* fn dial
DialFails(x) ==
    \/ Cardinality(Live(x)) >= x.t.limits.max_connections
    \/ x.t.next_id \notin ConnIds
Dial(x, e, l, peer) ==
    LET id     == x.t.next_id
        spent  == [x EXCEPT !.t.next_id = @ + 1]
        socket == IF Std(x) THEN S!Connect(spent, e, l) ELSE M!Connect(spent, e, l)
    IN  IF ~Std(x) /\ M!ConnectFails(x) THEN [spent EXCEPT !.err = "DialFailed"]
        ELSE [socket EXCEPT !.t.conns[id] = NewConnection(l, FALSE, NewSecure("Initiator", e, peer))]

NextStream(x, id) == x.t.conns[id].session.yamux.next_stream_id
OpenStreamOn(x, e, id) ==
    LET y == OperateSession(x, e, id, SessionOpen(x.t.conns[id].session))
    IN  IF y.err # None THEN y
        ELSE Push(y, Event("StreamOpened", id, NextStream(x, id), None))
SendStream(x, e, id, s, data) == OperateSession(x, e, id, SessionSend(x.t.conns[id].session, s, data))
CloseStreamWrite(x, e, id, s) == OperateSession(x, e, id, SessionCloseWrite(x.t.conns[id].session, s))
ResetStream(x, e, id, s)      == OperateSession(x, e, id, SessionReset(x.t.conns[id].session, s))

\* fn close: a GoAway and a half-close when everything could be flushed.
CloseConnection(x, e, id) ==
    LET c      == x.t.conns[id]
        away   == SessionGoAway(c.session)
        pumped == PumpAndFlush([x EXCEPT !.t.conns[id].session = [away EXCEPT !.err = None]], e, id)
        tried  == IF away.err = None THEN pumped ELSE x
        clean  == /\ away.err = None /\ pumped.err = None /\ pumped.t.conns[id].outbound = <<>>
                  /\ IF Std(x) THEN ~S!CloseWriteFails(pumped, e, c.socket) ELSE ~M!CloseWriteFails(pumped, e, c.socket)
        gone   == [Clear(tried) EXCEPT !.t.conns[id] = None]
    IN  Push(IF ~clean THEN AbortSocket(gone, e, c.socket)
             ELSE IF Std(x) THEN S!CloseSocketWrite(gone, e, c.socket) ELSE M!CloseSocketWrite(gone, e, c.socket),
             Event("Closed", id, None, None))

-----------------------------------------------------------------------------
(* fn poll *)

\* Connections that have not authenticated are on a clock.
AuthPhase(x, e, id, now) ==
    LET c  == x.t.conns[id]
        by == IF c.authenticate_by = None THEN now + handshake_timeout ELSE c.authenticate_by
    IN  CASE c = None -> x
          [] c # None /\ IsEstablished(c.session) -> [x EXCEPT !.t.conns[id].authenticate_by = None]
          [] OTHER -> IF now >= by THEN FailConnection(x, e, id, TRUE)
                      ELSE [x EXCEPT !.t.conns[id].authenticate_by = by]

\* Buffered writes are retried; a socket that takes nothing for too long is given up.
StallPhase(x, e, id, now) ==
    LET c       == x.t.conns[id]
        flushed == Flush(Clear(x), e, id)
        since   == IF c.stalled_since = None THEN now ELSE c.stalled_since
    IN  CASE c = None -> x
          [] c # None /\ c.outbound = <<>> -> [x EXCEPT !.t.conns[id].stalled_since = None]
          [] OTHER ->
               IF flushed.err # None THEN FailConnection(Clear(flushed), e, id, TRUE)
               ELSE IF Len(flushed.t.conns[id].outbound) < Len(c.outbound)
               THEN [flushed EXCEPT !.t.conns[id].stalled_since = None]
               ELSE IF now - since >= send_stall_timeout THEN FailConnection(flushed, e, id, TRUE)
               ELSE [flushed EXCEPT !.t.conns[id].stalled_since = since]

\* The keepalive of sessions whose socket can take it.
KeepalivePhase(x, e, id, now) ==
    LET c == x.t.conns[id]
    IN  IF c # None /\ IsEstablished(c.session) /\ c.outbound = <<>>
        THEN DriveConnection(x, e, id, SessionPoll(c.session, now)) ELSE x

Provided(x, e, now) ==
    LET polled == IF Std(x) THEN S!PollProvider(x, e) ELSE M!PollProvider(x, e, now)
    IN  FoldLeft(LAMBDA y, ev : HandleProviderEvent(y, e, ev),
                 [polled EXCEPT !.t.prov.ready = <<>>], polled.t.prov.ready)
Worked(x, e, now) ==
    FoldLeft(LAMBDA y, id : KeepalivePhase(y, e, id, now),
        FoldLeft(LAMBDA y, id : StallPhase(y, e, id, now),
            FoldLeft(LAMBDA y, id : AuthPhase(y, e, id, now), Provided(x, e, now), IdSeq), IdSeq), IdSeq)

\* What is queued is handed over before anything else is done.
PollTransport(x, e, now) == IF x.t.pending # <<>> THEN x ELSE Worked(x, e, now)

\* fn next_deadline: is the transport due?
Due(x, now) ==
    \/ x.t.pending # <<>>
    \/ \E id \in Live(x) :
         LET c == x.t.conns[id]
         IN  \/ c.authenticate_by # None /\ now >= c.authenticate_by
             \/ /\ c.outbound = <<>> /\ SessionDeadline(c.session) # None
                /\ now >= SessionDeadline(c.session)
             \/ c.outbound # <<>> /\ (c.stalled_since = None \/ now >= c.stalled_since + send_stall_timeout)
    \/ ~Std(x) /\ M!ProviderDue(x, now)
Awake(x, e) == IF Std(x) THEN S!Awake(x, e) ELSE M!Awake(x, e)
=============================================================================
