---------------------------- MODULE QuicTransport ---------------------------
(***************************************************************************)
(* QuicTransport and DualQuicTransport, transports/quic/src/lib.rs: one    *)
(* UDP socket and the QUIC connections that share it; a dual transport is  *)
(* an IPv4 and an IPv6 one, polled together.                               *)
(*                                                                         *)
(* A site y is a transport t at work with its socket: in holds the         *)
(* datagrams the socket has received, wire those it sent, sock whether it  *)
(* takes more ("ok"), would block, or has no route ("dead").  An error     *)
(* that a call or a poll returns is in err.                                *)
(***************************************************************************)
EXTENDS Integers, Sequences, SequencesExt, FiniteSetsExt

-----------------------------------------------------------------------------
(***************************************************************************)
(* QuicConnection, transports/quic/src/connection.rs: one QUIC connection  *)
(* and its streams.  Every operation is given the connection together with *)
(* the socket, the transport's event queue and its queue of datagrams kept *)
(* for a socket that would block: a record w, which an error leaves with   *)
(* err set (the ? of the code).                                            *)
(*                                                                         *)
(* quiche is external: a handshake of three packets, streams that are      *)
(* delivered in order within the window the reader has granted, and the    *)
(* RESET_STREAM and STOP_SENDING frames.  A packet carries one frame; one  *)
(* that the socket refuses for good counts as lost and is sent again when  *)
(* the loss timer fires.  A stream both of whose sides are over is         *)
(* forgotten by quiche at once, as if its last packet were acknowledged.   *)
(***************************************************************************)

CONSTANTS
    None,
    Sids,                   \* stream ids: even ones are the client's
    Window,                 \* bytes a stream may be ahead of its reader
    MaxStreams,             \* max_streams_per_connection
    MaxPendingBytes,        \* max_pending_stream_bytes
    MaxPendingDatagrams

Frame(f, s, v) == [f |-> f, s |-> s, v |-> v]
Event(ev, id, s, v) == [ev |-> ev, id |-> id, s |-> s, v |-> v]

-----------------------------------------------------------------------------
(* quiche (external) *)

\* fin is the byte count that came with the end of the stream.
NewQStream ==
    [ known |-> FALSE, cap |-> Window, buf |-> <<>>, fin |-> None, eof |-> FALSE,
      reset |-> "no", deaf |-> FALSE, ended |-> FALSE, stopped |-> FALSE ]
NewQuiche(server, cert, scid, dcid) ==
    [ server |-> server, cert |-> cert, peer_cert |-> None, scid |-> scid, dcid |-> dcid,
      token |-> None, begun |-> FALSE, est |-> FALSE, local_error |-> FALSE, draining |-> FALSE,
      closed |-> FALSE, due |-> None, out |-> <<>>, lost |-> <<>>, s |-> [i \in Sids |-> NewQStream] ]

Complete(qs) == qs.ended /\ (qs.eof \/ qs.deaf)
Silent(q)    == q.local_error \/ q.draining \/ q.closed
Put(q, fr)   == IF Silent(q) THEN q ELSE [q EXCEPT !.out = Append(@, fr)]
PacketOf(q, fr) ==
    [ ty |-> IF fr.f = "Initial" THEN "Initial" ELSE "Other",
      dcid |-> q.dcid, scid |-> q.scid, token |-> q.token, frame |-> fr ]

\* Connection::recv for a frame of a stream.
RecvFrame(qs, fr) ==
    IF Complete(qs) THEN qs
    ELSE CASE fr.f = "Max"  -> [qs EXCEPT !.cap = @ + fr.v]
           [] fr.f = "Stop" -> [qs EXCEPT !.known = TRUE, !.stopped = TRUE, !.ended = TRUE]
           [] qs.deaf \/ qs.reset # "no" -> qs
           [] fr.f = "Reset" -> [qs EXCEPT !.known = TRUE, !.reset = "new", !.buf = <<>>, !.eof = FALSE]
           [] fr.f = "Data" -> [qs EXCEPT !.known = TRUE, !.buf = @ \o fr.v]
           [] fr.f = "End"  -> [qs EXCEPT !.known = TRUE, !.fin = fr.v]
           [] OTHER -> qs
\* Connection::recv
Recv(q, fr) ==
    IF Silent(q) THEN q
    ELSE CASE fr.f = "Initial" ->
                 IF q.begun THEN q ELSE Put([q EXCEPT !.begun = TRUE], Frame("Hs", 0, [scid |-> q.scid, cert |-> q.cert]))
           [] fr.f = "Retry" ->
                 IF q.est \/ q.token # None THEN q
                 ELSE Put([q EXCEPT !.token = fr.v.token, !.dcid = fr.v.scid], Frame("Initial", 0, None))
           [] fr.f = "Hs" ->
                 IF q.est THEN q
                 ELSE Put([q EXCEPT !.est = TRUE, !.dcid = fr.v.scid, !.peer_cert = fr.v.cert],
                          Frame("Finished", 0, q.cert))
           [] fr.f = "Finished" -> [q EXCEPT !.est = TRUE, !.peer_cert = fr.v]
           [] fr.f = "Close" -> [q EXCEPT !.draining = TRUE, !.out = <<>>]
           [] fr.f = "Ping"  -> Put(q, Frame("Ack", 0, None))
           [] fr.f = "Ack"   -> q
           [] OTHER -> IF q.est THEN [q EXCEPT !.s[fr.s] = RecvFrame(@, fr)] ELSE q

\* Connection::on_timeout: the loss timer, or the end of the draining or idle period.
OnTimeout(q) ==
    IF q.due = "end" THEN [q EXCEPT !.due = None, !.closed = TRUE, !.out = <<>>]
    ELSE IF ~q.est /\ ~q.server /\ ~Silent(q)
    THEN [q EXCEPT !.due = None, !.out = <<Frame("Initial", 0, None)>>, !.lost = <<>>]
    ELSE [q EXCEPT !.due = None, !.out = q.lost \o @, !.lost = <<>>]
\* Connection::close
CloseQuiche(q) ==
    IF Silent(q) THEN q
    ELSE [q EXCEPT !.local_error = TRUE, !.out = <<Frame("Close", 0, None)>>, !.lost = <<>>]
Readable(q) ==
    {i \in Sids : LET qs == q.s[i] IN
        ~qs.deaf /\ (qs.reset = "new" \/ qs.buf # <<>> \/ (qs.fin # None /\ ~qs.eof))}

-----------------------------------------------------------------------------
(* The connection. *)

\* struct StreamRuntimeState
NewStream ==
    [ bytes |-> <<>>, fin |-> None, local_write_closed |-> FALSE, remote_write_closed |-> FALSE,
      incoming_notified |-> FALSE, closed_notified |-> FALSE ]
HasPending(st) == st.bytes # <<>> \/ st.fin # None

\* struct QuicConnection, fn new
NewConnection(q, peer) ==
    [ q |-> q, peer |-> peer, state |-> "Connecting", streams |-> [i \in Sids |-> None],
      next |-> IF q.server THEN 1 ELSE 0, active |-> 0, pending_bytes |-> 0,
      cids |-> {q.scid}, quiet |-> FALSE, sent_keepalive |-> FALSE ]

IsLocal(c, s) == (s % 2) = IF c.q.server THEN 1 ELSE 0
Known(c) == {i \in Sids : c.streams[i] # None}

Emit(w, ev, s, v) == [w EXCEPT !.events = Append(@, Event(ev, w.id, s, v))]
Refuse(w, er)     == [w EXCEPT !.err = er]

\* fn flush: a packet leaves quiche only if it can be kept should the socket block.
FlushFrame(w, fr) ==
    LET rest == [w EXCEPT !.c.q.out = Tail(@)]
    IN  IF w.stop \/ Len(w.dgrams) >= MaxPendingDatagrams \/ w.c.q.closed THEN w
        ELSE CASE w.sock = "ok"      -> [rest EXCEPT !.wire = Append(@, PacketOf(w.c.q, fr))]
               [] w.sock = "blocked" -> [rest EXCEPT !.dgrams = Append(@, PacketOf(w.c.q, fr)), !.stop = TRUE]
               [] w.sock = "dead"    -> [rest EXCEPT !.c.q.lost = Append(@, fr), !.stop = TRUE]
Flush(w) ==
    IF w.err # None THEN w
    ELSE [FoldLeft(FlushFrame, [w EXCEPT !.stop = FALSE], w.c.q.out) EXCEPT !.stop = FALSE]

\* fn note_stream_closed_if_finished
NoteStreamClosedIfFinished(w, s) ==
    LET st == w.c.streams[s]
    IN  IF st # None /\ st.local_write_closed /\ st.remote_write_closed /\ ~st.closed_notified
        THEN Emit([w EXCEPT !.c.streams[s].closed_notified = TRUE], "StreamClosed", s, None)
        ELSE w

\* fn drain_send_queue, for one stream: what the window takes, then the fin.
Given(w, s, n) ==
    IF n = 0 THEN w
    ELSE [w EXCEPT !.c.q = Put([@ EXCEPT !.s[s].known = TRUE, !.s[s].cap = @ - n],
                               Frame("Data", s, SubSeq(w.c.streams[s].bytes, 1, n))),
                   !.c.streams[s].bytes = SubSeq(@, n + 1, Len(@)),
                   !.c.pending_bytes = @ - n]
Ended(w, s) ==
    IF w.c.streams[s].bytes # <<>> \/ w.c.streams[s].fin = None THEN w
    ELSE [w EXCEPT !.c.q = Put([@ EXCEPT !.s[s].known = TRUE, !.s[s].ended = TRUE],
                               Frame("End", s, w.c.streams[s].fin)),
                   !.c.streams[s].fin = None]
Progress(w, s, n) == n > 0 \/ (w.c.streams[s].bytes = <<>> /\ w.c.streams[s].fin # None)
DrainStream(w, s) ==
    LET st == w.c.streams[s]
        n  == Min({w.c.q.s[s].cap, Len(st.bytes)})
    IN  IF w.err # None \/ ~HasPending(st) THEN w
        ELSE IF w.c.q.s[s].stopped THEN Refuse(w, "stopped")
        ELSE IF ~Progress(w, s, n) THEN w
        ELSE NoteStreamClosedIfFinished(Ended(Given(w, s, n), s), s)
Drain(w) == FoldLeft(DrainStream, w, SetToSortSeq(Known(w.c), <))

\* fn maybe_keepalive: one ping until the peer is heard again.
MaybeKeepalive(w) ==
    IF w.err # None \/ w.c.state # "Connected" \/ w.c.sent_keepalive \/ ~w.c.quiet THEN w
    ELSE Flush(Drain([w EXCEPT !.c.sent_keepalive = TRUE, !.c.q = Put(@, Frame("Ping", 0, None))]))

\* fn handle_timeout
HandleTimeout(w) ==
    IF w.err # None \/ w.c.q.due = None THEN w
    ELSE Flush(Drain([w EXCEPT !.c.q = OnTimeout(@)]))

\* fn recv_packet: the first packet after the handshake settles who the peer is.
RejectPeer(w) ==
    Flush(Emit([w EXCEPT !.c.q = CloseQuiche(@), !.c.state = "Closing"], "Error", 0, None))
Verify(w) ==
    IF w.err # None THEN w
    ELSE IF w.c.q.peer_cert = "bad" \/ (w.c.peer # None /\ w.c.peer # w.c.q.peer_cert) THEN RejectPeer(w)
    ELSE Emit([w EXCEPT !.c.peer = w.c.q.peer_cert], "Connected", 0, w.c.q.peer_cert)
Heard(w, fr) ==
    [w EXCEPT !.c.q = Recv(@, fr), !.c.quiet = FALSE, !.c.sent_keepalive = FALSE]
Settle(w) ==
    IF w.c.state = "Connecting" /\ w.c.q.est
    THEN Verify(Flush(Drain([w EXCEPT !.c.state = "Connected"])))
    ELSE Flush(Drain(w))
RecvPacket(w, p) ==
    IF p.frame.f = "Garbage" THEN Emit(w, "Error", 0, None)
    ELSE Settle(IF p.dcid \in w.c.cids THEN Heard(w, p.frame)
                ELSE [w EXCEPT !.c.quiet = FALSE, !.c.sent_keepalive = FALSE])

\* fn open_stream
OpenStream(w) ==
    IF w.c.state # "Connected" THEN Refuse(w, "state")
    ELSE IF w.c.active >= MaxStreams THEN Refuse(w, "exhausted")
    ELSE Emit([w EXCEPT !.c.streams[w.c.next] = NewStream, !.c.next = @ + 4, !.c.active = @ + 1],
              "StreamOpened", w.c.next, None)

\* A write in the queue of its stream.
Queued(w, s, data) ==
    [w EXCEPT !.c.q.s[s].known = TRUE, !.c.streams[s].bytes = @ \o data, !.c.pending_bytes = @ + Len(data)]

\* Mutant of SendStream: what fits is kept when the rest is refused.
SendStreamPartly(w, s, data) ==
    LET st   == w.c.streams[s]
        room == MaxPendingBytes - w.c.pending_bytes
        now  == IF HasPending(st) THEN 0 ELSE w.c.q.s[s].cap
        part == SubSeq(data, 1, Min({Len(data), now + room}))
        y    == Flush(Drain(Given(Queued(w, s, part), s, Min({now, Len(part)}))))
    IN  IF st = None THEN Refuse(w, "unknown")
        ELSE IF st.local_write_closed THEN Refuse(w, "closed")
        ELSE IF ~HasPending(st) /\ w.c.q.s[s].stopped THEN Refuse(w, "halted")
        ELSE IF Len(part) < Len(data) THEN Refuse(y, "exhausted") ELSE y

\* fn send_stream: all of it or nothing; what quiche does not take at once waits.
SendStream(w, s, data) ==
    LET st   == w.c.streams[s]
        room == MaxPendingBytes - w.c.pending_bytes
        now  == IF HasPending(st) THEN 0 ELSE w.c.q.s[s].cap
    IN  IF st = None THEN Refuse(w, "unknown")
        ELSE IF st.local_write_closed THEN Refuse(w, "closed")
        ELSE IF ~HasPending(st) /\ w.c.q.s[s].stopped THEN Refuse(w, "halted")
        ELSE IF Len(data) - now > room THEN Refuse([w EXCEPT !.c.q.s[s].known = TRUE], "exhausted")
        ELSE Flush(Drain(Given(Queued(w, s, data), s, Min({now, Len(data)}))))

\* fn close_stream_write; total is how many bytes the stream was given.
CloseStreamWrite(w, s, total) ==
    IF w.c.streams[s] = None THEN Refuse(w, "unknown")
    ELSE IF w.c.streams[s].local_write_closed THEN Refuse(w, "closed")
    ELSE Flush(Drain([w EXCEPT !.c.streams[s].local_write_closed = TRUE, !.c.streams[s].fin = total]))

\* fn note_stream_reset, and the bookkeeping reset_stream shares with it.
\* Mutant of DropWrites: the bytes are gone and still counted.
DropWritesUncounted(w, s) == [w EXCEPT !.c.streams[s].bytes = <<>>, !.c.streams[s].fin = None]

DropWrites(w, s) ==
    [w EXCEPT !.c.pending_bytes = @ - Len(w.c.streams[s].bytes),
              !.c.streams[s].bytes = <<>>, !.c.streams[s].fin = None]
BothSidesClosed(w, s) ==
    [w EXCEPT !.c.streams[s].local_write_closed = TRUE, !.c.streams[s].remote_write_closed = TRUE]
NoteStreamReset(w, s) == NoteStreamClosedIfFinished(BothSidesClosed(DropWrites(w, s), s), s)

\* fn reset_stream: nothing is flushed, the next poll does that.
Shutdown(q, s) ==
    LET kept  == [q EXCEPT !.out = SelectSeq(@, LAMBDA fr : fr.s # s \/ fr.f \notin {"Data", "End"}),
                           !.s[s].ended = TRUE, !.s[s].deaf = TRUE, !.s[s].buf = <<>>]
        reset == Put(kept, Frame("Reset", s, None))
    IN  IF q.s[s].fin # None \/ q.s[s].reset # "no" THEN reset ELSE Put(reset, Frame("Stop", s, None))
ResetStream(w, s) ==
    IF w.c.streams[s] = None THEN Refuse(w, "unknown")
    ELSE IF ~w.c.q.s[s].known \/ Complete(w.c.q.s[s]) THEN Refuse(DropWrites(w, s), "shutdown")
    ELSE NoteStreamReset([w EXCEPT !.c.q = Shutdown(@, s)], s)

\* fn close
Close(w) ==
    IF w.c.state = "Closing" THEN Flush(w)
    ELSE LET d == Drain([w EXCEPT !.c.q = CloseQuiche(@), !.c.state = "Closing"])
         IN  Flush([d EXCEPT !.events = w.events])

\* fn ensure_stream_discovered
EnsureStreamDiscovered(w, s) ==
    LET y == IF w.c.streams[s] = None THEN [w EXCEPT !.c.streams[s] = NewStream] ELSE w
    IN  IF IsLocal(w.c, s) \/ y.c.streams[s].incoming_notified THEN y
        ELSE Emit([y EXCEPT !.c.streams[s].incoming_notified = TRUE], "IncomingStream", s, None)

\* fn poll_streams: every readable stream is read until it has no more, has ended or was reset.
ReadBytes(w, s) ==
    LET b == w.c.q.s[s].buf
    IN  IF b = <<>> THEN w
        ELSE Emit([w EXCEPT !.c.q = Put([@ EXCEPT !.s[s].buf = <<>>], Frame("Max", s, Len(b)))], "StreamData", s, b)
ReadEnd(w, s) ==
    IF w.c.q.s[s].fin = None THEN w
    ELSE NoteStreamClosedIfFinished(
            Emit([w EXCEPT !.c.q.s[s].eof = TRUE, !.c.streams[s].remote_write_closed = TRUE],
                 "StreamRemoteWriteClosed", s, w.c.q.s[s].fin), s)
ReadStream(w, s) ==
    FoldLeft(LAMBDA y, step :
        CASE step = "discover" -> EnsureStreamDiscovered(y, s)
          [] step = "read" /\ y.c.q.s[s].reset = "new" ->
                NoteStreamReset([y EXCEPT !.c.q.s[s].reset = "read", !.c.q.s[s].eof = TRUE], s)
          [] OTHER -> ReadEnd(ReadBytes(y, s), s), w, <<"discover", "read">>)

\* fn gc_closed_streams
Finished(c) == {i \in Known(c) : c.streams[i].closed_notified /\ ~HasPending(c.streams[i])}
GcClosedStreams(w) ==
    [w EXCEPT !.c.streams = [i \in Sids |-> IF i \in Finished(w.c) THEN None ELSE @[i]],
              !.c.active = Max({0, @ - Cardinality({i \in Finished(w.c) : IsLocal(w.c, i)})})]
PollStreams(w) ==
    IF w.err # None \/ ~w.c.q.est THEN w
    ELSE FoldLeft(LAMBDA y, step :
            IF y.err # None THEN y
            ELSE IF step = "read" THEN FoldLeft(ReadStream, y, SetToSortSeq(Readable(y.c.q), <))
            ELSE IF step = "send" THEN Flush(Drain(y))
            ELSE GcClosedStreams(y), w, <<"read", "send", "gc">>)

-----------------------------------------------------------------------------
(* The transport: its socket and its connections *)

CONSTANTS
    Ids,                    \* connection ids; each family allocates its own
    MaxConnections,
    MAX_DATAGRAMS_PER_POLL

\* struct QuicTransport: cids and peers are its routing tables.
NewTransport(me, cert, validate, first) ==
    [ me |-> me, cert |-> cert, validate |-> validate, listening |-> FALSE, next |-> first,
      conns |-> [i \in Ids |-> None], cids |-> {}, peers |-> {}, events |-> <<>>, dgrams |-> <<>> ]

Live(t) == {i \in Ids : t.conns[i] # None}
Route(t, cid) == {r.id : r \in {r \in t.cids : r.cid = cid}}

\* A connection of y with its surroundings, and back.
Enter(y, id) ==
    [ c |-> y.t.conns[id], id |-> id, events |-> y.t.events, dgrams |-> y.t.dgrams,
      wire |-> y.wire, sock |-> y.sock, stop |-> FALSE, err |-> None ]
Leave(y, w) ==
    [y EXCEPT !.t.conns[w.id] = w.c, !.t.events = w.events, !.t.dgrams = w.dgrams,
              !.wire = w.wire, !.err = w.err]

-----------------------------------------------------------------------------
(* Datagrams that wait for the socket. *)

\* fn flush_pending_datagrams
FlushPendingDatagrams(y) ==
    CASE y.sock = "ok"      -> [y EXCEPT !.wire = @ \o y.t.dgrams, !.t.dgrams = <<>>]
      [] y.sock = "blocked" -> y
      [] y.sock = "dead"    -> [y EXCEPT !.t.dgrams = <<>>]

\* fn queue_datagram_best_effort, fn send_stateless_datagram
QueueDatagramBestEffort(y, p) ==
    IF Len(y.t.dgrams) >= MaxPendingDatagrams THEN y ELSE [y EXCEPT !.t.dgrams = Append(@, p)]
SendStatelessDatagram(y, p) ==
    CASE y.sock = "ok"      -> [y EXCEPT !.wire = Append(@, p)]
      [] y.sock = "blocked" -> QueueDatagramBestEffort(y, p)
      [] y.sock = "dead"    -> y

-----------------------------------------------------------------------------
(* Calls. *)

\* fn dial: the Initial goes out before the connection is registered.
Registered(y, id, c, peer) ==
    [y EXCEPT !.t.conns[id] = c, !.t.cids = @ \union {[cid |-> k, id |-> id] : k \in c.cids},
              !.t.peers = IF peer = None THEN @ ELSE @ \union {[peer |-> peer, id |-> id]}]
Dial(y, peer) ==
    LET id   == y.t.next
        q    == NewQuiche(FALSE, y.t.cert, <<"c", y.t.me, id>>, <<"d", y.t.me, id>>)
        used == [y EXCEPT !.t.next = @ + 1]
        sent == SendStatelessDatagram(used, PacketOf(q, Frame("Initial", 0, None)))
    IN  IF Cardinality(Live(y.t)) >= MaxConnections THEN [y EXCEPT !.err = "exhausted"]
        ELSE IF y.sock = "dead" THEN [used EXCEPT !.err = "send"]
        ELSE Registered(sent, id, NewConnection(q, peer), peer)

\* fn listen
Listen(y) == [y EXCEPT !.t.listening = TRUE, !.t.events = Append(@, Event("Listening", 0, 0, None))]

\* fn open_stream, send_stream, close_stream_write, reset_stream, close
CallOpenStream(y, id)             == Leave(y, OpenStream(Enter(y, id)))
CallSendStream(y, id, s, data)    == Leave(y, SendStream(Enter(y, id), s, data))
CallCloseStreamWrite(y, id, s, n) == Leave(y, CloseStreamWrite(Enter(y, id), s, n))
CallResetStream(y, id, s)         == Leave(y, ResetStream(Enter(y, id), s))
CallClose(y, id)                  == Leave(y, Close(Enter(y, id)))

-----------------------------------------------------------------------------
(* fn poll *)

\* fn mint_retry_token, fn validate_retry_token: the token names the address and the
\* connection id the client first used; no connection exists until it comes back.
MintRetryToken(from, dcid) == [addr |-> from, odcid |-> dcid, age |-> "ok"]
ValidateRetryToken(from, token) == token.addr = from /\ token.age = "ok"

RetryPacket(y, p) ==
    [ ty |-> "Other", dcid |-> p.scid, scid |-> <<"r", p.dcid>>, token |-> None,
      frame |-> Frame("Retry", 0, [scid |-> <<"r", p.dcid>>, token |-> MintRetryToken(p.scid[2], p.dcid)]) ]

\* A new Initial: a connection is made for it and indexed under both of its ids.
Accept(y, p, scid) ==
    LET id == y.t.next
        q  == NewQuiche(TRUE, y.t.cert, scid, p.scid)
        c  == [NewConnection(q, None) EXCEPT !.cids = @ \union {p.dcid}]
    IN  [Registered(y, id, c, None) EXCEPT !.t.next = @ + 1,
            !.t.events = Append(@, Event("IncomingConnection", id, 0, None))]

\* A packet for a connection, and the tables when it settles who the peer is.
Indexed(y, id, before) ==
    LET now == y.t.conns[id].peer
    IN  IF y.err # None \/ now = before THEN y
        ELSE [y EXCEPT !.t.peers = (@ \ {[peer |-> before, id |-> id]}) \union {[peer |-> now, id |-> id]},
                       !.t.events = Append(@, Event("PeerIdentityVerified", id, 0, now))]
ToConnection(y, id, p) ==
    Indexed(Leave(y, RecvPacket(Enter(y, id), p)), id, y.t.conns[id].peer)

Admit(y, p) ==
    IF Cardinality(Live(y.t)) >= MaxConnections THEN y
    ELSE IF y.t.validate /\ p.token = None THEN SendStatelessDatagram(y, RetryPacket(y, p))
    ELSE IF y.t.validate /\ ~ValidateRetryToken(p.scid[2], p.token) THEN y
    ELSE FoldLeft(LAMBDA z, id : ToConnection(z, id, p),
                  Accept(y, p, IF y.t.validate THEN p.dcid ELSE <<"s", y.t.me, y.t.next>>), <<y.t.next>>)
\* By connection id, else as a new connection, else by the address it came from.
ReceiveDatagram(y, p) ==
    LET owner == Route(y.t, p.dcid)
    IN  IF owner # {} THEN ToConnection(y, CHOOSE i \in owner : TRUE, p)
        ELSE IF y.t.listening /\ p.ty = "Initial" THEN Admit(y, p)
        ELSE IF Live(y.t) # {} THEN ToConnection(y, Min(Live(y.t)), p)
        ELSE y
ReceiveNext(y, p) ==
    IF y.err # None THEN y ELSE ReceiveDatagram([y EXCEPT !.in = Tail(@)], p)

Service(y, id) ==
    IF y.err # None THEN y
    ELSE Leave(y, FoldLeft(LAMBDA w, step :
            CASE step = "timeout" -> HandleTimeout(w)
              [] step = "keepalive" -> MaybeKeepalive(w)
              [] OTHER -> PollStreams(w), Enter(y, id), <<"timeout", "keepalive", "streams">>))

\* fn unindex_connection
UnindexConnection(y, id) ==
    LET c == y.t.conns[id]
    IN  [y EXCEPT !.t.cids = {r \in @ : r.cid \notin c.cids},
                  !.t.peers = IF c.peer = None THEN @ ELSE @ \ {[peer |-> c.peer, id |-> id]}]
Removed(y, id) ==
    [UnindexConnection(y, id) EXCEPT !.t.conns[id] = None,
        !.t.events = Append(@, Event("Closed", id, 0, None))]
ClosedOnes(y) == {i \in Live(y.t) : y.t.conns[i].q.closed}

\* Mutant of Take: a poll that fails loses what it has collected.
TakeAlways(y) == [y |-> [y EXCEPT !.t.events = <<>>], events |-> IF y.err = None THEN y.t.events ELSE <<>>]

\* The events are taken only when everything went well.
Take(y) ==
    IF y.err # None THEN [y |-> y, events |-> <<>>]
    ELSE [y |-> [y EXCEPT !.t.events = <<>>], events |-> y.t.events]
Poll(y) ==
    Take(FoldLeft(LAMBDA z, step :
            IF z.err # None THEN z
            ELSE CASE step = "flush"   -> FlushPendingDatagrams(z)
                   [] step = "receive" ->
                        FoldLeft(ReceiveNext, z, SubSeq(z.in, 1, Min({MAX_DATAGRAMS_PER_POLL, Len(z.in)})))
                   [] step = "serve"   -> FoldLeft(Service, z, SetToSortSeq(Live(z.t), <))
                   [] OTHER            -> FoldLeft(Removed, z, SetToSortSeq(ClosedOnes(z), <)),
         [y EXCEPT !.err = None], <<"flush", "receive", "serve", "remove">>))

\* fn next_deadline, fn wait_for_input: what keeps the host from sleeping.
Due(t) ==
    \/ t.events # <<>>
    \/ t.dgrams # <<>>
    \/ \E i \in Live(t) : t.conns[i].q.due # None \/ t.conns[i].q.lost # <<>>
    \/ \E i \in Live(t) : t.conns[i].state = "Connected" /\ ~t.conns[i].sent_keepalive /\ t.conns[i].quiet
Awake(y) == y.in # <<>> \/ Due(y.t)

-----------------------------------------------------------------------------
(* DualQuicTransport *)

\* fn poll: IPv4, then IPv6; the events of the first wait if the second fails.
DualPoll(a, b) ==
    IF a.y.err # None THEN [v4 |-> a.y, v6 |-> None, events |-> <<>>, failed |-> TRUE]
    ELSE IF b.y.err # None
    THEN [v4 |-> [a.y EXCEPT !.t.events = a.events \o @], v6 |-> b.y, events |-> <<>>, failed |-> TRUE]
    ELSE [v4 |-> a.y, v6 |-> b.y, events |-> a.events \o b.events, failed |-> FALSE]
=============================================================================
