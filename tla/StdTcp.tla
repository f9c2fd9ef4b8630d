------------------------------- MODULE StdTcp -------------------------------
(***************************************************************************)
(* StdTcpProvider, transports/tcp/src/std_provider.rs: non-blocking        *)
(* sockets over an edge-triggered readiness queue.  Readiness seen once is *)
(* latched in the socket until a read finds nothing, and writability is    *)
(* only watched while a write is short.                                    *)
(***************************************************************************)
EXTENDS TcpNet

CONSTANTS MAX_ACCEPTS_PER_POLL, MAX_READS_PER_POLL

LinkSeq == SetToSortSeq(Links, LAMBDA a, b : a < b)

\* struct StdTcpProvider, struct Socket
NewProvider == [ socks |-> [l \in Links |-> None], ready |-> <<>>, deferred_work |-> FALSE ]
Socket(phase, readable, writable) ==
    [ phase |-> phase, readable |-> readable, writable |-> writable,
      read_closed |-> FALSE, write_closed |-> FALSE ]

Sock(x, l) == x.t.prov.socks[l]
Has(x, l)  == Sock(x, l) # None

\* fn watch_writable: registering interest (the link's watch) reports readiness that
\* is there already.
WatchWritable(x, e, l, wanted) ==
    IF ~Has(x, l) \/ x.net[l].watch[e] = wanted THEN x
    ELSE [x EXCEPT !.net[l].watch[e] = wanted,
                   !.net[l].edge[e] = IF wanted /\ Room(x, l, Other(e)) > 0 THEN @ \union {"w"} ELSE @ \ {"w"}]

\* fn close and fn retire_if_finished
CloseSocket(x, e, l, reason) ==
    IF ~Has(x, l) THEN x
    ELSE Emit(LetGo([x EXCEPT !.t.prov.socks[l] = None], l, e), TcpEvent("Closed", l, reason))
RetireIfFinished(x, e, l) ==
    IF Has(x, l) /\ Sock(x, l).read_closed /\ Sock(x, l).write_closed
    THEN CloseSocket(x, e, l, None) ELSE x

-----------------------------------------------------------------------------
(* TcpProvider *)

\* fn connect
Connect(x, e, l) ==
    [x EXCEPT !.t.prov.socks[l] = Socket("Connecting", FALSE, FALSE),
              !.net[l].st = "Connecting", !.net[l].watch[e] = TRUE, !.net[l].held[e] = TRUE]

\* fn send: what the link has room for.  A peer that is gone answers with a reset.
AcceptedTokens(x, e, l, data) ==
    IF Sock(x, l).phase = "Connecting" THEN 0
    ELSE IF ~x.net[l].held[Other(e)] THEN Len(data)
    ELSE Smaller(Len(data), Room(x, l, Other(e)))
SendFails(x, e, l) == ~Has(x, l) \/ (Sock(x, l).phase = "Open" /\ (Broken(x, l, e) \/ Sock(x, l).write_closed))
Send(x, e, l, data) ==
    LET n    == AcceptedTokens(x, e, l, data)
        sent == CASE n = 0 -> x
                  [] n > 0 /\ x.net[l].held[Other(e)] -> Arrive(x, l, Other(e), SubSeq(data, 1, n))
                  [] OTHER -> Arrive(x, l, e, <<RST>>)
        full == [sent EXCEPT !.t.prov.socks[l].writable = @ /\ n = Len(data)]
    IN  IF Sock(x, l).phase = "Connecting" THEN x
        ELSE IF Sock(full, l).writable THEN full ELSE WatchWritable(full, e, l, TRUE)

\* fn close_write
CloseWriteFails(x, e, l) == ~Has(x, l) \/ Broken(x, l, e)
CloseSocketWrite(x, e, l) ==
    LET shut == [x EXCEPT !.t.prov.socks[l].write_closed = TRUE]
    IN  IF ~Has(x, l) THEN x
        ELSE RetireIfFinished(
            IF ~x.net[l].held[Other(e)] \/ Broken(x, l, Other(e)) \/ Ended(x, l, Other(e)) THEN shut
            ELSE Arrive(shut, l, Other(e), <<FIN>>), e, l)

\* fn abort
Abort(x, e, l) ==
    LET gone == LetGo([x EXCEPT !.t.prov.socks[l] = None], l, e)
    IN  [gone EXCEPT !.t.prov.ready = SelectSeq(@, LAMBDA ev : ev.l # l)]

-----------------------------------------------------------------------------
(* fn poll *)

\* fn absorb_readiness
Absorb(x, e, l) ==
    LET edge == x.net[l].edge[e]
        seen == [x EXCEPT !.net[l].edge[e] = {},
                          !.t.prov.socks[l].readable = @ \/ "r" \in edge,
                          !.t.prov.socks[l].writable = @ \/ "w" \in edge]
    IN  IF ~Has(x, l) THEN x
        ELSE IF "w" \in edge /\ Sock(x, l).phase = "Open" THEN WatchWritable(seen, e, l, FALSE) ELSE seen

\* fn accept_all: connections that wait, up to the budget.
Waiting(x, e) == IF e = "A" THEN <<>> ELSE SelectSeq(LinkSeq, LAMBDA l : x.net[l].st = "Backlog")
Adopt(x, l) ==
    Emit([x EXCEPT !.t.prov.socks[l] = Socket("Open", TRUE, TRUE),
                   !.net[l].st = "Up", !.net[l].edge["B"] = {}],
         TcpEvent("Accepted", l, None))
AcceptAll(x, e) ==
    LET w == Waiting(x, e)
        n == Smaller(Len(w), MAX_ACCEPTS_PER_POLL)
    IN  [FoldLeft(Adopt, x, SubSeq(w, 1, n)) EXCEPT !.t.prov.deferred_work = n = MAX_ACCEPTS_PER_POLL]

\* fn settle_connect
SettleConnect(x, e, l) ==
    IF ~Has(x, l) \/ Sock(x, l).phase # "Connecting" THEN x
    ELSE IF x.net[l].st = "Refused" \/ Broken(x, l, e) THEN CloseSocket(x, e, l, "refused")
    ELSE IF x.net[l].st = "Connecting" THEN x
    ELSE Emit(WatchWritable([x EXCEPT !.t.prov.socks[l].phase = "Open"], e, l, FALSE),
              TcpEvent("Connected", l, None))

\* fn read_all, one turn of its loop; the last turn only notes what is left.
ReadOnce(x, e, l, turn) ==
    LET n == Readable(x, l, e)
        q == x.net[l].q[e]
    IN  CASE ~Has(x, l) \/ ~Sock(x, l).readable \/ Sock(x, l).read_closed \/ Sock(x, l).phase # "Open" -> x
          [] OTHER ->
             IF turn > MAX_READS_PER_POLL THEN [x EXCEPT !.t.prov.deferred_work = TRUE]
             ELSE IF n > 0 THEN Emit(Take(x, l, e, n), TcpEvent("Received", l, SubSeq(q, 1, n)))
             ELSE IF q = <<>> THEN [x EXCEPT !.t.prov.socks[l].readable = FALSE]
             ELSE IF Head(q) = FIN
             THEN RetireIfFinished(Emit([x EXCEPT !.t.prov.socks[l].read_closed = TRUE,
                                                  !.t.prov.socks[l].readable = FALSE],
                                        TcpEvent("RemoteWriteClosed", l, None)), e, l)
             ELSE CloseSocket(x, e, l, "reset")
ReadAll(x, e, l) ==
    FoldLeft(LAMBDA y, turn : ReadOnce(y, e, l, turn), x, [i \in 1..(MAX_READS_PER_POLL + 1) |-> i])

Serve(x, e, l) == ReadAll(SettleConnect(x, e, l), e, l)
PollProvider(x, e) ==
    LET absorbed == FoldLeft(LAMBDA y, l : Absorb(y, e, l),
                             [x EXCEPT !.t.prov.deferred_work = FALSE], LinkSeq)
    IN  FoldLeft(LAMBDA y, l : Serve(y, e, l), AcceptAll(absorbed, e), LinkSeq)

\* fn wait_for_input returns at once, or the operating system wakes it.
Awake(x, e) ==
    \/ x.t.prov.ready # <<>> \/ x.t.prov.deferred_work
    \/ \E l \in Links : Has(x, l) /\ (Sock(x, l).readable \/ x.net[l].edge[e] # {})
    \/ Waiting(x, e) # <<>>
=============================================================================
