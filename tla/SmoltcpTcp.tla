----------------------------- MODULE SmoltcpTcp -----------------------------
(***************************************************************************)
(* SmoltcpTcpProvider, transports/tcp/src/smoltcp_provider.rs: sockets of  *)
(* a stack that only moves when it is polled.  A socket costs memory from  *)
(* the moment it is created until the stack has sent its last segment, so  *)
(* the provider counts the ones it armed for listening, the ones in use    *)
(* and the ones it waits to reclaim, and a dial holds a local port as long.*)
(*                                                                         *)
(* The stack is external: tx is what a socket has to send, and a link's    *)
(* queue what its peer has received.  A port is the number of its link.    *)
(***************************************************************************)
EXTENDS TcpNet

CONSTANTS
    max_sockets, backlog, Ports, connect_timeout,
    CLOSE_DELAY                       \* how long the stack keeps a socket in TIME-WAIT

LinkSeq == SetToSortSeq(Links, LAMBDA a, b : a < b)
SYN == Token("SYN", None, 0, None)

\* struct SmoltcpTcpProvider, struct Entry, struct Reclaim
NewProvider ==
    [ socks |-> [l \in Links |-> None], ready |-> <<>>, tx |-> [l \in Links |-> <<>>],
      armed |-> 0, taken |-> {}, reclaiming |-> {}, linger |-> [l \in Links |-> None], used_ports |-> [l \in Links |-> None],
      egress_pending |-> FALSE, poll_at |-> FALSE, now |-> 0 ]
Entry(role) ==
    [ role |-> role, phase |-> "Opening", until |-> None, read_closed |-> FALSE,
      send_blocked |-> FALSE, write_closed |-> FALSE, closed_first |-> FALSE ]

Sock(x, l) == x.t.prov.socks[l]
Has(x, l)  == Sock(x, l) # None
Entries(x) == {l \in Links : Has(x, l)}

\* fn socket_count, fn new_socket
SocketCount(x) == Cardinality(Entries(x)) + Cardinality(x.t.prov.reclaiming) + x.t.prov.armed
NewSocketFails(x) == SocketCount(x) >= max_sockets

\* fn allocate_port
FreePorts(x) == {p \in Ports : \A l \in Links : x.t.prov.used_ports[l] # p}
AllocatePort(x) == CHOOSE p \in FreePorts(x) : \A q \in FreePorts(x) : p <= q

\* fn retire
Retire(x, l) ==
    IF ~Has(x, l) THEN x
    ELSE [x EXCEPT !.t.prov.socks[l] = None, !.t.prov.reclaiming = @ \union {l}]

-----------------------------------------------------------------------------
(* TcpProvider *)

\* fn arm_listener: as many sockets as the backlog and the ceiling allow.
ArmListener(x, e) ==
    IF e = "A" THEN x
    ELSE [x EXCEPT !.t.prov.armed =
            LET room == max_sockets - (SocketCount(x) - @)
            IN  IF @ >= backlog THEN @ ELSE IF room <= @ THEN @ ELSE Smaller(backlog, room)]

ConnectFails(x) == FreePorts(x) = {} \/ NewSocketFails(x)
Connect(x, e, l) ==
    [x EXCEPT !.t.prov.used_ports[l] = AllocatePort(x), !.t.prov.socks[l] = Entry("Outbound"),
              !.t.prov.tx[l] = <<SYN>>, !.t.prov.egress_pending = TRUE,
              !.net[l].held[e] = TRUE, !.net[l].watch[e] = TRUE]

\* The link as the stack of e sees it.
Syncing(x, e, l)  == x.net[l].st \in {"Free", "Connecting", "SynReceived"}
IsOpen(x, e, l)   == /\ x.net[l].held[e] /\ x.net[l].st # "Refused" /\ ~Broken(x, l, e)
                     /\ ~(Sock(x, l).write_closed /\ Ended(x, l, e) /\ x.t.prov.tx[l] = <<>>)
MaySend(x, e, l)  == IsOpen(x, e, l) /\ ~Syncing(x, e, l)
CanSend(x, e, l)  == MaySend(x, e, l) /\ Len(x.t.prov.tx[l]) < Capacity

\* fn send: a socket that may not send accepts nothing.
SendFails(x, e, l) == ~Has(x, l)
Send(x, e, l, data) ==
    LET n == IF MaySend(x, e, l) /\ ~Sock(x, l).write_closed
             THEN Smaller(Len(data), Capacity - Len(x.t.prov.tx[l])) ELSE 0
    IN  [x EXCEPT !.t.prov.tx[l] = @ \o SubSeq(data, 1, n),
                  !.t.prov.socks[l].send_blocked = @ \/ n < Len(data),
                  !.t.prov.egress_pending = @ \/ n > 0]
AcceptedTokens(x, e, l, data) == Len(Send(x, e, l, data).t.prov.tx[l]) - Len(x.t.prov.tx[l])

\* fn close_write, fn abort: what goes out goes out at the next poll.
CloseWriteFails(x, e, l) == ~Has(x, l)
CloseSocketWrite(x, e, l) ==
    [x EXCEPT !.t.prov.tx[l] = IF Broken(x, l, e) THEN @ ELSE Append(@, FIN),
              !.t.prov.socks[l].write_closed = TRUE, !.t.prov.socks[l].closed_first = ~Ended(x, l, e),
              !.t.prov.egress_pending = TRUE]
Abort(x, e, l) ==
    IF ~Has(x, l) THEN x
    ELSE Retire([x EXCEPT !.t.prov.tx[l] = <<RST>>, !.t.prov.egress_pending = TRUE], l)

-----------------------------------------------------------------------------
(* fn poll *)

\* The stack at work, fn drive: a SYN finds an armed socket or a refusal, the dialler
\* answers the SYN-ACK, data goes as far as the peer has room.
Deliver(x, e, l) ==
    LET o    == Other(e)
        tx   == x.t.prov.tx[l]
        n    == CHOOSE i \in 0..Len(tx) :
                   /\ \A j \in 1..i : IsData(tx[j])
                   /\ (i = Len(tx) \/ ~IsData(tx[i + 1]))
        m    == Smaller(n, Room(x, l, o))
        rest == SubSeq(tx, m + 1, Len(tx))
        sent == [x EXCEPT !.t.prov.tx[l] = rest]
    IN  CASE tx = <<>> -> x
          [] tx # <<>> /\ Head(tx) = SYN -> [x EXCEPT !.t.prov.tx[l] = Tail(tx), !.net[l].st = "Connecting"]
          [] tx # <<>> /\ Head(tx) = RST ->
                 LET quiet == [x EXCEPT !.t.prov.tx[l] = <<>>, !.net[l].held[e] = FALSE, !.net[l].q[e] = <<>>]
                 IN  IF x.net[l].held[o] /\ ~Broken(x, l, o) THEN Arrive(quiet, l, o, <<RST>>) ELSE quiet
          [] OTHER ->
                 IF ~x.net[l].held[o]
                 THEN Arrive([x EXCEPT !.t.prov.tx[l] = <<>>], l, e, <<RST>>)
                 ELSE LET data == IF m = 0 THEN sent ELSE Arrive(sent, l, o, SubSeq(tx, 1, m))
                      IN  IF rest # <<>> /\ Head(rest) = FIN
                          THEN Arrive([data EXCEPT !.t.prov.tx[l] = Tail(rest)], l, o, <<FIN>>)
                          ELSE data
Knock(x, e, l) ==
    IF e = "A" \/ x.net[l].st # "Connecting" \/ ~x.net[l].held["A"] THEN x
    ELSE IF x.t.prov.armed = 0 THEN [x EXCEPT !.net[l].st = "Refused", !.net[l].edge["A"] = @ \union {"w"}]
    ELSE [x EXCEPT !.t.prov.armed = @ - 1, !.t.prov.taken = @ \union {l},
                   !.net[l].st = "SynReceived", !.net[l].held["B"] = TRUE, !.net[l].watch["B"] = TRUE,
                   !.net[l].edge["A"] = @ \union {"w"}]
Answer(x, e, l) ==
    IF e = "B" \/ x.net[l].st # "SynReceived" \/ ~x.net[l].held["A"] THEN x
    ELSE [x EXCEPT !.net[l].st = "Up", !.net[l].edge["B"] = @ \union {"r"}]
Drive(x, e) ==
    FoldLeft(LAMBDA y, l : Answer(Knock(Deliver([y EXCEPT !.net[l].edge[e] = {}], e, l), e, l), e, l),
             x, LinkSeq)

\* fn harvest_listeners
Harvest(x) ==
    [x EXCEPT !.t.prov.socks = [l \in Links |-> IF l \in x.t.prov.taken THEN Entry("Inbound") ELSE @[l]],
              !.t.prov.taken = {}]

\* fn start_countdown and fn announce
Announce(x, e, l) ==
    LET until   == IF Sock(x, l).phase = "Opening" /\ connect_timeout # None
                   THEN x.t.prov.now + connect_timeout ELSE Sock(x, l).until
        counted == [x EXCEPT !.t.prov.socks[l].phase = "OpeningUntil", !.t.prov.socks[l].until = until]
        up      == [counted EXCEPT !.t.prov.socks[l].phase = "Open"]
        failed  == ~IsOpen(x, e, l) \/ (until # None /\ x.t.prov.now >= until)
        given   == Retire([counted EXCEPT !.t.prov.tx[l] = <<>>], l)
    IN  IF MaySend(x, e, l)
        THEN Emit(up, TcpEvent(IF Sock(x, l).role = "Inbound" THEN "Accepted" ELSE "Connected", l, None))
        ELSE IF ~failed THEN counted
        ELSE IF Sock(x, l).role = "Outbound" THEN Emit(given, TcpEvent("Closed", l, "refused")) ELSE given

\* fn service
ReadOnce(x, e, l) ==
    LET n == Readable(x, l, e)
    IN  IF n = 0 THEN x
        ELSE Emit(Take(x, l, e, n), TcpEvent("Received", l, SubSeq(x.net[l].q[e], 1, n)))
Status(x, e, l) ==
    LET ended == (Ended(x, l, e) \/ ~IsOpen(x, e, l)) /\ ~Sock(x, l).read_closed
        y     == IF ended THEN Emit([x EXCEPT !.t.prov.socks[l].read_closed = TRUE],
                                    TcpEvent("RemoteWriteClosed", l, None)) ELSE x
        z     == [y EXCEPT !.t.prov.socks[l].send_blocked = @ /\ ~CanSend(x, e, l)]
        wait  == Sock(x, l).closed_first /\ ~Broken(x, l, e)
    IN  IF IsOpen(x, e, l) THEN z
        ELSE Retire([Emit(z, TcpEvent("Closed", l, None))
                        EXCEPT !.t.prov.linger[l] = IF wait THEN x.t.prov.now + CLOSE_DELAY ELSE None], l)
Service(x, e, l) ==
    LET y == IF Has(x, l) /\ Sock(x, l).phase # "Open" THEN Announce(x, e, l) ELSE x
    IN  IF ~Has(y, l) \/ Sock(y, l).phase # "Open" THEN y
        ELSE Status(FoldLeft(LAMBDA z, i : ReadOnce(z, e, l), y, [i \in 1..Capacity |-> i]), e, l)

\* fn reclaim: a socket that is closed, its last segment out and its TIME-WAIT over.
Lingers(x, l) == x.t.prov.linger[l] # None /\ x.t.prov.now < x.t.prov.linger[l]
Reclaimed(x, l) == l \in x.t.prov.reclaiming /\ x.t.prov.tx[l] = <<>> /\ ~Lingers(x, l)
Reclaim(x, e) ==
    [x EXCEPT !.t.prov.reclaiming = {l \in @ : ~Reclaimed(x, l)},
              !.t.prov.used_ports = [l \in Links |-> IF Reclaimed(x, l) THEN None ELSE @[l]],
              !.net = [l \in Links |-> IF Reclaimed(x, l) THEN [@[l] EXCEPT !.held[e] = FALSE] ELSE @[l]]]

\* What the stack can send at once: Interface::poll_at.
Sendable(x, e, l) ==
    LET tx == x.t.prov.tx[l]
    IN  tx # <<>> /\ (~IsData(Head(tx)) \/ Room(x, l, Other(e)) > 0 \/ ~x.net[l].held[Other(e)])

PollProvider(x, e, now) ==
    LET driven == [Drive([x EXCEPT !.t.prov.now = now], e) EXCEPT !.t.prov.egress_pending = FALSE]
        served == FoldLeft(LAMBDA y, l : Service(y, e, l), Harvest(driven), LinkSeq)
        armed  == ArmListener(Reclaim(served, e), e)
    IN  [armed EXCEPT !.t.prov.poll_at = \E l \in Links : Sendable(armed, e, l)]

\* fn next_deadline, and the frames that wait at the device.
ProviderDue(x, now) ==
    \/ x.t.prov.egress_pending \/ x.t.prov.poll_at
    \/ \E l \in x.t.prov.reclaiming : x.t.prov.linger[l] # None /\ now >= x.t.prov.linger[l]
    \/ \E l \in Entries(x) : Sock(x, l).until # None /\ Sock(x, l).phase = "OpeningUntil" /\ now >= Sock(x, l).until
Awake(x, e) ==
    \/ x.t.prov.ready # <<>>
    \/ \E l \in Links : x.net[l].edge[e] # {}
    \/ e = "B" /\ \E l \in Links : x.net[l].st = "Connecting" /\ x.net[l].held["A"]
=============================================================================
