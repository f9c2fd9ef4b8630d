-------------------------------- MODULE Tcp --------------------------------
(***************************************************************************)
(* Two TCP endpoints: A dials, B listens, and each host calls its          *)
(* transport and polls it.  Both sit on the operating system's sockets or  *)
(* both on a smoltcp stack.  The network may refuse a dial or break a      *)
(* link; time passes in units.  A mode bounds what the hosts and the       *)
(* network do, so that each workload is explored to the end.               *)
(***************************************************************************)
EXTENDS TcpTransport

CONSTANTS
    Modes,        \* sequence of [kind, expected, opens, limits, tight, fuel]
    MaxNow        \* the clock stops here

VARIABLES
    tr,           \* the transport of each end
    net,          \* the links
    now,
    mode,         \* the workload
    fuel,         \* what is left of it
    view,         \* what each host was told of each connection
    sent          \* what each host sent on a link's stream

vars == <<tr, net, now, mode, fuel, view, sent>>

Unseen == [ phase |-> "None", link |-> 0, legal |-> TRUE, st |-> [s \in Ids |-> "None"],
            eof |-> [s \in Ids |-> FALSE], got |-> [s \in Ids |-> <<>>] ]

Init ==
    /\ mode \in Range(Modes)
    /\ fuel = mode.fuel
    /\ net = [l \in Links |-> NewLink]
    /\ now = 0
    /\ view = [e \in Ends |-> [id \in ConnIds |-> Unseen]]
    /\ sent = [e \in Ends |-> [l \in Links |-> [s \in Ids |-> <<>>]]]
    /\ LET fresh(e) == [t |-> NewTransport(mode.kind, mode.limits[e]), net |-> net, err |-> None]
       IN  tr = [e \in Ends |-> IF mode.kind = "Std" THEN fresh(e).t
                                ELSE (M!ArmListener(fresh(e), e)).t]

Site(e) == [t |-> tr[e], net |-> net, err |-> None]
Has(f)  == fuel[f] > 0
Spend(f) == fuel' = [fuel EXCEPT ![f] = @ - 1]
Becomes(e, x) == /\ tr' = [tr EXCEPT ![e] = x.t] /\ net' = x.net

-----------------------------------------------------------------------------
(* What a host makes of the events a poll returns. *)

Illegal(v) == [v EXCEPT !.legal = FALSE]
Expected(e, ev) == e = "B" \/ ev.v = mode.expected

Saw(v, e, ev) ==
    LET live  == v.phase = "Connected"
        known == live /\ v.st[ev.s] = "Open"
    IN  CASE ev.ev = "IncomingConnection" ->
               IF v.phase = "None" THEN [v EXCEPT !.phase = "Pending"] ELSE Illegal(v)
          [] ev.ev = "Connected" ->
               IF v.phase = "Pending" /\ Expected(e, ev) THEN [v EXCEPT !.phase = "Connected"] ELSE Illegal(v)
          [] ev.ev \in {"StreamOpened", "IncomingStream"} ->
               IF live /\ v.st[ev.s] = "None" THEN [v EXCEPT !.st[ev.s] = "Open"] ELSE Illegal(v)
          [] ev.ev = "StreamData" ->
               IF known /\ ~v.eof[ev.s] THEN [v EXCEPT !.got[ev.s] = @ \o ev.v] ELSE Illegal(v)
          [] ev.ev = "StreamRemoteWriteClosed" ->
               IF known /\ ~v.eof[ev.s] THEN [v EXCEPT !.eof[ev.s] = TRUE] ELSE Illegal(v)
          [] ev.ev = "StreamClosed" ->
               IF known THEN [v EXCEPT !.st[ev.s] = "Closed"] ELSE Illegal(v)
          [] ev.ev = "Error" -> IF v.phase \in {"Pending", "Connected"} THEN v ELSE Illegal(v)
          [] ev.ev = "Closed" ->
               IF v.phase \in {"Pending", "Connected"} THEN [v EXCEPT !.phase = "Closed"] ELSE Illegal(v)

\* The link of a connection, for the comparison of both ends.
Linked(v, c) == IF c = None THEN v ELSE [v EXCEPT !.link = c.socket]

\* The host polls and consumes the events.
Seen(e, y) ==
    [id \in ConnIds |->
        Linked(FoldLeft(LAMBDA v, ev : IF ev.id = id THEN Saw(v, e, ev) ELSE v, view[e][id], y.t.pending),
               y.t.conns[id])]
HostPoll(e) ==
    \E y \in {PollTransport(Site(e), e, now)} :
        /\ Becomes(e, [y EXCEPT !.t.pending = <<>>])
        /\ view' = [view EXCEPT ![e] = Seen(e, y)]
        /\ UNCHANGED <<now, mode, fuel, sent>>

-----------------------------------------------------------------------------
(* What a host calls. *)

HostDial ==
    LET id == tr["A"].next_id
        y  == Dial(Site("A"), "A", id, mode.expected)
    IN  /\ Has("dial") /\ Spend("dial")
        /\ ~DialFails(Site("A"))
        /\ Becomes("A", y)
        /\ view' = [view EXCEPT !["A"][id] = [@ EXCEPT !.phase = IF y.err = None THEN "Pending" ELSE "None",
                                                       !.link = id]]
        /\ UNCHANGED <<now, mode, sent>>

HostOpen(e, id) ==
    /\ Has("open") /\ Spend("open")
    /\ e \in mode.opens
    /\ tr[e].conns[id] # None /\ view[e][id].phase = "Connected"
    /\ Becomes(e, OpenStreamOn(Site(e), e, id))
    /\ UNCHANGED <<now, mode, view, sent>>

\* One byte, numbered by its place in the stream.
HostSend(e, id, s) ==
    LET y == SendStream(Site(e), e, id, s, <<Len(sent[e][view[e][id].link][s]) + 1>>)
    IN  /\ Has("send") /\ Spend("send")
        /\ tr[e].conns[id] # None /\ view[e][id].st[s] = "Open"
        /\ Becomes(e, y)
        /\ sent' = IF y.err # None THEN sent
                   ELSE [sent EXCEPT ![e][view[e][id].link][s] = Append(@, Len(@) + 1)]
        /\ UNCHANGED <<now, mode, view>>

HostCloseWrite(e, id, s) ==
    /\ Has("fin") /\ Spend("fin")
    /\ tr[e].conns[id] # None /\ view[e][id].st[s] = "Open"
    /\ Becomes(e, CloseStreamWrite(Site(e), e, id, s))
    /\ UNCHANGED <<now, mode, view, sent>>

HostReset(e, id, s) ==
    /\ Has("reset") /\ Spend("reset")
    /\ tr[e].conns[id] # None /\ view[e][id].st[s] = "Open"
    /\ Becomes(e, ResetStream(Site(e), e, id, s))
    /\ UNCHANGED <<now, mode, view, sent>>

HostClose(e, id) ==
    /\ Has("close") /\ Spend("close")
    /\ tr[e].conns[id] # None
    /\ Becomes(e, CloseConnection(Site(e), e, id))
    /\ UNCHANGED <<now, mode, view, sent>>

-----------------------------------------------------------------------------
(* The network (external). *)

\* The kernel completes a handshake with the listener.
Establishes(l) ==
    /\ mode.kind = "Std" /\ net[l].st = "Connecting" /\ net[l].held["A"]
    /\ net' = [net EXCEPT ![l].st = "Backlog", ![l].held["B"] = TRUE,
                          ![l].edge["A"] = @ \union {"w"}]
    /\ UNCHANGED <<tr, now, mode, fuel, view, sent>>

RefusesDial(l) ==
    /\ Has("refuse") /\ Spend("refuse")
    /\ net[l].st = "Connecting" /\ net[l].held["A"]
    /\ net' = [net EXCEPT ![l].st = "Refused", ![l].edge["A"] = @ \union {"r", "w"}]
    /\ UNCHANGED <<tr, now, mode, view, sent>>

BreaksLink(l) ==
    LET reset(k, e) == IF k.held[e] THEN [k EXCEPT !.q[e] = <<RST>>, !.edge[e] = @ \union {"r", "w"}] ELSE k
    IN  /\ Has("break") /\ Spend("break")
        /\ net[l].st \in {"Backlog", "SynReceived", "Up"}
        /\ net' = [net EXCEPT ![l] = reset(reset(@, "A"), "B")]
        /\ UNCHANGED <<tr, now, mode, view, sent>>

Elapses ==
    /\ now < MaxNow /\ now' = now + 1
    /\ Has("time") /\ Spend("time")
    /\ UNCHANGED <<tr, net, mode, view, sent>>

Next ==
    \/ HostDial
    \/ \E e \in Ends : HostPoll(e)
    \/ \E e \in Ends, id \in ConnIds : HostOpen(e, id) \/ HostClose(e, id)
    \/ \E e \in Ends, id \in ConnIds, s \in Ids :
         HostSend(e, id, s) \/ HostCloseWrite(e, id, s) \/ HostReset(e, id, s)
    \/ \E l \in Links : Establishes(l) \/ RefusesDial(l) \/ BreaksLink(l)
    \/ Elapses

Spec == Init /\ [][Next]_vars

-----------------------------------------------------------------------------
(* Properties *)

\* The events of a connection form one life: it is announced once, connects only
\* with the peer that was dialled, its streams open, carry data, end and close in
\* that order, and nothing follows Closed, however provider events, timeouts,
\* failed writes and the host's own calls interleave in poll.
EventsLegal == \A e \in Ends, id \in ConnIds : view[e][id].legal

\* What a host reads of a stream is a prefix of what the other one sent, and all
\* of it when the end of the stream was announced: buffering in Yamux, in the
\* transport's outbound buffer, in the socket and in the reader's chunks neither
\* loses nor reorders anything.  A lost or reordered message would not decrypt, so
\* this is as much to say that no connection ends on its own: not before a host
\* closes one, the network refuses or breaks one, or time passes, in a workload that
\* exceeds neither max_connections nor max_buffered_send.
Undisturbed == /\ mode.expected = "B" /\ ~mode.tight /\ \A l \in Links : net[l].st # "Refused"
               /\ \A f \in {"close", "refuse", "break", "time"} : fuel[f] = mode.fuel[f]
FlowsWhole ==
    \A e \in Ends, id \in ConnIds :
        LET v == view[e][id]
        IN  /\ Undisturbed => v.phase # "Closed"
            /\ \A s \in Ids : v.link # 0 =>
                  /\ IsPrefix(v.got[s], sent[Other(e)][v.link][s])
                  /\ v.eof[s] => v.got[s] = sent[Other(e)][v.link][s]

\* A provider holds no socket that no connection owns, except one that close()
\* half-closed to let the peer finish and an inbound attempt that the smoltcp provider
\* has not handed over; that provider stays within its sockets, those in TIME-WAIT
\* included, and lets no port serve two of them.
SocketsAccounted ==
    \A e \in Ends :
        LET x == Site(e)
            p == tr[e].prov
        IN  /\ \A l \in Links : p.socks[l] # None =>
                   \/ IdsOf(x, l) # {} \/ p.socks[l].write_closed
                   \/ ~Std(x) /\ p.socks[l].role = "Inbound" /\ p.socks[l].phase # "Open"
            /\ \A l \in Links : net[l].held[e] /\ p.socks[l] = None =>
                   \/ net[l].st \in {"Backlog", "Connecting"}
                   \/ ~Std(x) /\ (l \in p.reclaiming \/ l \in p.taken)
            /\ ~Std(x) => /\ M!SocketCount(x) + Cardinality(p.taken) <= max_sockets
                          /\ \A k, l \in Links : k # l /\ p.used_ports[k] # None => p.used_ports[k] # p.used_ports[l]
                          /\ e = "A" => \A l \in Links : net[l].held[e] => p.used_ports[l] # None

\* A host that sleeps until next_deadline or until the provider wakes it misses
\* nothing: whenever a poll would report an event or move data, the transport is
\* due or the provider wakes the host.
NoLostWakeup ==
    \A e \in Ends : \E y \in {PollTransport(Site(e), e, now)} :
        (\/ y.t.pending # <<>>
         \/ \E l \in Links : y.net[l].q # net[l].q)
        => Due(Site(e), now) \/ Awake(Site(e), e)

(* A connection that is up is served: every socket of a provider belongs to somebody, and *)
(* one that has something to do will wake its host.                                        *)
SocketsServed == SocketsAccounted /\ NoLostWakeup
=============================================================================
