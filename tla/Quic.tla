-------------------------------- MODULE Quic --------------------------------
(***************************************************************************)
(* Two endpoints, each with a dual-stack QUIC transport: A dials B.  The   *)
(* host of an end calls its transport for connections and streams it knows *)
(* of, and polls it when something is due; the network loses, delays and   *)
(* repeats the packets of a handshake, and the sockets block or lose their *)
(* route.                                                                  *)
(*                                                                         *)
(* view[e] is what the host of e was told: an automaton over the events    *)
(* that remembers the first one out of order (bad) or out of sequence      *)
(* (torn).  The bytes of a stream are numbered, and its end carries how    *)
(* many were accepted.                                                     *)
(***************************************************************************)
EXTENDS QuicTransport

CONSTANT Modes              \* a mode: families, whom A expects, certificates, fuel

VARIABLES
    x,                      \* transports, sockets and datagrams under way
    view,
    failed,                 \* the last poll of e returned an error
    fuel,
    mode

vars == <<x, view, failed, fuel, mode>>

Ends     == {"A", "B"}
Other(e) == IF e = "A" THEN "B" ELSE "A"
Fams     == {"v4", "v6"}
First(f) == IF f = "v4" THEN 1 ELSE 11

Site(e, f) ==
    [ t |-> x.t[e][f], in |-> x.net[e][f], wire |-> x.net[Other(e)][f], sock |-> x.sock[e][f], err |-> None ]
Back(z, e, f, y) ==
    [z EXCEPT !.t[e][f] = y.t, !.net[e][f] = y.in, !.net[Other(e)][f] = y.wire]

-----------------------------------------------------------------------------
(* What a host is told. *)

NewStreamView == [st |-> "none", said |-> 0, got |-> 0]
NewView == [ conn |-> [i \in Ids |-> "none"], s |-> [i \in Ids |-> [k \in Sids |-> NewStreamView]],
             bad |-> None, torn |-> None ]

ConnStep(stage, ev) ==
    CASE ev = "IncomingConnection" /\ stage = "none" -> "incoming"
      [] ev = "Connected" /\ stage \in {"dialing", "incoming"} -> "up"
      [] ev = "PeerIdentityVerified" /\ stage = "up" -> "up"
      [] ev = "Error" /\ stage \in {"dialing", "incoming", "up"} -> stage
      [] ev = "Closed" /\ stage \in {"dialing", "incoming", "up"} -> "down"
      [] OTHER -> "illegal"
StreamStep(stage, ev) ==
    CASE ev = "StreamOpened" /\ stage = "opening" -> "open"
      [] ev = "IncomingStream" /\ stage = "none" -> "open"
      [] ev = "StreamData" /\ stage = "open" -> "open"
      [] ev = "StreamRemoteWriteClosed" /\ stage = "open" -> "half"
      [] ev = "StreamClosed" /\ stage \in {"open", "half"} -> "closed"
      [] OTHER -> "illegal"
StreamEvents == {"StreamOpened", "IncomingStream", "StreamData", "StreamRemoteWriteClosed", "StreamClosed"}

\* The bytes of an event continue, or complete, those the host already has.
Fits(v, ev) ==
    LET got == v.s[ev.id][ev.s].got
    IN  CASE ev.ev = "StreamData" -> ev.v = [k \in 1..Len(ev.v) |-> got + k]
          [] ev.ev = "StreamRemoteWriteClosed" -> ev.v = got
          [] OTHER -> TRUE
TellStream(v, ev) ==
    LET now == IF v.conn[ev.id] = "up" THEN StreamStep(v.s[ev.id][ev.s].st, ev.ev) ELSE "illegal"
    IN  [v EXCEPT !.s[ev.id][ev.s].st = now,
                  !.s[ev.id][ev.s].got = IF ev.ev = "StreamData" THEN @ + Len(ev.v) ELSE @,
                  !.bad = IF now = "illegal" /\ @ = None THEN ev.ev ELSE @,
                  !.torn = IF ~Fits(v, ev) /\ @ = None THEN ev.ev ELSE @]
TellConn(v, ev) ==
    LET now == ConnStep(v.conn[ev.id], ev.ev)
    IN  [v EXCEPT !.conn[ev.id] = now, !.bad = IF now = "illegal" /\ @ = None THEN ev.ev ELSE @]
Tell(v, ev) ==
    IF ev.ev = "Listening" THEN v
    ELSE IF ev.ev \in StreamEvents THEN TellStream(v, ev)
    ELSE TellConn(v, ev)

-----------------------------------------------------------------------------
Init ==
    \E m \in Range(Modes) :
        /\ mode = m
        /\ fuel = m.fuel
        /\ x = [ t |-> [e \in Ends |-> [f \in Fams |->
                    LET t == NewTransport(<<e, f>>, IF e = "A" THEN m.cert ELSE "B", m.validate, First(f))
                    IN  IF e = "A" THEN t ELSE Listen([t |-> t]).t ]],
                 net |-> [e \in Ends |-> [f \in Fams |-> <<>>]],
                 sock |-> [e \in Ends |-> [f \in Fams |-> "ok"]] ]
        /\ view = [e \in Ends |-> NewView]
        /\ failed = [e \in Ends |-> FALSE]

Spend(k) == fuel[k] > 0 /\ fuel' = [fuel EXCEPT ![k] = @ - 1]
FamOf(id) == IF id < First("v6") THEN "v4" ELSE "v6"
Up(e, id) == view[e].conn[id] = "up" /\ x.t[e][FamOf(id)].conns[id] # None
Usable(e, id) == {s \in Sids : view[e].s[id][s].st \in {"opening", "open", "half"}}

\* fn dial_all: each family it resolved to; one that fails leaves the others.
DialFamily(z, f) ==
    LET y == Dial([t |-> z.t["A"][f], in |-> z.net["A"][f], wire |-> z.net["B"][f],
                   sock |-> z.sock["A"][f], err |-> None], mode.peer)
    IN  Back(z, "A", f, y)
DialAll ==
    /\ Spend("dial")
    /\ \E z \in {FoldLeft(DialFamily, x, mode.fams)} :
        /\ x' = z
        /\ view' = [view EXCEPT !["A"].conn =
                [i \in Ids |-> IF z.t["A"][FamOf(i)].conns[i] # None /\ @[i] = "none" THEN "dialing" ELSE @[i]]]
    /\ UNCHANGED <<failed, mode>>

HostOpensStream(e, id) ==
    /\ Up(e, id) /\ x.t[e][FamOf(id)].conns[id].next \in Sids
    /\ Spend("open")
    /\ \E y \in {CallOpenStream(Site(e, FamOf(id)), id)} :
        /\ x' = Back(x, e, FamOf(id), y)
        /\ view' = IF y.err # None THEN view
                   ELSE [view EXCEPT ![e].s[id][x.t[e][FamOf(id)].conns[id].next].st = "opening"]
    /\ UNCHANGED <<failed, mode>>

Numbered(e, id, s, n) == [k \in 1..n |-> view[e].s[id][s].said + k]
HostSends(e, id, s, n) ==
    /\ Up(e, id) /\ s \in Usable(e, id)
    /\ Spend("send")
    /\ \E y \in {CallSendStream(Site(e, FamOf(id)), id, s, Numbered(e, id, s, n))} :
        /\ x' = Back(x, e, FamOf(id), y)
        /\ view' = IF y.err \notin {None, "stopped"} THEN view
                   ELSE [view EXCEPT ![e].s[id][s].said = @ + n]
    /\ UNCHANGED <<failed, mode>>

HostEndsStream(e, id, s) ==
    /\ Up(e, id) /\ s \in Usable(e, id)
    /\ Spend("fin")
    /\ \E y \in {CallCloseStreamWrite(Site(e, FamOf(id)), id, s, view[e].s[id][s].said)} :
        x' = Back(x, e, FamOf(id), y)
    /\ UNCHANGED <<view, failed, mode>>

HostResetsStream(e, id, s) ==
    /\ Up(e, id) /\ s \in Usable(e, id)
    /\ Spend("reset")
    /\ \E y \in {CallResetStream(Site(e, FamOf(id)), id, s)} : x' = Back(x, e, FamOf(id), y)
    /\ UNCHANGED <<view, failed, mode>>

HostCloses(e, id) ==
    /\ x.t[e][FamOf(id)].conns[id] # None
    /\ view[e].conn[id] \in {"dialing", "incoming", "up"}
    /\ Spend("close")
    /\ \E y \in {CallClose(Site(e, FamOf(id)), id)} : x' = Back(x, e, FamOf(id), y)
    /\ UNCHANGED <<view, failed, mode>>

\* The host polls when the transport asks for it, or after an error.
HostPolls(e) ==
    /\ failed[e] \/ \E f \in Fams : Awake(Site(e, f))
    /\ \E a \in {Poll(Site(e, "v4"))} :
       \E b \in {IF a.y.err # None THEN a ELSE Poll(Site(e, "v6"))} :
       \E d \in {DualPoll(a, b)} :
        /\ x' = IF d.v6 = None THEN Back(x, e, "v4", d.v4) ELSE Back(Back(x, e, "v4", d.v4), e, "v6", d.v6)
        /\ view' = [view EXCEPT ![e] = FoldLeft(Tell, @, d.events)]
        /\ failed' = [failed EXCEPT ![e] = d.failed]
    /\ UNCHANGED <<fuel, mode>>

-----------------------------------------------------------------------------
(* Timers, sockets and the network. *)

Quiche(e, id) == x.t[e][FamOf(id)].conns[id].q
SetQuiche(e, id, q) == [x EXCEPT !.t[e][FamOf(id)].conns[id].q = q]
HasConn(e, id) == x.t[e][FamOf(id)].conns[id] # None
Still == UNCHANGED <<view, failed, mode>>

\* A loss timer: something was lost, or the handshake has no answer yet.
LossTimer(e, id) ==
    /\ HasConn(e, id) /\ Quiche(e, id).due = None
    /\ IF Quiche(e, id).lost # <<>> THEN UNCHANGED fuel
       ELSE /\ ~Quiche(e, id).est /\ ~Quiche(e, id).server /\ ~Silent(Quiche(e, id))
            /\ Spend("pto")
    /\ x' = SetQuiche(e, id, [Quiche(e, id) EXCEPT !.due = "loss"])
    /\ Still
\* The end of the closing period, or of the idle timeout.
EndTimer(e, id) ==
    /\ HasConn(e, id) /\ Quiche(e, id).due = None /\ ~Quiche(e, id).closed
    /\ IF Silent(Quiche(e, id)) THEN UNCHANGED fuel ELSE Spend("idle")
    /\ x' = SetQuiche(e, id, [Quiche(e, id) EXCEPT !.due = "end"])
    /\ Still
KeepaliveDue(e, id) ==
    /\ HasConn(e, id) /\ ~x.t[e][FamOf(id)].conns[id].quiet
    /\ Spend("quiet")
    /\ x' = [x EXCEPT !.t[e][FamOf(id)].conns[id].quiet = TRUE]
    /\ Still
SocketTurns(e, f, how) ==
    /\ x.sock[e][f] # how
    /\ IF how = "ok" THEN UNCHANGED fuel ELSE Spend(how)
    /\ x' = [x EXCEPT !.sock[e][f] = how]
    /\ Still
\* The packets of a handshake may be lost; those of a connection are sent again by quiche.
Loses(e, f) ==
    /\ x.net[e][f] # <<>> /\ Head(x.net[e][f]).frame.f \in {"Initial", "Retry"}
    /\ Spend("lose")
    /\ x' = [x EXCEPT !.net[e][f] = Tail(@)]
    /\ Still
TokensExpire(e, f) ==
    /\ \E k \in DOMAIN x.net[e][f] : x.net[e][f][k].token # None
    /\ Spend("expire")
    /\ x' = [x EXCEPT !.net[e][f] = [k \in DOMAIN @ |->
                IF @[k].token = None THEN @[k] ELSE [@[k] EXCEPT !.token.age = "stale"]]]
    /\ Still
Garbage == [ty |-> "Other", dcid |-> None, scid |-> None, token |-> None, frame |-> Frame("Garbage", 0, None)]
Arrives(e, f) ==
    /\ Spend("garbage")
    /\ x' = [x EXCEPT !.net[e][f] = Append(@, Garbage)]
    /\ Still

Next ==
    \/ DialAll
    \/ \E e \in Ends :
        \/ HostPolls(e)
        \/ \E id \in Ids :
            \/ HostOpensStream(e, id)
            \/ \E s \in Sids, n \in mode.sizes : HostSends(e, id, s, n)
            \/ \E s \in Sids : HostEndsStream(e, id, s)
            \/ \E s \in Sids : HostResetsStream(e, id, s)
            \/ HostCloses(e, id)
            \/ LossTimer(e, id)
            \/ EndTimer(e, id)
            \/ KeepaliveDue(e, id)
        \/ \E f \in Fams :
            \/ \E how \in {"ok", "blocked", "dead"} : SocketTurns(e, f, how)
            \/ Loses(e, f)
            \/ TokensExpire(e, f)
            \/ Arrives(e, f)

Spec == Init /\ [][Next]_vars

-----------------------------------------------------------------------------
(* A connection is announced, connected, verified and closed once and in this order, and a *)
(* stream opened, ended by the peer and closed once and in this order, whatever polls fail  *)
(* in between: nothing is reported twice, nothing after the end, and once a transport has   *)
(* no event left to hand out its host knows all it has noted (poll, TransportEvent).        *)
StreamTold(st, stage) ==
    /\ stage # "opening"
    /\ st.incoming_notified => stage # "none"
    /\ st.closed_notified => stage = "closed"
    /\ st.remote_write_closed => stage \in {"half", "closed"}
Told(v, t) ==
    \A i \in Ids :
        IF t.conns[i] = None THEN v.conn[i] \in {"none", "down"}
        ELSE /\ v.conn[i] \notin {"none", "down"}
             /\ t.conns[i].state = "Connected" => v.conn[i] = "up"
             /\ \A s \in Known(t.conns[i]) : StreamTold(t.conns[i].streams[s], v.s[i][s].st)
OfFamily(v, f) == [v EXCEPT !.conn = [i \in Ids |-> IF FamOf(i) = f THEN @[i] ELSE "none"]]
QuicEventsLegal ==
    \A e \in Ends :
        /\ view[e].bad = None
        /\ \A f \in Fams : x.t[e][f].events = <<>> => Told(OfFamily(view[e], f), x.t[e][f])

(* What a host reads is what the other accepted, in order and without gaps, and a stream    *)
(* ends only when all of it was read: a write that is refused leaves nothing behind, and    *)
(* bytes that waited for the window are not overtaken (send_stream, drain_send_queue).      *)
QuicStreamsWhole == \A e \in Ends : view[e].torn = None

(* The books of a transport: its tables lead to the connections it has and to no other, and *)
(* the limits hold; a connection counts exactly the bytes that wait and the local streams   *)
(* that are not over (unindex_connection, note_stream_reset, gc_closed_streams).            *)
ConnBooks(c) ==
    /\ c.pending_bytes = MapThenSumSet(LAMBDA s : Len(c.streams[s].bytes), Known(c))
    /\ c.pending_bytes <= MaxPendingBytes
    /\ c.active = Cardinality({s \in Known(c) : IsLocal(c, s)})
TransportBooks(t) ==
    /\ Cardinality(Live(t)) <= MaxConnections
    /\ Len(t.dgrams) <= MaxPendingDatagrams
    /\ t.cids = UNION {{[cid |-> k, id |-> i] : k \in t.conns[i].cids} : i \in Live(t)}
    /\ t.peers = {[peer |-> t.conns[i].peer, id |-> i] : i \in {i \in Live(t) : t.conns[i].peer # None}}
    /\ \A i \in Live(t) : ConnBooks(t.conns[i])
QuicBooks == \A e \in Ends, f \in Fams : TransportBooks(x.t[e][f])

(* A host that sleeps until next_deadline or input misses nothing: whenever an established  *)
(* connection has a packet to send, or bytes the window would take, something will wake it. *)
(* (A server still in its handshake is left to the client's retransmission: poll_streams    *)
(* returns before it flushes.)                                                              *)
Waiting(c) ==
    /\ c.q.est
    /\ \/ c.q.out # <<>> /\ ~c.q.closed
       \/ \E s \in Known(c) : c.streams[s].bytes # <<>> /\ c.q.s[s].cap > 0
QuicAwake ==
    \A e \in Ends, f \in Fams :
        (\E i \in Live(x.t[e][f]) : Waiting(x.t[e][f].conns[i])) => failed[e] \/ Awake(Site(e, f))

(* A transport's books are right, and what they owe is on a timer or in a queue. *)
QuicSettles == QuicBooks /\ QuicAwake
=============================================================================
