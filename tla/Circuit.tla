------------------------------ MODULE Circuit ------------------------------
(***************************************************************************)
(* Two endpoints behind a relay.  The relay bridges a stream of A with a   *)
(* stream of B (external); each host adopts its bridge when its NAT driver *)
(* says so, in the middle of the events it is handling, and hands the      *)
(* stragglers of that batch to the circuit transport (std/nat.rs).  A      *)
(* direct connection may come and go, the relay may leave, a bridge may    *)
(* break and a member of the transport set may fail to poll.               *)
(***************************************************************************)
EXTENDS CircuitTransport

CONSTANT Modes              \* sequence of [peer, closers, fuel]

VARIABLES
    ct,                     \* the circuit transport and the set of each end
    net,
    batch,                  \* events a host has polled and not handled
    host,                   \* what a host knows of each bridge
    view,                   \* what it was told of each circuit
    sent, mode, fuel

vars == <<ct, net, batch, host, view, sent, mode, fuel>>

Unseen == [ phase |-> "None", legal |-> TRUE, bridge |-> 0, ended |-> 0, st |-> [s \in Ids |-> "None"],
            eof |-> [s \in Ids |-> FALSE], got |-> [s \in Ids |-> <<>>] ]
Unadopted == [early |-> <<>>, fin |-> FALSE, gone |-> FALSE, adopted |-> FALSE]

TwoMembers == Insert(Insert(NewSet, "Tcp", {"tcp"}), "Quic", {"quic"})

Init ==
    /\ mode \in Range(Modes) /\ fuel = mode.fuel
    /\ ct = [e \in Ends |-> [c |-> [NewTransport EXCEPT !.active_inner = {Relay},
                                       !.direct_by_conn = {[conn |-> Relay, peer |-> "R"]}],
                             set |-> TwoMembers]]
    /\ net = [ q |-> [e \in Ends |-> <<<<>>, <<>>>>], up |-> [e \in Ends |-> TRUE],
               open |-> [e \in Ends |-> [b \in Bridges |-> FALSE]],
               fin |-> [e \in Ends |-> [b \in Bridges |-> FALSE]], bridged |-> {}, full |-> {} ]
    /\ batch = [e \in Ends |-> <<>>]
    /\ host = [e \in Ends |-> [b \in Bridges |-> Unadopted]]
    /\ view = [e \in Ends |-> [n \in Seqs |-> Unseen]]
    /\ sent = [e \in Ends |-> [b \in Bridges |-> [s \in Ids |-> <<>>]]]

Site(e)  == [c |-> ct[e].c, set |-> ct[e].set, net |-> net, err |-> None]
Has(f)   == fuel[f] > 0
Spend(f) == fuel' = [fuel EXCEPT ![f] = @ - 1]
Becomes(e, x) == /\ ct' = [ct EXCEPT ![e] = [c |-> x.c, set |-> x.set]] /\ net' = x.net

-----------------------------------------------------------------------------
(* The host. *)

Illegal(v) == [v EXCEPT !.legal = FALSE]
Saw(v, e, ev) ==
    LET live  == v.phase = "Connected"
        known == live /\ v.st[ev.s] = "Open"
    IN  CASE ev.ev = "IncomingConnection" ->
               IF v.phase = "Adopted" /\ e = "B" THEN [v EXCEPT !.phase = "Pending"] ELSE Illegal(v)
          [] ev.ev = "Connected" ->
               IF v.phase = (IF e = "B" THEN "Pending" ELSE "Adopted") /\ ev.v = Other(e)
               THEN [v EXCEPT !.phase = "Connected"] ELSE Illegal(v)
          [] ev.ev \in {"StreamOpened", "IncomingStream"} ->
               IF live /\ v.st[ev.s] = "None" THEN [v EXCEPT !.st[ev.s] = "Open"] ELSE Illegal(v)
          [] ev.ev = "StreamData" ->
               IF known /\ ~v.eof[ev.s] THEN [v EXCEPT !.got[ev.s] = @ \o ev.v] ELSE Illegal(v)
          [] ev.ev = "StreamRemoteWriteClosed" ->
               IF known /\ ~v.eof[ev.s] THEN [v EXCEPT !.eof[ev.s] = TRUE] ELSE Illegal(v)
          [] ev.ev = "StreamClosed" ->
               IF known THEN [v EXCEPT !.st[ev.s] = "Closed"] ELSE Illegal(v)
          [] ev.ev = "Error" -> IF v.phase \in {"None", "Closed"} THEN Illegal(v) ELSE v
          [] ev.ev = "Closed" ->
               IF v.phase \in {"None", "Closed"} THEN Illegal(v) ELSE [v EXCEPT !.phase = "Closed"]

IsBridgeEvent(ev) == ev.id = Relay /\ ev.s # None

\* What a poll tells of the circuits vs of an end: `ended` counts the circuits that
\* ended since this one, itself included, and an event of the bridge of one of the
\* last MAX_RETIRED_BRIDGES of them, or of one that lives, is out of order.
Polled(vs, ev) ==
    IF IsCircuit(ev.id) /\ ev.ev = "Closed"
    THEN [n \in Seqs |-> IF n = ev.id.seq \/ vs[n].ended > 0 THEN [vs[n] EXCEPT !.ended = @ + 1] ELSE vs[n]]
    ELSE [n \in Seqs |-> IF IsBridgeEvent(ev) /\ vs[n].bridge = ev.s /\ vs[n].ended <= MAX_RETIRED_BRIDGES
                         THEN Illegal(vs[n]) ELSE vs[n]]

\* A poll answers with a batch, which the host then handles event by event.
HostPoll(e) ==
    /\ batch[e] = <<>>
    /\ \E y \in {PollTransport(Site(e), e, 0)} :
         /\ Becomes(e, [y EXCEPT !.c.pending = <<>>])
         /\ batch' = [batch EXCEPT ![e] = IF y.err # None THEN <<>> ELSE y.c.pending]
         /\ view' = [view EXCEPT ![e] = FoldLeft(Polled, @, y.c.pending)]
    /\ UNCHANGED <<host, sent, mode, fuel>>

\* An event of a circuit, and one of a bridge before its adoption.
Early(h, ev) ==
    CASE ev.ev = "StreamData" -> [h EXCEPT !.early = @ \o ev.v]
      [] ev.ev = "StreamRemoteWriteClosed" -> [h EXCEPT !.fin = TRUE]
      [] OTHER -> [h EXCEPT !.gone = TRUE]
HostEvent(e) ==
    LET ev == Head(batch[e])
        to == IsBridgeEvent(ev)
    IN  /\ batch[e] # <<>> /\ ~(to /\ host[e][ev.s].adopted)
        /\ batch' = [batch EXCEPT ![e] = Tail(@)]
        /\ view' = IF ~IsCircuit(ev.id) THEN view
                   ELSE [view EXCEPT ![e][ev.id.seq] = Saw(@, e, ev)]
        /\ host' = IF to THEN [host EXCEPT ![e][ev.s] = Early(@, ev)]
                   ELSE IF ev.ev = "Closed" /\ ev.id = Relay
                   THEN [host EXCEPT ![e] = [b \in Bridges |-> [@[b] EXCEPT !.gone = TRUE]]]
                   ELSE host
        /\ UNCHANGED <<ct, net, sent, mode, fuel>>

\* fn inject_straggler: the bridge was adopted while its batch was being handled.
InjectStraggler(e) ==
    LET ev == Head(batch[e])
    IN  /\ batch[e] # <<>> /\ IsBridgeEvent(ev) /\ host[e][ev.s].adopted
        /\ batch' = [batch EXCEPT ![e] = Tail(@)]
        /\ Becomes(e, Inject(Site(e), e, ev))
        /\ UNCHANGED <<host, view, sent, mode, fuel>>

\* NatAction::PromoteBridge: a refused bridge is reset.
HostAdopt(e, b) ==
    LET a == [bridge |-> b, peer |-> IF e = "A" THEN mode.peer ELSE "A",
              role |-> IF e = "A" THEN "Initiator" ELSE "Responder",
              data |-> host[e][b].early, fin |-> host[e][b].fin]
        n == ct[e].c.next
        refused == AdoptFails(Site(e), a)
    IN  /\ b \in net.bridged /\ ~host[e][b].adopted /\ ~host[e][b].gone
        /\ Becomes(e, IF refused THEN ResetBridge(Site(e), e, b) ELSE AdoptBridge(Site(e), e, a))
        /\ host' = [host EXCEPT ![e][b] = [@ EXCEPT !.adopted = ~refused, !.gone = refused]]
        /\ view' = IF refused THEN view
                   ELSE [view EXCEPT ![e][n] = [@ EXCEPT !.phase = "Adopted", !.bridge = b]]
        /\ UNCHANGED <<batch, sent, mode, fuel>>

Calls(e, n) == ct[e].c.circuits[n] # None /\ view[e][n].phase = "Connected"
HostOpen(e, n) ==
    /\ Has("open") /\ Spend("open") /\ Calls(e, n)
    /\ Becomes(e, OpenStreamOn(Site(e), e, n))
    /\ UNCHANGED <<batch, host, view, sent, mode>>
HostSend(e, n, s) ==
    /\ Has("send") /\ Spend("send") /\ Calls(e, n) /\ view[e][n].st[s] = "Open"
    /\ \E y \in {SendStream(Site(e), e, n, s, <<Len(sent[e][view[e][n].bridge][s]) + 1>>)} :
         /\ Becomes(e, y)
         /\ sent' = IF y.err # None THEN sent
                    ELSE [sent EXCEPT ![e][view[e][n].bridge][s] = Append(@, Len(@) + 1)]
    /\ UNCHANGED <<batch, host, view, mode>>
HostCloseWrite(e, n, s) ==
    /\ Has("fin") /\ Spend("fin") /\ Calls(e, n) /\ view[e][n].st[s] = "Open"
    /\ Becomes(e, CloseStreamWrite(Site(e), e, n, s))
    /\ UNCHANGED <<batch, host, view, sent, mode>>
HostReset(e, n, s) ==
    /\ Has("reset") /\ Spend("reset") /\ Calls(e, n) /\ view[e][n].st[s] = "Open"
    /\ Becomes(e, ResetStream(Site(e), e, n, s))
    /\ UNCHANGED <<batch, host, view, sent, mode>>
HostClose(e, n) ==
    /\ Has("close") /\ Spend("close") /\ e \in mode.closers /\ ct[e].c.circuits[n] # None
    /\ Becomes(e, CloseCircuit(Site(e), e, n))
    /\ UNCHANGED <<batch, host, view, sent, mode>>

-----------------------------------------------------------------------------
(* The relay, the network and the members of the sets (external). *)

Outside(x) == net' = x /\ UNCHANGED <<ct, batch, host, view, sent, mode>>

BridgeOpens(b) ==
    /\ Has("bridge") /\ Spend("bridge")
    /\ b \notin net.bridged /\ \A e \in Ends : net.up[e]
    /\ Outside([net EXCEPT !.open["A"][b] = TRUE, !.open["B"][b] = TRUE, !.bridged = @ \union {b}])
BridgeBreaks(b) ==
    /\ Has("break") /\ Spend("break") /\ net.open["A"][b] /\ net.open["B"][b]
    /\ Outside(ResetBridge(Site("A"), "A", b).net)

\* The relay reads slowly: the send buffer of an end's connection to it fills, and
\* has room again.
RelayStalls(e) ==
    /\ Has("full") /\ Spend("full") /\ e \notin net.full
    /\ Outside([net EXCEPT !.full = @ \union {e}])
RelayReads(e) ==
    /\ e \in net.full
    /\ Outside([net EXCEPT !.full = @ \ {e}]) /\ UNCHANGED fuel

\* An end loses its connection to the relay: the other one's bridges are reset.
RelayLeaves(e) ==
    LET o     == Other(e)
        reset == {b \in Bridges : net.open[o][b]}
        gone  == [net EXCEPT !.up[e] = FALSE, !.open[e] = [b \in Bridges |-> FALSE],
                             !.open[o] = [b \in Bridges |-> FALSE],
                             !.q[e][1] = Append(@, Event("Closed", Relay, None, None))]
    IN  /\ Has("leave") /\ Spend("leave") /\ net.up[e]
        /\ Outside([gone EXCEPT !.q[o][1] =
                       @ \o [i \in 1..Cardinality(reset) |->
                               Event("StreamClosed", Relay, SetToSortSeq(reset, LAMBDA a, b : a < b)[i], None)]])

\* A direct connection: dialled by A, accepted by B, which learns its peer later.
DirectOpens(e) ==
    /\ Has("direct") /\ Spend("direct")
    /\ Outside([net EXCEPT !.q[e][2] = @ \o
                  IF e = "A" THEN <<Event("Connected", Direct, None, "B")>>
                  ELSE <<Event("IncomingConnection", Direct, None, None),
                         Event("PeerIdentityVerified", Direct, None, "A")>>])
DirectCloses(e) ==
    /\ Has("gone") /\ Spend("gone")
    /\ \E d \in ct[e].c.direct_by_conn : d.conn = Direct
    /\ Outside([net EXCEPT !.q[e][2] = Append(@, Event("Closed", Direct, None, None))])

MemberFails(e, i) ==
    /\ Has("fail") /\ Spend("fail") /\ ~ct[e].set.members[i].fails
    /\ ct' = [ct EXCEPT ![e].set.members[i].fails = TRUE]
    /\ UNCHANGED <<net, batch, host, view, sent, mode>>

Next ==
    \/ \E e \in Ends : HostPoll(e) \/ HostEvent(e) \/ InjectStraggler(e)
    \/ \E e \in Ends, b \in Bridges : HostAdopt(e, b)
    \/ \E e \in Ends, n \in Seqs : HostOpen(e, n) \/ HostClose(e, n)
    \/ \E e \in Ends, n \in Seqs, s \in Ids : HostSend(e, n, s) \/ HostCloseWrite(e, n, s) \/ HostReset(e, n, s)
    \/ \E b \in Bridges : BridgeOpens(b) \/ BridgeBreaks(b)
    \/ \E e \in Ends : RelayStalls(e) \/ RelayReads(e) \/ RelayLeaves(e)
    \/ \E e \in Ends : DirectOpens(e) \/ DirectCloses(e)
    \/ \E e \in Ends, i \in {1, 2} : MemberFails(e, i)

Spec == Init /\ [][Next]_vars

-----------------------------------------------------------------------------
(* Properties *)

\* A circuit lives one life at its host: announced, connected with the peer that
\* was asked for, streams in order, and nothing after Closed; and once a bridge
\* is adopted the host polls no event of it, not even one that arrives after the
\* circuit was closed or lost to a direct connection, until MAX_RETIRED_BRIDGES
\* circuits have ended after it and retire_bridge has forgotten the bridge.
CircuitLife == \A e \in Ends, n \in Seqs : view[e][n].legal

\* A direct connection wins: an endpoint that knows of one has no circuit to the
\* same peer still under way, whichever came first, the bridge, the handshake or
\* the connection, and however late its peer was identified.
DirectWins ==
    \A e \in Ends, n \in Seqs :
        ct[e].c.circuits[n] # None /\ ~IsReady(Site(e), n)
        => ~IsDirect(Site(e), ct[e].c.circuits[n].remote_peer)

\* What a host reads from a circuit's stream is a prefix of what was sent, all of
\* it at the end of the stream; and no circuit ends on its own, whatever was in
\* the batch when its bridge was adopted and whichever member failed to poll.  On its
\* own: no host closed it, no bridge broke, no relay left, no direct connection came,
\* and the transport below refused no write, for one refused write ends it (fn pump).
Undisturbed == /\ mode.peer = "B"
               /\ \A f \in {"close", "break", "leave", "direct", "full"} : fuel[f] = mode.fuel[f]
CarriesWhole ==
    \A e \in Ends, n \in Seqs :
        LET v == view[e][n]
        IN  /\ Undisturbed => v.phase # "Closed"
            /\ \A s \in Ids : v.bridge # 0 =>
                  /\ IsPrefix(v.got[s], sent[Other(e)][v.bridge][s])
                  /\ v.eof[s] => v.got[s] = sent[Other(e)][v.bridge][s]

\* A bridge that an endpoint can still write to belongs to a circuit or waits to be
\* adopted: one whose circuit failed, lost to a direct connection or was closed is
\* reset or half-closed, so that the relay's resources are given back.
BridgesOwned ==
    \A e \in Ends, b \in Bridges :
        MayWrite(Site(e), e, b) => ~(host[e][b].adopted \/ host[e][b].gone) \/ Riding(Site(e), b) # {}

(* A circuit lives once, and its bridge with it. *)
CircuitsOwned == CircuitLife /\ BridgesOwned
=============================================================================
