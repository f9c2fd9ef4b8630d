----------------------------- MODULE Discovery -----------------------------
(***************************************************************************)
(* Discovery on an endpoint (crates/minip2p/src/std/discovery.rs and the    *)
(* beacon agent of crates/discovery/src/beacon.rs) on hosts that share a    *)
(* link: every host runs mDNS, the book and the driver that sweeps them.    *)
(* The attempts of NAT traversal and the pubsub network are external here:  *)
(* an attempt ends in the ways that module Nat shows, a beacon arrives or   *)
(* is lost.  A step of a host is one turn of its endpoint: a swarm event,   *)
(* if any, and tick_drivers.                                                *)
(***************************************************************************)
EXTENDS Mdns, DiscoveryBook

CONSTANTS
    Modes,            \* the workloads: hosts, carriers, what may arrive, and the fuel
    BeaconInterval, MaxBeaconAddrs,
    MaxTime,          \* bound on the clock
    InboxCap          \* bound on the datagrams and beacons that wait at a host

VARIABLES mode, now, hosts, fuel

vars == <<mode, now, hosts, fuel>>

Workload == mode
Hosts == Workload.hosts
Spend(what) == fuel[what] > 0 /\ fuel' = [fuel EXCEPT ![what] = @ - 1]

-----------------------------------------------------------------------------
(* NAT traversal, as the driver sees it. *)

\* A new attempt; one with no usable address fails at once.
NatConnect(d, p, source, w) ==
    IF w.instant THEN [d EXCEPT !.next_id = @ + 1, !.inflight = @ \cup {<<d.next_id, p>>},
                                !.nat_events = Append(@, [id |-> d.next_id, peer |-> p, kind |-> "ConnectFailed"])]
    ELSE [d EXCEPT !.next_id = @ + 1, !.inflight = @ \cup {<<d.next_id, p>>},
                   !.live = @ \cup {[id |-> d.next_id, peer |-> p, source |-> source, stage |-> "Dialing"]}]

\* Attempts end in silence when they are cancelled.
NatCancel(d, id) == [d EXCEPT !.live = {a \in @ : a.id # id}]

NatRaise(d, a, kind) == [d EXCEPT !.nat_events = Append(@, [id |-> a.id, peer |-> a.peer, kind |-> kind])]

\* A direct connection ends the attempts of its peer.
NatConnected(d, p) ==
    FoldLeft(LAMBDA y, a : [NatRaise(y, a, IF a.stage = "Relayed" THEN "PathUpgraded" ELSE "PathEstablished")
                            EXCEPT !.live = @ \ {a}],
             d, SetToSeq({a \in d.live : a.peer = p}))

-----------------------------------------------------------------------------
(* beacon.rs *)

\* fn handle_beacon
HandleBeacon(d, msg) ==
    CASE msg.from = d.book.me -> d
      [] msg.from # d.book.me /\ msg.kind = "Good" ->
           [d EXCEPT !.beacon_events = Append(@, [kind |-> "Observation", peer |-> msg.from,
                                                  addrs |-> Truncate(Distinct(msg.addrs), MaxBeaconAddrs)])]
      [] OTHER -> [d EXCEPT !.beacon_events = Append(@, [kind |-> "Violation", peer |-> msg.from, addrs |-> <<>>])]

\* fn build_beacon: wildcard addresses are left out.
BuildBeacon(d) ==
    [from |-> d.book.me, kind |-> "Good",
     addrs |-> Truncate(Distinct(SelectSeq(d.beacon_local, LAMBDA a : a # 0)), MaxBeaconAddrs)]

\* fn handle_tick of the beacon
BeaconTick(d, t) ==
    IF t < d.beacon_at THEN d
    ELSE [d EXCEPT !.published = Append(@, BuildBeacon(d)), !.beacon_at = t + BeaconInterval]

-----------------------------------------------------------------------------
(* std/discovery.rs *)

\* fn handle_nat_event
HandleNatEvent(d, e, t) ==
    CASE e.kind \in {"PathEstablished", "PathUpgraded", "FellBackToRelay"} ->
           [d EXCEPT !.inflight = {i \in @ : i[1] # e.id}, !.book = DialSucceeded(d.book, e.peer)]
      [] e.kind = "ConnectFailed" ->
           [d EXCEPT !.inflight = {i \in @ : i[1] # e.id}, !.book = DialFailed(d.book, e.peer, t)]
      [] OTHER -> d

\* An attempt ends in the pass that has already replaced it: the book takes the end of
\* the old attempt for the end of the one that is still queued.
Crosses(d) ==
    \E k \in DOMAIN d.nat_events, j \in DOMAIN d.book.actions :
        /\ d.book.actions[j].kind = "Dial" /\ d.book.actions[j].peer = d.nat_events[k].peer
        /\ \E i \in d.inflight : i[1] = d.nat_events[k].id

\* The events of the attempts that the driver owns; the others are the application's.
TakeNatEvents(d, t) ==
    FoldLeft(LAMBDA y, e : IF \E i \in y.inflight : i[1] = e.id THEN HandleNatEvent(y, e, t) ELSE y,
             [d EXCEPT !.nat_events = <<>>, !.crossed = @ \/ Crosses(d)], d.nat_events)

\* fn handle_mdns_event
HandleMdnsEvent(d, e, t) ==
    [d EXCEPT !.book = IF e.kind = "Observed" THEN ObserveMdns(d.book, e.peer, e.addrs, t)
                       ELSE ReportViolation(d.book, e.peer)]

HandleBeaconEvent(d, e, t) ==
    [d EXCEPT !.book = IF e.kind = "Observation" THEN ObserveBeacon(d.book, e.peer, e.addrs, t)
                       ELSE ReportViolation(d.book, e.peer)]

\* fn cancel_peer: the first attempt of the peer.
CancelPeer(d, p) ==
    LET of == {i \in d.inflight : i[2] = p}
    IN  IF of = {} THEN d
        ELSE LET first == CHOOSE i \in of : \A j \in of : i[1] <= j[1]
             IN  [NatCancel(d, first[1]) EXCEPT !.inflight = @ \ {first}]

DoAction(d, a, t, w) ==
    IF a.kind = "CancelDial" THEN CancelPeer(d, a.peer)
    ELSE NatConnect([d EXCEPT !.dials = IF a.source = "Mdns" THEN Append(@, t) ELSE @], a.peer, a.source, w)

SweepStep(d, step, t, w) ==
    CASE step = "Local" ->
           IF ~d.beacon \/ d.last_local = d.local THEN d
           ELSE [d EXCEPT !.last_local = d.local, !.beacon_local = d.local,
                          !.beacon_at = IF d.beacon_local # d.local THEN t ELSE @]
      [] step = "Pubsub" ->
           IF ~d.beacon THEN d
           ELSE FoldLeft(LAMBDA y, msg : HandleBeacon(y, msg), [d EXCEPT !.inbox = <<>>], d.inbox)
      [] step = "Mdns" ->
           FoldLeft(LAMBDA y, e : HandleMdnsEvent(y, e, t), [d EXCEPT !.mdns.events = <<>>], d.mdns.events)
      [] step = "Nat" -> TakeNatEvents(d, t)
      [] step = "Ticks" ->
           FoldLeft(LAMBDA y, k : IF \E x \in Expiries(y.book) : x <= t
                                  THEN [y EXCEPT !.book = BookTick(y.book, t)] ELSE y,
                    IF d.beacon THEN BeaconTick(d, t) ELSE d, <<1>>)
      [] step = "Beacon" ->
           FoldLeft(LAMBDA y, e : HandleBeaconEvent(y, e, t), [d EXCEPT !.beacon_events = <<>>], d.beacon_events)
      [] step = "Actions" ->
           FoldLeft(LAMBDA y, a : DoAction(y, a, t, w), [d EXCEPT !.book.actions = <<>>], d.book.actions)

SweepSteps == <<"Local", "Pubsub", "Mdns", "Nat", "Ticks", "Beacon", "Actions">>

\* Whether a pass of the loop would make progress.
Busy(d, t) ==
    \/ d.mdns.events # <<>> \/ d.beacon_events # <<>> \/ d.book.actions # <<>>
    \/ \E k \in DOMAIN d.nat_events : \E i \in d.inflight : i[1] = d.nat_events[k].id
    \/ \E x \in Expiries(d.book) : x <= t
    \/ d.beacon /\ (d.last_local # d.local \/ d.inbox # <<>> \/ d.beacon_at <= t)

\* fn sweep: its loop passes until nothing is left to do.
Sweep(d, t, w) ==
    FoldLeft(LAMBDA y, k : IF Busy(y, t) THEN FoldLeft(LAMBDA z, step : SweepStep(z, step, t, w), y, SweepSteps)
                           ELSE y, d, <<1, 2, 3>>)

\* fn observe, then the agents' own handling of the event (ingest_into_drivers).
Observe(d, ev) ==
    CASE ev.kind = "Established" ->
           NatConnected([d EXCEPT !.conn = @ \cup {ev.peer}, !.book = PeerConnected(d.book, ev.peer)], ev.peer)
      [] ev.kind = "Closed" ->
           [d EXCEPT !.conn = @ \ {ev.peer}, !.book = PeerDisconnected(d.book, ev.peer)]
      [] ev.kind = "Relayed" ->
           NatRaise([d EXCEPT !.conn = @ \cup {ev.peer}, !.book = PeerConnected(d.book, ev.peer),
                              !.live = (@ \ {ev.attempt}) \cup {[ev.attempt EXCEPT !.stage = "Relayed"]}],
                    ev.attempt, "PathEstablished")
      [] ev.kind = "FellBack" ->
           NatRaise(NatRaise([d EXCEPT !.live = @ \ {ev.attempt}], ev.attempt, "HolePunchFailed"),
                    ev.attempt, "FellBackToRelay")
      [] ev.kind = "Failed" -> NatRaise([d EXCEPT !.live = @ \ {ev.attempt}], ev.attempt, "ConnectFailed")
      [] OTHER -> d

\* What a host says of itself is what it listens on; when it closes, it says goodbye.
Truthful(m, closing) ==
    \A k \in DOMAIN m.out : \A c \in Range(m.out[k].body.claims) :
        /\ c.peer = m.peer
        /\ IF closing THEN c.ttl = 0 ELSE c.ttl > 0 /\ c.addr \in Range(Advertised(m))

\* The part of tick_drivers that is about discovery: an mDNS error ends the turn.
TickDrivers(d, t, w) ==
    FoldLeft(LAMBDA y, m : IF m.failed THEN [y EXCEPT !.mdns = m, !.clean = @ /\ Truthful(m, FALSE)]
                           ELSE Sweep([y EXCEPT !.mdns = m, !.clean = @ /\ Truthful(m, FALSE)], t, w),
             d, <<IF d.has_mdns THEN Tick(d.mdns, t, d.local, w) ELSE d.mdns>>)

\* fn shutdown of the endpoint, and of the driver
Close(d, w) ==
    FoldLeft(LAMBDA y, m :
               [y EXCEPT !.mdns = m, !.clean = @ /\ Truthful(m, TRUE), !.inflight = {}, !.book = ResetDials(y.book),
                         !.live = {a \in @ : \A i \in y.inflight : i[1] # a.id}],
             d, <<Shutdown(d.mdns, w)>>)

-----------------------------------------------------------------------------
(* The link and the network. *)

Delivered(inbox, what) == IF Len(inbox) < InboxCap THEN Append(inbox, what) ELSE inbox

Datagram(act, interface) ==
    [interface |-> interface, legacy |-> FALSE, unicast |-> FALSE, off_link |-> FALSE, too_big |-> FALSE, body |-> act.body]

\* Multicast reaches every host whose interface is up, the sender by loopback when its
\* sockets ask for it; answers to one querier leave the model.
Reaches(d, from, act) ==
    act.target = "Multicast" /\ d.has_mdns /\ d.mdns.io /\ d.mdns.nic # 0 /\ (d.book.me = from => d.mdns.sockets)

Receives(d, from, y) ==
    [d EXCEPT
       !.mdns.inbox = FoldLeft(LAMBDA box, act : IF Reaches(d, from, act) THEN Delivered(box, Datagram(act, 0)) ELSE box,
                               @, y.mdns.out),
       !.inbox = FoldLeft(LAMBDA box, msg : IF d.beacon /\ d.book.me # from THEN Delivered(box, msg) ELSE box,
                          @, y.published)]

\* What lives only during a turn is forgotten after it.  Times that no guard looks at
\* any more are forgotten too.
Rested(d) ==
    [d EXCEPT !.published = <<>>,
              !.mdns = [@ EXCEPT !.out = <<>>, !.room = 0, !.sent = 0, !.congested = FALSE, !.more = FALSE,
                                 !.failed = FALSE]]

\* Host h becomes y, and what y sent is on its way.
Spread(h, y) ==
    hosts' = [g \in Hosts |-> LET d == IF g = h THEN y ELSE hosts[g] IN Rested(Receives(d, h, y))]

-----------------------------------------------------------------------------
(* Actions *)

Normal == [room |-> MaxActionsPerTick, fail |-> "None", jitter |-> 1, instant |-> FALSE, drains |-> 1]
Stuck == [Normal EXCEPT !.room = 0, !.drains = 0]
Full == [Normal EXCEPT !.room = 0]
Broken == [Normal EXCEPT !.fail = "Send"]
Faults ==
    {Stuck, [Normal EXCEPT !.room = 1], [Normal EXCEPT !.instant = TRUE], Broken}
      \cup {[Normal EXCEPT !.fail = f] : f \in {"Poll", "Refresh", "Receive", "PollOut"}}

NoAttempt == [id |-> 0, peer |-> 0, source |-> "Mdns", stage |-> "None"]
SwarmEvent(kind, p, a) == [kind |-> kind, peer |-> p, attempt |-> a]
Happening(cost, ev, w) == [cost |-> cost, event |-> ev, carrier |-> w]

\* What one turn of host h may meet: nothing but time and what had arrived; a carrier or
\* a dial that misbehaves; a connection that comes up, by itself or by a dial, or goes
\* down; an attempt that fails, reaches its peer through a relay, or stays on it.
Happenings(h) ==
    {Happening("none", SwarmEvent("None", 0, NoAttempt), Normal)}
      \cup {Happening("faults", SwarmEvent("None", 0, NoAttempt), w) : w \in Faults}
      \cup {Happening("conns", SwarmEvent("Established", p, NoAttempt), Normal) : p \in BookPeers \ (hosts[h].conn \cup {h})}
      \cup {Happening("conns", SwarmEvent("Closed", p, NoAttempt), Normal) : p \in hosts[h].conn}
      \cup {Happening("attempts", SwarmEvent("Failed", a.peer, a), Normal) : a \in {x \in hosts[h].live : x.stage # "Relayed"}}
      \cup {Happening("attempts", SwarmEvent("FellBack", a.peer, a), Normal) : a \in {x \in hosts[h].live : x.stage = "Relayed"}}
      \cup {Happening("attempts", SwarmEvent("Relayed", a.peer, a), Normal) :
                a \in {x \in hosts[h].live : /\ x.stage # "Relayed" /\ x.source = "Beacon"
                                             /\ x.peer \notin hosts[h].conn}}

Turn(h) ==
    /\ \E x \in Happenings(h) :
          /\ x.cost # "none" => fuel[x.cost] > 0
          /\ fuel' = IF x.cost = "none" THEN fuel ELSE [fuel EXCEPT ![x.cost] = @ - 1]
          /\ \E y \in {TickDrivers([Observe(hosts[h], x.event) EXCEPT !.at = now], now, x.carrier)} : Spread(h, y)
    /\ UNCHANGED <<mode, now>>

\* The swarm's listen addresses change.
Listen(h) ==
    /\ Spend("changes")
    /\ \E addrs \in Workload.listens \ {hosts[h].local} : hosts' = [hosts EXCEPT ![h].local = addrs]
    /\ UNCHANGED <<mode, now>>

\* The address of the interface changes, or it goes down.
Interface(h) ==
    /\ Spend("changes") /\ hosts[h].has_mdns
    /\ \E ip \in ({0} \cup Workload.ips) \ {hosts[h].mdns.nic} : hosts' = [hosts EXCEPT ![h].mdns.nic = ip]
    /\ UNCHANGED <<mode, now>>

\* A datagram or a beacon of another host arrives.
Arrive(h) ==
    /\ Spend("arrivals")
    /\ \/ /\ Len(hosts[h].mdns.inbox) < InboxCap /\ hosts[h].has_mdns /\ hosts[h].mdns.nic # 0 /\ hosts[h].mdns.io
          /\ \E dg \in Workload.datagrams : hosts' = [hosts EXCEPT ![h].mdns.inbox = Append(@, dg)]
       \/ /\ Len(hosts[h].inbox) < InboxCap /\ hosts[h].beacon
          /\ \E msg \in Workload.beacons : hosts' = [hosts EXCEPT ![h].inbox = Append(@, msg)]
    /\ UNCHANGED <<mode, now>>

\* The network loses what waits first.
Lose(h) ==
    /\ Spend("losses")
    /\ \/ hosts[h].mdns.inbox # <<>> /\ hosts' = [hosts EXCEPT ![h].mdns.inbox = Tail(@)]
       \/ hosts[h].inbox # <<>> /\ hosts' = [hosts EXCEPT ![h].inbox = Tail(@)]
    /\ UNCHANGED <<mode, now>>

\* The application reads one event: what it has been told of each peer.
Told(d, e) ==
    CASE e.kind = "Discovered" -> [d EXCEPT !.legal = @ /\ d.app[e.peer] = <<>>, !.app[e.peer] = <<e.addrs>>]
      [] e.kind = "Updated" -> [d EXCEPT !.legal = @ /\ d.app[e.peer] # <<>>, !.app[e.peer] = <<e.addrs>>]
      [] e.kind = "Expired" -> [d EXCEPT !.legal = @ /\ d.app[e.peer] # <<>>, !.app[e.peer] = <<>>]
      [] e.kind = "None" -> [d EXCEPT !.legal = FALSE]
      [] OTHER -> d

TakeEvent(h) ==
    /\ PendingEventCount(hosts[h].book) > 0
    /\ \E got \in {PollEvent(hosts[h].book)} :
          hosts' = [hosts EXCEPT ![h] = [Told(hosts[h], got[2]) EXCEPT !.book = got[1]]]
    /\ UNCHANGED <<mode, now, fuel>>

\* The application shuts mDNS down.
ShutDown(h) ==
    /\ Spend("shutdowns") /\ hosts[h].has_mdns
    /\ \E w \in {Normal, Full, Stuck, Broken} : \E y \in {Close(hosts[h], w)} : Spread(h, y)
    /\ UNCHANGED <<mode, now>>

\* Time passes.  The wait of an endpoint is never longer than the polling interval of
\* mDNS, so a host is late only where the workload says that it may be.
Advance ==
    /\ now < MaxTime /\ (Workload.late \/ \A h \in Hosts : hosts[h].at = now)
    /\ now' = now + 1 /\ UNCHANGED <<mode, hosts, fuel>>

-----------------------------------------------------------------------------
NewHost(h, l) ==
    [has_mdns |-> l.mdns, mdns |-> NewMdns(h, h, l.sockets, l.capacity), book |-> NewBook(h),
     beacon |-> l.beacon, beacon_local |-> <<>>, beacon_at |-> 0, beacon_events |-> <<>>, last_local |-> <<>>,
     local |-> l.local, inflight |-> {}, live |-> {}, next_id |-> 1, nat_events |-> <<>>, conn |-> {},
     inbox |-> <<>>, published |-> <<>>, app |-> [p \in BookPeers |-> <<>>], legal |-> TRUE, clean |-> TRUE,
     dials |-> <<>>, crossed |-> FALSE, at |-> 0]

Init ==
    /\ mode \in Range(Modes)
    /\ now = 0
    /\ hosts = [h \in mode.hosts |-> NewHost(h, mode)]
    /\ fuel = mode.fuel

Next ==
    \/ Advance
    \/ \E h \in Hosts : \/ Turn(h) \/ Listen(h) \/ Interface(h) \/ Arrive(h) \/ Lose(h)
                         \/ TakeEvent(h) \/ ShutDown(h)

Spec == Init /\ [][Next]_vars

-----------------------------------------------------------------------------
(* Properties *)

\* The application is never told a transition that does not follow from the ones it has
\* read (a discovery of a peer it knows, an update or expiry of one it does not), and when a peer has no event waiting it has been told exactly what the book
\* says: coalescing loses nothing (book.rs, mark_state and poll_event).
EventsTellTheBook ==
    \A h \in Hosts : LET b == hosts[h].book IN
        /\ hosts[h].legal
        /\ \A p \in BookPeers :
              /\ (p \in Range(b.order)) = b.pending[p].queued
              /\ ~b.pending[p].queued =>
                    hosts[h].app[p] = IF b.book[p].known THEN <<View(b.book[p]).merged>> ELSE <<>>
        /\ IsInjective(b.order)

\* A peer counts as being dialled exactly while the driver owns an attempt for it that
\* can still report: an attempt that is dropped, cancelled or finished never leaves the
\* peer undialable, and no attempt runs that nobody owns, except one that has reached
\* its peer through a relay.  A peer has one attempt, unless one ended in the very pass
\* that replaced it (discovery.rs, sweep; book.rs, remove_peer).
DialsOwned ==
    \A h \in Hosts : LET d == hosts[h] IN
        /\ \A p \in BookPeers : d.book.book[p].dial = "InFlight" => \E i \in d.inflight : i[2] = p
        /\ \A i \in d.inflight : \/ \E a \in d.live : a.id = i[1]
                                 \/ \E k \in DOMAIN d.nat_events : d.nat_events[k].id = i[1]
        /\ \A a \in d.live : a.stage = "Relayed" \/ \E i \in d.inflight : i[1] = a.id
        /\ ~d.crossed => /\ \A i \in d.inflight : \/ d.book.book[i[2]].dial = "InFlight"
                                                 \/ \E k \in DOMAIN d.nat_events : d.nat_events[k].id = i[1]
                         /\ \A i, j \in d.inflight : i[2] = j[2] => i = j

\* Dials that unauthenticated claims caused stay within the limit for all peers in every
\* window, however often peers expire, return or are evicted (RateWindow).
DialRate ==
    \A h \in Hosts : \A k \in DOMAIN hosts[h].dials :
        Len(SelectSeq(hosts[h].dials, LAMBDA t : hosts[h].dials[k] <= t /\ t < hosts[h].dials[k] + DialWindow))
            <= MaxDialsGlobal

\* No datagram that leaves a host claims an address that is not one of its interfaces'
\* or listeners, as the agent last learned them, at the moment it leaves, or anything but a goodbye once mDNS is closed; and work that a turn left over
\* makes the next turn due at once (driver.rs: a parked packet, a full budget).
MdnsSpeaksNow ==
    \A h \in Hosts : LET m == hosts[h].mdns IN
        /\ hosts[h].clean
        /\ m.io /\ (m.parked # <<>> \/ m.actions # <<>>) => NextTurn(m, now) = now

(* Every dial of discovery has its entry in the book, and there are no more of them than the
   limit for all peers allows.  The limit for one peer goes with its entry, and starts afresh
   with a new one. *)
DialsControlled == DialsOwned /\ DialRate
=============================================================================
