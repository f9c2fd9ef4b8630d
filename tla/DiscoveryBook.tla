--------------------------- MODULE DiscoveryBook ---------------------------
(***************************************************************************)
(* crates/discovery/src/book.rs: the address book that both discovery      *)
(* sources feed, its dial policy, and the events that it coalesces per peer *)
(* until the application reads them.  Operators on one record.              *)
(*                                                                         *)
(* A peer is a number and so is its id, which breaks ties.  The mDNS        *)
(* records of a peer are one sequence in the order of mdns_order.           *)
(***************************************************************************)
EXTENDS Naturals, Sequences, SequencesExt, FiniteSetsExt

CONSTANTS
    PeerSeq,          \* the remote peers, in the order of their ids
    MaxKnownPeers, MaxAddrsPerPeer, AutoDial, DialTieBreak, RedialBackoff, BeaconPeerTtl,
    MaxObservedTtl, DialWindow, MaxDialsPerPeer, MaxDialsGlobal, MaxViolations

BookPeers == Range(PeerSeq)

NoEntry == [known |-> FALSE, beacon |-> <<>>, mdns |-> <<>>, dial |-> "Idle", until |-> 0, attempts |-> <<>>]
NoPending == [queued |-> FALSE, state |-> "None", failed |-> FALSE]

\* PeerDiscoveryAgent::new
NewBook(me) ==
    [me |-> me, book |-> [p \in BookPeers |-> NoEntry], connected |-> {}, actions |-> <<>>,
     pending |-> [p \in BookPeers |-> NoPending], order |-> <<>>,
     reported |-> [p \in BookPeers |-> <<>>], violations |-> <<>>, global |-> <<>>]

-----------------------------------------------------------------------------
(* RateWindow *)

Allows(attempts, now, limit) == Len(SelectSeq(attempts, LAMBDA at : at + DialWindow > now)) < limit

\* The attempts are in order, so the ones at the front are the oldest.
Charge(attempts, now) == Append(SelectSeq(attempts, LAMBDA at : at + DialWindow > now), now)

-----------------------------------------------------------------------------
(* What the book says of a peer. *)

IsEmpty(e) == e.beacon = <<>> /\ e.mdns = <<>>

BeaconAddrs(e) == IF e.beacon = <<>> THEN <<>> ELSE e.beacon[1].addrs
MdnsAddrs(e) == {e.mdns[k].addr : k \in DOMAIN e.mdns}

Seen(e) ==
    Max({0} \cup {e.beacon[k].seen : k \in DOMAIN e.beacon} \cup {e.mdns[k].seen : k \in DOMAIN e.mdns})

\* Signed addresses first.
AllAddrs(e) ==
    FoldLeft(LAMBDA all, r : IF r.addr \in Range(all) THEN all ELSE Append(all, r.addr), BeaconAddrs(e), e.mdns)

\* fn view: the merged list that is shown, and where each address comes from.
View(e) ==
    FoldLeft(LAMBDA v, all :
               [merged |-> SubSeq(all, 1, IF Len(all) < MaxAddrsPerPeer THEN Len(all) ELSE MaxAddrsPerPeer),
                provenance |-> [k \in DOMAIN all |->
                                  <<all[k], all[k] \in Range(BeaconAddrs(e)), all[k] \in MdnsAddrs(e)>>],
                beacon |-> e.beacon # <<>>, mdns |-> e.mdns # <<>>],
             <<>>, <<AllAddrs(e)>>)

Current(b, p) == IF b.book[p].known THEN <<View(b.book[p])>> ELSE <<>>

-----------------------------------------------------------------------------
(* The events that wait for the application. *)

\* fn pending_entry
PendingEntry(b, p) ==
    IF b.pending[p].queued THEN b ELSE [b EXCEPT !.pending[p].queued = TRUE, !.order = Append(@, p)]

\* fn remove_pending
RemovePending(b, p) ==
    [b EXCEPT !.pending[p] = NoPending, !.order = SelectSeq(@, LAMBDA q : q # p)]

\* The transition that leads from what was reported to what the book says.
Transition(reported, current) ==
    CASE reported = <<>> /\ current # <<>> -> "Discovered"
      [] reported # <<>> /\ current = <<>> -> "Expired"
      [] reported # <<>> /\ current # <<>> /\ reported # current -> "Updated"
      [] OTHER -> "None"

\* Mutant of SetState: a change that is taken back before it was read is still reported.
SetStateKeeps(b, p, state) ==
    CASE state # "None" -> [PendingEntry(b, p) EXCEPT !.pending[p].state = state]
      [] state = "None" /\ b.reported[p] = <<>> /\ ~b.book[p].known -> b
      [] OTHER -> b

\* The end of fn mark_state
SetState(b, p, state) ==
    CASE state # "None" -> [PendingEntry(b, p) EXCEPT !.pending[p].state = state]
      [] state = "None" /\ b.reported[p] = <<>> /\ ~b.book[p].known -> RemovePending(b, p)
      [] OTHER -> IF b.pending[p].failed THEN [b EXCEPT !.pending[p].state = "None"] ELSE RemovePending(b, p)

\* fn mark_state
MarkState(b, p) ==
    FoldLeft(LAMBDA y, state : SetState(y, p, state), b, <<Transition(b.reported[p], Current(b, p))>>)

\* fn mark_dial_failed
MarkDialFailed(b, p) ==
    IF ~b.book[p].known /\ b.reported[p] = <<>> THEN RemovePending(b, p)
    ELSE [PendingEntry(b, p) EXCEPT !.pending[p].failed = TRUE]

\* fn cleanup_pending_head
CleanupHead(b, p) ==
    IF b.pending[p].state = "None" /\ ~b.pending[p].failed THEN RemovePending(b, p) ELSE b

Event(kind, p, addrs) == [kind |-> kind, peer |-> p, addrs |-> addrs]

\* fn poll_event with a peer at the head of the queue: its transition, then its failure.
PollHead(b, p) ==
    LET state == b.pending[p].state
        taken == [b EXCEPT !.pending[p].state = "None"]
    IN  CASE state = "Expired" ->
               <<CleanupHead([taken EXCEPT !.reported[p] = <<>>], p), Event("Expired", p, <<>>)>>
          [] state \in {"Discovered", "Updated"} /\ b.book[p].known ->
               <<CleanupHead([taken EXCEPT !.reported[p] = Current(b, p)], p),
                 Event(state, p, View(b.book[p]).merged)>>
          [] state \in {"Discovered", "Updated"} /\ ~b.book[p].known ->
               <<CleanupHead(taken, p), Event("None", p, <<>>)>>
          [] OTHER ->
               IF b.pending[p].failed
               THEN <<CleanupHead([b EXCEPT !.pending[p].failed = FALSE], p), Event("DialFailed", p, <<>>)>>
               ELSE <<RemovePending(b, p), Event("None", p, <<>>)>>

\* fn poll_event.  "None" is the pass of its loop that finds the head's entry empty.
PollEvent(b) ==
    IF b.order # <<>> THEN PollHead(b, Head(b.order))
    ELSE <<[b EXCEPT !.violations = Tail(@)], [Event("Violation", Head(b.violations).peer, <<>>)
                                              EXCEPT !.addrs = <<Head(b.violations).suppressed>>]>>

\* fn pending_event_count
PendingEventCount(b) ==
    Cardinality({p \in BookPeers : b.pending[p].state # "None"})
      + Cardinality({p \in BookPeers : b.pending[p].failed}) + Len(b.violations)

\* fn report_violation
ReportViolation(b, peer) ==
    [b EXCEPT !.violations =
        IF Len(@) < MaxViolations THEN Append(@, [peer |-> peer, suppressed |-> 0])
        ELSE [@ EXCEPT ![Len(@)].suppressed = @ + 1]]

-----------------------------------------------------------------------------
(* Dialling, and room in the book. *)

\* Mutant of RemovePeer: the attempt of a peer that is dropped goes on.
RemovePeerKeepsDial(b, p) ==
    IF ~b.book[p].known THEN b
    ELSE MarkState([b EXCEPT !.book[p] = NoEntry,
                             !.actions = SelectSeq(@, LAMBDA a : ~(a.kind = "Dial" /\ a.peer = p))], p)

\* fn remove_peer
RemovePeer(b, p) ==
    IF ~b.book[p].known THEN b
    ELSE LET queued == \E k \in DOMAIN b.actions : b.actions[k].kind = "Dial" /\ b.actions[k].peer = p
             kept == SelectSeq(b.actions, LAMBDA a : ~(a.kind = "Dial" /\ a.peer = p))
         IN  MarkState([b EXCEPT !.book[p] = NoEntry,
                                 !.actions = IF b.book[p].dial = "InFlight" \/ queued
                                             THEN Append(kept, [kind |-> "CancelDial", peer |-> p, source |-> "None"])
                                             ELSE kept], p)

\* The order in which peers are evicted.
Rank(b, p) ==
    <<IF p \in b.connected THEN 1 ELSE 0, IF b.book[p].beacon # <<>> THEN 1 ELSE 0, Seen(b.book[p]), p>>

Before(x, y) == \E i \in 1..4 : x[i] < y[i] /\ \A j \in 1..(i - 1) : x[j] = y[j]

Known(b) == {p \in BookPeers : b.book[p].known}

\* fn make_room: an mDNS claim never evicts a peer with a signed beacon.
MakeRoom(b, source) ==
    LET cands == {p \in Known(b) : source # "Mdns" \/ b.book[p].beacon = <<>>}
        least == {p \in cands : \A q \in cands \ {p} : Before(Rank(b, p), Rank(b, q))}
    IN  IF Cardinality(Known(b)) < MaxKnownPeers THEN <<TRUE, b>>
        ELSE IF cands = {} THEN <<FALSE, b>>
        ELSE <<TRUE, RemovePeer(b, CHOOSE p \in least : TRUE)>>

\* The guards of fn maybe_dial
MayDial(b, p, source, now) ==
    /\ AutoDial /\ p \notin b.connected /\ ~(DialTieBreak /\ b.me >= p)
    /\ b.book[p].known
    /\ b.book[p].dial = "Idle" \/ (b.book[p].dial = "Backoff" /\ now >= b.book[p].until)
    /\ source = "Mdns" => /\ Allows(b.book[p].attempts, now, MaxDialsPerPeer)
                          /\ Allows(b.global, now, MaxDialsGlobal)
    /\ AllAddrs(b.book[p]) # <<>>

\* fn maybe_dial
MaybeDial(b, p, source, now) ==
    IF ~MayDial(b, p, source, now) THEN b
    ELSE [b EXCEPT !.book[p].dial = "InFlight",
                   !.book[p].attempts = IF source = "Mdns" THEN Charge(@, now) ELSE @,
                   !.global = IF source = "Mdns" THEN Charge(@, now) ELSE @,
                   !.actions = Append(@, [kind |-> "Dial", peer |-> p, source |-> source])]

-----------------------------------------------------------------------------
(* The two sources. *)

\* What follows the change of an entry: its event and its dial.
Settle(b, p, before, source, dials, now) ==
    FoldLeft(LAMBDA y, s : IF dials THEN MaybeDial(y, p, source, now) ELSE y,
             IF before # Current(b, p) THEN MarkState(b, p) ELSE b, <<1>>)

\* The beacon replaces the one before; new addresses end a backoff.
PutBeacon(b, p, addrs, now) ==
    LET e == b.book[p]
        changed == BeaconAddrs(e) # addrs
    IN  Settle([b EXCEPT !.book[p] = [e EXCEPT !.known = TRUE,
                                               !.beacon = <<[addrs |-> addrs, seen |-> now]>>,
                                               !.dial = IF changed /\ @ = "Backoff" THEN "Idle" ELSE @]],
               p, Current(b, p), "Beacon", addrs # <<>>, now)

\* fn observe_beacon
ObserveBeacon(b, p, addrs, now) ==
    IF p = b.me THEN b
    ELSE IF b.book[p].known THEN PutBeacon(b, p, addrs, now)
    ELSE FoldLeft(LAMBDA y, room : IF room[1] THEN PutBeacon(room[2], p, addrs, now) ELSE y,
                  b, <<MakeRoom(b, "Beacon")>>)

\* One address of an mDNS claim: lifetime zero removes, a full list gives up the record
\* that expires first, unless the new one expires before it.
PutRecord(mdns, c, now) ==
    LET rec == [addr |-> c.addr, seen |-> now,
                expires |-> now + IF c.ttl < MaxObservedTtl THEN c.ttl ELSE MaxObservedTtl]
        others == SelectSeq(mdns, LAMBDA r : r.addr # c.addr)
        first == {r \in Range(mdns) : \A q \in Range(mdns) :
                    r.expires < q.expires \/ (r.expires = q.expires /\ r.addr <= q.addr)}
    IN  CASE c.ttl = 0 -> others
          [] c.ttl > 0 /\ Len(others) < Len(mdns) -> [k \in DOMAIN mdns |-> IF mdns[k].addr = c.addr THEN rec ELSE mdns[k]]
          [] c.ttl > 0 /\ Len(others) = Len(mdns) /\ Len(mdns) < MaxAddrsPerPeer -> Append(mdns, rec)
          [] OTHER -> IF \A r \in first : rec.expires <= r.expires THEN mdns
                      ELSE Append(SelectSeq(mdns, LAMBDA r : r \notin first), rec)

PutRecords(b, p, claims, now) ==
    FoldLeft(LAMBDA y, mdns : IF mdns = <<>> /\ y.book[p].beacon = <<>>
                              THEN RemovePeer([y EXCEPT !.book[p].known = TRUE], p)
                              ELSE Settle([y EXCEPT !.book[p].known = TRUE, !.book[p].mdns = mdns], p,
                                          Current(y, p), "Mdns",
                                          \E k \in DOMAIN claims : claims[k].ttl > 0, now),
             b, <<FoldLeft(LAMBDA r, c : PutRecord(r, c, now), b.book[p].mdns, claims)>>)

\* fn observe_mdns
ObserveMdns(b, p, claims, now) ==
    IF p = b.me THEN b
    ELSE IF b.book[p].known THEN PutRecords(b, p, claims, now)
    ELSE IF \A k \in DOMAIN claims : claims[k].ttl = 0 THEN b
    ELSE FoldLeft(LAMBDA y, room : IF room[1] THEN PutRecords(room[2], p, claims, now) ELSE y,
                  b, <<MakeRoom(b, "Mdns")>>)

-----------------------------------------------------------------------------
(* What the swarm and the attempts report, and time. *)

\* fn peer_connected
PeerConnected(b, p) ==
    [b EXCEPT !.connected = @ \cup {p}, !.book[p].dial = IF b.book[p].known THEN "Idle" ELSE @]

\* fn peer_disconnected
PeerDisconnected(b, p) == [b EXCEPT !.connected = @ \ {p}]

\* fn dial_succeeded
DialSucceeded(b, p) == [b EXCEPT !.book[p].dial = IF @ = "InFlight" THEN "Idle" ELSE @]

\* fn dial_failed
DialFailed(b, p, now) ==
    IF b.book[p].dial # "InFlight" THEN b
    ELSE MarkDialFailed([b EXCEPT !.book[p].dial = "Backoff", !.book[p].until = now + RedialBackoff], p)

\* fn reset_dials
ResetDials(b) ==
    [b EXCEPT !.actions = <<>>,
              !.book = [p \in BookPeers |-> [b.book[p] EXCEPT !.dial = IF @ = "InFlight" THEN "Idle" ELSE @]]]

BeaconDue(e, now) == e.beacon # <<>> /\ now >= e.beacon[1].seen + BeaconPeerTtl
MdnsDue(e, now) == \E k \in DOMAIN e.mdns : now >= e.mdns[k].expires

ExpirePeer(b, p, now) ==
    IF ~(BeaconDue(b.book[p], now) \/ MdnsDue(b.book[p], now)) THEN b
    ELSE FoldLeft(LAMBDA y, e : IF IsEmpty(e) THEN RemovePeer(y, p)
                                ELSE Settle([y EXCEPT !.book[p] = e], p, Current(y, p), "None", FALSE, now),
                  b, <<[b.book[p] EXCEPT !.beacon = IF BeaconDue(b.book[p], now) THEN <<>> ELSE @,
                                         !.mdns = SelectSeq(@, LAMBDA r : now < r.expires)]>>)

\* fn handle_tick
BookTick(b, now) == FoldLeft(LAMBDA y, p : ExpirePeer(y, p, now), b, PeerSeq)

\* fn next_timeout: the first expiry, if any.
Expiries(b) ==
    UNION {{b.book[p].beacon[k].seen + BeaconPeerTtl : k \in DOMAIN b.book[p].beacon}
             \cup {b.book[p].mdns[k].expires : k \in DOMAIN b.book[p].mdns} : p \in BookPeers}
=============================================================================
