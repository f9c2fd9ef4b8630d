-------------------------------- MODULE Mdns --------------------------------
(***************************************************************************)
(* crates/mdns: the agent (agent.rs) and the driver that runs it against a *)
(* carrier (driver.rs, socket.rs, smoltcp_io.rs), as operators on one       *)
(* record per host.  Time is in units of the response jitter.               *)
(*                                                                         *)
(* A datagram names its sender's claims, never its bytes: a claim is an     *)
(* address with a lifetime, or 0 for one that does not parse.  Address 0 in *)
(* a listen list is the wildcard, which the agent expands to the address of *)
(* the interface.  A host has one interface at a time; its id changes when  *)
(* it comes back.  What the carrier does in one turn is the record w:       *)
(*   room    datagrams its send buffer takes;                               *)
(*   fail    the operation that fails, or "None";                           *)
(*   jitter  the delay the agent draws for an answer.                       *)
(***************************************************************************)
EXTENDS Naturals, Sequences, SequencesExt

CONSTANTS
    MdnsTtl,             \* config.ttl_ms
    LegacyTtl,           \* the ten seconds a legacy querier may keep a record
    QueryInterval,       \* config.query_interval_ms
    FastDelay,           \* the first delay of the start-up probing
    InterfaceRefresh,    \* config.interface_refresh_ms
    PollInterval,        \* config.socket_poll_interval_ms
    MaxPacketAddrs,      \* claims that fit in config.max_packet_bytes
    MaxAnnounced,        \* config.max_announced_addrs
    MaxScheduled,        \* MAX_SCHEDULED_RESPONSES
    MaxPendingActions,   \* MAX_PENDING_ACTIONS
    MaxResponsesPerTick, \* MAX_RESPONSE_ACTIONS_PER_TICK
    MaxDatagramsPerTick, \* MAX_DATAGRAMS_PER_TICK
    MaxActionsPerTick,   \* MAX_ACTIONS_PER_TICK
    DrainAttempts        \* SHUTDOWN_DRAIN_ATTEMPTS

Least(x, y) == IF x < y THEN x ELSE y
Truncate(s, n) == SubSeq(s, 1, Least(Len(s), n))
Drop(s, n) == SubSeq(s, n + 1, Len(s))
Minus(x, y) == IF x > y THEN x - y ELSE 0
Distinct(s) == FoldLeft(LAMBDA got, x : IF x \in Range(got) THEN got ELSE Append(got, x), <<>>, s)

-----------------------------------------------------------------------------
(* The carrier: what it sees of its interface, and the datagrams waiting. *)

\* The interface as the system has it: none, or one with an address.
Interfaces(m) == m.snapshots

\* InterfaceRegistry::assign: an interface that stayed keeps its id.
Assign(m) ==
    IF m.nic = 0 THEN <<>>
    ELSE <<[id |-> IF m.snapshots # <<>> THEN m.snapshots[1].id ELSE m.next_id + 1, ip |-> m.nic]>>

\* fn refresh, of both carriers: a socket pair that is not kept loses what had arrived.
Refresh(m) ==
    LET now == Assign(m)
    IN  [m EXCEPT !.snapshots = now,
                  !.next_id = IF now # <<>> /\ now[1].id > @ THEN now[1].id ELSE @,
                  !.inbox = IF m.sockets /\ now # m.snapshots THEN <<>> ELSE @]

\* fn send: what becomes of one datagram.
SendResult(m, act, w) ==
    CASE w.fail = "Send" -> "Io"
      [] m.snapshots = <<>> \/ m.snapshots[1].id # act.interface -> "UnknownInterface"
      [] Len(act.body.claims) > m.capacity -> "Oversized"
      [] m.room = 0 -> "Congested"
      [] OTHER -> "Ok"

Sent(m, act) == [m EXCEPT !.room = @ - 1, !.out = Append(@, act)]

-----------------------------------------------------------------------------
(* agent.rs *)

Query == [kind |-> "Query", meta |-> FALSE, claims |-> <<>>]

\* fn restart_fast_phase
RestartFastPhase(m, now) == [m EXCEPT !.fast = TRUE, !.delay = FastDelay, !.next_query = now]

\* fn set_interfaces
SetInterfaces(m, ifs, now) ==
    IF m.closed \/ m.interfaces = ifs THEN m
    ELSE RestartFastPhase([m EXCEPT !.scheduled = <<>>, !.actions = <<>>, !.interfaces = ifs], now)

\* fn set_local_addrs, and the parked packet that the driver drops when it says TRUE
SetLocalAddrs(m, addrs, now) ==
    IF m.closed \/ m.local = addrs THEN m
    ELSE RestartFastPhase([m EXCEPT !.scheduled = <<>>, !.actions = <<>>, !.local = addrs], now)

\* expand_addresses: the wildcard stands for the address of the interface.
Expand(addrs, iface) == Distinct([i \in DOMAIN addrs |-> IF addrs[i] = 0 THEN iface.ip ELSE addrs[i]])

\* fn advertised_txt_values
Advertised(m) ==
    IF m.interfaces = <<>> THEN <<>> ELSE Truncate(Expand(m.local, m.interfaces[1]), MaxAnnounced)

Response(peer, addrs, ttl) ==
    [kind |-> "Response", meta |-> FALSE,
     claims |-> [i \in DOMAIN addrs |-> [peer |-> peer, addr |-> addrs[i], ttl |-> ttl]]]

\* encode_response_segments: the PTR alone when there is nothing to say, else as many
\* packets as the claims need.
Segments(peer, addrs, ttl) ==
    IF addrs = <<>> THEN <<Response(peer, <<>>, ttl)>>
    ELSE [k \in 1..((Len(addrs) + MaxPacketAddrs - 1) \div MaxPacketAddrs) |->
            Response(peer, Truncate(Drop(addrs, (k - 1) * MaxPacketAddrs), MaxPacketAddrs), ttl)]

\* fn response_packets
ResponsePackets(m, ttl) == Segments(m.peer, Advertised(m), ttl)

\* wire_ttl_seconds
WireTtl(legacy) == IF legacy THEN Least(MdnsTtl, LegacyTtl) ELSE MdnsTtl

\* fn handle_query
HandleQuery(m, dg, now, w) ==
    IF Len(m.scheduled) = MaxScheduled THEN m
    ELSE [m EXCEPT !.scheduled = Append(@,
            [due |-> now + w.jitter, interface |-> dg.interface,
             target |-> IF dg.legacy \/ dg.unicast THEN "Unicast" ELSE "Multicast",
             payloads |-> IF dg.body.meta THEN <<[kind |-> "Response", meta |-> TRUE, claims |-> <<>>]>>
                          ELSE ResponsePackets(m, WireTtl(dg.legacy))])]

\* One TXT value of a response: who it is of, and what it adds.
ReadClaim(got, claim) ==
    IF got.mixed THEN got
    ELSE IF claim.peer = 0 THEN [got EXCEPT !.invalid = TRUE]
    ELSE IF got.peer \notin {0, claim.peer} THEN [got EXCEPT !.mixed = TRUE]
    ELSE IF claim.addr = 0 THEN [got EXCEPT !.peer = claim.peer, !.invalid = TRUE]
    ELSE [got EXCEPT !.peer = claim.peer,
                     !.observed = IF \E k \in DOMAIN @ : @[k].addr = claim.addr THEN @
                                  ELSE Append(@, [addr |-> claim.addr, ttl |-> claim.ttl])]

ReadClaims(claims) ==
    FoldLeft(ReadClaim, [peer |-> 0, observed |-> <<>>, invalid |-> FALSE, mixed |-> FALSE], claims)

Violation(m, peer) ==
    [m EXCEPT !.events = Append(@, [kind |-> "Violation", peer |-> peer, addrs |-> <<>>])]

\* The end of fn handle_response: an answer that carries an address ends the probing.
Observed(m, got, now) ==
    CASE got.mixed -> Violation(m, got.peer)
      [] got.observed = <<>> /\ ~got.mixed -> IF got.invalid THEN Violation(m, got.peer) ELSE m
      [] got.peer = m.peer /\ got.observed # <<>> /\ ~got.mixed -> m
      [] OTHER ->
           [m EXCEPT !.events = Append(@, [kind |-> "Observed", peer |-> got.peer, addrs |-> got.observed]),
                     !.fast = @ /\ \A k \in DOMAIN got.observed : got.observed[k].ttl = 0,
                     !.next_query = IF \E k \in DOMAIN got.observed : got.observed[k].ttl > 0
                                    THEN now + QueryInterval ELSE @,
                     !.delay = IF \E k \in DOMAIN got.observed : got.observed[k].ttl > 0
                               THEN QueryInterval ELSE @]

\* fn handle_response
HandleResponse(m, body, now) ==
    FoldLeft(LAMBDA y, got : Observed(y, got, now), m, <<ReadClaims(body.claims)>>)

\* fn handle_packet
HandlePacket(m, dg, now, w) ==
    IF m.closed \/ ~\E k \in DOMAIN m.interfaces : m.interfaces[k].id = dg.interface THEN m
    ELSE CASE dg.body.kind = "Garbage" -> m
           [] dg.body.kind = "Malformed" -> Violation(m, 0)
           [] dg.body.kind = "Response" -> IF dg.body.meta THEN m ELSE HandleResponse(m, dg.body, now)
           [] OTHER -> HandleQuery(m, dg, now, w)

\* One payload of the answers that are due, in the order in which they were scheduled.
EmitResponse(m, now) ==
    LET due == SelectInSeq(m.scheduled, LAMBDA r : r.due <= now /\ r.payloads # <<>>)
    IN  IF due = 0 \/ Len(m.actions) >= MaxPendingActions THEN m
        ELSE [m EXCEPT !.actions = Append(@, [interface |-> m.scheduled[due].interface,
                                              target |-> m.scheduled[due].target,
                                              body |-> Head(m.scheduled[due].payloads)]),
                       !.scheduled[due].payloads = Tail(@)]

EmitQueries(m, now) ==
    IF now < m.next_query THEN m
    ELSE LET delay == Least(m.delay, QueryInterval)
         IN  [m EXCEPT !.actions = IF m.interfaces = <<>> \/ Len(@) >= MaxPendingActions THEN @
                                   ELSE Append(@, [interface |-> m.interfaces[1].id,
                                                   target |-> "Multicast", body |-> Query]),
                       !.next_query = now + IF m.fast THEN delay ELSE QueryInterval,
                       !.delay = IF m.fast THEN Least(2 * delay, QueryInterval) ELSE @]

\* fn handle_tick
AgentTick(m, now) ==
    IF m.closed THEN m
    ELSE EmitQueries(
           FoldLeft(LAMBDA y, k : [y EXCEPT !.scheduled = SelectSeq(@, LAMBDA r : r.payloads # <<>>)],
                    FoldLeft(LAMBDA y, k : EmitResponse(y, now), m, [k \in 1..MaxResponsesPerTick |-> k]),
                    <<1>>), now)

\* fn shutdown of the agent
AgentShutdown(m) ==
    IF m.closed THEN m
    ELSE [m EXCEPT !.closed = TRUE, !.scheduled = <<>>,
                   !.actions = IF m.interfaces = <<>> THEN <<>>
                               ELSE LET byes == ResponsePackets(m, 0)
                                    IN  [k \in DOMAIN byes |-> [interface |-> m.interfaces[1].id,
                                                                target |-> "Multicast", body |-> byes[k]]]]

AgentTimeout(m) == FoldLeft(LAMBDA t, r : Least(t, r.due), m.next_query, m.scheduled)

-----------------------------------------------------------------------------
(* driver.rs *)

\* fn fail: mDNS ends, and what was observed stays.
Fail(m) ==
    [AgentShutdown(m) EXCEPT !.parked = <<>>, !.backlog = FALSE, !.actions = <<>>, !.io = FALSE,
                             !.failed = TRUE]

\* The interfaces, when their time has come.
RefreshStep(m, now, w) ==
    IF now < m.refresh_at THEN m
    ELSE IF w.fail = "Refresh" THEN Fail(m)
    ELSE FoldLeft(LAMBDA y, was : [(IF y.snapshots = was THEN y
                                    ELSE [SetInterfaces(y, y.snapshots, now) EXCEPT !.parked = <<>>])
                                   EXCEPT !.refresh_at = now + InterfaceRefresh],
                  Refresh(m), <<m.snapshots>>)

\* Mutant of AddressStep: a parked packet survives the addresses it was made of.
AddressStepKeepsParked(m, addrs, now) == SetLocalAddrs(m, addrs, now)

AddressStep(m, addrs, now) ==
    [SetLocalAddrs(m, addrs, now) EXCEPT !.parked = IF m.closed \/ m.local = addrs THEN @ ELSE <<>>]

\* The packet that the last turn left: sent, dropped, or put back.
ParkedStep(m, w) ==
    IF m.parked = <<>> THEN [m EXCEPT !.sent = 0, !.congested = FALSE]
    ELSE LET act == m.parked[1]
             got == SendResult(m, act, w)
             free == [m EXCEPT !.parked = <<>>, !.sent = 0, !.congested = FALSE]
         IN  CASE got = "Ok" -> [Sent(free, act) EXCEPT !.sent = 1]
               [] got = "Congested" -> [m EXCEPT !.sent = 0, !.congested = TRUE]
               [] got = "Io" -> Fail(m)
               [] OTHER -> free

\* source_is_on_link, and the size limit
Usable(m, dg) == ~dg.off_link /\ ~dg.too_big /\ m.snapshots # <<>>

\* fn receive_batch
ReceiveStep(m, now, w) ==
    IF w.fail = "Receive" THEN Fail(m)
    ELSE FoldLeft(LAMBDA y, dg : IF Usable(y, dg)
                                 THEN HandlePacket(y, [dg EXCEPT !.interface = y.snapshots[1].id], now, w)
                                 ELSE y,
                  [m EXCEPT !.inbox = Drop(@, MaxDatagramsPerTick),
                            !.more = Len(m.inbox) >= MaxDatagramsPerTick],
                  Truncate(m.inbox, MaxDatagramsPerTick))

SendNext(m, w) ==
    IF ~m.io \/ m.actions = <<>> \/ m.parked # <<>> THEN m
    ELSE LET act == Head(m.actions)
             rest == [m EXCEPT !.actions = Tail(@)]
             got == SendResult(m, act, w)
         IN  CASE got = "Ok" -> Sent(rest, act)
               [] got = "Congested" -> [rest EXCEPT !.parked = <<act>>]
               [] got = "Io" -> Fail(m)
               [] OTHER -> rest

\* The limit of the turn is reached: the next packet is parked.
ParkNext(m) ==
    IF ~m.io \/ m.parked # <<>> \/ m.actions = <<>> THEN m
    ELSE [m EXCEPT !.parked = <<Head(m.actions)>>, !.actions = Tail(@)]

\* fn send_batch
SendStep(m, w) ==
    IF m.congested THEN m
    ELSE ParkNext(FoldLeft(LAMBDA y, k : SendNext(y, w), m, [k \in 1..(MaxActionsPerTick - m.sent) |-> k]))

FinishStep(m) == [m EXCEPT !.backlog = m.more \/ m.parked # <<>>]

TickStep(m, step, now, addrs, w) ==
    CASE ~m.io -> m
      [] step = "PollIn" /\ m.io -> IF w.fail = "Poll" THEN Fail(m) ELSE m
      [] step = "Refresh" /\ m.io -> RefreshStep(m, now, w)
      [] step = "Addresses" /\ m.io -> AddressStep(m, addrs, now)
      [] step = "Parked" /\ m.io -> ParkedStep(m, w)
      [] step = "Receive" /\ m.io -> ReceiveStep(m, now, w)
      [] step = "Agent" /\ m.io -> AgentTick(m, now)
      [] step = "Send" /\ m.io -> SendStep(m, w)
      [] step = "PollOut" /\ m.io -> IF w.fail = "PollOut" THEN Fail(m) ELSE FinishStep(m)

\* fn tick: one turn.  "failed" says that it returned an error.
Tick(m, now, addrs, w) ==
    FoldLeft(LAMBDA y, step : TickStep(y, step, now, addrs, w),
             [m EXCEPT !.room = w.room, !.failed = FALSE, !.out = <<>>],
             <<"PollIn", "Refresh", "Addresses", "Parked", "Receive", "Agent", "Send", "PollOut">>)

\* A goodbye that does not fit is tried again after each drain of the carrier.
SendGoodbye(m, act, w) ==
    LET got == SendResult(m, act, w)
        drained == SendResult([m EXCEPT !.room = IF w.drains > 0 /\ DrainAttempts > 0 THEN 1 ELSE 0], act, w)
    IN  CASE got = "Ok" -> Sent(m, act)
          [] got = "Congested" /\ drained = "Ok" -> [m EXCEPT !.out = Append(@, act)]
          [] got \in {"UnknownInterface", "Oversized"} -> m
          [] OTHER -> [m EXCEPT !.failed = TRUE]

\* fn shutdown of the driver
Shutdown(m, w) ==
    IF ~m.io THEN [m EXCEPT !.failed = FALSE, !.out = <<>>]
    ELSE FoldLeft(LAMBDA y, closed :
                    [FoldLeft(LAMBDA z, act : SendGoodbye(z, act, w), closed, closed.actions)
                     EXCEPT !.actions = <<>>, !.io = FALSE],
                  m, <<[AgentShutdown(m) EXCEPT !.parked = <<>>, !.room = w.room, !.failed = FALSE, !.out = <<>>]>>)

\* fn next_timeout: when the next turn is due.
NextTurn(m, now) ==
    IF m.backlog THEN now
    ELSE Least(now + PollInterval, Least(m.refresh_at, IF m.closed THEN m.refresh_at ELSE AgentTimeout(m)))

\* MdnsDriver::new over MdnsAgent::new
NewMdns(peer, nic, sockets, capacity) ==
    [peer |-> peer, io |-> TRUE, closed |-> FALSE, nic |-> nic, sockets |-> sockets, capacity |-> capacity,
     next_id |-> 1, snapshots |-> <<[id |-> 1, ip |-> nic]>>, interfaces |-> <<[id |-> 1, ip |-> nic]>>,
     inbox |-> <<>>, local |-> <<>>, next_query |-> 0, delay |-> FastDelay, fast |-> TRUE,
     scheduled |-> <<>>, actions |-> <<>>, events |-> <<>>, parked |-> <<>>, refresh_at |-> InterfaceRefresh,
     backlog |-> FALSE, room |-> 0, sent |-> 0, congested |-> FALSE, more |-> FALSE, out |-> <<>>,
     failed |-> FALSE]
=============================================================================
