------------------------------ MODULE Endpoint ------------------------------
(***************************************************************************)
(* The waits of an endpoint (crates/minip2p/src/std/mod.rs) over the swarm  *)
(* driver (crates/swarm/src/driver.rs) and the readiness wait of its        *)
(* transports (crates/transport/src/set.rs), as operators on one record.    *)
(*                                                                         *)
(* The agents are external here (modules Nat, Pubsub, RelayServer and       *)
(* Discovery have them): a swarm event is the application's or is claimed   *)
(* by an agent, which may queue an event of its own, and an agent's timer   *)
(* does what the workload says.  An event is [n, tag, key]: n is its place  *)
(* in the order in which the transport raised it.                           *)
(*                                                                         *)
(* A call that may block runs in steps: one step is one turn of its loop,   *)
(* and it sleeps only in the wait for input.                                *)
(***************************************************************************)
EXTENDS Naturals, Sequences, SequencesExt, FiniteSets, FiniteSetsExt

CONSTANTS
    SkipLimit,        \* RUN_UNTIL_SKIP_LIMIT, the capacity of pending_events
    DrainFor          \* how long close waits for its connections

Earliest(x, y) == IF x < y THEN x ELSE y

Numbers(events) == {ev.n : ev \in Range(events)}

\* used is expired_poll_used (polled_past_deadline in run_until); step the deadline of
\* this turn; skipped what run_until set aside or close collected; failed is close's
\* first_error; late counts the polls made past the deadline.
NoCall == [op |-> "None", pc |-> "Idle", key |-> 0, deadline |-> 0, used |-> FALSE, skipped |-> <<>>,
           step |-> 0, result |-> "None", event |-> <<>>, failed |-> FALSE, late |-> 0]

\* arrivals are what the transport will hand over; buffer is the runtime's event_buffer;
\* pending is pending_events; nat and book are the queues of the agents; attempts the
\* connects under way; streams the application streams not abandoned; mute says that the
\* goodbye of mDNS will fail.  out (handed over), lost (with a tick or a close that failed)
\* and dropped (claimed, abandoned, or in the endpoint when close ended) record what became
\* of each event, ordered whether they came out in order, masked that the book took an
\* event back.
NewEndpoint(drivers, dual, timers, conns, mute) ==
    [drivers |-> drivers, dual |-> dual, arrivals |-> <<>>, buffer |-> <<>>, pending |-> <<>>, nat |-> <<>>,
     book |-> <<>>, attempts |-> {}, streams |-> {}, timers |-> timers, faults |-> 0, tokens |-> {}, conns |-> conns,
     mute |-> mute, call |-> NoCall, next |-> 1, out |-> {}, lost |-> {}, dropped |-> {}, ordered |-> TRUE, masked |-> FALSE]

-----------------------------------------------------------------------------
(* set.rs: one interrupt wakes every member, and the wait answers it once.  A member    *)
(* with input waiting keeps its token, and so does a dual-stack QUIC member: the probe  *)
(* that drains the siblings waits for no time, and these answer it before they look.    *)

Members == {"Tcp", "Quic"}

\* wait_handle: the fan-out.
Interrupt(e) == [e EXCEPT !.tokens = Members]

\* fn settle_interrupt
SettleInterrupt(e, woken) ==
    [e EXCEPT !.tokens = IF (woken = "Tcp" /\ e.dual) \/ e.arrivals # <<>> THEN @ \ {woken} ELSE {}]

-----------------------------------------------------------------------------
(* The agents *)

\* fn driver_events_len
DriverEventsLen(e) == Len(e.nat) + Len(e.book)

\* Mutant of DriverStepDeadline: the agents' timers are left out of the wait.
DriverStepDeadlineAlone(e, deadline, t) == deadline

\* fn driver_step_deadline: an agent that is due already is waited for one unit.
DriverStepDeadline(e, deadline, t) ==
    FoldSet(LAMBDA timer, step : Earliest(step, IF timer.at > t THEN timer.at ELSE t + 1), deadline, e.timers)

\* fn ingest_into_drivers: whether an agent claims the event, and what it makes of it.
\* An attempt that was cancelled makes nothing.
Makes == [NatPath |-> "PathEstablished", NatRelayed |-> "RelayedPath", NatPunchFailed |-> "HolePunchFailed",
          NatUpgraded |-> "PathUpgraded", NatFellBack |-> "FellBackToRelay", NatFailed |-> "ConnectFailed"]
Claimed(ev) == ev.tag \in DOMAIN Makes

\* A relayed path (PathEstablished over a circuit) is followed by the end of its punch.
ConnectTags == Range(Makes)
FirstPath == {"PathEstablished", "RelayedPath"}
TerminalTags == ConnectTags \ {"RelayedPath", "HolePunchFailed"}

IngestIntoDrivers(e, ev) ==
    LET made == [ev EXCEPT !.tag = Makes[ev.tag]]
    IN  IF ~Claimed(ev) THEN e
        ELSE [e EXCEPT !.nat = IF ev.key \in e.attempts THEN Append(@, made) ELSE @,
                       !.attempts = IF made.tag \in TerminalTags THEN @ \ {ev.key} ELSE @,
                       !.dropped = @ \cup {ev.n}]

Due(e, t) == {timer \in e.timers : timer.at <= t}

\* What a timer of an agent does.  The book may also take back an event that nobody read.
FireTimer(e, timer) ==
    LET made == [n |-> 0, tag |-> timer.does, key |-> timer.key]
    IN  CASE timer.does = "ConnectFailed" /\ timer.key \in e.attempts ->
               [e EXCEPT !.nat = Append(@, made), !.attempts = @ \ {timer.key}]
          [] timer.does = "PeerDiscovered" -> [e EXCEPT !.book = Append(@, made)]
          [] timer.does = "Withdraw" -> [e EXCEPT !.book = <<>>, !.masked = @ \/ e.book # <<>>]
          [] OTHER -> e

\* fn tick_drivers: relay server, NAT and pubsub, then mDNS, whose failure ends the
\* tick, then the sweep of discovery.
TickFails(e, t) == \E timer \in Due(e, t) : timer.does = "MdnsFails"

TickDrivers(e, t) ==
    LET due == Due(e, t)
        swept == {timer \in due : timer.does \in {"PeerDiscovered", "Withdraw"}}
        first == [e EXCEPT !.timers = @ \ (IF TickFails(e, t) THEN due \ swept ELSE due)]
    IN  FoldSet(LAMBDA timer, y : FireTimer(y, timer), first, IF TickFails(e, t) THEN due \ swept ELSE due)

-----------------------------------------------------------------------------
(* driver.rs *)

\* A connection of the transport, as connected_peers and has_tracked_connections see it.
ConnMoves(conns, ev) ==
    CASE ev.tag = "Established" -> [conns EXCEPT ![ev.key] = IF @ = "Pending" THEN "Up" ELSE @]
      [] ev.tag = "Closed" -> [conns EXCEPT ![ev.key] = "None"]
      [] OTHER -> conns

\* SwarmRuntime::poll, as the driver sees it.  A transport that fails keeps what it has.
\* Events of a stream that the application abandoned are not raised.
OfStream(ev) == ev.tag \in {"StreamReady", "StreamData", "StreamFin", "StreamClosed"}
Silent(e, ev) == OfStream(ev) /\ ev.key \notin e.streams

SwarmPoll(e) ==
    IF e.faults > 0 THEN [e EXCEPT !.faults = @ - 1]
    ELSE [e EXCEPT !.buffer = @ \o SelectSeq(e.arrivals, LAMBDA ev : ~Silent(e, ev)), !.arrivals = <<>>,
                   !.dropped = @ \cup {ev.n : ev \in {x \in Range(e.arrivals) : Silent(e, x)}},
                   !.conns = FoldLeft(ConnMoves, @, e.arrivals)]

\* The application is handed an event.  Only a wait that picks one may leave an older behind.
Told(e, ev, picked) ==
    [e EXCEPT !.out = @ \cup {ev.n},
              !.ordered = @ /\ (picked \/ \A x \in Range(e.pending \o e.buffer \o e.arrivals) : Claimed(x) \/ ev.n < x.n)]

Done(e, result) == [e EXCEPT !.call = [@ EXCEPT !.pc = "Done", !.result = result]]
DoneWith(e, ev, picked) ==
    [Told(e, ev, picked) EXCEPT !.call = [@ EXCEPT !.pc = "Done", !.result = "Event", !.event = <<ev>>]]
Again(e) == [e EXCEPT !.call.pc = "Loop"]

Pop(e) == [e |-> [e EXCEPT !.buffer = Tail(@)], got |-> "Event", event |-> <<Head(e.buffer)>>]

\* fn poll_next_interruptible up to its wait: what it returns, or that it sleeps.
PollNext(e, t) ==
    CASE e.buffer # <<>> -> Pop(e)
      [] e.buffer = <<>> /\ e.faults > 0 -> [e |-> SwarmPoll(e), got |-> "Error", event |-> <<>>]
      [] OTHER ->
           FoldLeft(LAMBDA w, y :
                        IF y.buffer # <<>> THEN Pop(y)
                        ELSE IF t >= y.call.step THEN [e |-> y, got |-> "Deadline", event |-> <<>>]
                        ELSE [e |-> [y EXCEPT !.call.pc = "Asleep"], got |-> "Asleep", event |-> <<>>],
                    <<>>, <<[SwarmPoll(e) EXCEPT !.call.late = IF t >= e.call.deadline THEN @ + 1 ELSE @]>>)

\* fn run_until: the skipped events go back in front, whatever the outcome.
Restore(e) == [e EXCEPT !.buffer = e.call.skipped \o @, !.call.skipped = <<>>]

Matches(e, ev) == ev.tag = "PeerReady" /\ ev.key = e.call.key

RunUntil(e, x) ==
    CASE x.got \in {"Error", "Deadline"} -> Done(Restore(x.e), x.got)
      [] x.got = "Event" /\ Matches(e, x.event[1]) -> DoneWith(Restore(x.e), x.event[1], TRUE)
      [] x.got = "Event" /\ ~Matches(e, x.event[1]) ->
           FoldLeft(LAMBDA w, y : IF Len(y.call.skipped) >= SkipLimit THEN Done(Restore(y), "Backlog") ELSE Again(y),
                    e, <<[x.e EXCEPT !.call.skipped = Append(@, x.event[1])]>>)
      [] OTHER -> x.e

\* Past the deadline (phase 2) the buffer is still searched, with one more poll.  A poll of
\* phase 1 that a wait woke to past the deadline is not counted, unless it found nothing.
RunUntilTurn(e, t) ==
    LET phase2 == e.call.pc = "Loop" /\ t >= e.call.deadline /\ e.buffer = <<>>
    IN  IF phase2 /\ e.call.used THEN Done(Restore(e), "Deadline")
        ELSE RunUntil(e, PollNext([e EXCEPT !.call.step = e.call.deadline, !.call.used = @ \/ phase2], t))

-----------------------------------------------------------------------------
(* mod.rs *)

\* A focused wait looks among the agents' events before it polls, and for room.
NatAt(e, tags, key) == {i \in DOMAIN e.nat : e.nat[i].tag \in tags /\ e.nat[i].key = key}

FocusStep(e) ==
    LET found == NatAt(e, FirstPath, e.call.key)
        failed == NatAt(e, {"ConnectFailed"}, e.call.key)
    IN  CASE e.call.op = "wait_path" /\ found # {} -> Done([e EXCEPT !.nat = RemoveAt(@, Min(found))], "Path")
          [] e.call.op = "wait_path" /\ found = {} /\ failed # {} -> Done(e, "NoPath")
          [] e.call.op = "next_nat_event" /\ e.nat # <<>> -> Done([e EXCEPT !.nat = Tail(@)], "NatEvent")
          [] OTHER -> IF Len(e.pending) >= SkipLimit THEN Done(e, "Backlog") ELSE Again(e)

Focused == {"wait_path", "next_nat_event", "wait_peer_ready"}
GoesOn(e) == IF e.call.op \in Focused THEN FocusStep(e) ELSE Again(e)

\* Mutant of OnDriverPoll: a focused wait forgets what it did not wait for.
OnDriverPollDrops(e, got, event) ==
    CASE got = "Application" /\ (e.call.op \notin Focused \/ (e.call.op = "wait_peer_ready" /\ Matches(e, event[1]))) ->
           DoneWith(e, event[1], e.call.op \in Focused)
      [] got = "Deadline" \/ (got # "Application" /\ e.call.op = "next_wake") -> Done(e, got)
      [] OTHER -> GoesOn(e)

\* What each call makes of the outcome of poll_new_event_driven.
OnDriverPoll(e, got, event) ==
    CASE got = "Application" /\ (e.call.op \notin Focused \/ (e.call.op = "wait_peer_ready" /\ Matches(e, event[1]))) ->
           DoneWith(e, event[1], e.call.op \in Focused)
      [] got = "Application" /\ e.call.op \in Focused /\ ~(e.call.op = "wait_peer_ready" /\ Matches(e, event[1])) ->
           FocusStep([e EXCEPT !.pending = Append(@, event[1])])
      [] got = "Deadline" \/ (got # "Application" /\ e.call.op = "next_wake") -> Done(e, got)
      [] OTHER -> GoesOn(e)

Mine(event) == SelectSeq(event, LAMBDA ev : ~Claimed(ev))

\* The end of a turn of poll_new_event_driven: before is what the agents had queued.
Settle(z, before, t, event) ==
    CASE Mine(event) # <<>> -> OnDriverPoll(z, "Application", event)
      [] Mine(event) = <<>> /\ DriverEventsLen(z) > before -> OnDriverPoll(z, "Progress", <<>>)
      [] Mine(event) = <<>> /\ DriverEventsLen(z) <= before /\ event = <<>> /\ t >= z.call.deadline ->
           OnDriverPoll(z, "Deadline", <<>>)
      [] OTHER -> Again(z)

Ticked(e, t, event) ==
    FoldLeft(LAMBDA w, y :
        IF TickFails(y, t)
        THEN Done([TickDrivers(y, t) EXCEPT !.lost = @ \cup Numbers(Mine(event))], "Error")
        ELSE FoldLeft(LAMBDA v, z : Settle(z, DriverEventsLen(e), t, event), e, <<TickDrivers(y, t)>>),
      e, <<FoldLeft(LAMBDA y, ev : IngestIntoDrivers(y, ev), e, event)>>)

AfterPoll(x, t) ==
    CASE x.got = "Error" -> Done(x.e, "Error")
      [] x.got = "Asleep" -> x.e
      [] OTHER -> Ticked([x.e EXCEPT !.call.used = @ \/ t >= x.e.call.deadline], t, x.event)

\* One turn of the loop of poll_new_event_driven; a wait that woke polls again under
\* the same step.
DrivenTurn(e, t) ==
    IF e.call.pc = "Loop" /\ t >= e.call.deadline /\ e.call.used THEN OnDriverPoll(e, "Deadline", <<>>)
    ELSE FoldLeft(LAMBDA w, x : AfterPoll(x, t), e,
                  <<PollNext(IF e.call.pc = "Woken" THEN e
                             ELSE [e EXCEPT !.call.used = @ \/ t >= e.call.deadline,
                                            !.call.step = DriverStepDeadline(e, e.call.deadline, t)], t)>>)

\* Without agents next_event and next_wake go to the swarm.
PlainTurn(e, t) ==
    FoldLeft(LAMBDA w, x : CASE x.got = "Event" -> DoneWith(x.e, x.event[1], FALSE)
                             [] x.got \in {"Error", "Deadline"} -> Done(x.e, x.got)
                             [] OTHER -> x.e,
             e, <<PollNext([e EXCEPT !.call.step = e.call.deadline], t)>>)

-----------------------------------------------------------------------------
(* fn close *)

\* fn close_drain_busy
CloseDrainBusy(e) == \E c \in DOMAIN e.conns : e.conns[c] # "None"

\* fn disconnect_established
DisconnectEstablished(e) == [e EXCEPT !.conns = [c \in DOMAIN @ |-> IF @[c] = "Up" THEN "Closing" ELSE @[c]]]

\* The end of close, which took the endpoint: it hands over what it collected, or its
\* first error and nothing else.
CloseEnds(e, failed) ==
    LET done == Done([e EXCEPT !.call.skipped = <<>>, !.buffer = <<>>, !.dropped = @ \cup Numbers(e.buffer)],
                     IF failed THEN "Error" ELSE "Closed")
    IN  IF failed THEN [done EXCEPT !.lost = @ \cup Numbers(e.call.skipped)]
        ELSE [done EXCEPT !.out = @ \cup Numbers(e.call.skipped), !.call.event = e.call.skipped]

\* One turn of the loop of close, with a zero wait when nothing is left to wait for.
ClosePolled(x, t) ==
    CASE x.got = "Event" -> Again([x.e EXCEPT !.call.skipped = Append(@, x.event[1])])
      [] x.got = "Error" -> CloseEnds(x.e, TRUE)
      [] x.got = "Deadline" ->
           IF ~CloseDrainBusy(x.e) \/ t >= x.e.call.deadline THEN CloseEnds(x.e, x.e.call.failed) ELSE Again(x.e)
      [] OTHER -> x.e

CloseTurn(e, t) ==
    FoldLeft(LAMBDA w, y :
        IF e.call.pc = "Loop" /\ t >= y.call.deadline THEN CloseEnds(y, y.call.failed)
        ELSE ClosePolled(PollNext([y EXCEPT !.call.step = IF CloseDrainBusy(y) THEN y.call.deadline ELSE t], t), t),
      e, <<IF e.call.pc = "Loop" THEN DisconnectEstablished(e) ELSE e>>)

-----------------------------------------------------------------------------
(* The calls *)

PendingReady(e, key) == {i \in DOMAIN e.pending : e.pending[i].tag = "PeerReady" /\ e.pending[i].key = key}

\* What a call does before it polls.  close says goodbye over mDNS first, and drops what the
\* focused waits set aside.
Begin(e, op, key, deadline, t) ==
    LET y == [e EXCEPT !.call = [NoCall EXCEPT !.op = op, !.pc = "Loop", !.key = key, !.deadline = deadline]]
        ready == PendingReady(e, key)
    IN  CASE op = "close" ->
               [y EXCEPT !.call.deadline = t + DrainFor, !.call.failed = e.mute, !.pending = <<>>,
                         !.dropped = @ \cup Numbers(e.pending)]
          [] op # "close" /\ ~e.drivers -> y
          [] e.drivers /\ op \in {"next_event", "next_wake"} /\ e.pending # <<>> ->
               DoneWith([y EXCEPT !.pending = Tail(@)], Head(e.pending), FALSE)
          [] e.drivers /\ op = "next_wake" /\ e.pending = <<>> /\ DriverEventsLen(e) > 0 -> Done(y, "Progress")
          [] e.drivers /\ op = "wait_peer_ready" /\ ready # {} ->
               DoneWith([y EXCEPT !.pending = RemoveAt(@, Min(ready))], e.pending[Min(ready)], TRUE)
          [] e.drivers /\ op \in Focused /\ ~(op = "wait_peer_ready" /\ ready # {}) -> FocusStep(y)
          [] OTHER -> y

\* One turn of the call that runs, on the thread that made it.
CallTurn(e, t) ==
    CASE e.call.op = "close" -> CloseTurn(e, t)
      [] e.call.op # "close" /\ e.drivers -> DrivenTurn(e, t)
      [] e.call.op = "wait_peer_ready" /\ ~e.drivers -> RunUntilTurn(e, t)
      [] OTHER -> PlainTurn(e, t)

\* The wait for input ends: an interrupt, input, or its time.  Only next_wake reports an
\* interrupt; the other calls go on, with the agents having had their last poll when the
\* deadline has passed.
Interrupted(e, t) ==
    CASE e.call.op = "next_wake" -> Done(e, "Interrupted")
      [] e.call.op # "next_wake" /\ e.drivers /\ e.call.op # "close" ->
           OnDriverPoll([e EXCEPT !.call.used = @ \/ t >= e.call.deadline], "Interrupted", <<>>)
      [] e.call.op = "close" -> [e EXCEPT !.call.pc = "Woken"]
      [] OTHER -> Again(e)

Wakes(e, t) ==
    {Interrupted(SettleInterrupt(e, m), t) : m \in e.tokens}
      \cup (IF e.arrivals # <<>> \/ e.faults > 0 \/ t >= e.call.step THEN {[e EXCEPT !.call.pc = "Woken"]} ELSE {})

\* fn poll: everything at once.  A tick that fails takes the events with it.
PollAll(e, t) ==
    IF e.faults > 0 THEN Done(SwarmPoll(e), "Error")
    ELSE FoldLeft(LAMBDA w, y :
             LET mine == e.pending \o Mine(y.buffer)
                 clear == [FoldLeft(LAMBDA z, ev : IngestIntoDrivers(z, ev), y, y.buffer) EXCEPT !.pending = <<>>, !.buffer = <<>>]
             IN  IF TickFails(clear, t)
                 THEN Done([TickDrivers(clear, t) EXCEPT !.lost = @ \cup Numbers(mine)], "Error")
                 ELSE [TickDrivers(FoldLeft(LAMBDA z, ev : Told(z, ev, FALSE), clear, mine), t)
                       EXCEPT !.call = [NoCall EXCEPT !.pc = "Done", !.result = "Events", !.event = mine]],
           e, <<SwarmPoll(e)>>)

\* fn abandon_stream: later events of the stream are not raised (module SwarmRuntime),
\* and the ones that wait are dropped.
AbandonStream(e, key) ==
    LET others(ev) == ~(OfStream(ev) /\ ev.key = key)
    IN  [e EXCEPT !.pending = SelectSeq(@, others), !.buffer = SelectSeq(@, others), !.streams = @ \ {key},
                  !.dropped = @ \cup {ev.n : ev \in {x \in Range(e.pending \o e.buffer) : OfStream(x) /\ x.key = key}}]

\* fn connect: an attempt with no way to go fails at once.
Connect(e, key, hopeless) ==
    IF hopeless THEN [e EXCEPT !.nat = Append(@, [n |-> 0, tag |-> "ConnectFailed", key |-> key])]
    ELSE [e EXCEPT !.attempts = @ \cup {key}]

\* fn cancel_connect
CancelConnect(e, key) == [e EXCEPT !.attempts = @ \ {key}]

\* The transport has an event for the swarm.
Arrived(e, tag, key) ==
    [e EXCEPT !.arrivals = Append(@, [n |-> e.next, tag |-> tag, key |-> key]), !.next = @ + 1]
=============================================================================
