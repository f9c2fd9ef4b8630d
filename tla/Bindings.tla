------------------------------ MODULE Bindings ------------------------------
(***************************************************************************)
(* Who drives an endpoint.  In a "rust" mode one thread calls the blocking  *)
(* operations of module Endpoint, another may interrupt them.  In an "sdk"  *)
(* mode the background driver of crates/ffi-core/src/driver.rs does, beside *)
(* the doorbell thread and the JavaScript thread of the SDK, whose          *)
(* commands (crates/ffi-core/src/endpoint.rs) interrupt the driver and then *)
(* wait for the state lock.                                                 *)
(*                                                                         *)
(* The lock is the driver's from the moment it looks at the lifecycle until *)
(* it has carried over what its wait brought, asleep or not (pc "Pump").    *)
(* The other holders of the lock are single steps.                          *)
(***************************************************************************)
EXTENDS Endpoint

-----------------------------------------------------------------------------
(***************************************************************************)
(* The TypeScript SDK (bindings/ts/core/src/sdk.ts) and its event drain     *)
(* (bindings/ts/node/src/adapter.ts, react-native/src/event-drain.ts), as   *)
(* operators on one record: the promises of connect and openStream, the     *)
(* bounded event queue and its flush, and the Stream class in pull mode.    *)
(*                                                                         *)
(* JavaScript runs on one thread.  A native call it makes is put in todo    *)
(* and carried out by module Bindings before JavaScript does anything else. *)
(***************************************************************************)

CONSTANTS
    ConnectIds,       \* the connection attempts
    StreamIds,        \* the streams the application opens
    QueueCap,         \* EVENT_QUEUE_CAP
    FlushBatch,       \* EVENT_FLUSH_BATCH
    TerminalCap,      \* CONNECT_TERMINAL_CAP
    ChunkCap          \* STREAM_CHUNK_CAP

NewStream == [open |-> FALSE, fifo |-> <<>>, reads |-> 0, recv |-> "receiving", got |-> <<>>, ended |-> "No"]

\* attempts is #connects: Started, Waiting (somebody awaits it) or its terminal result.
\* promise and opens are what the application holds.  overflowed records that a bounded
\* queue of the SDK has dropped something, heard that a cancelled attempt was heard of.
\* throws says that the application's handler of messages throws.
NewSdk(throws) ==
    [closed |-> FALSE, attempts |-> [k \in ConnectIds |-> "None"], promise |-> [k \in ConnectIds |-> "None"],
     terminals |-> <<>>, opens |-> [s \in StreamIds |-> "None"], st |-> [s \in StreamIds |-> NewStream],
     queue |-> <<>>, dropped |-> 0, flush |-> "No", todo |-> <<>>, calling |-> FALSE, rings |-> 0,
     drain |-> [pending |-> FALSE, run |-> "Off", stopped |-> FALSE],
     cancelled |-> {}, heard |-> FALSE, overflowed |-> FALSE, throws |-> throws]

NativeCall(op, key, by) == [op |-> op, key |-> key, by |-> by]

-----------------------------------------------------------------------------
(* EventDrain *)

\* ring: at most one run at a time; a ring during a run is remembered.
DrainRing(x) ==
    IF x.drain.stopped THEN x
    ELSE [x EXCEPT !.drain.pending = TRUE, !.drain.run = IF @ = "Off" THEN "Scheduled" ELSE @]

\* #run, when its turn comes: it drains if it has to, or ends.
DrainGoes(x) == ~x.drain.stopped /\ (x.drain.run = "Batch" \/ x.drain.pending)
DrainRun(x) ==
    IF DrainGoes(x)
    THEN [x EXCEPT !.drain.pending = IF x.drain.run = "Batch" THEN @ ELSE FALSE, !.todo = <<NativeCall("drain", 0, "")>>]
    ELSE [x EXCEPT !.drain.run = "Off"]

\* The batch that came back; the run yields a turn after a batch, and starts over or
\* ends when there was none.
DrainBatch(x, empty) ==
    [x EXCEPT !.drain.run = IF ~empty THEN "Batch" ELSE IF x.drain.pending THEN "Scheduled" ELSE "Off"]

DrainStop(x) == [x EXCEPT !.drain.stopped = TRUE, !.drain.pending = FALSE]

-----------------------------------------------------------------------------
(* class Stream *)

\* receive
StreamReceive(s, n) ==
    CASE ~s.open -> s
      [] s.open /\ s.reads > 0 -> [s EXCEPT !.reads = @ - 1, !.got = Append(@, n)]
      [] OTHER -> IF Len(s.fifo) >= ChunkCap THEN s ELSE [s EXCEPT !.fifo = Append(@, n)]

StreamOverflows(s) == s.open /\ s.reads = 0 /\ Len(s.fifo) >= ChunkCap

\* remoteWriteClosed
StreamRemoteWriteClosed(s) ==
    IF ~s.open \/ s.recv # "receiving" THEN s
    ELSE [s EXCEPT !.recv = "eof", !.reads = 0, !.ended = IF s.reads > 0 THEN "Eof" ELSE @]

\* terminal: after the remote's FIN, a close of the stream leaves what was received.
StreamTerminal(s, preserve) ==
    CASE ~s.open -> s
      [] s.open /\ preserve /\ s.recv = "eof" -> [s EXCEPT !.open = FALSE]
      [] OTHER -> [s EXCEPT !.open = FALSE, !.recv = "failed", !.fifo = <<>>, !.reads = 0,
                            !.ended = IF s.reads > 0 THEN "Failed" ELSE @]

\* read
StreamRead(s) ==
    CASE s.recv = "failed" -> [s EXCEPT !.ended = "Failed"]
      [] s.recv # "failed" /\ s.fifo # <<>> -> [s EXCEPT !.fifo = Tail(@), !.got = Append(@, Head(s.fifo))]
      [] s.recv = "eof" /\ s.fifo = <<>> -> [s EXCEPT !.ended = "Eof"]
      [] OTHER -> [s EXCEPT !.reads = @ + 1]

-----------------------------------------------------------------------------
(* Connection attempts *)

\* #rememberConnect, and waitConnectResult when connect awaits it at once.
RememberConnect(x, k, wait) ==
    [x EXCEPT !.attempts[k] = IF wait THEN "Waiting" ELSE "Started", !.promise[k] = IF wait THEN "Pending" ELSE @]

\* waitConnectResult
WaitConnectResult(x, k) ==
    CASE x.attempts[k] = "Started" -> [x EXCEPT !.attempts[k] = "Waiting", !.promise[k] = "Pending"]
      [] x.attempts[k] \in {"Resolved", "Rejected"} ->
           [x EXCEPT !.promise[k] = x.attempts[k], !.attempts[k] = "None", !.terminals = Remove(@, k)]
      [] OTHER -> x

\* cancelConnect, once the native side has agreed.
CancelConnectResult(x, k) ==
    [x EXCEPT !.promise[k] = IF @ = "Pending" THEN "Rejected" ELSE @, !.attempts[k] = "None", !.terminals = Remove(@, k)]

\* #connectTerminal: a result nobody awaits is kept, up to a limit.
KeepTerminal(x, k, result) ==
    LET kept == Append(Remove(x.terminals, k), k)
        over == Len(kept) > TerminalCap
    IN  [x EXCEPT !.attempts = [i \in ConnectIds |-> IF i = k THEN result ELSE IF over /\ i = Head(kept) THEN "None" ELSE @[i]],
                  !.terminals = IF over THEN Tail(kept) ELSE kept]

ConnectTerminal(x, ev) ==
    LET k == ev.key
        result == IF ev.tag \in FirstPath THEN "Resolved" ELSE "Rejected"
    IN  CASE x.attempts[k] = "None" -> x
          [] x.attempts[k] = "Waiting" ->
               [x EXCEPT !.promise[k] = IF @ = "Pending" THEN result ELSE @, !.attempts[k] = "None"]
          [] OTHER -> KeepTerminal(x, k, result)

-----------------------------------------------------------------------------
(* Streams of the endpoint *)

Abandons(x, ids) == [x EXCEPT !.todo = @ \o SetToSeq({NativeCall("abandon", s, "") : s \in ids})]

\* #expireOpen: a timeout or an abort.
ExpireOpen(x, s) ==
    IF x.opens[s] = "Pending" THEN Abandons([x EXCEPT !.opens[s] = "Rejected"], {s}) ELSE x

\* #streamReady, for a stream opened here.
StreamReady(x, s) ==
    IF x.opens[s] = "Pending" THEN [x EXCEPT !.opens[s] = "Resolved", !.st[s].open = TRUE] ELSE Abandons(x, {s})

\* #streamEvent
StreamClosed(x, s) ==
    [x EXCEPT !.opens[s] = IF @ = "Pending" THEN "Rejected" ELSE @, !.st[s] = StreamTerminal(@, TRUE)]

\* #correlateOpenError: an error of an open names a stream's key, or only its number (key 0),
\* which streams of several connections may have; it must mean one pending open.
CorrelateOpenError(x, ev) ==
    LET candidates == {s \in StreamIds : x.opens[s] = "Pending" /\ ev.key \in {0, s}}
    IN  [x EXCEPT !.opens = [s \in StreamIds |-> IF candidates = {s} THEN "Rejected" ELSE @[s]]]

\* #connectionClosed: there is one connection here.
ConnectionClosed(x) ==
    [x EXCEPT !.opens = [s \in StreamIds |-> IF @[s] = "Pending" THEN "Rejected" ELSE @[s]],
              !.st = [s \in StreamIds |-> StreamTerminal(@[s], FALSE)]]

-----------------------------------------------------------------------------
(* The event queue *)

PendingOpens(x) == {s \in StreamIds : x.opens[s] = "Pending"}

\* #handleQueueOverflow: an answer may have been lost, so whoever waits is told.
HandleQueueOverflow(x) ==
    Abandons([x EXCEPT !.promise = [k \in ConnectIds |-> IF x.attempts[k] = "Waiting" /\ @[k] = "Pending" THEN "Rejected" ELSE @[k]],
                       !.attempts = [k \in ConnectIds |-> IF @[k] \in {"Started", "Waiting"} THEN "None" ELSE @[k]],
                       !.opens = [s \in StreamIds |-> IF @[s] = "Pending" THEN "Rejected" ELSE @[s]]],
             PendingOpens(x))

\* #enqueueNative, #enqueueHigh and #scheduleFlush: a full queue drops its oldest event.
EnqueueNative(x, ev) ==
    IF x.closed THEN x
    ELSE FoldLeft(LAMBDA w, y : IF Len(y.queue) <= QueueCap THEN y
                                ELSE HandleQueueOverflow([y EXCEPT !.queue = Tail(@), !.dropped = @ + 1, !.overflowed = TRUE]),
                  x, <<[x EXCEPT !.queue = Append(@, ev), !.flush = IF @ = "No" THEN "Micro" ELSE @]>>)

\* Mutant of Teardown: the streams still being opened are forgotten.
TeardownForgetsOpens(x) ==
    IF x.closed THEN x
    ELSE [x EXCEPT !.closed = TRUE, !.queue = <<>>, !.dropped = 0,
                   !.promise = [k \in ConnectIds |-> IF @[k] = "Pending" THEN "Rejected" ELSE @[k]],
                   !.attempts = [k \in ConnectIds |-> "None"], !.terminals = <<>>,
                   !.st = [s \in StreamIds |-> StreamTerminal(@[s], FALSE)],
                   !.todo = Append(@, NativeCall("stop", 0, ""))]

\* #teardown up to backend.close.
Teardown(x) ==
    IF x.closed THEN x
    ELSE [x EXCEPT !.closed = TRUE, !.queue = <<>>, !.dropped = 0,
                   !.promise = [k \in ConnectIds |-> IF @[k] = "Pending" THEN "Rejected" ELSE @[k]],
                   !.attempts = [k \in ConnectIds |-> "None"], !.terminals = <<>>,
                   !.opens = [s \in StreamIds |-> IF @[s] = "Pending" THEN "Rejected" ELSE @[s]],
                   !.st = [s \in StreamIds |-> StreamTerminal(@[s], FALSE)],
                   !.todo = Append(@, NativeCall("stop", 0, ""))]

\* #dispatchNative, #dispatch and #handlerFailed: a handler that throws is reported in an
\* event of its own.
DispatchNative(x, ev) ==
    CASE ev.tag = "DriverFailed" -> Teardown(x)
      [] ev.tag = "StreamReady" -> StreamReady(x, ev.key)
      [] ev.tag = "StreamData" -> [x EXCEPT !.st[ev.key] = StreamReceive(@, ev.n),
                                            !.overflowed = @ \/ StreamOverflows(x.st[ev.key])]
      [] ev.tag = "StreamFin" -> [x EXCEPT !.st[ev.key] = StreamRemoteWriteClosed(@)]
      [] ev.tag = "StreamClosed" -> StreamClosed(x, ev.key)
      [] ev.tag = "Closed" -> ConnectionClosed(x)
      [] ev.tag = "EndpointError" -> CorrelateOpenError(x, ev)
      [] ev.tag \in FirstPath \cup {"ConnectFailed"} -> ConnectTerminal(x, ev)
      [] ev.tag = "Message" /\ x.throws -> EnqueueNative(x, [ev EXCEPT !.tag = "HandlerError"])
      [] OTHER -> x

\* #flush: a bounded batch, the overflow notice counted in it; the rest waits a turn.
\* What a handler's error queues on the way is taken with the others, and a teardown ends it.
FlushOne(y) ==
    IF y.closed \/ y.queue = <<>> THEN y ELSE DispatchNative([y EXCEPT !.queue = Tail(@)], Head(y.queue))

Flush(x) ==
    LET room == IF x.dropped > 0 THEN FlushBatch - 1 ELSE FlushBatch
    IN  IF x.closed THEN [x EXCEPT !.flush = "No"]
        ELSE FoldLeft(LAMBDA w, y : IF y.closed \/ y.queue = <<>> THEN y ELSE [y EXCEPT !.flush = "Timer"],
                      x, <<FoldLeft(LAMBDA y, i : FlushOne(y), [x EXCEPT !.flush = "No", !.dropped = 0], [i \in 1..room |-> i])>>)

-----------------------------------------------------------------------------
(* The endpoint of the language bindings *)

CONSTANTS
    Modes,            \* the workloads
    CarryCap,         \* MAX_CARRY_EVENTS
    DrainLimit,       \* the batch of one drain
    DriverPoll        \* DRIVER_IDLE_POLL

VARIABLES mode, now, ep, ffi, js, fuel
vars == <<mode, now, ep, ffi, js, fuel>>

\* The workload stays with what is left of it.
M == fuel.work
IsSdk == fuel.work.kind = "sdk"

-----------------------------------------------------------------------------
(* crates/ffi-core: the shared state *)

\* carry and overflow are the queue for the foreign side; conv, sent and gone its
\* statistics; token is the doorbell's channel of one place, sender its sending end.
\* was is was_empty, missed what an overflow dropped; muted records that the driver
\* failed between filling an empty carry and ringing.
NewFfi ==
    [life |-> "Created", running |-> FALSE, alive |-> TRUE, pc |-> "Off", then |-> "Lock", was |-> TRUE, pending |-> 0,
     carry |-> <<>>, overflow |-> 0, connects |-> {}, cancelled |-> {}, conv |-> 0, sent |-> 0, gone |-> 0,
     token |-> FALSE, sender |-> FALSE, bell |-> "Off", missed |-> {}, muted |-> FALSE]

IsPayload(ev) == ev.tag = "StreamData"

\* Carry::push: a full carry loses its oldest payload, or else its oldest event.
Victim(carry) ==
    LET payloads == {i \in DOMAIN carry : IsPayload(carry[i])}
    IN  IF payloads # {} THEN Min(payloads) ELSE 1

Push(f, ev) ==
    FoldLeft(LAMBDA w, y :
        IF Len(y.carry) <= CarryCap THEN y
        ELSE LET lost == y.carry[Victim(y.carry)]
             IN  [y EXCEPT !.carry = RemoveAt(@, Victim(y.carry)), !.gone = @ + 1, !.overflow = @ + 1, !.missed = @ \cup {lost},
                           !.connects = IF lost.tag \in TerminalTags THEN @ \ {lost.key} ELSE @],
      f, <<[f EXCEPT !.carry = Append(@, ev), !.conv = @ + 1]>>)

\* fn ingest
Ingest(f, events) == FoldLeft(Push, f, events)

\* Carry::suppress_cancelled
SuppressCancelled(f, ids) ==
    LET kept == SelectSeq(f.carry, LAMBDA ev : ~(ev.tag \in ConnectTags /\ ev.key \in ids))
    IN  [f EXCEPT !.carry = kept, !.gone = @ + Len(f.carry) - Len(kept)]

Accepting == ffi.life \in {"Created", "Running"}

-----------------------------------------------------------------------------
(* crates/ffi-core/src/driver.rs: the driver thread *)

\* start_with, the constructor of the SDK; a thread that cannot be spawned stops it all.
Start ==
    /\ IsSdk /\ ffi.life = "Created" /\ ~js.closed /\ js.todo = <<>>
    /\ \/ ffi' = [ffi EXCEPT !.life = "Running", !.running = TRUE, !.pc = "Lock", !.bell = "Idle", !.sender = TRUE]
       \/ ffi' = [ffi EXCEPT !.life = "Stopped", !.alive = FALSE]
    /\ UNCHANGED <<mode, now, ep, js, fuel>>

\* pump takes the lock.
DriverLock ==
    /\ ffi.pc = "Lock"
    /\ IF ffi.life # "Running"
       THEN ffi' = [ffi EXCEPT !.pc = "Leave"] /\ ep' = ep
       ELSE /\ ffi' = [ffi EXCEPT !.pc = "Pump", !.was = (ffi.carry = <<>>)]
            /\ ep' = Begin(ep, "next_wake", 0, now + DriverPoll, now)
    /\ UNCHANGED <<mode, now, js, fuel>>

\* The edge that rings the bell.
Rings(was, carry, first) == was /\ carry # <<>>

\* pump, once next_wake has returned.
Pumped(f, y, first) ==
    LET heard == y.call.event \o SelectSeq(y.nat, LAMBDA ev : ev.key \notin f.cancelled) \o y.book
    IN  FoldLeft(LAMBDA w, g : [g EXCEPT !.cancelled = {}, !.pc = IF Rings(g.was, g.carry, first) THEN "Ring" ELSE "Lock"],
                 f, <<Ingest(f, heard)>>)

DriverPump ==
    /\ ffi.pc = "Pump" /\ ep.call.pc = "Done"
    /\ CASE ep.call.result = "Interrupted" -> ffi' = [ffi EXCEPT !.pc = "Spin"] /\ ep' = [ep EXCEPT !.call = NoCall]
         [] ep.call.result = "Error" -> ffi' = [ffi EXCEPT !.pc = "Failed"] /\ ep' = [ep EXCEPT !.call = NoCall]
         [] OTHER ->
              \E y \in {PollAll(ep, now)}, f \in {Ingest(ffi, ep.call.event)} :
                 IF y.call.result = "Error"
                 THEN /\ ffi' = [f EXCEPT !.pc = "Failed", !.muted = f.was /\ f.carry # <<>>]
                      /\ ep' = [y EXCEPT !.call = NoCall]
                 ELSE /\ ffi' = Pumped(f, y, ep.call.event)
                      /\ ep' = [y EXCEPT !.call = NoCall, !.nat = <<>>, !.book = <<>>]
    /\ UNCHANGED <<mode, now, js, fuel>>

\* After an interrupt the commands go first.
DriverSpin ==
    /\ ffi.pc = "Spin" /\ ffi.pending = 0
    /\ ffi' = [ffi EXCEPT !.pc = "Lock"]
    /\ UNCHANGED <<mode, now, ep, js, fuel>>

\* run, after pump failed: the lifecycle first, the report under another lock.
DriverFail ==
    /\ ffi.pc = "Failed"
    /\ ffi' = IF ffi.life = "Running" THEN [ffi EXCEPT !.pc = "Report", !.life = "Stopping"] ELSE [ffi EXCEPT !.pc = "Leave"]
    /\ UNCHANGED <<mode, now, ep, js, fuel>>

DriverReport ==
    /\ ffi.pc = "Report"
    /\ ffi' = [Ingest(ffi, <<[n |-> 0, tag |-> "DriverFailed", key |-> 0]>>)
               EXCEPT !.then = "Leave", !.pc = IF ffi.carry = <<>> THEN "Ring" ELSE "Leave"]
    /\ UNCHANGED <<mode, now, ep, js, fuel>>

\* fn ring, DoorbellSender: a full channel already says it.
DriverRing ==
    /\ ffi.pc = "Ring"
    /\ ffi' = [ffi EXCEPT !.token = TRUE, !.pc = ffi.then]
    /\ UNCHANGED <<mode, now, ep, js, fuel>>

\* ExitGuard: the sender goes before the lifecycle.
DriverLeave ==
    /\ ffi.pc \in {"Leave", "Left"}
    /\ ffi' = IF ffi.pc = "Leave" THEN [ffi EXCEPT !.sender = FALSE, !.pc = "Left"]
              ELSE [ffi EXCEPT !.alive = FALSE, !.life = "Stopped", !.running = FALSE, !.pc = "Gone"]
    /\ UNCHANGED <<mode, now, ep, js, fuel>>

\* spawn_doorbell: the doorbell thread calls back, and ends with its channel.
Bell ==
    /\ \/ ffi.bell = "Idle" /\ ffi.token /\ ffi' = [ffi EXCEPT !.token = FALSE, !.bell = "Calling"] /\ js' = js
       \/ ffi.bell = "Calling" /\ ffi' = [ffi EXCEPT !.bell = "Idle"] /\ js' = [js EXCEPT !.rings = @ + 1]
       \/ /\ ffi.bell = "Idle" /\ ~ffi.token /\ ~ffi.sender /\ ffi.pc # "Pump"
          /\ ffi' = [ffi EXCEPT !.bell = "Off"] /\ js' = js
    /\ UNCHANGED <<mode, now, ep, fuel>>

-----------------------------------------------------------------------------
(* crates/ffi-core/src/endpoint.rs: the commands, called from JavaScript *)

\* PendingCommand::new
JsCalls ==
    /\ IsSdk /\ js.todo # <<>> /\ ~js.calling
    /\ js' = [js EXCEPT !.calling = TRUE]
    /\ IF ffi.running THEN ffi' = [ffi EXCEPT !.pending = @ + 1] /\ ep' = Interrupt(ep) ELSE UNCHANGED <<ffi, ep>>
    /\ UNCHANGED <<mode, now, fuel>>

\* fn drain_events
DrainEvents(f) ==
    FoldLeft(LAMBDA w, g :
        LET notice == IF g.overflow > 0 THEN <<[n |-> 0, tag |-> "EventsDropped", key |-> 0]>> ELSE <<>>
            room == DrainLimit - Len(notice)
            batch == SubSeq(g.carry, 1, IF Len(g.carry) < room THEN Len(g.carry) ELSE room)
            over == {ev.key : ev \in {x \in Range(batch) : x.tag \in TerminalTags}}
        IN  [events |-> notice \o batch,
             f |-> [g EXCEPT !.carry = SubSeq(@, Len(batch) + 1, Len(@)), !.overflow = 0, !.sent = @ + Len(batch),
                             !.connects = @ \ over, !.cancelled = @ \ over]],
      f, <<SuppressCancelled(f, f.cancelled)>>)

\* fn cancel_connect
CancelNative(f, k) == SuppressCancelled([f EXCEPT !.connects = @ \ {k}, !.cancelled = @ \cup {k}], {k})

\* fn stop: the driver, if it runs, leaves by itself.
StopNative(f) ==
    CASE f.life = "Created" -> [f EXCEPT !.life = "Stopped", !.alive = FALSE]
      [] f.life = "Running" -> [f EXCEPT !.life = "Stopping"]
      [] OTHER -> f

\* What the call returns to JavaScript, which goes on from there.
Returned(x) == [x EXCEPT !.todo = Tail(@), !.calling = FALSE]

Command(c) ==
    LET f == [ffi EXCEPT !.pending = IF @ > 0 THEN @ - 1 ELSE @]
        x == Returned(js)
        k == c.key
    IN  CASE c.op = "drain" ->
               \E d \in {DrainEvents(f)} :
                  /\ ffi' = d.f /\ ep' = ep
                  /\ js' = [FoldLeft(EnqueueNative, DrainBatch(x, d.events = <<>>), d.events)
                            EXCEPT !.heard = @ \/ \E ev \in Range(d.events) : ev.tag \in ConnectTags /\ ev.key \in x.cancelled]
          [] c.op = "connect" /\ Accepting ->
               ffi' = [f EXCEPT !.connects = @ \cup {k}] /\ ep' = Connect(ep, k, k \in M.hopeless) /\ js' = RememberConnect(x, k, c.by = "connect")
          [] c.op = "cancel" /\ Accepting ->
               IF k \in ffi.connects
               THEN /\ ffi' = CancelNative(f, k) /\ ep' = CancelConnect(ep, k)
                    /\ js' = CancelConnectResult([x EXCEPT !.cancelled = @ \cup {k}], k)
               ELSE ffi' = f /\ ep' = ep /\ js' = CancelConnectResult(x, k)
          \* withOptions has settled by then: the error of cancelConnect leaves the promise alone.
          [] c.op = "cancel" /\ ~Accepting ->
               ffi' = f /\ ep' = ep /\ js' = [x EXCEPT !.promise[k] = IF c.by = "timer" /\ @ = "Pending" THEN "Stranded" ELSE @]
          [] c.op = "open" /\ Accepting ->
               ffi' = f /\ ep' = [ep EXCEPT !.streams = @ \cup {k}] /\ js' = [x EXCEPT !.opens[k] = "Pending"]
          [] c.op = "abandon" /\ Accepting -> ffi' = f /\ ep' = AbandonStream(ep, k) /\ js' = x
          [] c.op = "stop" -> ffi' = StopNative(f) /\ ep' = ep /\ js' = DrainStop(x)
          [] c.op = "open" /\ ~Accepting -> ffi' = f /\ ep' = ep /\ js' = [x EXCEPT !.opens[k] = "Rejected"]
          [] OTHER -> ffi' = f /\ ep' = ep /\ js' = x

\* The command has the lock.
JsReturns ==
    /\ js.calling /\ ffi.pc # "Pump"
    /\ Command(Head(js.todo))
    /\ UNCHANGED <<mode, now, fuel>>

-----------------------------------------------------------------------------
(* JavaScript: one task at a time, microtasks first *)

JsFree == IsSdk /\ ffi.pc # "Off" /\ js.todo = <<>> /\ js.flush # "Micro"

JsRing ==
    /\ JsFree /\ js.rings > 0
    /\ js' = DrainRing([js EXCEPT !.rings = @ - 1])
    /\ UNCHANGED <<mode, now, ep, ffi, fuel>>

JsDrain ==
    /\ JsFree /\ js.drain.run # "Off"
    /\ js' = DrainRun(js)
    /\ UNCHANGED <<mode, now, ep, ffi, fuel>>

JsFlush ==
    /\ IsSdk /\ js.todo = <<>> /\ js.flush # "No"
    /\ js' = Flush(js)
    /\ UNCHANGED <<mode, now, ep, ffi, fuel>>

\* What the application asks for: a method of the SDK, or a timer or an abort of one.
Asks(x, a) ==
    CASE a.op \in {"connect", "startConnect"} /\ x.attempts[a.key] = "None" /\ x.promise[a.key] = "None" ->
           [x EXCEPT !.todo = <<NativeCall("connect", a.key, a.op)>>]
      [] a.op = "waitConnectResult" -> WaitConnectResult(x, a.key)
      [] a.op = "cancelConnect" /\ (x.attempts[a.key] # "None" \/ x.promise[a.key] # "None") -> [x EXCEPT !.todo = <<NativeCall("cancel", a.key, "user")>>]
      [] a.op = "connectTimeout" /\ x.attempts[a.key] = "Waiting" /\ x.promise[a.key] = "Pending" ->
           [x EXCEPT !.todo = <<NativeCall("cancel", a.key, "timer")>>]
      [] a.op = "openStream" /\ x.opens[a.key] = "None" -> [x EXCEPT !.todo = <<NativeCall("open", a.key, "")>>]
      [] a.op = "openTimeout" -> ExpireOpen(x, a.key)
      [] a.op = "read" /\ x.opens[a.key] = "Resolved" -> [x EXCEPT !.st[a.key] = StreamRead(@)]
      [] a.op = "abandon" /\ x.st[a.key].open -> Abandons([x EXCEPT !.st[a.key] = StreamTerminal(@, FALSE)], {a.key})
      [] a.op = "close" -> Teardown(x)
      [] OTHER -> x

JsAsk(a) ==
    /\ JsFree /\ ~js.closed /\ fuel.asks[a] > 0 /\ M.asks[a].op # "none"
    /\ \E x \in {Asks(js, M.asks[a])} : x # js /\ js' = x
    /\ fuel' = [fuel EXCEPT !.asks[a] = @ - 1]
    /\ UNCHANGED <<mode, now, ep, ffi>>

-----------------------------------------------------------------------------
(* A program in Rust, the transport and the clock *)

Idle(e) == e.call.pc \in {"Idle", "Done"}

\* The application calls; close takes the endpoint away.
RustCall(a) ==
    /\ ~IsSdk /\ Idle(ep) /\ ep.call.op # "close" /\ fuel.asks[a] > 0
    /\ LET c == M.asks[a] IN
       ep' = CASE c.op = "poll" -> PollAll(ep, now)
               [] c.op = "connect" -> [Connect(ep, c.key, FALSE) EXCEPT !.call = NoCall]
               [] c.op = "cancel" -> [CancelConnect(ep, c.key) EXCEPT !.call = NoCall]
               [] c.op = "abandon" -> [AbandonStream(ep, c.key) EXCEPT !.call = NoCall]
               [] c.op = "take" -> [ep EXCEPT !.nat = <<>>, !.book = <<>>, !.call = NoCall]
               [] OTHER -> Begin(ep, c.op, c.key, now + c.for, now)
    /\ fuel' = [fuel EXCEPT !.asks[a] = @ - 1]
    /\ UNCHANGED <<mode, now, ffi, js>>

\* One turn of the call under way.
Turn ==
    /\ ep.call.pc \in {"Loop", "Woken"}
    /\ ep' = CallTurn(ep, now)
    /\ UNCHANGED <<mode, now, ffi, js, fuel>>

Wake ==
    /\ ep.call.pc = "Asleep"
    /\ ep' \in Wakes(ep, now)
    /\ UNCHANGED <<mode, now, ffi, js, fuel>>

\* Another thread of a Rust program interrupts the wait.
RustInterrupt ==
    /\ ~IsSdk /\ fuel.interrupts > 0
    /\ ep' = Interrupt(ep)
    /\ fuel' = [fuel EXCEPT !.interrupts = @ - 1]
    /\ UNCHANGED <<mode, now, ffi, js>>

\* A transport has something: each source in its own order.
Feed(i) ==
    /\ fuel.fed[i] < Len(M.feeds[i])
    /\ LET ev == M.feeds[i][fuel.fed[i] + 1] IN
       /\ OfStream(ev) => (ev.key \in ep.streams \/ fuel.fed[i] > 0)
       /\ ev.tag = "EndpointError" => (ev.key \in ep.streams \/ (ev.key = 0 /\ ep.streams # {}))
       /\ ev.tag = "Closed" => ep.conns[ev.key] # "None"
       /\ Claimed(ev) /\ IsSdk => ev.key \in ep.attempts
       /\ ep' = Arrived(ep, ev.tag, ev.key)
    /\ fuel' = [fuel EXCEPT !.fed[i] = @ + 1]
    /\ UNCHANGED <<mode, now, ffi, js>>

Fault ==
    /\ fuel.faults > 0 /\ ep.faults = 0
    /\ ep' = [ep EXCEPT !.faults = 1]
    /\ fuel' = [fuel EXCEPT !.faults = @ - 1]
    /\ UNCHANGED <<mode, now, ffi, js>>

Advance ==
    /\ now < M.horizon
    /\ now' = now + 1
    /\ UNCHANGED <<mode, ep, ffi, js, fuel>>

Init ==
    /\ mode \in DOMAIN Modes
    /\ now = 0
    /\ \E m \in {Modes[mode]} :
         /\ ep = NewEndpoint(m.drivers, m.dual, m.timers, m.conns, m.mute)
         /\ js = NewSdk(m.throws)
         /\ fuel = [work |-> m, asks |-> [a \in DOMAIN m.asks |-> m.asks[a].times], fed |-> [i \in DOMAIN m.feeds |-> 0],
                    faults |-> m.faults, interrupts |-> m.interrupts]
    /\ ffi = NewFfi

Next ==
    \/ Start \/ DriverLock \/ DriverPump \/ DriverSpin \/ DriverFail \/ DriverReport \/ DriverRing \/ DriverLeave \/ Bell
    \/ JsCalls \/ JsReturns \/ JsRing \/ JsDrain \/ JsFlush
    \/ \E a \in DOMAIN M.asks : JsAsk(a) \/ RustCall(a)
    \/ Turn \/ Wake \/ RustInterrupt \/ Fault \/ Advance
    \/ \E i \in DOMAIN M.feeds : Feed(i)

Spec == Init /\ [][Next]_vars

-----------------------------------------------------------------------------
(* Properties *)

\* Where the events are that nobody has had yet, oldest first.
Waiting == ep.pending \o ep.call.skipped \o ep.buffer \o ep.arrivals

TypeOK ==
    /\ mode \in DOMAIN Modes /\ now \in 0..M.horizon
    /\ ep.call.pc \in {"Idle", "Loop", "Woken", "Asleep", "Done"} /\ ep.tokens \subseteq Members
    /\ ep.out \cup ep.lost \cup ep.dropped \subseteq 1..ep.next
    /\ ffi.life \in {"Created", "Running", "Stopping", "Stopped"} /\ ffi.pending \in 0..1
    /\ js.promise \in [ConnectIds -> {"None", "Pending", "Resolved", "Rejected", "Stranded"}]

\* The polls that a call may make past its deadline.
LatePolls == IF ep.call.op = "wait_peer_ready" /\ ~ep.drivers THEN 2 ELSE 1

\* The waits of std/mod.rs and driver.rs lose no event and keep the order, whatever they
\* skip, set aside or give back: each event the transport raised waits in one place, was
\* handed over once, belongs to an agent or an abandoned stream, was lost with a tick or a
\* close that failed, or was left in the endpoint that close ended (what focused waits had
\* set aside, and what the end of its drain found unread).  And no call goes on polling past
\* its deadline: one poll, or two of run_until, whose wait may wake past it and find an
\* event, after which phase 2 polls once more (driver.rs 513-553).
EventsKept ==
    /\ \A w \in {[i \in DOMAIN Waiting |-> Waiting[i].n]} :
         /\ \A i \in 1..(Len(w) - 1) : w[i] < w[i + 1]
         /\ 1..(ep.next - 1) = Range(w) \cup ep.out \cup ep.lost \cup ep.dropped
         /\ Range(w) \cap (ep.out \cup ep.lost \cup ep.dropped) = {}
    /\ (ep.lost \cup ep.dropped) \cap ep.out = {}
    /\ ep.ordered
    /\ ep.call.late <= LatePolls
    /\ ep.call.op = "close" /\ ep.call.pc = "Done" => ep.pending = <<>> /\ ep.buffer = <<>>

\* What a sleeping call waits for and already has.
AsleepOn ==
    CASE ep.call.op = "wait_path" -> NatAt(ep, FirstPath \cup {"ConnectFailed"}, ep.call.key)
      [] ep.call.op = "next_nat_event" -> DOMAIN ep.nat
      [] ep.call.op = "next_wake" -> DOMAIN (ep.nat \o ep.book)
      [] ep.call.op = "wait_peer_ready" -> PendingReady(ep, ep.call.key)
      [] OTHER -> {}

\* A call never sleeps on what it waits for (run_until, wait_path, next_nat_event,
\* wait_peer_ready, and for next_wake anything an agent has queued); an event the book took
\* back in the same tick may hide one of the NAT agent's.  Nor does it sleep past a timer of
\* an agent, one that is due already being waited for one unit (driver_step_deadline), or
\* past its deadline.  And a close that succeeds leaves nobody connected, a connection that
\* came up while it drained included.
WaitsEnd ==
    /\ ep.call.pc = "Asleep" =>
         /\ AsleepOn = {} \/ ep.masked
         /\ ep.buffer = <<>>
         /\ ep.call.step <= ep.call.deadline
         /\ (ep.drivers /\ ep.call.op # "close") =>
              \A timer \in ep.timers : ep.call.step <= timer.at \/ ep.call.step <= now + 1
    /\ ep.call.op = "close" /\ ep.call.result = "Closed" => \A c \in DOMAIN ep.conns : ep.conns[c] # "Up"

\* What the driver puts in an empty carry is announced, or the bell is on its way, until
\* the drain comes for it; the statistics account for every event; and a connection
\* attempt that was cancelled is not heard of again (driver.rs pump, endpoint.rs
\* cancel_connect).  A poll that fails after the wake's event was taken in is the
\* exception: nothing rings then.
Announced ==
    \/ ffi.token \/ ffi.bell = "Calling" \/ js.rings > 0 \/ js.drain.pending \/ js.drain.run # "Off"
    \/ js.drain.stopped \/ ffi.pc = "Ring" \/ ffi.muted

CarryAnnounced ==
    /\ ffi.carry # <<>> => Announced
    /\ ffi.conv = ffi.sent + ffi.gone + Len(ffi.carry)
    /\ ~js.heard

\* Nothing of the event path is under way.
Quiet ==
    /\ ffi.pc = "Gone" \/ ep.call.pc = "Asleep"
    /\ ep.arrivals = <<>> /\ ep.faults = 0 /\ ep.tokens = {} /\ ffi.carry = <<>>
    /\ ~ffi.token /\ ffi.bell # "Calling" /\ js.rings = 0 /\ js.drain.run = "Off" /\ js.queue = <<>> /\ js.flush = "No"
    /\ js.todo = <<>>

\* What a transport has raised with one of the tags and this key.
Fed(key, tags) == UNION {{<<i, j>> : j \in {x \in 1..fuel.fed[i] : M.feeds[i][x].tag \in tags /\ M.feeds[i][x].key = key}} :
                         i \in DOMAIN M.feeds}
Missed(key, tags) == \E ev \in ffi.missed : ev.key = key /\ ev.tag \in tags

\* A read that is pending has nothing to return.
ReadsServed(s) ==
    js.st[s].reads > 0 =>
        /\ js.st[s].fifo = <<>> /\ js.st[s].recv = "receiving"
        /\ Fed(s, {"StreamFin", "StreamClosed"}) # {} => Missed(s, {"StreamFin", "StreamClosed"})
        /\ js.overflowed \/ Missed(s, {"StreamData"}) \/ Len(js.st[s].got) = Cardinality(Fed(s, {"StreamData"}))

OpenAnswers == {"StreamReady", "StreamClosed", "EndpointError"}

\* A promise of the SDK is not forgotten.  When the event path is at rest, with the carry
\* having dropped nothing that concerns it: a connect still pending has had no answer from
\* the NAT agent; a stream still opening has had none, ready, closed or an error that means
\* it alone (#correlateOpenError leaves an ambiguous one to the timeout); a read still
\* pending has been given all the data that came, and neither the end of the stream nor of
\* its connection did; and an end of stream was told after all the data.  After close
\* nothing is pending.  A connect whose timeout met a stopped endpoint is the exception
\* (Stranded), and a driver that failed between filling an empty carry and ringing (muted).
PromisesSettle ==
    /\ js.closed => /\ \A k \in ConnectIds : js.promise[k] # "Pending"
                    /\ \A s \in StreamIds : js.opens[s] # "Pending" /\ js.st[s].reads = 0
    /\ Quiet /\ IsSdk /\ ~ffi.muted =>
         /\ \A k \in ConnectIds : js.promise[k] = "Pending" =>
              \/ k \in ep.attempts /\ Fed(k, {"NatPath", "NatRelayed", "NatFailed"}) = {}
              \/ Missed(k, FirstPath \cup {"ConnectFailed"})
         /\ \A s \in StreamIds : js.opens[s] = "Pending" =>
              s \in ep.streams /\ (Fed(s, OpenAnswers) = {} \/ Missed(s, OpenAnswers))
         /\ \A s \in StreamIds : ReadsServed(s)
    /\ \A s \in StreamIds : js.st[s].ended = "Eof" /\ ~js.overflowed /\ ffi.missed = {} =>
         Len(js.st[s].got) = Cardinality(Fed(s, {"StreamData"}))

\* The events of the endpoint reach whoever reads them: each is in one place, in order, and
\* handed over once, and what waits in the carry is announced, but for the events that a
\* failing tick, a close or a muted driver takes with it, as the two parts say.
EventsReach == EventsKept /\ CarryAnnounced
=============================================================================
