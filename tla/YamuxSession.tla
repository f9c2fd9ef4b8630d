---------------------------- MODULE YamuxSession ----------------------------
(***************************************************************************)
(* One end of a Yamux session (crates/yamux/src/session.rs): every method  *)
(* as an operator from the session, a record, to its next state.           *)
(*                                                                         *)
(* A frame is a record, its flags a set of names; encoding and the         *)
(* incremental decoder, which only cuts the byte stream at frame           *)
(* boundaries, are left out.  The nonce of pings and the code of GoAway    *)
(* are dropped.  A payload is a sequence of bytes.                         *)
(***************************************************************************)
EXTENDS Integers, Sequences, FiniteSets, SequencesExt

CONSTANTS
    None,
    Ids,                        \* stream ids, the reserved 0 excluded
    DEFAULT_RECEIVE_WINDOW,
    KEEPALIVE_INTERVAL,
    U32_MAX,
    ReceiveWindow, MaxFrameLen, MaxBufferedSend, MaxTotalBufferedSend,  \* YamuxConfig
    MaxStreams                  \* YamuxConfig::max_streams of each end

Roles == {"Client", "Server"}

\* struct StreamState
StreamState ==
    [ locally_opened : BOOLEAN,
      pending_open : {None, "SYN", "ACK"},
      acknowledged : BOOLEAN,
      send_window : Nat,
      receive_window : Nat,
      delivered_since_update : Nat,
      pending_credit : Nat,
      send_buffer : Seq(Seq(Nat)),
      buffered_send : Nat,
      close_pending : BOOLEAN,
      local_write_closed : BOOLEAN,
      remote_write_closed : BOOLEAN ]

ASSUME YamuxAssumption ==
    /\ None \notin Nat \cup {"SYN", "ACK"} \cup StreamState
    /\ U32_MAX \in Nat
    /\ Ids \subseteq 1..U32_MAX
    /\ DEFAULT_RECEIVE_WINDOW \in Nat \ {0}
    /\ ReceiveWindow \in DEFAULT_RECEIVE_WINDOW..U32_MAX
    /\ MaxFrameLen \in Nat \ {0}
    /\ MaxStreams \in [Roles -> Nat]
    /\ {MaxBufferedSend, MaxTotalBufferedSend, KEEPALIVE_INTERVAL} \subseteq Nat

Smaller(a, b) == IF a <= b THEN a ELSE b

\* struct Frame, and YamuxOutput: a frame to send or an event for the host.
DataFrame(s, flags, payload) ==
    [type |-> "Data", stream |-> s, flags |-> flags, value |-> Len(payload), payload |-> payload]
ControlFrame(type, s, flags, value) ==
    [type |-> type, stream |-> s, flags |-> flags, value |-> value, payload |-> <<>>]
WindowUpdate(s, flags, value) == ControlFrame("WindowUpdate", s, flags, value)
PingFrame(flag)               == ControlFrame("Ping", 0, {flag}, 0)
GoAwayFrame                   == ControlFrame("GoAway", 0, {}, 0)

Outbound(frame)    == [output |-> "Outbound", frame |-> frame]
Notice(kind, s)    == [output |-> kind, stream |-> s, data |-> <<>>]
DataNotice(s, b)   == [output |-> "Data", stream |-> s, data |-> b]

\* StreamState::outbound and StreamState::inbound
NewStream(local, send_window) ==
    [ locally_opened         |-> local,
      pending_open           |-> IF local THEN "SYN" ELSE "ACK",
      acknowledged           |-> FALSE,
      send_window            |-> send_window,
      receive_window         |-> DEFAULT_RECEIVE_WINDOW,
      delivered_since_update |-> 0,
      pending_credit         |-> ReceiveWindow - DEFAULT_RECEIVE_WINDOW,
      send_buffer            |-> <<>>,
      buffered_send          |-> 0,
      close_pending          |-> FALSE,
      local_write_closed     |-> FALSE,
      remote_write_closed    |-> FALSE ]

\* fn take_open_flag
OpenFlag(st) == IF st.pending_open = None THEN {} ELSE {st.pending_open}
OpenFlagTaken(st) ==
    [st EXCEPT !.pending_open = None,
               !.acknowledged = @ \/ st.pending_open = "ACK"]

HasDeferredControl(st) == st.pending_open # None \/ st.pending_credit # 0

\* struct YamuxSession
NewSession(role) ==
    [ role                |-> role,
      streams             |-> [s \in Ids |-> None],
      next_stream_id      |-> IF role = "Client" THEN 1 ELSE 2,
      pending             |-> <<>>,
      total_buffered_send |-> 0,
      failed              |-> FALSE,
      local_go_away       |-> FALSE,
      remote_go_away      |-> FALSE,
      last_activity       |-> None,
      dirty               |-> FALSE ]

Open(y)   == {s \in Ids : y.streams[s] # None}
Active(y) == ~(y.failed \/ y.local_go_away \/ y.remote_go_away)

\* fn queue_frames marks the session dirty, an event does not.
QueueFrames(y, frames) ==
    [y EXCEPT !.pending = @ \o [i \in DOMAIN frames |-> Outbound(frames[i])],
              !.dirty = @ \/ frames # <<>>]
QueueFrame(y, frame) == QueueFrames(y, <<frame>>)
Notify(y, notice)    == [y EXCEPT !.pending = Append(@, notice)]
SetStream(y, s, st)  == [y EXCEPT !.streams[s] = st]

\* fn remove_stream
RemoveStream(y, s, emit) ==
    LET gone == [y EXCEPT !.total_buffered_send = @ - y.streams[s].buffered_send,
                          !.streams[s] = None]
    IN  IF y.streams[s] = None THEN y
        ELSE IF emit THEN Notify(gone, Notice("StreamClosed", s)) ELSE gone

\* In the order of the ids, as BTreeMap::keys gives them.
ClosedNotices(y) ==
    LET nth(i) == CHOOSE s \in Open(y) : Cardinality({x \in Open(y) : x <= s}) = i
    IN  [i \in 1..Cardinality(Open(y)) |-> Notice("StreamClosed", nth(i))]

\* fn close_all_streams
CloseAllStreams(y) ==
    [y EXCEPT !.streams = [s \in Ids |-> None],
              !.total_buffered_send = 0,
              !.pending = @ \o ClosedNotices(y)]

\* fn fail_protocol: what was queued is replaced.
FailProtocol(y) ==
    CloseAllStreams([y EXCEPT !.failed = TRUE,
                              !.dirty = TRUE,
                              !.pending = <<Outbound(GoAwayFrame)>>])

\* fn queue_reset_for_unknown
ResetUnknown(y, s) == QueueFrame(y, DataFrame(s, {"RST"}, <<>>))

-----------------------------------------------------------------------------
(* What the host asks for. *)

\* fn open_stream; ids stop at the largest u32.
OpenStreamAccepted(y) ==
    /\ Active(y)
    /\ Cardinality(Open(y)) < MaxStreams[y.role]
    /\ y.next_stream_id \in Ids

OpenStream(y) ==
    [y EXCEPT !.streams[y.next_stream_id] = NewStream(TRUE, DEFAULT_RECEIVE_WINDOW),
              !.next_stream_id = IF @ + 2 > U32_MAX THEN None ELSE @ + 2]

\* fn send is all or nothing: its part beyond the window must fit both limits.
Immediate(st, bytes) == Smaller(Len(bytes), st.send_window)
Excess(st, bytes)    == Len(bytes) - Immediate(st, bytes)

SendAccepted(y, s, bytes) ==
    /\ Active(y)
    /\ y.streams[s] # None
    /\ ~y.streams[s].local_write_closed /\ ~y.streams[s].close_pending
    /\ y.streams[s].buffered_send + Excess(y.streams[s], bytes) <= MaxBufferedSend
    /\ y.total_buffered_send + Excess(y.streams[s], bytes) <= MaxTotalBufferedSend

\* Bytes cut into frames of at most MaxFrameLen; the first carries the open flag.
Pieces(bytes) ==
    [i \in 1..((Len(bytes) + MaxFrameLen - 1) \div MaxFrameLen) |->
        SubSeq(bytes, (i - 1) * MaxFrameLen + 1, Smaller(i * MaxFrameLen, Len(bytes)))]

DataFrames(s, st, bytes) ==
    LET pieces == IF bytes = <<>> THEN <<<<>>>> ELSE Pieces(bytes)
    IN  [i \in DOMAIN pieces |-> DataFrame(s, IF i = 1 THEN OpenFlag(st) ELSE {}, pieces[i])]

SendBytes(y, s, bytes) ==
    LET st   == y.streams[s]
        n    == Immediate(st, bytes)
        rest == SubSeq(bytes, n + 1, Len(bytes))
        st1  == [st EXCEPT !.send_window = @ - n,
                           !.send_buffer = IF rest = <<>> THEN @ ELSE Append(@, rest),
                           !.buffered_send = @ + Len(rest)]
        y1   == [SetStream(y, s, st1) EXCEPT !.total_buffered_send = @ + Len(rest)]
    IN  IF n = 0 /\ ~(bytes = <<>> /\ st.pending_open # None)
        THEN y1
        ELSE QueueFrames(SetStream(y1, s, OpenFlagTaken(st1)),
                         DataFrames(s, st, SubSeq(bytes, 1, n)))

\* A mutant of CloseWrite: the FIN does not wait for the buffer.
CloseWriteAtOnce(y, s) ==
    LET st   == y.streams[s]
        fin  == DataFrame(s, OpenFlag(st) \cup {"FIN"}, <<>>)
        shut == [OpenFlagTaken(st) EXCEPT !.local_write_closed = TRUE]
        y1   == QueueFrame(SetStream(y, s, shut), fin)
    IN  IF st.local_write_closed \/ st.close_pending THEN y
        ELSE IF st.remote_write_closed THEN RemoveStream(y1, s, TRUE) ELSE y1

\* fn close_write: the FIN waits for what is buffered.
CloseWrite(y, s) ==
    LET st   == y.streams[s]
        fin  == DataFrame(s, OpenFlag(st) \cup {"FIN"}, <<>>)
        shut == [OpenFlagTaken(st) EXCEPT !.local_write_closed = TRUE]
        y1   == QueueFrame(SetStream(y, s, shut), fin)
    IN  CASE st.local_write_closed \/ st.close_pending -> y
          [] ~(st.local_write_closed \/ st.close_pending) /\ st.buffered_send # 0 ->
                SetStream(y, s, [st EXCEPT !.close_pending = TRUE])
          [] OTHER -> IF st.remote_write_closed THEN RemoveStream(y1, s, TRUE) ELSE y1

\* fn reset
Reset(y, s) ==
    Notify(QueueFrame(RemoveStream(y, s, FALSE), DataFrame(s, {"RST"}, <<>>)),
           Notice("StreamClosed", s))

\* A mutant of GoAway: the streams are left to themselves.
GoAwayKeepsStreams(y) == QueueFrame([y EXCEPT !.local_go_away = TRUE], GoAwayFrame)

\* fn go_away
GoAway(y) == CloseAllStreams(QueueFrame([y EXCEPT !.local_go_away = TRUE], GoAwayFrame))

\* fn poll: the keepalive timer, restarted by any frame since the last poll.
Poll(y, now) ==
    LET last == IF y.dirty \/ y.last_activity = None THEN now ELSE y.last_activity
        y1   == [y EXCEPT !.last_activity = last, !.dirty = FALSE]
    IN  IF now - last >= KEEPALIVE_INTERVAL
        THEN [QueueFrame(y1, PingFrame("SYN")) EXCEPT !.last_activity = now, !.dirty = FALSE]
        ELSE y1

\* fn next_deadline
NextDeadline(y) ==
    IF ~Active(y) \/ y.last_activity = None THEN None ELSE y.last_activity + KEEPALIVE_INTERVAL

-----------------------------------------------------------------------------
(* What arrives. *)

\* fn valid_remote_stream_id
ValidRemoteStreamId(y, s) == s # 0 /\ (s % 2 = 0) = (y.role = "Client")

\* The checks a SYN goes through before the stream exists.
SynIsError(y, s) == ~ValidRemoteStreamId(y, s) \/ y.streams[s] # None

Accepted(y, s, send_window) ==
    Notify(SetStream(y, s, NewStream(FALSE, send_window)), Notice("IncomingStream", s))

Acknowledge(st, f) == [st EXCEPT !.acknowledged = @ \/ ("ACK" \in f.flags /\ st.locally_opened)]

\* The FIN of a frame, and the end of a stream closed on both sides.
Finish(y, s, f) ==
    LET st   == y.streams[s]
        fin  == "FIN" \in f.flags /\ ~st.remote_write_closed
        st1  == [st EXCEPT !.remote_write_closed = @ \/ fin]
        y1   == SetStream(y, s, st1)
        y2   == IF fin THEN Notify(y1, Notice("RemoteWriteClosed", s)) ELSE y1
    IN  IF st1.remote_write_closed /\ st1.local_write_closed THEN RemoveStream(y2, s, TRUE) ELSE y2

\* A mutant of CreditDue: one byte early.
CreditDueEarly(st, n) == st.delivered_since_update + n >= ReceiveWindow \div 2

\* More than half a window was delivered since the last update.
CreditDue(st, n) == st.delivered_since_update + n > ReceiveWindow \div 2

\* The body of fn on_data on a stream that exists.
Receive(y, f) ==
    LET s   == f.stream
        st  == Acknowledge(y.streams[s], f)
        n   == Len(f.payload)
        due == CreditDue(st, n)
        st1 == [st EXCEPT !.receive_window = @ - n,
                          !.delivered_since_update = IF due THEN 0 ELSE @ + n,
                          !.pending_credit = IF due THEN @ + st.delivered_since_update + n ELSE @]
        y1  == SetStream(y, s, st1)
    IN  IF (st.remote_write_closed /\ n # 0) \/ n > st.receive_window
        THEN FailProtocol(y)
        ELSE Finish(IF n = 0 THEN y1 ELSE Notify(y1, DataNotice(s, f.payload)), s, f)

\* fn on_data
OnData(y, f) ==
    LET s == f.stream
    IN  CASE "RST" \in f.flags -> RemoveStream(y, s, TRUE)
          [] "RST" \notin f.flags /\ "SYN" \in f.flags ->
                IF SynIsError(y, s) THEN FailProtocol(y)
                ELSE IF Cardinality(Open(y)) >= MaxStreams[y.role] THEN ResetUnknown(y, s)
                ELSE Receive(Accepted(y, s, DEFAULT_RECEIVE_WINDOW), f)
          [] OTHER -> IF y.streams[s] = None THEN ResetUnknown(y, s) ELSE Receive(y, f)

\* One turn of the loop of fn flush_buffered: a frame from the oldest chunk.
FlushOne(acc, i) ==
    LET st   == acc.st
        head == Head(st.send_buffer)
        n    == Smaller(Smaller(Len(head), st.send_window), MaxFrameLen)
        rest == SubSeq(head, n + 1, Len(head))
    IN  IF st.send_window = 0 \/ st.send_buffer = <<>>
        THEN acc
        ELSE [st     |-> [OpenFlagTaken(st) EXCEPT
                            !.send_window = @ - n,
                            !.buffered_send = @ - n,
                            !.send_buffer = IF rest = <<>> THEN Tail(@) ELSE <<rest>> \o Tail(@)],
              frames |-> Append(acc.frames,
                                DataFrame(acc.stream, OpenFlag(st), SubSeq(head, 1, n))),
              stream |-> acc.stream]

\* fn flush_buffered: as much of the buffer as the window allows, then the FIN
\* that waited for it.  Every turn takes at least one byte.
FlushBuffered(y, s) ==
    LET st   == y.streams[s]
        done == FoldLeft(FlushOne, [st |-> st, frames |-> <<>>, stream |-> s],
                         [i \in 1..st.buffered_send |-> i])
        ends == done.st.send_buffer = <<>> /\ done.st.close_pending
        st1  == IF ends THEN [OpenFlagTaken(done.st) EXCEPT !.close_pending = FALSE,
                                                            !.local_write_closed = TRUE]
                ELSE done.st
        fin  == IF ends THEN <<DataFrame(s, OpenFlag(done.st) \cup {"FIN"}, <<>>)>> ELSE <<>>
        y1   == QueueFrames([SetStream(y, s, st1) EXCEPT
                                !.total_buffered_send = @ - (st.buffered_send - st1.buffered_send)],
                            done.frames \o fin)
    IN  IF ends /\ st.remote_write_closed THEN RemoveStream(y1, s, TRUE) ELSE y1

\* A mutant of Credited: the buffer waits for the next write.
CreditedUnflushed(y, f) ==
    Finish(SetStream(y, f.stream, Acknowledge(y.streams[f.stream], f)), f.stream, f)

\* The body of fn on_window_update on a stream that exists.
Credited(y, f) ==
    LET s  == f.stream
        y1 == FlushBuffered(SetStream(y, s, Acknowledge(y.streams[s], f)), s)
    IN  IF y1.streams[s] = None THEN y1 ELSE Finish(y1, s, f)

\* fn on_window_update
OnWindowUpdate(y, f) ==
    LET s == f.stream
    IN  CASE "RST" \in f.flags -> RemoveStream(y, s, TRUE)
          [] "RST" \notin f.flags /\ "SYN" \in f.flags ->
                IF SynIsError(y, s) THEN FailProtocol(y)
                ELSE IF Cardinality(Open(y)) >= MaxStreams[y.role] THEN ResetUnknown(y, s)
                ELSE IF DEFAULT_RECEIVE_WINDOW + f.value > U32_MAX THEN FailProtocol(y)
                ELSE Credited(Accepted(y, s, DEFAULT_RECEIVE_WINDOW + f.value), f)
          [] OTHER ->
                IF y.streams[s] = None THEN ResetUnknown(y, s)
                ELSE IF y.streams[s].send_window + f.value > U32_MAX THEN FailProtocol(y)
                ELSE Credited([y EXCEPT !.streams[s].send_window = @ + f.value], f)

\* fn process_frame, with on_ping and the GoAway arm.
ProcessFrame(y, f) ==
    CASE f.type = "Data" -> OnData(y, f)
      [] f.type = "WindowUpdate" -> OnWindowUpdate(y, f)
      [] f.type = "Ping" -> IF f.flags = {"SYN"} THEN QueueFrame(y, PingFrame("ACK")) ELSE y
      [] f.type = "GoAway" ->
            CloseAllStreams(Notify([y EXCEPT !.remote_go_away = TRUE],
                                   Notice("GoAwayReceived", 0)))

\* fn handle_data, one frame of its loop.  A session that failed or went away
\* refuses the bytes, and drops those behind a GoAway.
HandleFrame(y, f) ==
    IF Active(y) THEN [ProcessFrame(y, f) EXCEPT !.dirty = TRUE] ELSE y

\* fn materialize_deferred_control, for the lowest stream that has any.
MaterializeDeferredControl(y) ==
    LET deferred == {s \in Open(y) : HasDeferredControl(y.streams[s])}
        s  == CHOOSE x \in deferred : \A z \in deferred : x <= z
        st == y.streams[s]
        v  == Smaller(st.pending_credit, U32_MAX)
    IN  IF ~Active(y) \/ deferred = {} THEN y
        ELSE QueueFrame(SetStream(y, s, [OpenFlagTaken(st) EXCEPT
                                            !.pending_credit = @ - v,
                                            !.receive_window = @ + v]),
                        WindowUpdate(s, OpenFlag(st), v))

\* fn poll_output makes up a control frame only when nothing is queued.
Refill(y) == IF y.pending = <<>> THEN MaterializeDeferredControl(y) ELSE y
=============================================================================
