------------------------------- MODULE Yamux -------------------------------
(***************************************************************************)
(* A client and a server that run YamuxSession over a connection: two      *)
(* reliable FIFO byte streams that carry frames in both directions.  The   *)
(* hosts open, write, half-close and reset streams, terminate the session, *)
(* drive the keepalive timer, and drain outputs at their own pace.         *)
(*                                                                         *)
(* The k-th byte a host writes on a stream is the number k, so that loss,  *)
(* duplication and reordering show.                                        *)
(***************************************************************************)
EXTENDS YamuxSession

CONSTANT Workloads   \* what the hosts may do, one of which an execution has

(* A workload: which calls each host uses; whether a host drains all outputs before
   it calls again, as the drain_yamux of crates/secure-mux does; the bounds on the
   bytes per send, on the bytes per stream and direction, and on the clock. *)
Workload ==
    [ calls      : [Roles -> SUBSET {"open", "send", "close", "reset", "goaway", "poll"}],
      DrainFirst : BOOLEAN,
      MaxSend    : Nat,
      MaxBytes   : Nat,
      MaxNow     : Nat ]

ASSUME WorkloadAssumption == \A w \in Workloads : w \in Workload

VARIABLES
    sess,      \* [Roles -> session]
    wire,      \* [Roles -> Seq(frame)]: sent by that end, not yet received
    accepted,  \* [Roles -> [Ids -> Nat]]: bytes the session took from its host
    got,       \* [Roles -> [Ids -> Seq(byte)]]: bytes the host received
    seen,      \* [Roles -> [Ids -> HostViews]]: what the host knows of a stream
    aborted,   \* streams some host reset, or cut off with the session
    now,
    work       \* the workload

vars == <<sess, wire, accepted, got, seen, aborted, now, work>>

HostViews == {"none", "open", "eof", "closed"}

Other(e) == IF e = "Client" THEN "Server" ELSE "Client"

Init ==
    /\ sess = [e \in Roles |-> NewSession(e)]
    /\ wire = [e \in Roles |-> <<>>]
    /\ accepted = [e \in Roles |-> [s \in Ids |-> 0]]
    /\ got = [e \in Roles |-> [s \in Ids |-> <<>>]]
    /\ seen = [e \in Roles |-> [s \in Ids |-> "none"]]
    /\ aborted = {}
    /\ now = 0
    /\ work \in Workloads

Becomes(e, y) == sess' = [sess EXCEPT ![e] = y]

\* The host is free to call into its session.
Calls(e) == work.DrainFirst => Refill(sess[e]).pending = <<>>

Uses(e, call) == call \in work.calls[e] /\ Calls(e)

HostOpens(e) ==
    /\ Uses(e, "open")
    /\ OpenStreamAccepted(sess[e])
    /\ Becomes(e, OpenStream(sess[e]))
    /\ seen' = [seen EXCEPT ![e][sess[e].next_stream_id] = "open"]
    /\ UNCHANGED <<wire, accepted, got, aborted, now, work>>

HostSends(e, s, n) ==
    LET bytes == [i \in 1..n |-> accepted[e][s] + i]
    IN  /\ Uses(e, "send")
        /\ accepted[e][s] + n <= work.MaxBytes
        /\ SendAccepted(sess[e], s, bytes)
        /\ Becomes(e, SendBytes(sess[e], s, bytes))
        /\ accepted' = [accepted EXCEPT ![e][s] = @ + n]
        /\ UNCHANGED <<wire, got, seen, aborted, now, work>>

OnOpenStream(e, s, call) ==
    /\ Uses(e, call)
    /\ Active(sess[e])
    /\ sess[e].streams[s] # None

HostCloses(e, s) ==
    /\ OnOpenStream(e, s, "close")
    /\ Becomes(e, CloseWrite(sess[e], s))
    /\ UNCHANGED <<wire, accepted, got, seen, aborted, now, work>>

HostResets(e, s) ==
    /\ OnOpenStream(e, s, "reset")
    /\ Becomes(e, Reset(sess[e], s))
    /\ aborted' = aborted \cup {s}
    /\ UNCHANGED <<wire, accepted, got, seen, now, work>>

HostGoesAway(e) ==
    /\ Uses(e, "goaway")
    /\ ~sess[e].local_go_away /\ ~sess[e].failed
    /\ Becomes(e, GoAway(sess[e]))
    /\ aborted' = Ids
    /\ UNCHANGED <<wire, accepted, got, seen, now, work>>

HostPolls(e, t) ==
    /\ Uses(e, "poll")
    /\ Active(sess[e])
    /\ Becomes(e, Poll(sess[e], t))
    /\ now' = t
    /\ UNCHANGED <<wire, accepted, got, seen, aborted, work>>

\* What a host makes of an output.
See(view, notice) ==
    CASE notice.output = "IncomingStream"    -> "open"
      [] notice.output = "RemoteWriteClosed" -> "eof"
      [] notice.output = "StreamClosed"      -> "closed"
      [] OTHER -> view

\* fn poll_output: a frame goes to the connection, a notice to the host.
PollOutput(e) ==
    LET y    == Refill(sess[e])
        head == Head(y.pending)
    IN  /\ y.pending # <<>>
        /\ Becomes(e, [y EXCEPT !.pending = Tail(@)])
        /\ IF head.output = "Outbound"
           THEN wire' = [wire EXCEPT ![e] = Append(@, head.frame)] /\ UNCHANGED <<got, seen>>
           ELSE /\ UNCHANGED wire
                /\ IF head.stream = 0
                   THEN UNCHANGED <<got, seen>>
                   ELSE /\ got' = [got EXCEPT ![e][head.stream] = @ \o head.data]
                        /\ seen' = [seen EXCEPT ![e][head.stream] = See(@, head)]
        /\ UNCHANGED <<accepted, aborted, now, work>>

\* One call can hand over several frames, so this one does not wait for a drain.
FrameArrives(e) ==
    /\ wire[Other(e)] # <<>>
    /\ wire' = [wire EXCEPT ![Other(e)] = Tail(@)]
    /\ Becomes(e, HandleFrame(sess[e], Head(wire[Other(e)])))
    /\ UNCHANGED <<accepted, got, seen, aborted, now, work>>

Next ==
    \E e \in Roles :
        \/ HostOpens(e)
        \/ \E s \in Ids :
            \/ \E n \in 0..work.MaxSend : HostSends(e, s, n)
            \/ HostCloses(e, s)
            \/ HostResets(e, s)
        \/ HostGoesAway(e)
        \/ \E t \in now..work.MaxNow : HostPolls(e, t)
        \/ PollOutput(e)
        \/ FrameArrives(e)

Spec == Init /\ [][Next]_vars

\* Hosts drain outputs and the connection delivers, one or the other.
System == \E e \in Roles : PollOutput(e) \/ FrameArrives(e)

Fairness == WF_vars(System)

FairSpec == Spec /\ Fairness

-----------------------------------------------------------------------------
(* Safety. *)

\* Bytes arrive in the order in which they were written, without gaps or
\* repetitions, whether they left at once or waited in send_buffer.
InOrder ==
    \A e \in Roles, s \in Ids :
        /\ \A i \in DOMAIN got[e][s] : got[e][s][i] = i
        /\ Len(got[e][s]) <= accepted[Other(e)][s]

\* "Gracefully half-closes a stream after all accepted buffered data"
\* (session.rs:269): at the end of file everything the other host wrote is there.
\* And a stream nobody reset is closed only after both hosts got everything:
\* window updates that cross the final FIN, and the RST they provoke, cut nothing
\* off.
EndIsComplete ==
    \A e \in Roles, s \in Ids :
        seen[e][s] = "eof" \/ (seen[e][s] = "closed" /\ s \notin aborted)
            => Len(got[e][s]) = accepted[Other(e)][s]

\* Two ends that run this code never fail each other's session (FailProtocol),
\* resets, refusals and terminations in flight included.
NoProtocolError == \A e \in Roles : ~sess[e].failed

\* The aggregate that max_total_buffered_send is enforced on is the sum of the
\* streams' buffers, each stream's counter is what is really in its buffer, and
\* both stay within their limits.
BuffersAddUp ==
    \A e \in Roles :
        /\ sess[e].total_buffered_send <= MaxTotalBufferedSend
        /\ sess[e].total_buffered_send
            = MapThenSumSet(LAMBDA s : sess[e].streams[s].buffered_send, Open(sess[e]))
        /\ \A s \in Open(sess[e]) :
            /\ sess[e].streams[s].buffered_send <= MaxBufferedSend
            /\ sess[e].streams[s].buffered_send = Len(FlattenSeq(sess[e].streams[s].send_buffer))

\* What the host will know of stream s when it comes to output i.
Foreseen(e, i, s) ==
    LET before == SelectSeq(SubSeq(sess[e].pending, 1, i - 1),
                            LAMBDA o : o.output # "Outbound" /\ o.stream = s)
    IN  FoldLeft(See, seen[e][s], before)

\* The notices of a stream reach the host in a sensible order: announced before
\* anything else, no data after the end of file, closed once and for all.
NoticesOrdered ==
    \A e \in Roles : \A i \in DOMAIN sess[e].pending :
        LET o == sess[e].pending[i]
        IN  /\ o.output = "IncomingStream" => Foreseen(e, i, o.stream) = "none"
            /\ o.output \in {"Data", "RemoteWriteClosed"} => Foreseen(e, i, o.stream) = "open"
            /\ o.output = "StreamClosed" => Foreseen(e, i, o.stream) \in {"open", "eof"}

\* The two sessions agree: what ends is complete, neither fails the other, the buffers
\* are accounted for and the hosts hear of streams in order.
SessionsAgree == EndIsComplete /\ NoProtocolError /\ BuffersAddUp /\ NoticesOrdered

-----------------------------------------------------------------------------
(* Liveness. *)

\* The other end had no room for the stream, and its opener was told so.
Refused(e, s) == seen[e][s] = "closed" /\ seen[Other(e)][s] = "none"

CaughtUp ==
    \A e \in Roles, s \in Ids :
        s \in aborted \/ Refused(e, s) \/ Len(got[Other(e)][s]) = accepted[e][s]

\* Every byte a session took reaches the other host, unless the stream is
\* aborted or refused: flow control never leaves both ends waiting, and a half-close waits
\* for the buffer but not for ever.
AllDelivered == []<>CaughtUp

\* A GoAway takes down both ends, and every stream is reported closed.
GoAwayClosesAll ==
    (\E e \in Roles : sess[e].local_go_away) ~>
        (\A e \in Roles, s \in Ids : seen[e][s] \in {"none", "closed"})

\* What was promised is done: bytes arrive and a session that goes away is gone.
SessionsProgress == AllDelivered /\ GoAwayClosesAll

-----------------------------------------------------------------------------
(* Refinement: each direction of each stream does what CreditFlow promises. *)

InFlight(e) ==
    LET queued == SelectSeq(sess[e].pending, LAMBDA o : o.output = "Outbound")
    IN  wire[e] \o [i \in DOMAIN queued |-> queued[i].frame]

Carried(e, s, type) ==
    FoldLeft(LAMBDA total, f : IF f.stream = s /\ f.type = type THEN total + f.value ELSE total,
             0, InFlight(e))

Opener(s)   == IF s % 2 = 1 THEN "Client" ELSE "Server"
Unopened(s) == sess[Opener(s)].next_stream_id # None /\ sess[Opener(s)].next_stream_id <= s

\* The stream is open at its opener only: its SYN is still to come.
SynUnderway(s) ==
    LET st == sess[Opener(s)].streams[s]
    IN  \/ st # None /\ st.pending_open = "SYN"
        \/ \E i \in DOMAIN InFlight(Opener(s)) :
            LET f == InFlight(Opener(s))[i] IN f.stream = s /\ "SYN" \in f.flags

NotYet(e, s) == Unopened(s) \/ (e # Opener(s) /\ SynUnderway(s))
Gone(e, s)   == sess[e].streams[s] = None /\ ~NotYet(e, s)
Cut(s)       == \E e \in Roles : Gone(e, s) \/ ~Active(sess[e])

\* A stream that does not exist yet counts as fresh.
State(e, s) ==
    IF sess[e].streams[s] # None THEN sess[e].streams[s]
    ELSE NewStream(e = Opener(s), DEFAULT_RECEIVE_WINDOW)

Uncut(s, n) == IF Cut(s) THEN 0 ELSE n

FlowStatus(s) ==
    IF \E e \in Roles : sess[e].failed THEN "failed" ELSE IF Cut(s) THEN "closed" ELSE "open"
=============================================================================
