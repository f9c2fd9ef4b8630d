---------------------------- MODULE PingProtocol ----------------------------
(***************************************************************************)
(* The handlers of the sans-IO `/ipfs/ping/1.0.0` state machine            *)
(* (crates/ping/src/lib.rs), as operators on the state it keeps for one    *)
(* remote peer.  Each handler yields the new state together with the       *)
(* actions and the events it queues, in order.  The module has no          *)
(* variables: Ping composes two endpoints that run it over streams, and    *)
(* the swarm core embeds it.                                               *)
(*                                                                         *)
(* A payload is a sequence of PING_PAYLOAD_LEN bytes; the reasons of       *)
(* violations and the peer id that every action and event repeats are left *)
(* out.                                                                    *)
(***************************************************************************)
EXTENDS Naturals, Sequences, FiniteSets

CONSTANTS
    PingStreams,          \* the stream ids that can be handed to the protocol
    PING_PAYLOAD_LEN,     \* bytes of a payload (32 in the code)
    MAX_INBOUND_STREAMS,  \* inbound streams accepted per peer (2 in the code)
    RequestTimeout,       \* PingConfig::request_timeout_ms
    None                  \* the absent value of an Option

ASSUME PingAssumption ==
    /\ PING_PAYLOAD_LEN \in Nat \ {0}
    /\ MAX_INBOUND_STREAMS \in Nat \ {0}
    /\ RequestTimeout \in Nat
    /\ PingStreams \subseteq Nat
    /\ None \notin PingStreams

\* struct PeerPingState.  An absent receive buffer is an empty one: the code
\* creates it on first use and removes it whenever it is consumed.
DefaultPeerState ==
    [ outbound_stream |-> None,
      inbound_streams |-> {},
      pending_ping    |-> None,
      recv_bufs       |-> [s \in PingStreams |-> <<>>] ]

\* What a handler leaves behind: state, queued actions, queued events.
Outcome(st, acts, evs) == [state |-> st, actions |-> acts, events |-> evs]

Send(s, payload) == [type |-> "Send", stream |-> s, data |-> payload]
ResetStream(s)   == [type |-> "ResetStream", stream |-> s]
CloseWrite(s)    == [type |-> "CloseStreamWrite", stream |-> s]
PingEvent(kind, s) == [type |-> kind, stream |-> s]

\* The receive buffers, with that of stream s replaced.
Buffered(st, s, buf) == [st.recv_bufs EXCEPT ![s] = buf]

\* fn protocol_violation: the violation is reported and the stream reset.
ProtocolViolation(st, s) ==
    Outcome(st, <<ResetStream(s)>>, <<PingEvent("ProtocolViolation", s)>>)

\* The three outcomes of fn register_outbound_stream: refused while another
\* stream is registered, a no-op for the same stream, registered otherwise.
RegisterOutboundRejected(st, s) == st.outbound_stream \notin {None, s}

RegisterOutboundStream(st, s) ==
    IF st.outbound_stream # None
    THEN Outcome(st, <<>>, <<>>)
    ELSE Outcome([st EXCEPT !.outbound_stream = s], <<>>,
                 <<PingEvent("OutboundStreamRegistered", s)>>)

\* A mutant of RegisterInboundStream: the limit admits one stream too many.
RegisterInboundOffByOne(st, s) ==
    CASE s \in st.inbound_streams -> Outcome(st, <<>>, <<>>)
      [] s \notin st.inbound_streams /\ Cardinality(st.inbound_streams) > MAX_INBOUND_STREAMS ->
            Outcome(st, <<ResetStream(s)>>, <<PingEvent("StreamLimitExceeded", s)>>)
      [] OTHER ->
            Outcome([st EXCEPT !.inbound_streams = @ \cup {s}], <<>>,
                    <<PingEvent("InboundStreamAccepted", s)>>)

\* fn register_inbound_stream
RegisterInboundStream(st, s) ==
    CASE s \in st.inbound_streams -> Outcome(st, <<>>, <<>>)
      [] s \notin st.inbound_streams /\ Cardinality(st.inbound_streams) >= MAX_INBOUND_STREAMS ->
            Outcome(st, <<ResetStream(s)>>, <<PingEvent("StreamLimitExceeded", s)>>)
      [] OTHER ->
            Outcome([st EXCEPT !.inbound_streams = @ \cup {s}], <<>>,
                    <<PingEvent("InboundStreamAccepted", s)>>)

\* fn send_ping is refused without an outbound stream or with a ping in flight.
SendPingRejected(st) == st.outbound_stream = None \/ st.pending_ping # None

SendPing(st, payload, now) ==
    Outcome([st EXCEPT !.pending_ping = [payload |-> payload, sent_at |-> now]],
            <<Send(st.outbound_stream, payload)>>, <<>>)

\* fn close_outbound_stream_write has the same refusals.
CloseOutboundRejected(st) == st.outbound_stream = None \/ st.pending_ping # None

CloseOutboundStreamWrite(st) ==
    Outcome(st, <<CloseWrite(st.outbound_stream)>>, <<>>)

IsKnown(st, s) == st.outbound_stream = s \/ s \in st.inbound_streams

Elapsed(st, now) ==
    IF now >= st.pending_ping.sent_at THEN now - st.pending_ping.sent_at ELSE 0

\* fn process_complete_payload: an answer on the outbound stream consumes the
\* ping in flight before it is compared, a request is echoed.
ProcessCompletePayload(st, s, payload, now) ==
    LET taken == [st EXCEPT !.pending_ping = None]
    IN  CASE st.outbound_stream = s /\ st.pending_ping = None -> ProtocolViolation(st, s)
          [] st.outbound_stream = s /\ st.pending_ping # None ->
                IF st.pending_ping.payload # payload
                THEN ProtocolViolation(taken, s)
                ELSE Outcome(taken, <<>>,
                             <<[type |-> "RttMeasured", stream |-> s, rtt |-> Elapsed(st, now)]>>)
          [] OTHER -> Outcome(st, <<Send(s, payload)>>, <<>>)

\* A mutant of OnStreamData: the bytes of a processed payload stay in the buffer.
OnStreamDataKeepsBuffer(st, s, data, now) ==
    LET buf     == st.recv_bufs[s] \o data
        grown   == [st EXCEPT !.recv_bufs = Buffered(st, s, buf)]
    IN  CASE ~IsKnown(st, s) -> ProtocolViolation(st, s)
          [] IsKnown(st, s) /\ Len(buf) > PING_PAYLOAD_LEN -> ProtocolViolation(grown, s)
          [] IsKnown(st, s) /\ Len(buf) < PING_PAYLOAD_LEN -> Outcome(grown, <<>>, <<>>)
          [] OTHER -> ProcessCompletePayload(grown, s, buf, now)

\* fn on_stream_data: bytes accumulate per stream until a payload is complete;
\* a payload is never split across two exchanges, so more bytes than one
\* payload are a violation.
OnStreamData(st, s, data, now) ==
    LET buf     == st.recv_bufs[s] \o data
        drained == [st EXCEPT !.recv_bufs = Buffered(st, s, <<>>)]
    IN  CASE ~IsKnown(st, s) -> ProtocolViolation(st, s)
          [] IsKnown(st, s) /\ Len(buf) > PING_PAYLOAD_LEN -> ProtocolViolation(drained, s)
          [] IsKnown(st, s) /\ Len(buf) < PING_PAYLOAD_LEN ->
                Outcome([st EXCEPT !.recv_bufs = Buffered(st, s, buf)], <<>>, <<>>)
          [] OTHER -> ProcessCompletePayload(drained, s, buf, now)

\* The outbound stream and everything that hangs on it, dropped.
DropOutbound(st, s) ==
    [st EXCEPT !.outbound_stream = None, !.pending_ping = None, !.recv_bufs = Buffered(st, s, <<>>)]

\* fn on_stream_remote_write_closed
OnStreamRemoteWriteClosed(st, s) ==
    CASE s \in st.inbound_streams ->
            Outcome([st EXCEPT !.inbound_streams = @ \ {s}, !.recv_bufs = Buffered(st, s, <<>>)], <<>>, <<>>)
      [] s \notin st.inbound_streams /\ st.outbound_stream = s ->
            IF st.pending_ping # None
            THEN ProtocolViolation(DropOutbound(st, s), s)
            ELSE Outcome(DropOutbound(st, s), <<>>, <<PingEvent("OutboundStreamClosed", s)>>)
      [] OTHER -> Outcome(st, <<>>, <<>>)

\* fn on_stream_closed: silent, whatever was in flight.
OnStreamClosed(st, s) ==
    LET closed == [st EXCEPT !.inbound_streams = @ \ {s}, !.recv_bufs = Buffered(st, s, <<>>)]
    IN  Outcome(IF st.outbound_stream = s THEN DropOutbound(closed, s) ELSE closed, <<>>, <<>>)

\* A mutant of TimedOut: the operands of the saturating subtraction swapped.
TimedOutSwapped(st, now) ==
    /\ st.outbound_stream # None
    /\ st.pending_ping # None
    /\ (IF st.pending_ping.sent_at >= now THEN st.pending_ping.sent_at - now ELSE 0)
            > RequestTimeout

TimedOut(st, now) ==
    /\ st.outbound_stream # None
    /\ st.pending_ping # None
    /\ Elapsed(st, now) > RequestTimeout

\* fn on_tick, for one peer of its loop.
OnTick(st, now) ==
    LET s == st.outbound_stream
    IN  IF TimedOut(st, now)
        THEN Outcome(DropOutbound(st, s), <<ResetStream(s)>>,
                     <<PingEvent("Timeout", s), PingEvent("OutboundStreamClosed", s)>>)
        ELSE Outcome(st, <<>>, <<>>)
=============================================================================
