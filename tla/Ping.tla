-------------------------------- MODULE Ping --------------------------------
(***************************************************************************)
(* Two endpoints that run PingProtocol against each other over streams: a  *)
(* dialer that opens ping streams and sends pings, and a listener that     *)
(* echoes them.  A stream is a pair of FIFO byte channels whose chunks the *)
(* transport may cut anywhere; a stream may be reset by either end, aborted*)
(* by the network or half-closed by the remote, and the dialer's clock may *)
(* run ahead of the ticks the host feeds in.                               *)
(*                                                                         *)
(* Host code around the protocol is modelled from its use in               *)
(* crates/swarm/src/core.rs: a ping stream is opened only when none is     *)
(* registered, ResetStream closes the stream on both sides, the local      *)
(* StreamClosed comes later.                                               *)
(***************************************************************************)
EXTENDS PingProtocol

CONSTANTS
    Payloads,   \* the payloads the dialer may draw
    MaxNow      \* bound on the clock

\* Two payloads of two bytes, so that a payload can be cut: a value of Payloads for TLC.
SmallPayloads == {<<"a", "b">>, <<"b", "b">>}

\* Markers that share the channels with bytes.
OPEN == "open"
FIN  == "fin"
RST  == "rst"
Markers == {OPEN, FIN, RST}

ASSUME PayloadsAssumption ==
    /\ MaxNow \in Nat
    /\ None \notin [payload : Payloads, sent_at : Nat]
    /\ \A p \in Payloads :
        p \in [1..PING_PAYLOAD_LEN -> {p[i] : i \in 1..PING_PAYLOAD_LEN} \ Markers]

VARIABLES
    dialer,     \* PeerPingState the dialer keeps for the listener
    listener,   \* PeerPingState the listener keeps for the dialer
    request,    \* [PingStreams -> Seq]: dialer-to-listener channel
    reply,      \* [PingStreams -> Seq]: listener-to-dialer channel
    dEnd, lEnd, \* transport state of each end of each stream
    now,        \* the dialer's clock
    raised      \* the events the last step raised, by end

vars == <<dialer, listener, request, reply, dEnd, lEnd, now, raised>>

EndStates == {"unused", "open", "finished", "resetting", "closed"}

Silent == [dialer |-> <<>>, listener |-> <<>>]

Init ==
    /\ dialer = DefaultPeerState
    /\ listener = DefaultPeerState
    /\ request = [s \in PingStreams |-> <<>>]
    /\ reply = [s \in PingStreams |-> <<>>]
    /\ dEnd = [s \in PingStreams |-> "unused"]
    /\ lEnd = [s \in PingStreams |-> "unused"]
    /\ now = 0
    /\ raised = Silent

IsReset(out, s) == \E i \in DOMAIN out.actions : out.actions[i] = ResetStream(s)

\* The bytes a handler sends on s.
Sent(out, s) ==
    IF \E i \in DOMAIN out.actions : out.actions[i].type = "Send"
    THEN out.actions[CHOOSE i \in DOMAIN out.actions : out.actions[i].type = "Send"].data
    ELSE <<>>

\* One end of stream s after it executed the actions of `out`: bytes go on the
\* channel while the end may still write, a reset may overtake what is queued.
Transmit(out, s, end, chan, end2, chan2) ==
    IF IsReset(out, s)
    THEN /\ end2 = [end EXCEPT ![s] = IF @ \in {"open", "finished"} THEN "resetting" ELSE @]
         /\ IF end[s] \in {"open", "finished"}
            THEN \/ chan2 = [chan EXCEPT ![s] = Append(@, RST)]
                 \/ chan2 = [chan EXCEPT ![s] = <<RST>>]
            ELSE chan2 = chan
    ELSE /\ end2 = end
         /\ chan2 = [chan EXCEPT ![s] = IF end[s] = "open" THEN @ \o Sent(out, s) ELSE @]

\* A handler of the dialer ran; what is left of the reply channel is `rest`.
DialerRuns(out, s, rest) ==
    /\ dialer' = out.state
    /\ raised' = [Silent EXCEPT !.dialer = out.events]
    /\ Transmit(out, s, dEnd, request, dEnd', request')
    /\ reply' = [reply EXCEPT ![s] = IF IsReset(out, s) THEN <<>> ELSE rest]
    /\ UNCHANGED <<listener, lEnd, now>>

ListenerRuns(out, s, rest) ==
    /\ listener' = out.state
    /\ raised' = [Silent EXCEPT !.listener = out.events]
    /\ Transmit(out, s, lEnd, reply, lEnd', reply')
    /\ request' = [request EXCEPT ![s] = IF IsReset(out, s) THEN <<>> ELSE rest]
    /\ UNCHANGED <<dialer, dEnd, now>>

\* The host negotiated a new outbound ping stream; the transport hands out
\* stream ids in order.
OpenPingStream(s) ==
    /\ dEnd[s] = "unused"
    /\ \A t \in PingStreams : t < s => dEnd[t] # "unused"
    /\ dialer.outbound_stream = None
    /\ dialer' = RegisterOutboundStream(dialer, s).state
    /\ raised' = [Silent EXCEPT !.dialer = RegisterOutboundStream(dialer, s).events]
    /\ dEnd' = [dEnd EXCEPT ![s] = "open"]
    /\ request' = [request EXCEPT ![s] = <<OPEN>>]
    /\ UNCHANGED <<listener, reply, lEnd, now>>

\* PingInput::SendPing; the clock bound leaves room for the timeout.
DialerSends(p) ==
    /\ ~SendPingRejected(dialer)
    /\ now + RequestTimeout < MaxNow
    /\ DialerRuns(SendPing(dialer, p, now), dialer.outbound_stream, reply[dialer.outbound_stream])

\* PingInput::CloseOutboundStreamWrite
DialerFinishes ==
    /\ ~CloseOutboundRejected(dialer)
    /\ LET s == CloseOutboundStreamWrite(dialer).actions[1].stream
       IN  /\ dEnd[s] = "open"
           /\ dEnd' = [dEnd EXCEPT ![s] = "finished"]
           /\ request' = [request EXCEPT ![s] = Append(@, FIN)]
    /\ raised' = Silent
    /\ UNCHANGED <<dialer, listener, reply, lEnd, now>>

\* The host of the remote half-closes its side; the protocol is not asked.
ListenerFinishes(s) ==
    /\ lEnd[s] = "open"
    /\ lEnd' = [lEnd EXCEPT ![s] = "finished"]
    /\ reply' = [reply EXCEPT ![s] = Append(@, FIN)]
    /\ raised' = Silent
    /\ UNCHANGED <<dialer, listener, request, dEnd, now>>

\* The stream is lost underneath both ends; what was in flight may be lost too.
Abort(s) ==
    /\ dEnd[s] \in {"open", "finished"}
    /\ lEnd[s] \in {"open", "finished"}
    /\ request' = [request EXCEPT ![s] = <<RST>>]
    /\ reply' = [reply EXCEPT ![s] = <<RST>>]
    /\ raised' = Silent
    /\ UNCHANGED <<dialer, listener, dEnd, lEnd, now>>

\* The first n elements of a channel are bytes: a chunk the transport can deliver.
IsChunk(chan, n) == n \in 1..Len(chan) /\ \A i \in 1..n : chan[i] \notin Markers

Rest(chan, n) == SubSeq(chan, n + 1, Len(chan))

ListenerAccepts(s) ==
    /\ request[s] # <<>> /\ Head(request[s]) = OPEN
    /\ LET out == RegisterInboundStream(listener, s)
       IN  /\ listener' = out.state
           /\ raised' = [Silent EXCEPT !.listener = out.events]
           /\ IF IsReset(out, s)
              THEN /\ lEnd' = [lEnd EXCEPT ![s] = "resetting"]
                   /\ reply' = [reply EXCEPT ![s] = <<RST>>]
                   /\ request' = [request EXCEPT ![s] = <<>>]
              ELSE /\ lEnd' = [lEnd EXCEPT ![s] = "open"]
                   /\ request' = [request EXCEPT ![s] = Tail(@)]
                   /\ UNCHANGED reply
    /\ UNCHANGED <<dialer, dEnd, now>>

ListenerReceives(s, n) ==
    /\ lEnd[s] \in {"open", "finished"}
    /\ IsChunk(request[s], n)
    /\ ListenerRuns(OnStreamData(listener, s, SubSeq(request[s], 1, n), now), s,
                    Rest(request[s], n))

DialerReceives(s, n) ==
    /\ dEnd[s] \in {"open", "finished"}
    /\ IsChunk(reply[s], n)
    /\ DialerRuns(OnStreamData(dialer, s, SubSeq(reply[s], 1, n), now), s, Rest(reply[s], n))

\* A FIN in a channel: StreamRemoteWriteClosed.
ListenerSeesFin(s) ==
    /\ lEnd[s] \in {"open", "finished"}
    /\ request[s] # <<>> /\ Head(request[s]) = FIN
    /\ ListenerRuns(OnStreamRemoteWriteClosed(listener, s), s, Tail(request[s]))

DialerSeesFin(s) ==
    /\ dEnd[s] \in {"open", "finished"}
    /\ reply[s] # <<>> /\ Head(reply[s]) = FIN
    /\ DialerRuns(OnStreamRemoteWriteClosed(dialer, s), s, Tail(reply[s]))

\* StreamClosed, after a reset of the other end or of this one.
ListenerSeesClosed(s) ==
    /\ \/ lEnd[s] = "resetting"
       \/ lEnd[s] \in {"open", "finished"} /\ request[s] # <<>> /\ Head(request[s]) = RST
    /\ listener' = OnStreamClosed(listener, s).state
    /\ lEnd' = [lEnd EXCEPT ![s] = "closed"]
    /\ request' = [request EXCEPT ![s] = <<>>]
    /\ raised' = Silent
    /\ UNCHANGED <<dialer, reply, dEnd, now>>

DialerSeesClosed(s) ==
    /\ \/ dEnd[s] = "resetting"
       \/ dEnd[s] \in {"open", "finished"} /\ reply[s] # <<>> /\ Head(reply[s]) = RST
    /\ dialer' = OnStreamClosed(dialer, s).state
    /\ dEnd' = [dEnd EXCEPT ![s] = "closed"]
    /\ reply' = [reply EXCEPT ![s] = <<>>]
    /\ raised' = Silent
    /\ UNCHANGED <<listener, request, lEnd, now>>

\* Time passes with or without a drive iteration of the host.
AdvanceTime ==
    /\ now < MaxNow
    /\ now' = now + 1
    /\ raised' = Silent
    /\ UNCHANGED <<dialer, listener, request, reply, dEnd, lEnd>>

\* PingInput::Tick fires the timeout of the ping in flight.
DialerTicks ==
    /\ TimedOut(dialer, now)
    /\ DialerRuns(OnTick(dialer, now), dialer.outbound_stream, reply[dialer.outbound_stream])

Next ==
    \/ \E s \in PingStreams :
        \/ OpenPingStream(s)
        \/ ListenerFinishes(s)
        \/ Abort(s)
        \/ ListenerAccepts(s)
        \/ \E n \in 1..(PING_PAYLOAD_LEN + 1) : ListenerReceives(s, n) \/ DialerReceives(s, n)
        \/ ListenerSeesFin(s)
        \/ DialerSeesFin(s)
        \/ ListenerSeesClosed(s)
        \/ DialerSeesClosed(s)
    \/ \E p \in Payloads : DialerSends(p)
    \/ DialerFinishes
    \/ AdvanceTime
    \/ DialerTicks

\* The host keeps polling: time moves, ticks are fed in, and the transport
\* delivers what is in a stream.
Fairness ==
    /\ WF_vars(AdvanceTime)
    /\ WF_vars(DialerTicks)
    /\ \A s \in PingStreams :
        /\ WF_vars(ListenerAccepts(s))
        /\ WF_vars(ListenerReceives(s, 1))
        /\ WF_vars(ListenerSeesFin(s))
        /\ WF_vars(ListenerSeesClosed(s))

Spec == Init /\ [][Next]_vars /\ Fairness

-----------------------------------------------------------------------------
\* Type invariant: the two endpoints' states, the channels and the stream ends.
PeerStateOK(st) ==
    /\ st.outbound_stream \in PingStreams \cup {None}
    /\ st.inbound_streams \subseteq PingStreams
    /\ st.pending_ping = None \/ st.pending_ping.payload \in Payloads
    /\ \A s \in PingStreams : Len(st.recv_bufs[s]) < PING_PAYLOAD_LEN

TypeOK ==
    /\ PeerStateOK(dialer)
    /\ PeerStateOK(listener)
    /\ dEnd \in [PingStreams -> EndStates]
    /\ lEnd \in [PingStreams -> EndStates]
    /\ now \in 0..MaxNow

Bytes(chan) == Cardinality({i \in DOMAIN chan : chan[i] \notin Markers})

\* The bytes of stream s that are somewhere between the dialer's send and its
\* answer: on the wire, or in a receive buffer of either end.
Outstanding(s) ==
    Bytes(request[s]) + Len(listener.recv_bufs[s])
        + Bytes(reply[s]) + Len(dialer.recv_bufs[s])

\* The reassembly buffers of crates/ping/src/lib.rs:386-418 never see bytes of
\* two pings: at most one payload of a stream is under way, and none once
\* the dialer has no ping in flight, however the transport cuts the chunks.
OnePayloadUnderWay ==
    \A s \in PingStreams :
        /\ Outstanding(s) <= PING_PAYLOAD_LEN
        /\ s = dialer.outbound_stream /\ dialer.pending_ping = None => Outstanding(s) = 0

\* Two endpoints that both run this code never accuse each other of a protocol
\* violation, with the one exception the code spells out: the remote
\* half-closed the stream before it answered.
Accuses(evs) == \E i \in DOMAIN evs : evs[i].type = "ProtocolViolation"

NoFalseAccusation ==
    /\ ~Accuses(raised.listener)
    /\ \A i \in DOMAIN raised.dialer :
        raised.dialer[i].type = "ProtocolViolation"
            => lEnd[raised.dialer[i].stream] \in {"finished", "resetting", "closed"}

\* MAX_INBOUND_STREAMS bounds what one peer can make the listener hold, in
\* every interleaving of opens, resets and late closes.
InboundLimit == Cardinality(listener.inbound_streams) <= MAX_INBOUND_STREAMS

\* Every ping is resolved: answered, timed out, or dropped with its stream.
PingResolves == dialer.pending_ping # None ~> dialer.pending_ping = None

\* The slot of a stream the dialer gave up is freed on the listener, so that
\* timeouts do not exhaust MAX_INBOUND_STREAMS for good.
SlotsAreFreed ==
    \A s \in PingStreams : dEnd[s] = "closed" ~> s \notin listener.inbound_streams

\* A ping in flight is the one whose payload travels, and an honest peer is never
\* accused of a protocol violation.
HonestExchanges == OnePayloadUnderWay /\ NoFalseAccusation

\* Every ping comes to an end and every slot of a stream that is over is given back.
PingsEnd == PingResolves /\ SlotsAreFreed
=============================================================================
