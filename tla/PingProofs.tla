----------------------------- MODULE PingProofs -----------------------------
(***************************************************************************)
(* Proofs about Ping for every number of streams, payload length, limit    *)
(* and timeout: its type invariant, the limit on inbound streams, that a   *)
(* ping in flight always belongs to a registered stream, and that the      *)
(* exchanges are honest.                                                   *)
(***************************************************************************)
EXTENDS Ping, FiniteSetTheorems, TLAPS

\* What travels in a channel: the bytes of payloads, and markers.
Symbols == (UNION {{p[i] : i \in 1..PING_PAYLOAD_LEN} : p \in Payloads}) \cup Markers

PeerStates ==
    [ outbound_stream : PingStreams \cup {None},
      inbound_streams : SUBSET PingStreams,
      pending_ping    : [payload : Payloads, sent_at : Nat] \cup {None},
      recv_bufs       : [PingStreams -> Seq(Symbols)] ]

\* A peer's state is well formed: its buffers hold less than a payload, and a
\* ping in flight belongs to a registered outbound stream.
Sound(st) ==
    /\ st \in PeerStates
    /\ \A s \in PingStreams : Len(st.recv_bufs[s]) < PING_PAYLOAD_LEN
    /\ st.outbound_stream = None => st.pending_ping = None

\* Within the limit on inbound streams.
Limited(st) ==
    /\ IsFiniteSet(st.inbound_streams)
    /\ Cardinality(st.inbound_streams) <= MAX_INBOUND_STREAMS

\* Inductive: what the handlers maintain on both ends, and typed channels,
\* without which nothing is known about the buffers that chunks are put into.
PingInv ==
    /\ Sound(dialer)
    /\ Sound(listener)
    /\ Limited(listener)
    /\ request \in [PingStreams -> Seq(Symbols)]
    /\ reply \in [PingStreams -> Seq(Symbols)]
    /\ dEnd \in [PingStreams -> EndStates]
    /\ lEnd \in [PingStreams -> EndStates]
    /\ now \in 0..MaxNow

\* A payload is a sequence of symbols.
LEMMA PayloadIsSeq ==
    ASSUME NEW p \in Payloads
    PROVE  p \in Seq(Symbols) /\ Len(p) = PING_PAYLOAD_LEN
<1>1. p \in [1..PING_PAYLOAD_LEN -> Symbols]
    BY PayloadsAssumption DEF Symbols
<1> QED
    BY <1>1, PingAssumption

\* What an outcome consists of.
LEMMA OutcomeParts ==
    ASSUME NEW st, NEW acts, NEW evs
    PROVE  Outcome(st, acts, evs).state = st /\ Outcome(st, acts, evs).actions = acts
BY DEF Outcome

\* A handler left state st behind and put symbols on the wire, if anything.
Leaves(out, st) == out.state = st /\ \A t : Sent(out, t) \in Seq(Symbols)

\* The four shapes of a handler's outcome.
LEMMA EmptyLeaves ==
    ASSUME NEW st, NEW evs
    PROVE  Leaves(Outcome(st, <<>>, evs), st)
<1> DEFINE out == Outcome(st, <<>>, evs)
<1>1. out.state = st /\ \A t : Sent(out, t) = <<>>
    BY OutcomeParts DEF Sent
<1>2. <<>> \in Seq(Symbols)
    OBVIOUS
<1> HIDE DEF out
<1>3. Leaves(out, st)
    BY <1>1, <1>2 DEF Leaves
<1> QED
    BY <1>3 DEF out

LEMMA ResetLeaves ==
    ASSUME NEW st, NEW s, NEW evs
    PROVE  Leaves(Outcome(st, <<ResetStream(s)>>, evs), st)
<1> DEFINE out == Outcome(st, <<ResetStream(s)>>, evs)
<1>1. \A i \in DOMAIN out.actions : out.actions[i].type # "Send"
    BY OutcomeParts DEF ResetStream
<1>2. out.state = st /\ \A t : Sent(out, t) = <<>>
    BY <1>1, OutcomeParts DEF Sent
<1>3. <<>> \in Seq(Symbols)
    OBVIOUS
<1> HIDE DEF out
<1>4. Leaves(out, st)
    BY <1>2, <1>3 DEF Leaves
<1> QED
    BY <1>4 DEF out

LEMMA ViolationLeaves ==
    ASSUME NEW st, NEW s
    PROVE  Leaves(ProtocolViolation(st, s), st)
BY ResetLeaves DEF ProtocolViolation

LEMMA SendLeaves ==
    ASSUME NEW st, NEW s, NEW evs, NEW p \in Seq(Symbols)
    PROVE  Leaves(Outcome(st, <<Send(s, p)>>, evs), st)
<1> DEFINE acts == <<Send(s, p)>>
<1>1. DOMAIN acts = {1} /\ acts[1].type = "Send" /\ acts[1].data = p
    BY DEF Send
<1>2. (CHOOSE i \in DOMAIN acts : acts[i].type = "Send") = 1
    BY <1>1
<1>3. \A t : Sent(Outcome(st, acts, evs), t) = acts[1].data
    BY <1>1, <1>2, OutcomeParts DEF Sent
<1> QED
    BY <1>1, <1>3, OutcomeParts DEF Leaves

\* What a handler that starts in st keeps: a sound state without new inbound
\* streams.
Keeps(st, out) ==
    \E x : /\ Leaves(out, x)
           /\ Sound(x)
           /\ x.inbound_streams \subseteq st.inbound_streams

\* A buffer replaced by one that is short enough.
LEMMA BufferReplaced ==
    ASSUME NEW st, Sound(st), NEW s \in PingStreams,
           NEW buf \in Seq(Symbols), Len(buf) < PING_PAYLOAD_LEN
    PROVE  /\ Buffered(st, s, buf) \in [PingStreams -> Seq(Symbols)]
           /\ \A u \in PingStreams : Len(Buffered(st, s, buf)[u]) < PING_PAYLOAD_LEN
BY DEF Sound, PeerStates, Buffered

\* What the handlers do to a state: a ping taken, a buffer drained or grown, a
\* stream forgotten.
LEMMA UpdatesKeep ==
    ASSUME NEW st, Sound(st), NEW i \in SUBSET PingStreams,
           NEW b \in [PingStreams -> Seq(Symbols)],
           \A u \in PingStreams : Len(b[u]) < PING_PAYLOAD_LEN
    PROVE  /\ Sound([st EXCEPT !.pending_ping = None])
           /\ Sound([st EXCEPT !.recv_bufs = b])
           /\ Sound([st EXCEPT !.inbound_streams = i])
           /\ Sound([st EXCEPT !.inbound_streams = i, !.recv_bufs = b])
           /\ Sound([st EXCEPT !.outbound_stream = None, !.pending_ping = None, !.recv_bufs = b])
<1>1. Sound([st EXCEPT !.pending_ping = None])
    BY DEF Sound, PeerStates
<1>2. Sound([st EXCEPT !.recv_bufs = b])
    BY DEF Sound, PeerStates
<1>3. Sound([st EXCEPT !.inbound_streams = i])
    BY DEF Sound, PeerStates
<1>4. Sound([st EXCEPT !.inbound_streams = i, !.recv_bufs = b])
    BY DEF Sound, PeerStates
<1>5. Sound([st EXCEPT !.outbound_stream = None, !.pending_ping = None, !.recv_bufs = b])
    BY DEF Sound, PeerStates
<1> QED
    BY <1>1, <1>2, <1>3, <1>4, <1>5

\* process_complete_payload keeps a state sound.
LEMMA ProcessKeeps ==
    ASSUME NEW st, Sound(st), NEW s \in PingStreams, NEW buf \in Seq(Symbols), NEW t
    PROVE  Keeps(st, ProcessCompletePayload(st, s, buf, t))
<1> DEFINE out == ProcessCompletePayload(st, s, buf, t)
           taken == [st EXCEPT !.pending_ping = None]
<1>1. Sound(taken) /\ taken.inbound_streams = st.inbound_streams
    BY DEF Sound, PeerStates
<1>2. \/ out = ProtocolViolation(st, s)
      \/ out = ProtocolViolation(taken, s)
      \/ \E evs : out = Outcome(taken, <<>>, evs)
      \/ out = Outcome(st, <<Send(s, buf)>>, <<>>)
    BY DEF ProcessCompletePayload
<1> HIDE DEF taken, out
<1>3. Leaves(out, st) \/ Leaves(out, taken)
    BY <1>2, ViolationLeaves, EmptyLeaves, SendLeaves
<1>4. Keeps(st, out)
    BY <1>1, <1>3 DEF Keeps
<1> QED
    BY <1>4 DEF out

\* on_stream_data keeps a state sound.
LEMMA DataKeeps ==
    ASSUME NEW st, Sound(st), NEW s \in PingStreams, NEW data \in Seq(Symbols), NEW t
    PROVE  Keeps(st, OnStreamData(st, s, data, t))
<1> DEFINE out     == OnStreamData(st, s, data, t)
           buf     == st.recv_bufs[s] \o data
           drained == [st EXCEPT !.recv_bufs = Buffered(st, s, <<>>)]
           grown   == [st EXCEPT !.recv_bufs = Buffered(st, s, buf)]
<1>1. buf \in Seq(Symbols) /\ Len(buf) \in Nat
    BY DEF Sound, PeerStates
<1>2. Sound(drained) /\ drained.inbound_streams = st.inbound_streams
    <2>1. <<>> \in Seq(Symbols) /\ Len(<<>>) < PING_PAYLOAD_LEN
        BY PingAssumption
    <2>2. Sound(drained)
        BY <2>1, BufferReplaced, UpdatesKeep
    <2> QED BY <2>2 DEF Sound, PeerStates
<1>3. CASE ~IsKnown(st, s)
    <2>1. out = ProtocolViolation(st, s)
        BY <1>3 DEF OnStreamData
    <2> HIDE DEF out
    <2>2. Keeps(st, out)
        BY <2>1, ViolationLeaves DEF Keeps
    <2> QED BY <2>2 DEF out
<1>4. CASE IsKnown(st, s) /\ Len(buf) > PING_PAYLOAD_LEN
    <2>1. out = ProtocolViolation(drained, s)
        BY <1>1, <1>4, PingAssumption DEF OnStreamData
    <2> HIDE DEF out, drained
    <2>2. Leaves(out, drained)
        BY <2>1, ViolationLeaves
    <2>3. Keeps(st, out)
        BY <1>2, <2>2 DEF Keeps
    <2> QED BY <2>3 DEF out
<1>5. CASE IsKnown(st, s) /\ Len(buf) < PING_PAYLOAD_LEN
    <2>1. out = Outcome(grown, <<>>, <<>>)
        BY <1>1, <1>5, PingAssumption DEF OnStreamData
    <2>2. Sound(grown)
        BY <1>1, <1>5, BufferReplaced, UpdatesKeep
    <2>3. grown.inbound_streams = st.inbound_streams
        BY DEF Sound, PeerStates
    <2> HIDE DEF out, grown
    <2>4. Leaves(out, grown)
        BY <2>1, EmptyLeaves
    <2>5. Keeps(st, out)
        BY <2>2, <2>3, <2>4 DEF Keeps
    <2> QED BY <2>5 DEF out
<1>6. CASE IsKnown(st, s) /\ Len(buf) = PING_PAYLOAD_LEN
    <2>1. out = ProcessCompletePayload(drained, s, buf, t)
        BY <1>1, <1>6, PingAssumption DEF OnStreamData
    <2> HIDE DEF out, drained, buf
    <2>2. Keeps(drained, out)
        BY <1>1, <1>2, <2>1, ProcessKeeps
    <2>3. Keeps(st, out)
        BY <1>2, <2>2 DEF Keeps
    <2> QED BY <2>3 DEF out
<1> HIDE DEF buf, out
<1>7. Len(buf) > PING_PAYLOAD_LEN \/ Len(buf) < PING_PAYLOAD_LEN \/ Len(buf) = PING_PAYLOAD_LEN
    BY <1>1, PingAssumption
<1> QED
    BY <1>3, <1>4, <1>5, <1>6, <1>7 DEF out

\* The end of a stream keeps a state sound.
LEMMA EndKeeps ==
    ASSUME NEW st, Sound(st), NEW s \in PingStreams
    PROVE  /\ Keeps(st, OnStreamRemoteWriteClosed(st, s))
           /\ Keeps(st, OnStreamClosed(st, s))
<1> DEFINE none    == Buffered(st, s, <<>>)
           dropped == DropOutbound(st, s)
           closed  == [st EXCEPT !.inbound_streams = @ \ {s}, !.recv_bufs = none]
           both    == DropOutbound(closed, s)
           fin     == OnStreamRemoteWriteClosed(st, s)
           rst     == OnStreamClosed(st, s)
<1>1. \A x : Sound(x) => Sound(DropOutbound(x, s)) /\ DropOutbound(x, s).inbound_streams = x.inbound_streams
    <2> SUFFICES ASSUME NEW x, Sound(x)
                 PROVE  /\ Sound(DropOutbound(x, s))
                        /\ DropOutbound(x, s).inbound_streams = x.inbound_streams
        OBVIOUS
    <2>1. <<>> \in Seq(Symbols) /\ Len(<<>>) < PING_PAYLOAD_LEN
        BY PingAssumption
    <2>2. Sound(DropOutbound(x, s))
        BY <2>1, BufferReplaced, UpdatesKeep DEF DropOutbound
    <2> QED BY <2>2 DEF Sound, PeerStates, DropOutbound
<1>2. Sound(closed) /\ closed.inbound_streams \subseteq st.inbound_streams
    <2>1. <<>> \in Seq(Symbols) /\ Len(<<>>) < PING_PAYLOAD_LEN
        BY PingAssumption
    <2>2. st.inbound_streams \ {s} \in SUBSET PingStreams
        BY DEF Sound, PeerStates
    <2>3. Sound(closed)
        BY <2>1, <2>2, BufferReplaced, UpdatesKeep
    <2> QED BY <2>3 DEF Sound, PeerStates
<1>3. \/ fin = Outcome(closed, <<>>, <<>>)
      \/ fin = ProtocolViolation(dropped, s)
      \/ \E evs : fin = Outcome(dropped, <<>>, evs)
      \/ fin = Outcome(st, <<>>, <<>>)
    BY DEF OnStreamRemoteWriteClosed
<1>4. rst = Outcome(both, <<>>, <<>>) \/ rst = Outcome(closed, <<>>, <<>>)
    BY DEF OnStreamClosed
<1>5. Sound(dropped) /\ dropped.inbound_streams \subseteq st.inbound_streams
    BY <1>1
<1>6. Sound(both) /\ both.inbound_streams \subseteq st.inbound_streams
    BY <1>1, <1>2
<1> HIDE DEF closed, dropped, both, fin, rst
<1>7. Leaves(fin, closed) \/ Leaves(fin, dropped) \/ Leaves(fin, st)
    BY <1>3, ViolationLeaves, EmptyLeaves
<1>8. Leaves(rst, both) \/ Leaves(rst, closed)
    BY <1>4, EmptyLeaves
<1>9. Keeps(st, fin) /\ Keeps(st, rst)
    BY <1>2, <1>5, <1>6, <1>7, <1>8 DEF Keeps
<1> QED
    BY <1>9 DEF fin, rst

\* Executing a handler's actions keeps the stream end and the channel typed.
LEMMA TransmitKeeps ==
    ASSUME NEW out, NEW s \in PingStreams, \A t : Sent(out, t) \in Seq(Symbols),
           NEW end \in [PingStreams -> EndStates], NEW end2,
           NEW chan \in [PingStreams -> Seq(Symbols)], NEW chan2,
           Transmit(out, s, end, chan, end2, chan2)
    PROVE  end2 \in [PingStreams -> EndStates] /\ chan2 \in [PingStreams -> Seq(Symbols)]
<1>1. RST \in Symbols
    BY DEF Symbols, Markers
<1>2. end2 \in [PingStreams -> EndStates]
    BY DEF Transmit, EndStates
<1>3. CASE IsReset(out, s)
    <2>1. Append(chan[s], RST) \in Seq(Symbols) /\ <<RST>> \in Seq(Symbols)
        BY <1>1
    <2> QED BY <1>2, <1>3, <2>1 DEF Transmit
<1>4. CASE ~IsReset(out, s)
    <2>1. chan[s] \o Sent(out, s) \in Seq(Symbols)
        OBVIOUS
    <2> QED BY <1>2, <1>4, <2>1 DEF Transmit
<1> QED
    BY <1>3, <1>4

\* A handler of the dialer preserves the invariant.
LEMMA DialerRunsKeeps ==
    ASSUME PingInv, NEW out, Keeps(dialer, out), NEW s \in PingStreams,
           NEW rest \in Seq(Symbols), DialerRuns(out, s, rest)
    PROVE  PingInv'
<1>1. PICK x : Leaves(out, x) /\ Sound(x)
    BY DEF Keeps
<1>2. Sound(dialer)'
    BY <1>1 DEF DialerRuns, Leaves, Sound
<1>3. dEnd' \in [PingStreams -> EndStates] /\ request' \in [PingStreams -> Seq(Symbols)]
    BY <1>1, TransmitKeeps DEF DialerRuns, PingInv, Leaves
<1>4. reply' \in [PingStreams -> Seq(Symbols)]
    BY DEF DialerRuns, PingInv
<1>5. (Sound(listener) /\ Limited(listener))'
    BY DEF DialerRuns, PingInv, Sound, Limited
<1> QED
    BY <1>2, <1>3, <1>4, <1>5 DEF PingInv, DialerRuns

\* A subset of a limited set of streams is limited.
LEMMA LimitKept ==
    ASSUME NEW st, Limited(st), NEW x, x.inbound_streams \subseteq st.inbound_streams
    PROVE  Limited(x)
BY FS_Subset, FS_CardinalityType, PingAssumption DEF Limited

\* A handler of the listener preserves the invariant.
LEMMA ListenerRunsKeeps ==
    ASSUME PingInv, NEW out, Keeps(listener, out), NEW s \in PingStreams,
           NEW rest \in Seq(Symbols), ListenerRuns(out, s, rest)
    PROVE  PingInv'
<1>1. PICK x : Leaves(out, x) /\ Sound(x) /\ x.inbound_streams \subseteq listener.inbound_streams
    BY DEF Keeps
<1>2. Sound(listener)'
    BY <1>1 DEF ListenerRuns, Leaves, Sound
<1>3. Limited(x)
    BY <1>1, LimitKept DEF PingInv
<1>4. Limited(listener)'
    BY <1>1, <1>3 DEF ListenerRuns, Leaves, Limited
<1>5. lEnd' \in [PingStreams -> EndStates] /\ reply' \in [PingStreams -> Seq(Symbols)]
    BY <1>1, TransmitKeeps DEF ListenerRuns, PingInv, Leaves
<1>6. request' \in [PingStreams -> Seq(Symbols)]
    BY DEF ListenerRuns, PingInv
<1>7. Sound(dialer)'
    BY DEF ListenerRuns, PingInv, Sound
<1> QED
    BY <1>2, <1>4, <1>5, <1>6, <1>7 DEF PingInv, ListenerRuns

\* register_inbound_stream admits a stream only below the limit.
LEMMA RegisterKeeps ==
    ASSUME NEW st, Sound(st), Limited(st), NEW s \in PingStreams
    PROVE  LET x == RegisterInboundStream(st, s).state IN Sound(x) /\ Limited(x)
<1> DEFINE out   == RegisterInboundStream(st, s)
           added == [st EXCEPT !.inbound_streams = @ \cup {s}]
<1>1. Sound(added)
    BY DEF Sound, PeerStates
<1>2. added.inbound_streams = st.inbound_streams \cup {s}
    BY DEF Sound, PeerStates
<1>3. Cardinality(st.inbound_streams) \in Nat
    BY FS_CardinalityType DEF Limited
<1>4. CASE s \in st.inbound_streams
    <2>1. out.state = st
        BY <1>4, OutcomeParts DEF RegisterInboundStream
    <2> QED BY <2>1
<1>5. CASE s \notin st.inbound_streams /\ Cardinality(st.inbound_streams) >= MAX_INBOUND_STREAMS
    <2>1. out.state = st
        BY <1>5, OutcomeParts DEF RegisterInboundStream
    <2> QED BY <2>1
<1>6. CASE s \notin st.inbound_streams /\ ~(Cardinality(st.inbound_streams) >= MAX_INBOUND_STREAMS)
    <2>1. out.state = added
        BY <1>6, OutcomeParts DEF RegisterInboundStream
    <2>2. /\ IsFiniteSet(st.inbound_streams \cup {s})
          /\ Cardinality(st.inbound_streams \cup {s}) = Cardinality(st.inbound_streams) + 1
        BY <1>6, FS_AddElement DEF Limited
    <2>3. Limited(added)
        BY <1>2, <1>3, <1>6, <2>2, PingAssumption DEF Limited
    <2> QED BY <1>1, <2>1, <2>3
<1> QED
    BY <1>4, <1>5, <1>6

\* What is left of a channel, and the chunk taken from it, are symbols.
LEMMA ChunkOfSymbols ==
    ASSUME NEW chan \in Seq(Symbols), NEW n, IsChunk(chan, n)
    PROVE  SubSeq(chan, 1, n) \in Seq(Symbols) /\ Rest(chan, n) \in Seq(Symbols)
BY DEF IsChunk, Rest

\* The empty system satisfies the invariant.
LEMMA PingInit == Init => PingInv
<1> SUFFICES ASSUME Init PROVE PingInv
    OBVIOUS
<1>1. Sound(DefaultPeerState)
    BY PingAssumption DEF Sound, PeerStates, DefaultPeerState
<1>2. Limited(DefaultPeerState)
    BY FS_EmptySet, PingAssumption DEF Limited, DefaultPeerState
<1> QED
    BY <1>1, <1>2, PayloadsAssumption DEF Init, PingInv, EndStates

\* Every step preserves the invariant.
LEMMA PingStep == PingInv /\ [Next]_vars => PingInv'
<1> SUFFICES ASSUME PingInv, [Next]_vars PROVE PingInv'
    OBVIOUS
<1> USE DEF PingInv
<1>0. OPEN \in Symbols /\ FIN \in Symbols /\ RST \in Symbols
    BY DEF Symbols, Markers
<1>1. ASSUME NEW s \in PingStreams, OpenPingStream(s) PROVE PingInv'
    <2>1. dialer' = [dialer EXCEPT !.outbound_stream = s]
        BY <1>1, OutcomeParts DEF OpenPingStream, RegisterOutboundStream
    <2>2. Sound(dialer)'
        BY <2>1, PingAssumption DEF Sound, PeerStates
    <2>3. (Sound(listener) /\ Limited(listener))'
        BY <1>1 DEF OpenPingStream, Sound, Limited
    <2> QED BY <1>0, <1>1, <2>2, <2>3 DEF OpenPingStream, EndStates
<1>2. ASSUME NEW s \in PingStreams, ListenerFinishes(s) PROVE PingInv'
    <2>1. (Sound(dialer) /\ Sound(listener) /\ Limited(listener))'
        BY <1>2 DEF ListenerFinishes, Sound, Limited
    <2>2. Append(reply[s], FIN) \in Seq(Symbols)
        BY <1>0
    <2> QED BY <1>2, <2>1, <2>2 DEF ListenerFinishes, EndStates
<1>3. ASSUME NEW s \in PingStreams, Abort(s) PROVE PingInv'
    <2>1. (Sound(dialer) /\ Sound(listener) /\ Limited(listener))'
        BY <1>3 DEF Abort, Sound, Limited
    <2>2. <<RST>> \in Seq(Symbols)
        BY <1>0
    <2> QED BY <1>3, <2>1, <2>2 DEF Abort
<1>4. ASSUME NEW s \in PingStreams, ListenerAccepts(s) PROVE PingInv'
    <2>1. Sound(RegisterInboundStream(listener, s).state) /\ Limited(RegisterInboundStream(listener, s).state)
        BY RegisterKeeps
    <2>2. (Sound(listener) /\ Limited(listener))'
        BY <1>4, <2>1 DEF ListenerAccepts, Sound, Limited
    <2>3. Sound(dialer)'
        BY <1>4 DEF ListenerAccepts, Sound
    <2>4. <<RST>> \in Seq(Symbols) /\ Tail(request[s]) \in Seq(Symbols)
        BY <1>0, <1>4 DEF ListenerAccepts
    <2>5. lEnd' \in [PingStreams -> EndStates]
        BY <1>4 DEF ListenerAccepts, EndStates
    <2>6. /\ request' \in [PingStreams -> Seq(Symbols)]
          /\ reply' \in [PingStreams -> Seq(Symbols)]
        <3>1. \E c \in {<<>>, Tail(request[s])} : request' = [request EXCEPT ![s] = c]
            BY <1>4 DEF ListenerAccepts
        <3>2. reply' = reply \/ reply' = [reply EXCEPT ![s] = <<RST>>]
            BY <1>4 DEF ListenerAccepts
        <3>3. <<>> \in Seq(Symbols)
            OBVIOUS
        <3>4. request' \in [PingStreams -> Seq(Symbols)]
            BY <2>4, <3>1, <3>3
        <3>5. reply' \in [PingStreams -> Seq(Symbols)]
            BY <2>4, <3>2
        <3> QED BY <3>4, <3>5
    <2>7. UNCHANGED <<dEnd, now>>
        BY <1>4 DEF ListenerAccepts
    <2> QED BY <2>2, <2>3, <2>5, <2>6, <2>7
<1>5. ASSUME NEW s \in PingStreams, NEW n \in 1..(PING_PAYLOAD_LEN + 1), ListenerReceives(s, n)
      PROVE  PingInv'
    <2>1. SubSeq(request[s], 1, n) \in Seq(Symbols) /\ Rest(request[s], n) \in Seq(Symbols)
        BY <1>5, ChunkOfSymbols DEF ListenerReceives
    <2> QED BY <1>5, <2>1, DataKeeps, ListenerRunsKeeps DEF ListenerReceives
<1>6. ASSUME NEW s \in PingStreams, NEW n \in 1..(PING_PAYLOAD_LEN + 1), DialerReceives(s, n)
      PROVE  PingInv'
    <2>1. SubSeq(reply[s], 1, n) \in Seq(Symbols) /\ Rest(reply[s], n) \in Seq(Symbols)
        BY <1>6, ChunkOfSymbols DEF DialerReceives
    <2> QED BY <1>6, <2>1, DataKeeps, DialerRunsKeeps DEF DialerReceives
<1>7. ASSUME NEW s \in PingStreams, ListenerSeesFin(s) PROVE PingInv'
    <2>1. Tail(request[s]) \in Seq(Symbols)
        BY <1>7 DEF ListenerSeesFin
    <2> QED BY <1>7, <2>1, EndKeeps, ListenerRunsKeeps DEF ListenerSeesFin
<1>8. ASSUME NEW s \in PingStreams, DialerSeesFin(s) PROVE PingInv'
    <2>1. Tail(reply[s]) \in Seq(Symbols)
        BY <1>8 DEF DialerSeesFin
    <2> QED BY <1>8, <2>1, EndKeeps, DialerRunsKeeps DEF DialerSeesFin
<1>9. ASSUME NEW s \in PingStreams, ListenerSeesClosed(s) PROVE PingInv'
    <2>1. PICK x : /\ Leaves(OnStreamClosed(listener, s), x) /\ Sound(x)
                   /\ x.inbound_streams \subseteq listener.inbound_streams
        BY EndKeeps DEF Keeps
    <2>2. listener' = x /\ Limited(x)
        BY <1>9, <2>1, LimitKept DEF ListenerSeesClosed, Leaves
    <2>3. (Sound(listener) /\ Limited(listener))'
        BY <2>1, <2>2 DEF Sound, Limited
    <2>4. Sound(dialer)'
        BY <1>9 DEF ListenerSeesClosed, Sound
    <2> QED BY <1>9, <2>3, <2>4 DEF ListenerSeesClosed, EndStates
<1>10. ASSUME NEW s \in PingStreams, DialerSeesClosed(s) PROVE PingInv'
    <2>1. PICK x : Leaves(OnStreamClosed(dialer, s), x) /\ Sound(x)
        BY EndKeeps DEF Keeps
    <2>2. dialer' = x
        BY <1>10, <2>1 DEF DialerSeesClosed, Leaves
    <2>3. Sound(dialer)'
        BY <2>1, <2>2 DEF Sound
    <2>4. (Sound(listener) /\ Limited(listener))'
        BY <1>10 DEF DialerSeesClosed, Sound, Limited
    <2> QED BY <1>10, <2>3, <2>4 DEF DialerSeesClosed, EndStates
<1>11. ASSUME NEW p \in Payloads, DialerSends(p) PROVE PingInv'
    <2> DEFINE x == [dialer EXCEPT !.pending_ping = [payload |-> p, sent_at |-> now]]
               s == dialer.outbound_stream
    <2>1. s \in PingStreams
        BY <1>11 DEF DialerSends, SendPingRejected, Sound, PeerStates
    <2>2. Sound(x) /\ x.inbound_streams = dialer.inbound_streams
        <3>1. /\ [payload |-> p, sent_at |-> now] \in [payload : Payloads, sent_at : Nat]
              /\ s # None
            BY <2>1, PingAssumption, PayloadsAssumption
        <3>2. \A g \in [payload : Payloads, sent_at : Nat] :
                s # None => /\ Sound([dialer EXCEPT !.pending_ping = g])
                            /\ [dialer EXCEPT !.pending_ping = g].inbound_streams = dialer.inbound_streams
            BY DEF Sound, PeerStates
        <3> QED BY <3>1, <3>2
    <2>3. SendPing(dialer, p, now) = Outcome(x, <<Send(s, p)>>, <<>>)
        BY DEF SendPing
    <2> HIDE DEF x
    <2>4. Keeps(dialer, SendPing(dialer, p, now))
        BY <2>2, <2>3, PayloadIsSeq, SendLeaves DEF Keeps
    <2>5. reply[s] \in Seq(Symbols)
        BY <2>1
    <2> QED BY <1>11, <2>1, <2>4, <2>5, DialerRunsKeeps DEF DialerSends
<1>12. ASSUME DialerFinishes PROVE PingInv'
    <2>1. (Sound(dialer) /\ Sound(listener) /\ Limited(listener))'
        BY <1>12 DEF DialerFinishes, Sound, Limited
    <2>2. PICK s : /\ dEnd' = [dEnd EXCEPT ![s] = "finished"]
                   /\ request' = [request EXCEPT ![s] = Append(@, FIN)]
        BY <1>12 DEF DialerFinishes
    <2>3. s \in PingStreams => Append(request[s], FIN) \in Seq(Symbols)
        BY <1>0
    <2>4. dEnd' \in [PingStreams -> EndStates]
        BY <2>2 DEF EndStates
    <2>5. request' \in [PingStreams -> Seq(Symbols)]
        BY <2>2, <2>3
    <2> QED BY <1>12, <2>1, <2>4, <2>5 DEF DialerFinishes
<1>13. ASSUME AdvanceTime PROVE PingInv'
    <2>1. (Sound(dialer) /\ Sound(listener) /\ Limited(listener))'
        BY <1>13 DEF AdvanceTime, Sound, Limited
    <2> QED BY <1>13, <2>1, PayloadsAssumption DEF AdvanceTime
<1>14. ASSUME DialerTicks PROVE PingInv'
    <2> DEFINE s == dialer.outbound_stream
               x == DropOutbound(dialer, s)
    <2>1. s \in PingStreams
        BY <1>14 DEF DialerTicks, TimedOut, Sound, PeerStates
    <2>2. <<>> \in Seq(Symbols) /\ Len(<<>>) < PING_PAYLOAD_LEN
        BY PingAssumption
    <2>3. Sound(x)
        BY <2>1, <2>2, BufferReplaced, UpdatesKeep DEF DropOutbound
    <2>4. x.inbound_streams = dialer.inbound_streams
        BY DEF DropOutbound, Sound, PeerStates
    <2>5. \E evs : OnTick(dialer, now) = Outcome(x, <<ResetStream(s)>>, evs)
        BY <1>14 DEF DialerTicks, OnTick
    <2> HIDE DEF x
    <2>6. Keeps(dialer, OnTick(dialer, now))
        BY <2>3, <2>4, <2>5, ResetLeaves DEF Keeps
    <2>7. reply[s] \in Seq(Symbols)
        BY <2>1
    <2> QED BY <1>14, <2>1, <2>6, <2>7, DialerRunsKeeps DEF DialerTicks
<1>15. CASE UNCHANGED vars
    BY <1>15 DEF vars, Sound, Limited
<1> HIDE DEF PingInv
<1> QED
    BY <1>1, <1>2, <1>3, <1>4, <1>5, <1>6, <1>7, <1>8, <1>9, <1>10, <1>11, <1>12, <1>13,
       <1>14, <1>15 DEF Next

\* Type correctness, for every payload length, timeout and number of streams.
THEOREM TypeCorrect == Spec => []TypeOK
<1>1. PingInv => TypeOK
    BY DEF PingInv, TypeOK, PeerStateOK, Sound, PeerStates
<1> QED
    BY <1>1, PingInit, PingStep, PTL DEF Spec

\* MAX_INBOUND_STREAMS bounds what one peer can make the listener hold, for
\* every limit and every number of streams the peer opens.
THEOREM ListenerLimited == Spec => []InboundLimit
<1>1. PingInv => InboundLimit
    BY DEF PingInv, Limited, InboundLimit
<1> QED
    BY <1>1, PingInit, PingStep, PTL DEF Spec

\* A ping in flight belongs to a registered outbound stream: on_tick, which
\* skips peers without one, can never overlook a ping.
THEOREM TimeoutIsArmed ==
    Spec => [](dialer.pending_ping # None => dialer.outbound_stream \in PingStreams)
<1>1. PingInv => (dialer.pending_ping # None => dialer.outbound_stream \in PingStreams)
    BY DEF PingInv, Sound, PeerStates
<1> QED
    BY <1>1, PingInit, PingStep, PTL DEF Spec

-----------------------------------------------------------------------------
(* HonestExchanges.

   The invariant ExchangeInv describes each stream on its own by the values of its two
   channels (q, r), ends (de, le) and buffers (L, D), and whether the listener knows it
   and the dialer uses it.  Lemmas about those values show that the shape of a stream
   (Shaped) and the bytes under way in it (Counted) survive every update an action makes;
   the lemmas about actions only identify the update. *)

\* A byte that the transport can still deliver: no end of stream before it.
Plain(chan, i) ==
    /\ chan[i] \notin Markers
    /\ \A j \in 1..i : chan[j] \notin {FIN, RST}

\* One position is taken by the marker of a stream that is not accepted yet.
Opening(chan) == IF chan # <<>> /\ chan[1] = OPEN THEN 1 ELSE 0

\* What is on the wire and in the buffers continues payload p.
Carries(q, r, L, D, p) ==
    /\ \A i \in 1..Len(L) : L[i] = p[i]
    /\ \A i \in 1..Len(D) : D[i] = p[i]
    /\ \A i \in 1..Len(q) : Plain(q, i) => q[i] = p[Len(L) + i - Opening(q)]
    /\ \A i \in 1..Len(r) : Plain(r, i) => r[i] = p[Len(D) + i]

\* The bytes of a stream that are somewhere.
Given(q, r, L, D) == Bytes(q) + Len(L) + Bytes(r) + Len(D)

\* At most one payload is under way, none on the dialer's stream (out) without a ping in
\* flight (pend), and what is under way there is the payload of that ping.
Counted(q, r, L, D, out, pend) ==
    /\ Given(q, r, L, D) <= PING_PAYLOAD_LEN
    /\ out /\ pend = None => Given(q, r, L, D) = 0
    /\ out /\ pend # None => Carries(q, r, L, D, pend.payload)

\* An end that will not write again.
GivenUp == {"finished", "resetting", "closed"}

\* A stream that is not opened is empty; OPEN comes first and is taken by the accept; behind
\* a FIN comes only a reset, and the end that wrote it gave the stream up; the listener
\* forgets a stream only when the dialer can send nothing more on it; the dialer uses every
\* stream that neither end gave up.
Shaped(q, r, de, le, L, D, known, out) ==
    /\ de = "unused" => le = "unused" /\ q = <<>> /\ r = <<>> /\ L = <<>> /\ D = <<>>
    /\ \A i \in 1..Len(q) : q[i] = OPEN => i = 1 /\ le = "unused"
    /\ \A i \in 1..Len(r) : r[i] # OPEN
    /\ \A i, j \in 1..Len(q) : i < j /\ q[i] = FIN => q[j] = RST
    /\ \A i \in 1..Len(q) : q[i] = FIN => de \in GivenUp
    /\ \A i \in 1..Len(r) : r[i] = FIN => le \in GivenUp
    /\ \A i \in 1..Len(L) : L[i] \notin Markers
    /\ le \in {"open", "finished"} /\ ~known =>
        de \in GivenUp /\ \A i \in 1..Len(q) : ~Plain(q, i)
    /\ de \in {"open", "finished"} /\ le \in {"unused", "open"} => out

\* Both, of a stream of the system.
StreamOK(s) ==
    /\ Shaped(request[s], reply[s], dEnd[s], lEnd[s], listener.recv_bufs[s],
              dialer.recv_bufs[s], s \in listener.inbound_streams, s = dialer.outbound_stream)
    /\ Counted(request[s], reply[s], listener.recv_bufs[s], dialer.recv_bufs[s],
               s = dialer.outbound_stream, dialer.pending_ping)

\* Inductive together with PingInv: the two ends keep to their roles.
ExchangeInv ==
    /\ listener.outbound_stream = None
    /\ dialer.inbound_streams = {}
    /\ \A s \in PingStreams : StreamOK(s)

\* The positions of the bytes of a channel.
BytesAt(chan) == {i \in DOMAIN chan : chan[i] \notin Markers}

\* An interval from 1 has as many elements as its bound.
LEMMA IntervalCount ==
    ASSUME NEW n \in Nat
    PROVE  IsFiniteSet(1..n) /\ Cardinality(1..n) = n
<1>1. 1 \in Int /\ n \in Int
    OBVIOUS
<1>2. /\ IsFiniteSet(1..n)
      /\ Cardinality(1..n) = IF 1 > n THEN 0 ELSE n - 1 + 1
    BY <1>1, FS_Interval, Zenon
<1> QED
    BY <1>2

\* The bytes of a channel are finitely many, no more than its elements.
LEMMA BytesCount ==
    ASSUME NEW c \in Seq(Symbols)
    PROVE  /\ IsFiniteSet(BytesAt(c))
           /\ Bytes(c) = Cardinality(BytesAt(c))
           /\ Bytes(c) \in Nat
           /\ Bytes(c) <= Len(c)
<1>1. BytesAt(c) \subseteq 1..Len(c)
    BY DEF BytesAt
<1>2. IsFiniteSet(1..Len(c)) /\ Cardinality(1..Len(c)) = Len(c)
    BY IntervalCount
<1>3. IsFiniteSet(BytesAt(c)) /\ Cardinality(BytesAt(c)) <= Len(c)
    BY <1>1, <1>2, FS_Subset
<1>4. Cardinality(BytesAt(c)) \in Nat
    BY <1>3, FS_CardinalityType
<1>5. Bytes(c) = Cardinality(BytesAt(c))
    BY DEF Bytes, BytesAt
<1> QED
    BY <1>3, <1>4, <1>5

\* A channel has no bytes when all it holds are markers.
LEMMA BytesOfMarkers ==
    ASSUME NEW c \in Seq(Symbols)
    PROVE  Bytes(c) = 0 <=> \A i \in 1..Len(c) : c[i] \in Markers
<1>1. BytesAt(c) = {} <=> \A i \in 1..Len(c) : c[i] \in Markers
    BY DEF BytesAt
<1>2. Cardinality(BytesAt(c)) = 0 <=> BytesAt(c) = {}
    BY BytesCount, FS_EmptySet
<1> QED
    BY <1>1, <1>2, BytesCount

\* All elements of a sequence without markers are bytes.
LEMMA BytesOfData ==
    ASSUME NEW c \in Seq(Symbols), \A i \in 1..Len(c) : c[i] \notin Markers
    PROVE  Bytes(c) = Len(c)
<1>1. BytesAt(c) = 1..Len(c)
    BY DEF BytesAt
<1>2. Cardinality(1..Len(c)) = Len(c)
    BY IntervalCount
<1> QED
    BY <1>1, <1>2, BytesCount

\* Bytes adds up over concatenation.
LEMMA BytesConcat ==
    ASSUME NEW a \in Seq(Symbols), NEW b \in Seq(Symbols)
    PROVE  Bytes(a \o b) = Bytes(a) + Bytes(b)
<1> DEFINE A == BytesAt(a)
           B == BytesAt(b)
           S == {Len(a) + i : i \in B}
           f == [i \in B |-> Len(a) + i]
<1>1. a \o b \in Seq(Symbols)
    OBVIOUS
<1>2. BytesAt(a \o b) = A \cup S
    BY DEF BytesAt
<1>3. A \cap S = {}
    BY DEF BytesAt
<1>4. IsFiniteSet(A) /\ IsFiniteSet(B)
    BY BytesCount
<1>5. f \in Bijection(B, S)
    <2>1. B \subseteq Nat /\ Len(a) \in Nat
        BY DEF BytesAt
    <2> QED
        BY <2>1 DEF Bijection, Injection, Surjection, IsInjective
<1>6. IsFiniteSet(S) /\ Cardinality(S) = Cardinality(B)
    <2>1. ExistsBijection(B, S)
        BY <1>5 DEF ExistsBijection
    <2> HIDE DEF B, S
    <2> QED BY <1>4, <2>1, FS_Bijection
<1>7. Cardinality(A \cup S) = Cardinality(A) + Cardinality(S)
    <2>1. Cardinality(A \cap S) = 0
        BY <1>3, FS_EmptySet
    <2>2. Cardinality(A) \in Nat /\ Cardinality(S) \in Nat
        BY <1>4, <1>6, FS_CardinalityType
    <2> HIDE DEF A, S
    <2>3. Cardinality(A \cup S) = Cardinality(A) + Cardinality(S) - Cardinality(A \cap S)
        BY <1>4, <1>6, FS_Union
    <2> QED BY <2>1, <2>2, <2>3
<1> HIDE DEF S
<1>8. Bytes(a) = Cardinality(A) /\ Bytes(b) = Cardinality(B) /\ Bytes(a \o b) = Cardinality(BytesAt(a \o b))
    BY <1>1, BytesCount
<1> HIDE DEF A, B
<1> QED
    BY <1>2, <1>6, <1>7, <1>8


\* c2 is c with marker m put behind it.
EndedBy(c, m, c2) ==
    /\ c2 \in Seq(Symbols)
    /\ Len(c2) = Len(c) + 1
    /\ \A i \in 1..Len(c) : c2[i] = c[i]
    /\ c2[Len(c) + 1] = m
    /\ Bytes(c2) = Bytes(c)

\* c2 is c without its first n elements, b of them bytes.
Shortened(c, n, b, c2) ==
    /\ c2 \in Seq(Symbols)
    /\ Len(c2) = Len(c) - n
    /\ \A i \in 1..Len(c2) : c2[i] = c[i + n]
    /\ Bytes(c2) = Bytes(c) - b

\* c2 is c with x put behind it.
Grown(c, x, c2) ==
    /\ c2 \in Seq(Symbols)
    /\ Len(c2) = Len(c) + Len(x)
    /\ \A i \in 1..Len(c) : c2[i] = c[i]
    /\ \A i \in 1..Len(x) : c2[Len(c) + i] = x[i]
    /\ Bytes(c2) = Bytes(c) + Bytes(x)

\* Markers travel in channels.
LEMMA MarkersAreSymbols == OPEN \in Symbols /\ FIN \in Symbols /\ RST \in Symbols
BY DEF Symbols, Markers

\* A marker alone is a channel without bytes.
LEMMA BytesOfOne ==
    ASSUME NEW m \in Markers
    PROVE  <<m>> \in Seq(Symbols) /\ Bytes(<<m>>) = 0
<1>1. <<m>> \in Seq(Symbols)
    BY DEF Symbols
<1>2. \A i \in 1..Len(<<m>>) : <<m>>[i] \in Markers
    OBVIOUS
<1> QED
    BY <1>1, <1>2, BytesOfMarkers

\* So is the empty channel.
LEMMA BytesOfNone == <<>> \in Seq(Symbols) /\ Bytes(<<>>) = 0
<1>1. <<>> \in Seq(Symbols) /\ \A i \in 1..Len(<<>>) : <<>>[i] \in Markers
    OBVIOUS
<1> QED
    BY <1>1, BytesOfMarkers

\* Writing to a channel.
LEMMA ConcatGrows ==
    ASSUME NEW c \in Seq(Symbols), NEW x \in Seq(Symbols)
    PROVE  Grown(c, x, c \o x)
BY BytesConcat DEF Grown

\* Putting a marker on a channel.
LEMMA AppendEnds ==
    ASSUME NEW c \in Seq(Symbols), NEW m \in Markers
    PROVE  EndedBy(c, m, Append(c, m))
<1>1. Append(c, m) = c \o <<m>>
    BY DEF Symbols
<1>2. Bytes(Append(c, m)) = Bytes(c)
    <2>1. Bytes(c \o <<m>>) = Bytes(c) + Bytes(<<m>>)
        BY BytesOfOne, BytesConcat
    <2> QED BY <1>1, <2>1, BytesOfOne, BytesCount
<1> QED
    BY <1>2 DEF EndedBy, Symbols

\* A sequence that agrees with two others, one after the other, is their concatenation.
LEMMA Rejoined ==
    ASSUME NEW a \in Seq(Symbols), NEW b \in Seq(Symbols), NEW c \in Seq(Symbols),
           Len(c) = Len(a) + Len(b),
           \A i \in 1..Len(a) : a[i] = c[i],
           \A i \in 1..Len(b) : c[Len(a) + i] = b[i]
    PROVE  a \o b = c
<1>1. Len(a \o b) = Len(c) /\ a \o b \in Seq(Symbols)
    OBVIOUS
<1>2. \A i \in 1..Len(c) : (a \o b)[i] = c[i]
    <2> SUFFICES ASSUME NEW i \in 1..Len(c) PROVE (a \o b)[i] = c[i]
        OBVIOUS
    <2>1. CASE i \in 1..Len(a)
        BY <2>1
    <2>2. CASE i \notin 1..Len(a)
        <3>1. i - Len(a) \in 1..Len(b) /\ Len(a) + (i - Len(a)) = i
            BY <2>2
        <3>2. c[i] = b[i - Len(a)]
            BY <3>1
        <3> QED BY <2>2, <3>1, <3>2
    <2> QED BY <2>1, <2>2
<1> QED
    BY <1>1, <1>2

\* Taking a chunk of n bytes from a channel.
LEMMA ChunkShortens ==
    ASSUME NEW c \in Seq(Symbols), NEW n, IsChunk(c, n)
    PROVE  /\ n \in Nat \ {0} /\ n <= Len(c)
           /\ SubSeq(c, 1, n) \in Seq(Symbols)
           /\ Len(SubSeq(c, 1, n)) = n
           /\ \A i \in 1..n : SubSeq(c, 1, n)[i] = c[i] /\ c[i] \notin Markers
           /\ Shortened(c, n, n, Rest(c, n))
<1>1. n \in Nat \ {0} /\ n <= Len(c)
    BY DEF IsChunk
<1> DEFINE a == SubSeq(c, 1, n)
           b == Rest(c, n)
<1>2. a \in Seq(Symbols) /\ Len(a) = n /\ \A i \in 1..n : a[i] = c[i] /\ c[i] \notin Markers
    BY <1>1 DEF IsChunk
<1>3. b \in Seq(Symbols) /\ Len(b) = Len(c) - n /\ \A i \in 1..Len(b) : b[i] = c[i + n]
    BY <1>1 DEF Rest
<1> HIDE DEF a, b
<1>4. a \o b = c
    <2>1. Len(c) = Len(a) + Len(b)
        BY <1>1, <1>2, <1>3
    <2>2. \A i \in 1..Len(b) : c[Len(a) + i] = b[i]
        BY <1>1, <1>2, <1>3
    <2> QED BY <1>2, <1>3, <2>1, <2>2, Rejoined
<1>5. Bytes(a) = n
    BY <1>2, BytesOfData
<1>6. Bytes(c) = n + Bytes(b)
    BY <1>2, <1>3, <1>4, <1>5, BytesConcat
<1>7. Bytes(b) = Bytes(c) - n
    BY <1>1, <1>3, <1>6, BytesCount
<1>8. Shortened(c, n, n, b)
    BY <1>3, <1>7 DEF Shortened
<1> QED
    BY <1>1, <1>2, <1>8 DEF a, b

\* Taking a marker from a channel.
LEMMA TailShortens ==
    ASSUME NEW c \in Seq(Symbols), c # <<>>, Head(c) \in Markers
    PROVE  Shortened(c, 1, 0, Tail(c))
<1>1. c = <<Head(c)>> \o Tail(c) /\ Tail(c) \in Seq(Symbols)
    OBVIOUS
<1>2. Bytes(c) = Bytes(<<Head(c)>>) + Bytes(Tail(c))
    BY <1>1, BytesOfOne, BytesConcat
<1>3. Bytes(<<Head(c)>>) = 0 /\ Bytes(Tail(c)) \in Nat
    BY <1>1, BytesOfOne, BytesCount
<1>4. Bytes(Tail(c)) = Bytes(c) - 0
    BY <1>2, <1>3
<1> QED
    BY <1>1, <1>4 DEF Shortened


\* A stream of ends de and le, whose channels are q and r and whose buffers are L and D.
Typed(q, r, de, le, L, D) ==
    /\ q \in Seq(Symbols) /\ r \in Seq(Symbols) /\ L \in Seq(Symbols) /\ D \in Seq(Symbols)
    /\ de \in EndStates /\ le \in EndStates

\* The shape of a stream is kept ...
\* ... when the dialer opens it,
LEMMA OpenShapes ==
    ASSUME NEW known
    PROVE  Shaped(<<OPEN>>, <<>>, "open", "unused", <<>>, <<>>, known, TRUE)
BY DEF Shaped, Plain, GivenUp, OPEN, FIN, RST

\* ... when the listener half-closes it,
LEMMA FinishShapes ==
    ASSUME NEW q, NEW r, NEW de, NEW L, NEW D, NEW known, NEW out, NEW r2,
           Typed(q, r, de, "open", L, D), Shaped(q, r, de, "open", L, D, known, out),
           EndedBy(r, FIN, r2)
    PROVE  Shaped(q, r2, de, "finished", L, D, known, out)
<1>1. \A i \in 1..Len(r2) : \/ i \in 1..Len(r) /\ r2[i] = r[i]
                            \/ i = Len(r) + 1 /\ r2[i] = FIN
    BY DEF Typed, EndedBy
<1>2. de # "unused"
    BY DEF Shaped
<1> QED BY <1>1, <1>2 DEF Shaped, GivenUp, OPEN, FIN

\* ... when the network aborts it,
LEMMA AbortShapes ==
    ASSUME NEW q, NEW r, NEW de, NEW le, NEW L, NEW D, NEW known, NEW out,
           Typed(q, r, de, le, L, D), Shaped(q, r, de, le, L, D, known, out), de # "unused"
    PROVE  Shaped(<<RST>>, <<RST>>, de, le, L, D, known, out)
BY DEF Typed, Shaped, Plain, OPEN, FIN, RST

\* ... when the listener accepts it,
LEMMA AcceptShapes ==
    ASSUME NEW q, NEW r, NEW de, NEW le, NEW L, NEW D, NEW known, NEW out, NEW q2,
           Typed(q, r, de, le, L, D), Shaped(q, r, de, le, L, D, known, out),
           q # <<>>, q[1] = OPEN, Shortened(q, 1, 0, q2)
    PROVE  /\ le = "unused" /\ de # "unused"
           /\ Shaped(q2, r, de, "open", L, D, TRUE, out)
           /\ Shaped(<<>>, <<RST>>, de, "resetting", L, D, known, out)
<1>1. le = "unused" /\ de # "unused"
    BY DEF Typed, Shaped
<1>2. Shaped(q2, r, de, "open", L, D, TRUE, out)
    BY <1>1 DEF Typed, Shaped, Shortened, GivenUp
<1>3. Shaped(<<>>, <<RST>>, de, "resetting", L, D, known, out)
    BY <1>1 DEF Typed, Shaped, GivenUp, OPEN, RST, FIN
<1> QED BY <1>1, <1>2, <1>3

\* ... when the listener takes a chunk, which it only can of a stream it knows,
LEMMA ChunkShapes ==
    ASSUME NEW q, NEW r, NEW de, NEW le, NEW L, NEW D, NEW known, NEW out, NEW n, NEW q2,
           Typed(q, r, de, le, L, D), Shaped(q, r, de, le, L, D, known, out),
           le \in {"open", "finished"}, n \in Nat \ {0}, n <= Len(q),
           \A i \in 1..n : q[i] \notin Markers, Shortened(q, n, n, q2)
    PROVE  /\ known
           /\ \A L2 \in Seq(Symbols) : (\A i \in 1..Len(L2) : L2[i] \notin Markers) =>
                /\ Shaped(q2, r, de, le, L2, D, known, out)
                /\ \A r2, x \in Seq(Symbols) :
                    le = "open" /\ (\A i \in 1..Len(x) : x[i] \notin Markers) /\ Grown(r, x, r2)
                        => Shaped(q2, r2, de, le, L2, D, known, out)
<1>1. known
    <2>1. 1 \in 1..Len(q) /\ 1 \in 1..n /\ \A j \in 1..1 : j = 1
        BY DEF Typed
    <2>2. Plain(q, 1)
        BY <2>1 DEF Plain, Markers
    <2> QED BY <2>1, <2>2 DEF Shaped
<1>2. ASSUME NEW L2 \in Seq(Symbols), \A i \in 1..Len(L2) : L2[i] \notin Markers
      PROVE  Shaped(q2, r, de, le, L2, D, known, out)
    <2>1. de # "unused" /\ \A i \in 1..Len(q2) : i + n \in 1..Len(q) /\ q2[i] = q[i + n]
        BY DEF Typed, Shaped, Shortened
    <2>2. \A i \in 1..Len(q) : q[i] # OPEN
        BY DEF Typed, Shaped
    <2>3. /\ \A i \in 1..Len(q2) : q2[i] # OPEN
          /\ \A i \in 1..Len(q2) : q2[i] = FIN => de \in GivenUp
        BY <2>1, <2>2 DEF Shaped
    <2>4. \A i, j \in 1..Len(q2) : i < j /\ q2[i] = FIN => q2[j] = RST
        <3> SUFFICES ASSUME NEW i \in 1..Len(q2), NEW j \in 1..Len(q2), i < j, q2[i] = FIN
                     PROVE  q2[j] = RST
            OBVIOUS
        <3>1. i + n < j + n /\ q[i + n] = FIN
            BY <2>1
        <3> QED BY <2>1, <3>1 DEF Shaped
    <2> QED BY <1>1, <1>2, <2>1, <2>3, <2>4 DEF Shaped
<1>3. ASSUME NEW L2 \in Seq(Symbols), \A i \in 1..Len(L2) : L2[i] \notin Markers,
             NEW r2 \in Seq(Symbols), NEW x \in Seq(Symbols),
             le = "open", \A i \in 1..Len(x) : x[i] \notin Markers, Grown(r, x, r2)
      PROVE  Shaped(q2, r2, de, le, L2, D, known, out)
    <2>1. \A i \in 1..Len(r2) : r2[i] # OPEN /\ r2[i] # FIN
        <3> SUFFICES ASSUME NEW i \in 1..Len(r2) PROVE r2[i] # OPEN /\ r2[i] # FIN
            OBVIOUS
        <3>1. CASE i \in 1..Len(r)
            BY <1>3, <3>1 DEF Typed, Shaped, Grown, GivenUp
        <3>2. CASE i \notin 1..Len(r)
            <4>1. i - Len(r) \in 1..Len(x) /\ Len(r) + (i - Len(r)) = i
                BY <1>3, <3>2 DEF Grown, Typed
            <4> QED BY <1>3, <4>1 DEF Grown, Markers
        <3> QED BY <3>1, <3>2
    <2>2. Shaped(q2, r, de, le, L2, D, known, out)
        BY <1>2, <1>3
    <2> QED BY <1>1, <1>3, <2>1, <2>2 DEF Typed, Shaped
<1> QED BY <1>1, <1>2, <1>3

\* ... when the listener sees the dialer's end of the stream,
LEMMA FinSeenShapes ==
    ASSUME NEW q, NEW r, NEW de, NEW le, NEW L, NEW D, NEW known, NEW out, NEW q2,
           Typed(q, r, de, le, L, D), Shaped(q, r, de, le, L, D, known, out),
           le \in {"open", "finished"}, q # <<>>, q[1] = FIN, Shortened(q, 1, 0, q2)
    PROVE  /\ Shaped(q2, r, de, le, <<>>, D, FALSE, out)
           /\ ~known => Shaped(q2, r, de, le, L, D, known, out)
<1>1. 1 \in 1..Len(q) /\ de \in GivenUp
    BY DEF Typed, Shaped
<1>2. \A i \in 1..Len(q2) : q2[i] = RST
    BY <1>1 DEF Typed, Shaped, Shortened
<1>3. \A i \in 1..Len(q2) : ~Plain(q2, i)
    BY <1>2 DEF Plain, Markers
<1> QED
    BY <1>1, <1>2, <1>3 DEF Typed, Shaped, Shortened, GivenUp, OPEN, FIN, RST

\* ... when the stream is closed on the listener,
LEMMA ListenerClosedShapes ==
    ASSUME NEW q, NEW r, NEW de, NEW le, NEW L, NEW D, NEW known, NEW out,
           Typed(q, r, de, le, L, D), Shaped(q, r, de, le, L, D, known, out), le # "unused"
    PROVE  Shaped(<<>>, r, de, "closed", <<>>, D, FALSE, out)
BY DEF Typed, Shaped, GivenUp

\* ... when the dialer takes a chunk or sees the listener's end of the stream,
LEMMA DialerTakesShapes ==
    ASSUME NEW q, NEW r, NEW de, NEW le, NEW L, NEW D, NEW known, NEW out, NEW r2, NEW n, NEW b,
           Typed(q, r, de, le, L, D), Shaped(q, r, de, le, L, D, known, out),
           de # "unused", n \in Nat, n <= Len(r), Shortened(r, n, b, r2), NEW D2
    PROVE  /\ Shaped(q, r2, de, le, L, D2, known, out)
           /\ le \in GivenUp => Shaped(q, r2, de, le, L, D2, known, FALSE)
<1>1. Shaped(q, r2, de, le, L, D2, known, out)
    BY DEF Typed, Shaped, Shortened, GivenUp
<1>2. ASSUME le \in GivenUp PROVE Shaped(q, r2, de, le, L, D2, known, FALSE)
    BY <1>1, <1>2 DEF Shaped, GivenUp
<1> QED BY <1>1, <1>2

\* ... when the stream is closed on the dialer,
LEMMA DialerClosedShapes ==
    ASSUME NEW q, NEW r, NEW de, NEW le, NEW L, NEW D, NEW known, NEW out,
           Typed(q, r, de, le, L, D), Shaped(q, r, de, le, L, D, known, out), de # "unused"
    PROVE  Shaped(q, <<>>, "closed", le, L, <<>>, known, FALSE)
BY DEF Typed, Shaped, GivenUp

\* ... when the dialer resets it,
LEMMA DialerResetShapes ==
    ASSUME NEW q, NEW r, NEW de, NEW le, NEW L, NEW D, NEW known, NEW out, NEW q2, NEW D2,
           Typed(q, r, de, le, L, D), Shaped(q, r, de, le, L, D, known, out),
           de # "unused", q2 = <<RST>> \/ EndedBy(q, RST, q2)
    PROVE  Shaped(q2, <<>>, "resetting", le, L, D2, known, FALSE)
<1>1. CASE q2 = <<RST>>
    BY <1>1 DEF Typed, Shaped, GivenUp, Plain, OPEN, RST, FIN
<1>2. CASE EndedBy(q, RST, q2)
    <2>1. (\A i \in 1..Len(q) : ~Plain(q, i)) => (\A i \in 1..Len(q2) : ~Plain(q2, i))
        <3> SUFFICES ASSUME NEW i \in 1..Len(q2), Plain(q2, i) PROVE Plain(q, i) /\ i \in 1..Len(q)
            OBVIOUS
        <3>1. i \in 1..Len(q)
            BY <1>2 DEF Typed, EndedBy, Plain, Markers
        <3>2. \A j \in 1..i : j \in 1..Len(q) /\ q2[j] = q[j]
            BY <1>2, <3>1 DEF Typed, EndedBy
        <3>3. i \in 1..i
            BY <3>1
        <3> QED BY <3>1, <3>2, <3>3 DEF Plain
    <2>2. \A i \in 1..Len(q2) : \/ i \in 1..Len(q) /\ q2[i] = q[i]
                                \/ i = Len(q) + 1 /\ q2[i] = RST
        BY <1>2 DEF Typed, EndedBy
    <2>3. \A i, j \in 1..Len(q2) : i < j /\ q2[i] = FIN => q2[j] = RST
        BY <2>2 DEF Typed, Shaped, FIN, RST
    <2> QED BY <2>1, <2>2, <2>3 DEF Shaped, GivenUp, OPEN, RST, FIN
<1> QED BY <1>1, <1>2

\* ... when the dialer drops a stream that it can no longer use,
LEMMA DropShapes ==
    ASSUME NEW q, NEW r, NEW de, NEW le, NEW L, NEW D, NEW known, NEW out,
           Typed(q, r, de, le, L, D), Shaped(q, r, de, le, L, D, known, out),
           de \notin {"open", "finished"}
    PROVE  Shaped(q, <<>>, de, le, L, <<>>, known, FALSE)
BY DEF Typed, Shaped, GivenUp

\* ... and when it sends a payload or half-closes.
LEMMA SendShapes ==
    ASSUME NEW q, NEW r, NEW le, NEW L, NEW D, NEW known, NEW out, NEW p \in Seq(Symbols), NEW q2,
           Typed(q, r, "open", le, L, D), Shaped(q, r, "open", le, L, D, known, out),
           \A i \in 1..Len(p) : p[i] \notin Markers, Grown(q, p, q2)
    PROVE  Shaped(q2, r, "open", le, L, D, known, out)
<1>1. \A i \in 1..Len(q2) : /\ q2[i] = OPEN => i = 1 /\ le = "unused"
                            /\ q2[i] # FIN
    <2> SUFFICES ASSUME NEW i \in 1..Len(q2)
                 PROVE  (q2[i] = OPEN => i = 1 /\ le = "unused") /\ q2[i] # FIN
        OBVIOUS
    <2>1. CASE i \in 1..Len(q)
        BY <2>1 DEF Typed, Shaped, Grown, GivenUp
    <2>2. CASE i \notin 1..Len(q)
        <3>1. i - Len(q) \in 1..Len(p) /\ Len(q) + (i - Len(q)) = i
            BY <2>2 DEF Grown, Typed
        <3> QED BY <3>1 DEF Grown, Markers
    <2> QED BY <2>1, <2>2
<1> QED BY <1>1 DEF Typed, Shaped, GivenUp

\* Likewise for a half-close.
LEMMA HalfCloseShapes ==
    ASSUME NEW q, NEW r, NEW le, NEW L, NEW D, NEW known, NEW out, NEW q2,
           Typed(q, r, "open", le, L, D), Shaped(q, r, "open", le, L, D, known, out),
           EndedBy(q, FIN, q2)
    PROVE  Shaped(q2, r, "finished", le, L, D, known, out)
<1>1. \A i \in 1..Len(q2) : \/ i \in 1..Len(q) /\ q2[i] = q[i] /\ q2[i] # FIN
                            \/ i = Len(q) + 1 /\ q2[i] = FIN
    BY DEF Typed, Shaped, EndedBy, GivenUp
<1>2. \A i, j \in 1..Len(q2) : ~(i < j /\ q2[i] = FIN)
    BY <1>1 DEF EndedBy, Typed
<1> QED
    BY <1>1, <1>2 DEF Shaped, GivenUp, OPEN, FIN

\* A stream's counts are natural numbers.
LEMMA CountsAreNat ==
    ASSUME NEW q \in Seq(Symbols), NEW r \in Seq(Symbols), NEW L \in Seq(Symbols),
           NEW D \in Seq(Symbols)
    PROVE  Bytes(q) \in Nat /\ Bytes(r) \in Nat /\ Len(L) \in Nat /\ Len(D) \in Nat
BY BytesCount

\* A stream the dialer does not use keeps its count when bytes are only lost or passed on.
LEMMA UnusedCounts ==
    ASSUME NEW q, NEW r, NEW L, NEW D, NEW out, NEW pend, NEW q2, NEW r2, NEW L2, NEW D2, NEW pend2,
           Counted(q, r, L, D, out, pend), Given(q2, r2, L2, D2) <= Given(q, r, L, D),
           Given(q2, r2, L2, D2) \in Nat, Given(q, r, L, D) \in Nat
    PROVE  Counted(q2, r2, L2, D2, FALSE, pend2)
BY PingAssumption DEF Counted

\* Counts and contents of a stream are kept ...
\* ... when the listener half-closes it,
LEMMA FinishCounts ==
    ASSUME NEW q \in Seq(Symbols), NEW r \in Seq(Symbols), NEW L \in Seq(Symbols),
           NEW D \in Seq(Symbols), NEW out, NEW pend, NEW r2,
           Counted(q, r, L, D, out, pend), EndedBy(r, FIN, r2)
    PROVE  Counted(q, r2, L, D, out, pend)
<1>1. \A i \in 1..Len(r2) : Plain(r2, i) => i \in 1..Len(r) /\ Plain(r, i) /\ r2[i] = r[i]
    <2> SUFFICES ASSUME NEW i \in 1..Len(r2), Plain(r2, i)
                 PROVE  i \in 1..Len(r) /\ Plain(r, i) /\ r2[i] = r[i]
        OBVIOUS
    <2>1. i \in 1..Len(r)
        BY DEF EndedBy, Plain, Markers
    <2> QED BY <2>1 DEF EndedBy, Plain
<1>2. Given(q, r2, L, D) = Given(q, r, L, D)
    BY DEF Given, EndedBy
<1>3. ASSUME NEW p, Carries(q, r, L, D, p) PROVE Carries(q, r2, L, D, p)
    BY <1>1, <1>3 DEF Carries
<1> QED BY <1>2, <1>3 DEF Counted

\* ... when the network aborts it, or the listener resets or closes it,
LEMMA CutCounts ==
    ASSUME NEW q \in Seq(Symbols), NEW r \in Seq(Symbols), NEW L \in Seq(Symbols),
           NEW D \in Seq(Symbols), NEW out, NEW pend, Counted(q, r, L, D, out, pend)
    PROVE  /\ Counted(<<RST>>, <<RST>>, L, D, out, pend)
           /\ Counted(<<>>, <<RST>>, L, D, out, pend)
           /\ Counted(<<>>, r, <<>>, D, out, pend)
<1>1. Bytes(<<RST>>) = 0 /\ Bytes(<<>>) = 0 /\ Len(<<>>) = 0
    BY BytesOfOne, BytesOfNone DEF Markers
<1>2. \A i \in 1..Len(<<RST>>) : ~Plain(<<RST>>, i)
    BY DEF Plain, Markers
<1>3. ASSUME NEW c, NEW d, Bytes(c) = 0, Bytes(d) = 0
      PROVE  Given(c, d, L, D) <= Given(q, r, L, D) /\ Given(c, d, L, D) \in Nat
    BY <1>3, CountsAreNat DEF Given
<1>4. Given(<<>>, r, <<>>, D) <= Given(q, r, L, D) /\ Given(<<>>, r, <<>>, D) \in Nat
    BY <1>1, CountsAreNat DEF Given
<1>5. Given(q, r, L, D) \in Nat
    BY CountsAreNat DEF Given
<1>6. ASSUME NEW p, Carries(q, r, L, D, p)
      PROVE  /\ Carries(<<RST>>, <<RST>>, L, D, p)
             /\ Carries(<<>>, <<RST>>, L, D, p)
             /\ Carries(<<>>, r, <<>>, D, p)
    <2>1. \A i \in 1..Len(<<>>) : FALSE
        OBVIOUS
    <2>2. Carries(<<RST>>, <<RST>>, L, D, p)
        BY <1>2, <1>6 DEF Carries
    <2>3. Carries(<<>>, <<RST>>, L, D, p)
        BY <1>2, <1>6, <2>1 DEF Carries
    <2>4. Carries(<<>>, r, <<>>, D, p)
        BY <1>6, <2>1 DEF Carries
    <2> QED BY <2>2, <2>3, <2>4
<1>7. ASSUME NEW a, NEW b, NEW c, NEW d, Given(a, b, c, d) <= Given(q, r, L, D),
             Given(a, b, c, d) \in Nat, \A p : Carries(q, r, L, D, p) => Carries(a, b, c, d, p)
      PROVE  Counted(a, b, c, d, out, pend)
    BY <1>5, <1>7, PingAssumption DEF Counted
<1> QED BY <1>1, <1>3, <1>4, <1>6, <1>7

\* ... when the listener accepts it,
LEMMA AcceptCounts ==
    ASSUME NEW q \in Seq(Symbols), NEW r \in Seq(Symbols), NEW L \in Seq(Symbols),
           NEW D \in Seq(Symbols), NEW out, NEW pend, NEW q2,
           Counted(q, r, L, D, out, pend), q # <<>>, q[1] = OPEN, Shortened(q, 1, 0, q2),
           \A i \in 1..Len(q) : q[i] = OPEN => i = 1
    PROVE  Counted(q2, r, L, D, out, pend)
<1>1. Given(q2, r, L, D) = Given(q, r, L, D)
    BY CountsAreNat DEF Given, Shortened
<1>2. \A i \in 1..Len(q2) : i + 1 \in 1..Len(q) /\ q2[i] = q[i + 1]
    BY DEF Shortened
<1>3. Opening(q) = 1 /\ Opening(q2) = 0
    BY <1>2 DEF Opening, Shortened
<1>4. ASSUME NEW i \in 1..Len(q2), Plain(q2, i) PROVE Plain(q, i + 1)
    <2> SUFFICES ASSUME NEW j \in 1..(i + 1) PROVE q[j] \notin {FIN, RST}
        BY <1>2, <1>4 DEF Plain
    <2>1. CASE j = 1
        BY <2>1 DEF OPEN, FIN, RST
    <2>2. CASE j # 1
        <3>1. j - 1 \in 1..i /\ j - 1 \in 1..Len(q2) /\ (j - 1) + 1 = j
            BY <2>2 DEF Shortened
        <3> QED BY <1>2, <1>4, <3>1 DEF Plain
    <2> QED BY <2>1, <2>2
<1>5. ASSUME NEW p, Carries(q, r, L, D, p) PROVE Carries(q2, r, L, D, p)
    <2>1. ASSUME NEW i \in 1..Len(q2), Plain(q2, i) PROVE q2[i] = p[Len(L) + i - Opening(q2)]
        <3>1. q2[i] = p[Len(L) + (i + 1) - 1]
            BY <1>2, <1>3, <1>4, <1>5, <2>1 DEF Carries
        <3>2. Len(L) + (i + 1) - 1 = Len(L) + i - 0
            OBVIOUS
        <3> QED BY <1>3, <3>1, <3>2
    <2> QED BY <1>5, <2>1 DEF Carries
<1> QED BY <1>1, <1>5 DEF Counted

\* Channel c continues what buffer B has of payload p.
Continues(c, B, p) ==
    /\ \A i \in 1..Len(B) : B[i] = p[i]
    /\ \A i \in 1..Len(c) : Plain(c, i) => c[i] = p[Len(B) + i]

\* On an accepted stream, Carries is Continues in both directions.
LEMMA CarriesBoth ==
    ASSUME NEW q \in Seq(Symbols), NEW r \in Seq(Symbols), NEW L \in Seq(Symbols),
           NEW D \in Seq(Symbols), NEW p, \A i \in 1..Len(q) : q[i] # OPEN
    PROVE  Carries(q, r, L, D, p) <=> Continues(q, L, p) /\ Continues(r, D, p)
<1>1. Opening(q) = 0
    BY DEF Opening
<1>2. \A i \in 1..Len(q) : Len(L) + i - Opening(q) = Len(L) + i
    BY <1>1
<1> QED BY <1>2 DEF Carries, Continues

\* B2 is B with the first n elements of c behind it.
Taken(c, n, B, B2) ==
    /\ B2 \in Seq(Symbols)
    /\ Len(B2) = Len(B) + n
    /\ \A i \in 1..Len(B) : B2[i] = B[i]
    /\ \A i \in 1..n : B2[Len(B) + i] = c[i]

\* A chunk moves from the channel to the buffer.
LEMMA ChunkContinues ==
    ASSUME NEW c \in Seq(Symbols), NEW B \in Seq(Symbols), NEW p, NEW n \in Nat, n <= Len(c),
           \A i \in 1..n : c[i] \notin Markers, NEW c2, NEW B2,
           Shortened(c, n, n, c2), Taken(c, n, B, B2), Continues(c, B, p)
    PROVE  Continues(c2, B2, p)
<1>1. ASSUME NEW i \in 1..Len(B2) PROVE B2[i] = p[i]
    <2>1. CASE i \in 1..Len(B)
        BY <2>1 DEF Taken, Continues
    <2>2. CASE i \notin 1..Len(B)
        <3>1. i - Len(B) \in 1..n /\ i - Len(B) \in 1..Len(c) /\ Len(B) + (i - Len(B)) = i
            BY <2>2 DEF Taken
        <3>2. B2[i] = c[i - Len(B)]
            BY <3>1 DEF Taken
        <3>3. Plain(c, i - Len(B))
            <4>1. \A j \in 1..(i - Len(B)) : j \in 1..n
                BY <3>1
            <4> QED BY <3>1, <4>1 DEF Plain, Markers
        <3>4. c[i - Len(B)] = p[Len(B) + (i - Len(B))]
            BY <3>1, <3>3 DEF Continues
        <3> QED BY <3>1, <3>2, <3>4
    <2> QED BY <2>1, <2>2
<1>2. ASSUME NEW i \in 1..Len(c2), Plain(c2, i) PROVE c2[i] = p[Len(B2) + i]
    <2>1. i + n \in 1..Len(c) /\ c2[i] = c[i + n] /\ Len(B) + (i + n) = Len(B2) + i
        BY DEF Shortened, Taken
    <2>2. Plain(c, i + n)
        <3> SUFFICES ASSUME NEW j \in 1..(i + n) PROVE c[j] \notin {FIN, RST}
            BY <1>2, <2>1 DEF Plain
        <3>1. CASE j \in 1..n
            BY <3>1 DEF Markers
        <3>2. CASE j \notin 1..n
            <4>1. j - n \in 1..i /\ j - n \in 1..Len(c2) /\ (j - n) + n = j
                BY <3>2, <2>1 DEF Shortened
            <4>2. c2[j - n] = c[j]
                BY <4>1 DEF Shortened
            <4> QED BY <1>2, <4>1, <4>2 DEF Plain
        <3> QED BY <3>1, <3>2
    <2>3. c[i + n] = p[Len(B) + (i + n)]
        BY <2>1, <2>2 DEF Continues
    <2> QED BY <2>1, <2>3
<1> QED BY <1>1, <1>2 DEF Continues

\* A full buffer is the payload.
LEMMA FullIsPayload ==
    ASSUME NEW c, NEW B \in Seq(Symbols), NEW p \in Payloads, Continues(c, B, p),
           Len(B) = PING_PAYLOAD_LEN
    PROVE  B = p
<1>1. p \in Seq(Symbols) /\ Len(p) = Len(B)
    BY PayloadIsSeq
<1>2. \A i \in 1..Len(B) : B[i] = p[i]
    BY DEF Continues
<1> QED BY <1>1, <1>2

\* A channel without bytes continues anything.
LEMMA EmptyContinues ==
    ASSUME NEW c \in Seq(Symbols), NEW p, Bytes(c) = 0
    PROVE  Continues(c, <<>>, p)
<1>1. \A i \in 1..Len(c) : ~Plain(c, i)
    BY BytesOfMarkers DEF Plain
<1>2. \A i \in 1..Len(<<>>) : FALSE
    OBVIOUS
<1> QED BY <1>1, <1>2 DEF Continues

\* A payload behind a channel without bytes is all that can be delivered of it.
LEMMA FreshContinues ==
    ASSUME NEW c \in Seq(Symbols), NEW p \in Seq(Symbols), Bytes(c) = 0, NEW c2, Grown(c, p, c2),
           \A i \in 1..Len(p) : p[i] \notin Markers
    PROVE  \A i \in 1..Len(c2) : Plain(c2, i) =>
                /\ \A j \in 1..Len(c) : c[j] = OPEN
                /\ i - Len(c) \in 1..Len(p)
                /\ c2[i] = p[i - Len(c)]
<1> SUFFICES ASSUME NEW i \in 1..Len(c2), Plain(c2, i)
             PROVE  /\ \A j \in 1..Len(c) : c[j] = OPEN
                    /\ i - Len(c) \in 1..Len(p)
                    /\ c2[i] = p[i - Len(c)]
    OBVIOUS
<1>1. \A j \in 1..Len(c) : c[j] \in Markers
    BY BytesOfMarkers
<1>2. i \notin 1..Len(c)
    BY <1>1 DEF Plain, Grown
<1>3. i - Len(c) \in 1..Len(p) /\ Len(c) + (i - Len(c)) = i /\ \A j \in 1..Len(c) : j \in 1..i
    BY <1>2 DEF Grown
<1>4. \A j \in 1..Len(c) : c[j] = OPEN
    BY <1>1, <1>3 DEF Plain, Markers, Grown
<1> QED BY <1>3, <1>4 DEF Grown

\* Bytes that go from one place to another are still under way.
LEMMA SumMoved ==
    ASSUME NEW a \in Nat, NEW b \in Nat, NEW c \in Nat, NEW d \in Nat, NEW a2 \in Nat, NEW b2 \in Nat,
           a + b = a2 + b2, a # 0
    PROVE  a2 + b2 + c + d = a + b + c + d /\ a + b + c + d \in Nat \ {0}
OBVIOUS

\* ... when the listener takes a chunk: it never overflows the buffer, and a payload that
\* is complete is alone under way,
LEMMA ListenerChunkCounts ==
    ASSUME NEW q \in Seq(Symbols), NEW r \in Seq(Symbols), NEW L \in Seq(Symbols),
           NEW D \in Seq(Symbols), NEW out, NEW pend, NEW n \in Nat \ {0}, n <= Len(q),
           \A i \in 1..n : q[i] \notin Markers, NEW q2, NEW L2,
           Counted(q, r, L, D, out, pend), pend # None => pend.payload \in Payloads,
           \A i \in 1..Len(q) : q[i] # OPEN, \A i \in 1..Len(r) : r[i] # OPEN,
           Shortened(q, n, n, q2), Taken(q, n, L, L2)
    PROVE  /\ Len(L2) <= PING_PAYLOAD_LEN
           /\ Counted(q2, r, L2, D, out, pend)
           /\ Len(L2) = PING_PAYLOAD_LEN =>
                /\ Counted(q2, r, <<>>, D, out, pend)
                /\ \A r2 : Grown(r, L2, r2) /\ (\A i \in 1..Len(L2) : L2[i] \notin Markers)
                            => Counted(q2, r2, <<>>, D, out, pend)
<1>1. /\ Bytes(q) \in Nat /\ Bytes(r) \in Nat /\ Len(L) \in Nat /\ Len(D) \in Nat
      /\ q2 \in Seq(Symbols) /\ Bytes(q2) \in Nat /\ Bytes(q2) = Bytes(q) - n
      /\ L2 \in Seq(Symbols) /\ Len(L2) = Len(L) + n
    BY BytesCount, SMTT(60) DEF Shortened, Taken
<1>2. Given(q2, r, L2, D) = Given(q, r, L, D) /\ Given(q, r, L, D) \in Nat \ {0}
    <2>1. Bytes(q) + Len(L) = Bytes(q2) + Len(L2) /\ Bytes(q) \in Nat \ {0}
        BY <1>1
    <2>2. Len(L2) \in Nat /\ Bytes(q) # 0
        BY <1>1, <2>1
    <2>3. /\ Bytes(q2) + Len(L2) + Bytes(r) + Len(D) = Bytes(q) + Len(L) + Bytes(r) + Len(D)
          /\ Bytes(q) + Len(L) + Bytes(r) + Len(D) \in Nat \ {0}
        BY <1>1, <2>1, <2>2, SumMoved
    <2> QED BY <2>3, Zenon DEF Given
<1>3. Len(L2) <= PING_PAYLOAD_LEN
    BY <1>1, PingAssumption, SMTT(60) DEF Counted, Given
<1>4. \A i \in 1..Len(q2) : q2[i] # OPEN
    BY <1>1, SMTT(60) DEF Shortened
<1>5. ~(out /\ pend = None)
    BY <1>2 DEF Counted
<1>6. ASSUME out, pend # None PROVE Continues(q2, L2, pend.payload) /\ Continues(r, D, pend.payload)
    <2>1. Continues(q, L, pend.payload) /\ Continues(r, D, pend.payload)
        BY <1>6, CarriesBoth DEF Counted
    <2> QED BY <2>1, ChunkContinues
<1>7. Counted(q2, r, L2, D, out, pend)
    BY <1>1, <1>2, <1>4, <1>5, <1>6, CarriesBoth DEF Counted
<1>8. ASSUME Len(L2) = PING_PAYLOAD_LEN
      PROVE  /\ Counted(q2, r, <<>>, D, out, pend)
             /\ \A r2 : Grown(r, L2, r2) /\ (\A i \in 1..Len(L2) : L2[i] \notin Markers)
                            => Counted(q2, r2, <<>>, D, out, pend)
    <2>1. Bytes(q2) = 0 /\ Bytes(r) = 0 /\ D = <<>> /\ Len(<<>>) = 0 /\ <<>> \in Seq(Symbols)
        <3>1. Bytes(q2) = 0 /\ Bytes(r) = 0 /\ Len(D) = 0
            <4>1. Given(q2, r, L2, D) <= PING_PAYLOAD_LEN
                BY <1>7 DEF Counted
            <4>2. Bytes(q2) + Len(L2) + Bytes(r) + Len(D) <= Len(L2)
                BY <4>1, <1>8 DEF Given
            <4>3. Bytes(q2) \in Nat /\ Len(L2) \in Nat /\ Bytes(r) \in Nat /\ Len(D) \in Nat
                BY <1>1
            <4> QED BY <4>2, <4>3
        <3> QED BY <3>1
    <2>2. Given(q2, r, <<>>, D) = 0
        BY <2>1 DEF Given
    <2>3. ASSUME out, pend # None PROVE Carries(q2, r, <<>>, D, pend.payload)
        BY <1>1, <1>4, <2>1, EmptyContinues, CarriesBoth
    <2>4. Counted(q2, r, <<>>, D, out, pend)
        BY <1>5, <2>2, <2>3, PingAssumption DEF Counted
    <2>5. ASSUME NEW r2, Grown(r, L2, r2), \A i \in 1..Len(L2) : L2[i] \notin Markers
          PROVE  Counted(q2, r2, <<>>, D, out, pend)
        <3>1. Given(q2, r2, <<>>, D) = PING_PAYLOAD_LEN /\ r2 \in Seq(Symbols)
            <4>1. Bytes(L2) = PING_PAYLOAD_LEN
                BY <1>1, <1>8, <2>5, BytesOfData
            <4> QED BY <2>1, <2>5, <4>1, PingAssumption DEF Given, Grown
        <3>0. \A i \in 1..Len(r2) : Plain(r2, i) =>
                /\ \A j \in 1..Len(r) : r[j] = OPEN
                /\ i - Len(r) \in 1..Len(L2)
                /\ r2[i] = L2[i - Len(r)]
            <4>1. L2 \in Seq(Symbols) /\ Bytes(r) = 0
                BY <1>1, <2>1
            <4> QED BY <2>5, <4>1, FreshContinues, ZenonT(60)
        <3>2. ASSUME out, pend # None PROVE Carries(q2, r2, <<>>, D, pend.payload)
            <4> DEFINE p == pend.payload
            <4>1. p \in Payloads /\ L2 = p
                BY <1>1, <1>6, <1>8, <3>2, FullIsPayload
            <4>2. ASSUME NEW i \in 1..Len(r2), Plain(r2, i) PROVE r2[i] = p[Len(D) + i]
                <5>1. (\A j \in 1..Len(r) : r[j] = OPEN) /\ r2[i] = L2[i - Len(r)]
                    BY <4>2, <3>0
                <5>2. Len(r) = 0
                    BY <5>1
                <5>3. i - Len(r) = Len(D) + i
                    BY <2>1, <5>2
                <5> QED BY <4>1, <5>1, <5>3
            <4>3. Continues(r2, D, p)
                BY <2>1, <4>2 DEF Continues
            <4>4. Continues(q2, <<>>, p)
                BY <1>1, <2>1, EmptyContinues
            <4> QED BY <1>1, <1>4, <2>1, <3>1, <4>3, <4>4, CarriesBoth
        <3> QED BY <1>5, <3>1, <3>2, PingAssumption DEF Counted
    <2> QED BY <2>4, <2>5
<1> QED BY <1>3, <1>7, <1>8

\* ... when the dialer takes a chunk, which completes nothing but the payload it sent,
LEMMA DialerChunkCounts ==
    ASSUME NEW q \in Seq(Symbols), NEW r \in Seq(Symbols), NEW L \in Seq(Symbols),
           NEW D \in Seq(Symbols), NEW pend, NEW n \in Nat \ {0}, n <= Len(r),
           \A i \in 1..n : r[i] \notin Markers, NEW r2, NEW D2,
           Counted(q, r, L, D, TRUE, pend), pend # None => pend.payload \in Payloads,
           Shortened(r, n, n, r2), Taken(r, n, D, D2)
    PROVE  /\ pend # None
           /\ Len(D2) <= PING_PAYLOAD_LEN
           /\ Counted(q, r2, L, D2, TRUE, pend)
           /\ Len(D2) = PING_PAYLOAD_LEN =>
                /\ D2 = pend.payload
                /\ Counted(q, r2, L, <<>>, TRUE, None)
<1>1. /\ Bytes(q) \in Nat /\ Bytes(r) \in Nat /\ Len(L) \in Nat /\ Len(D) \in Nat
      /\ r2 \in Seq(Symbols) /\ Bytes(r2) \in Nat /\ Bytes(r2) = Bytes(r) - n
      /\ D2 \in Seq(Symbols) /\ Len(D2) = Len(D) + n
    BY BytesCount, SMTT(60) DEF Shortened, Taken
<1>2. Given(q, r2, L, D2) = Given(q, r, L, D) /\ Given(q, r, L, D) \in Nat \ {0}
    BY <1>1, SMTT(60) DEF Given
<1>3. Len(D2) <= PING_PAYLOAD_LEN
    BY <1>1, PingAssumption, SMTT(60) DEF Counted, Given
<1>4. pend # None
    BY <1>2 DEF Counted
<1> DEFINE p == pend.payload
<1>5. Carries(q, r, L, D, p)
    BY <1>4 DEF Counted
<1>6. Continues(r2, D2, p)
    <2>1. Continues(r, D, p)
        BY <1>5 DEF Carries, Continues
    <2> QED BY <2>1, ChunkContinues
<1>7. Carries(q, r2, L, D2, p)
    BY <1>5, <1>6 DEF Carries, Continues
<1>8. Counted(q, r2, L, D2, TRUE, pend)
    BY <1>2, <1>4, <1>7 DEF Counted
<1>9. ASSUME Len(D2) = PING_PAYLOAD_LEN
      PROVE  D2 = p /\ Counted(q, r2, L, <<>>, TRUE, None)
    <2>1. D2 = p
        BY <1>1, <1>4, <1>6, <1>9, FullIsPayload
    <2>2. Given(q, r2, L, <<>>) = 0
        <3>1. Len(<<>>) = 0
            OBVIOUS
        <3> QED BY <1>1, <1>9, <3>1, PingAssumption, SMTT(60) DEF Counted, Given
    <2> QED BY <2>1, <2>2, PingAssumption DEF Counted
<1> QED BY <1>3, <1>4, <1>8, <1>9

\* ... when the listener sees the dialer's end of the stream,
LEMMA FinSeenCounts ==
    ASSUME NEW q \in Seq(Symbols), NEW r \in Seq(Symbols), NEW L \in Seq(Symbols),
           NEW D \in Seq(Symbols), NEW out, NEW pend, NEW q2,
           Counted(q, r, L, D, out, pend), Shortened(q, 1, 0, q2),
           \A i \in 1..Len(q2) : ~Plain(q2, i)
    PROVE  Counted(q2, r, L, D, out, pend) /\ Counted(q2, r, <<>>, D, out, pend)
<1>1. /\ Bytes(q) \in Nat /\ Bytes(r) \in Nat /\ Len(L) \in Nat /\ Len(D) \in Nat
      /\ Bytes(q2) = Bytes(q) /\ Len(<<>>) = 0
    BY BytesCount DEF Shortened
<1>2. /\ Given(q2, r, L, D) = Given(q, r, L, D) /\ Given(q, r, L, D) \in Nat
      /\ Given(q2, r, <<>>, D) <= Given(q, r, L, D) /\ Given(q2, r, <<>>, D) \in Nat
    BY <1>1 DEF Given
<1>3. ASSUME NEW p, Carries(q, r, L, D, p)
      PROVE  Carries(q2, r, L, D, p) /\ Carries(q2, r, <<>>, D, p)
    <2>1. \A i \in 1..Len(<<>>) : FALSE
        OBVIOUS
    <2> QED BY <1>3, <2>1 DEF Carries
<1> QED BY <1>2, <1>3, PingAssumption DEF Counted

\* ... and when the dialer sends a payload or half-closes, with nothing under way.
LEMMA SendCounts ==
    ASSUME NEW q \in Seq(Symbols), NEW r \in Seq(Symbols), NEW L \in Seq(Symbols),
           NEW D \in Seq(Symbols), Counted(q, r, L, D, TRUE, None),
           NEW p \in Payloads, NEW t \in Nat, NEW q2, Grown(q, p, q2),
           \A i \in 1..Len(p) : p[i] \notin Markers,
           \A i \in 1..Len(q) : q[i] = OPEN => i = 1
    PROVE  /\ Counted(q2, r, L, D, TRUE, [payload |-> p, sent_at |-> t])
           /\ Counted(q, r, L, D, TRUE, [payload |-> p, sent_at |-> t])
<1> DEFINE g == [payload |-> p, sent_at |-> t]
<1>1. g.payload = p
    OBVIOUS
<1>2. /\ Bytes(q) = 0 /\ Bytes(r) = 0 /\ Len(L) = 0 /\ Len(D) = 0
      /\ L = <<>> /\ D = <<>>
    <2>1. Bytes(q) = 0 /\ Bytes(r) = 0 /\ Len(L) = 0 /\ Len(D) = 0
        BY CountsAreNat DEF Counted, Given
    <2> QED BY <2>1
<1>3. p \in Seq(Symbols) /\ Len(p) = PING_PAYLOAD_LEN /\ Bytes(p) = PING_PAYLOAD_LEN
    BY PayloadIsSeq, BytesOfData
<1>4. Given(q2, r, L, D) = PING_PAYLOAD_LEN /\ Given(q, r, L, D) = 0
    BY <1>2, <1>3, PingAssumption DEF Given, Grown
<1>5. \A i \in 1..Len(q) : ~Plain(q, i)
    BY <1>2, BytesOfMarkers DEF Plain
<1>6. \A i \in 1..Len(r) : ~Plain(r, i)
    BY <1>2, BytesOfMarkers DEF Plain
<1>7. Carries(q, r, L, D, p)
    BY <1>2, <1>5, <1>6 DEF Carries
<1>8. ASSUME NEW i \in 1..Len(q2), Plain(q2, i) PROVE q2[i] = p[Len(L) + i - Opening(q2)]
    <2>1. /\ \A j \in 1..Len(q) : q[j] = OPEN
          /\ i - Len(q) \in 1..Len(p)
          /\ q2[i] = p[i - Len(q)]
        BY <1>2, <1>3, <1>8, FreshContinues
    <2>2. CASE Len(q) = 0
        <3>1. q2[1] = p[1] /\ p[1] # OPEN
            BY <1>3, <2>2, PingAssumption DEF Grown, Markers
        <3>2. Opening(q2) = 0
            BY <3>1 DEF Opening
        <3>3. i - Len(q) = Len(L) + i - Opening(q2)
            BY <1>2, <2>2, <3>2
        <3> QED BY <2>1, <3>3
    <2>3. CASE Len(q) # 0
        <3>1. Len(q) = 1 /\ q[1] = OPEN
            <4>1. Len(q) \in 1..Len(q) /\ 1 \in 1..Len(q)
                BY <2>3
            <4> QED BY <2>1, <4>1
        <3>2. q2[1] = OPEN /\ q2 # <<>>
            BY <1>3, <3>1, PingAssumption DEF Grown
        <3>3. Opening(q2) = 1
            BY <3>2 DEF Opening
        <3>4. i - Len(q) = Len(L) + i - Opening(q2)
            BY <1>2, <3>1, <3>3
        <3> QED BY <2>1, <3>4
    <2> QED BY <2>2, <2>3
<1>9. Carries(q2, r, L, D, p)
    BY <1>2, <1>6, <1>8 DEF Carries
<1>10. g # None
    BY PayloadsAssumption
<1> HIDE DEF g
<1>11. Counted(q2, r, L, D, TRUE, g) /\ Counted(q, r, L, D, TRUE, g)
    BY <1>1, <1>4, <1>7, <1>9, <1>10, PingAssumption DEF Counted
<1> QED BY <1>11 DEF g

\* Likewise for a half-close.
LEMMA HalfCloseCounts ==
    ASSUME NEW q \in Seq(Symbols), NEW r \in Seq(Symbols), NEW L \in Seq(Symbols),
           NEW D \in Seq(Symbols), Counted(q, r, L, D, TRUE, None), NEW q2, EndedBy(q, FIN, q2)
    PROVE  Counted(q2, r, L, D, TRUE, None)
BY PingAssumption DEF Counted, EndedBy, Given

\* A step of the listener on stream s touches no other stream.
LEMMA ListenerStep ==
    ASSUME PingInv, ExchangeInv, NEW s \in PingStreams, NEW q2, NEW r2, NEW le2, NEW L2,
           request' = [request EXCEPT ![s] = q2], reply' = [reply EXCEPT ![s] = r2],
           lEnd' = [lEnd EXCEPT ![s] = le2], UNCHANGED <<dialer, dEnd>>,
           listener'.outbound_stream = None,
           listener'.recv_bufs = [listener.recv_bufs EXCEPT ![s] = L2],
           \A t \in PingStreams \ {s} :
                t \in listener'.inbound_streams <=> t \in listener.inbound_streams,
           Shaped(q2, r2, dEnd[s], le2, L2, dialer.recv_bufs[s],
                  s \in listener'.inbound_streams, s = dialer.outbound_stream),
           Counted(q2, r2, L2, dialer.recv_bufs[s], s = dialer.outbound_stream, dialer.pending_ping)
    PROVE  ExchangeInv'
<1>1. /\ request'[s] = q2 /\ reply'[s] = r2 /\ lEnd'[s] = le2 /\ listener'.recv_bufs[s] = L2
      /\ \A t \in PingStreams \ {s} :
            /\ request'[t] = request[t] /\ reply'[t] = reply[t] /\ lEnd'[t] = lEnd[t]
            /\ listener'.recv_bufs[t] = listener.recv_bufs[t]
    BY DEF PingInv, Sound, PeerStates
<1>2. StreamOK(s)'
    BY <1>1 DEF StreamOK
<1>3. ASSUME NEW t \in PingStreams \ {s} PROVE StreamOK(t)'
    <2>1. StreamOK(t)
        BY DEF ExchangeInv
    <2>2. Shaped(request'[t], reply'[t], dEnd'[t], lEnd'[t], listener'.recv_bufs[t],
                 dialer'.recv_bufs[t], t \in listener'.inbound_streams, t = dialer'.outbound_stream)
        BY <1>1, <2>1 DEF StreamOK, Shaped
    <2>3. Counted(request'[t], reply'[t], listener'.recv_bufs[t], dialer'.recv_bufs[t],
                  t = dialer'.outbound_stream, dialer'.pending_ping)
        BY <1>1, <2>1 DEF StreamOK, Counted
    <2> QED BY <2>2, <2>3 DEF StreamOK
<1> QED BY <1>2, <1>3 DEF ExchangeInv

\* Nor does a step of the dialer, and a ping in flight is on the outbound stream.
LEMMA DialerStep ==
    ASSUME PingInv, ExchangeInv, NEW s \in PingStreams, NEW q2, NEW r2, NEW de2, NEW D2,
           request' = [request EXCEPT ![s] = q2], reply' = [reply EXCEPT ![s] = r2],
           dEnd' = [dEnd EXCEPT ![s] = de2], UNCHANGED <<listener, lEnd>>,
           dialer'.inbound_streams = {},
           dialer'.recv_bufs = [dialer.recv_bufs EXCEPT ![s] = D2],
           \/ dialer.outbound_stream \in {s, None} /\ dialer'.outbound_stream \in {s, None}
           \/ /\ dialer'.outbound_stream = dialer.outbound_stream
              /\ dialer'.pending_ping = dialer.pending_ping,
           Shaped(q2, r2, de2, lEnd[s], listener.recv_bufs[s], D2,
                  s \in listener.inbound_streams, s = dialer'.outbound_stream),
           Counted(q2, r2, listener.recv_bufs[s], D2, s = dialer'.outbound_stream,
                   dialer'.pending_ping)
    PROVE  ExchangeInv'
<1>1. /\ request'[s] = q2 /\ reply'[s] = r2 /\ dEnd'[s] = de2 /\ dialer'.recv_bufs[s] = D2
      /\ \A t \in PingStreams \ {s} :
            /\ request'[t] = request[t] /\ reply'[t] = reply[t] /\ dEnd'[t] = dEnd[t]
            /\ dialer'.recv_bufs[t] = dialer.recv_bufs[t]
    BY DEF PingInv, Sound, PeerStates
<1>2. StreamOK(s)'
    BY <1>1 DEF StreamOK
<1>3. ASSUME NEW t \in PingStreams \ {s} PROVE StreamOK(t)'
    <2>1. StreamOK(t)
        BY DEF ExchangeInv
    <2>2. /\ t = dialer'.outbound_stream <=> t = dialer.outbound_stream
          /\ t = dialer.outbound_stream => dialer'.pending_ping = dialer.pending_ping
        BY PingAssumption
    <2>3. Shaped(request'[t], reply'[t], dEnd'[t], lEnd'[t], listener'.recv_bufs[t],
                 dialer'.recv_bufs[t], t \in listener'.inbound_streams, t = dialer'.outbound_stream)
        BY <1>1, <2>1, <2>2 DEF StreamOK, Shaped
    <2>4. Counted(request'[t], reply'[t], listener'.recv_bufs[t], dialer'.recv_bufs[t],
                  t = dialer'.outbound_stream, dialer'.pending_ping)
        BY <1>1, <2>1, <2>2 DEF StreamOK, Counted
    <2> QED BY <2>3, <2>4 DEF StreamOK
<1> QED BY <1>2, <1>3 DEF ExchangeInv

\* What the three shapes of an outcome do to the stream.
LEMMA Silently ==
    ASSUME NEW st, NEW evs, NEW s
    PROVE  LET out == Outcome(st, <<>>, evs)
           IN  ~IsReset(out, s) /\ Sent(out, s) = <<>> /\ out.state = st /\ out.events = evs
BY DEF Outcome, IsReset, Sent

\* A handler that reset the stream.
LEMMA Resetting ==
    ASSUME NEW st, NEW evs, NEW s
    PROVE  LET out == Outcome(st, <<ResetStream(s)>>, evs)
           IN  IsReset(out, s) /\ out.state = st /\ out.events = evs
BY DEF Outcome, IsReset

\* A handler that sent something.
LEMMA Sending ==
    ASSUME NEW st, NEW evs, NEW s, NEW u, NEW p
    PROVE  LET out == Outcome(st, <<Send(u, p)>>, evs)
           IN  ~IsReset(out, s) /\ Sent(out, s) = p /\ out.state = st /\ out.events = evs
<1> DEFINE acts == <<Send(u, p)>>
           out == Outcome(st, acts, evs)
<1>1. DOMAIN acts = {1} /\ acts[1].type = "Send" /\ acts[1].data = p
    BY DEF Send
<1>2. acts[1] # ResetStream(s)
    <2>1. ResetStream(s).type = "ResetStream"
        BY DEF ResetStream
    <2> QED BY <1>1, <2>1
<1>3. (CHOOSE i \in DOMAIN acts : acts[i].type = "Send") = 1
    BY <1>1
<1>4. out.actions = acts /\ out.state = st /\ out.events = evs
    BY DEF Outcome
<1> HIDE DEF acts, out
<1>5. ~IsReset(out, s)
    BY <1>1, <1>2, <1>4 DEF IsReset
<1>6. Sent(out, s) = p
    BY <1>1, <1>3, <1>4 DEF Sent
<1> QED BY <1>4, <1>5, <1>6 DEF out, acts

\* What is known of a stream in a state that satisfies the invariants.
LEMMA StreamFacts ==
    ASSUME PingInv, ExchangeInv, NEW s \in PingStreams
    PROVE  /\ Typed(request[s], reply[s], dEnd[s], lEnd[s], listener.recv_bufs[s],
                    dialer.recv_bufs[s])
           /\ Shaped(request[s], reply[s], dEnd[s], lEnd[s], listener.recv_bufs[s],
                  dialer.recv_bufs[s], s \in listener.inbound_streams, s = dialer.outbound_stream)
           /\ Counted(request[s], reply[s], listener.recv_bufs[s], dialer.recv_bufs[s],
                  s = dialer.outbound_stream, dialer.pending_ping)
           /\ dialer.pending_ping # None => dialer.pending_ping.payload \in Payloads
BY DEF PingInv, ExchangeInv, StreamOK, Typed, Sound, PeerStates

\* The fields of a peer's state after an update.
LEMMA Fields ==
    ASSUME NEW st \in PeerStates, NEW b, NEW i, NEW o, NEW g
    PROVE  /\ LET x == [st EXCEPT !.recv_bufs = b]
              IN  /\ x.recv_bufs = b /\ x.inbound_streams = st.inbound_streams
                  /\ x.outbound_stream = st.outbound_stream /\ x.pending_ping = st.pending_ping
           /\ LET x == [st EXCEPT !.inbound_streams = i]
              IN  /\ x.recv_bufs = st.recv_bufs /\ x.inbound_streams = i
                  /\ x.outbound_stream = st.outbound_stream /\ x.pending_ping = st.pending_ping
           /\ LET x == [st EXCEPT !.inbound_streams = i, !.recv_bufs = b]
              IN  /\ x.recv_bufs = b /\ x.inbound_streams = i
                  /\ x.outbound_stream = st.outbound_stream /\ x.pending_ping = st.pending_ping
           /\ LET x == [st EXCEPT !.outbound_stream = o]
              IN  /\ x.recv_bufs = st.recv_bufs /\ x.inbound_streams = st.inbound_streams
                  /\ x.outbound_stream = o /\ x.pending_ping = st.pending_ping
           /\ LET x == [st EXCEPT !.pending_ping = g]
              IN  /\ x.recv_bufs = st.recv_bufs /\ x.inbound_streams = st.inbound_streams
                  /\ x.outbound_stream = st.outbound_stream /\ x.pending_ping = g
           /\ LET x == [st EXCEPT !.outbound_stream = o, !.pending_ping = g, !.recv_bufs = b]
              IN  /\ x.recv_bufs = b /\ x.inbound_streams = st.inbound_streams
                  /\ x.outbound_stream = o /\ x.pending_ping = g
BY DEF PeerStates

\* The steps that only touch the wire.
LEMMA OpenKeeps ==
    ASSUME PingInv, ExchangeInv, NEW s \in PingStreams, OpenPingStream(s)
    PROVE  ExchangeInv'
<1>1. dialer \in PeerStates /\ dialer.outbound_stream = None /\ dialer.pending_ping = None
    BY DEF PingInv, Sound, OpenPingStream
<1>2. dialer' = [dialer EXCEPT !.outbound_stream = s]
    BY <1>1, OutcomeParts DEF OpenPingStream, RegisterOutboundStream
<1>3. /\ dialer'.recv_bufs = dialer.recv_bufs /\ dialer'.inbound_streams = {}
      /\ dialer'.outbound_stream = s /\ dialer'.pending_ping = None
    BY <1>1, <1>2, Fields DEF ExchangeInv
<1>4. /\ lEnd[s] = "unused" /\ reply[s] = <<>>
      /\ listener.recv_bufs[s] = <<>> /\ dialer.recv_bufs[s] = <<>>
    BY StreamFacts DEF Shaped, OpenPingStream
<1>5. Counted(<<OPEN>>, <<>>, <<>>, <<>>, TRUE, None)
    <2>1. Bytes(<<OPEN>>) = 0 /\ Bytes(<<>>) = 0 /\ Len(<<>>) = 0
        BY BytesOfOne, BytesOfNone DEF Markers
    <2> QED BY <2>1, PingAssumption DEF Counted, Given
<1>6. Shaped(<<OPEN>>, <<>>, "open", "unused", <<>>, <<>>, s \in listener.inbound_streams, TRUE)
    BY OpenShapes
<1>7. /\ Shaped(<<OPEN>>, reply[s], "open", lEnd[s], listener.recv_bufs[s], dialer.recv_bufs[s],
                s \in listener.inbound_streams, s = dialer'.outbound_stream)
      /\ Counted(<<OPEN>>, reply[s], listener.recv_bufs[s], dialer.recv_bufs[s],
                s = dialer'.outbound_stream, dialer'.pending_ping)
    BY <1>3, <1>4, <1>5, <1>6 DEF Shaped, Counted
<1>8. /\ request' = [request EXCEPT ![s] = <<OPEN>>] /\ reply' = [reply EXCEPT ![s] = reply[s]]
      /\ dEnd' = [dEnd EXCEPT ![s] = "open"] /\ UNCHANGED <<listener, lEnd>>
      /\ dialer'.recv_bufs = [dialer.recv_bufs EXCEPT ![s] = dialer.recv_bufs[s]]
    BY <1>3 DEF OpenPingStream, PingInv, Sound, PeerStates
<1> QED BY <1>1, <1>3, <1>7, <1>8, DialerStep, ZenonT(60)

\* The remote host half-closes.
LEMMA ListenerFinishesKeeps ==
    ASSUME PingInv, ExchangeInv, NEW s \in PingStreams, ListenerFinishes(s)
    PROVE  ExchangeInv'
<1> DEFINE r2 == Append(reply[s], FIN)
<1>1. EndedBy(reply[s], FIN, r2)
    BY AppendEnds, StreamFacts DEF Typed, Markers
<1> HIDE DEF r2
<1>2. lEnd[s] = "open" /\ reply' = [reply EXCEPT ![s] = r2]
    BY DEF ListenerFinishes, r2
<1>3. Shaped(request[s], r2, dEnd[s], "finished", listener.recv_bufs[s], dialer.recv_bufs[s],
             s \in listener.inbound_streams, s = dialer.outbound_stream)
    BY <1>1, <1>2, StreamFacts, FinishShapes
<1>4. Counted(request[s], r2, listener.recv_bufs[s], dialer.recv_bufs[s],
              s = dialer.outbound_stream, dialer.pending_ping)
    BY <1>1, StreamFacts, FinishCounts DEF Typed
<1>5. /\ request' = [request EXCEPT ![s] = request[s]] /\ UNCHANGED <<dialer, listener, dEnd>>
      /\ lEnd' = [lEnd EXCEPT ![s] = "finished"]
      /\ listener'.recv_bufs = [listener.recv_bufs EXCEPT ![s] = listener.recv_bufs[s]]
      /\ listener'.outbound_stream = None
    BY DEF ListenerFinishes, PingInv, Sound, PeerStates, ExchangeInv
<1> QED BY <1>2, <1>3, <1>4, <1>5, ListenerStep

\* The network aborts the stream.
LEMMA AbortKeeps ==
    ASSUME PingInv, ExchangeInv, NEW s \in PingStreams, Abort(s)
    PROVE  ExchangeInv'
<1>1. Shaped(<<RST>>, <<RST>>, dEnd[s], lEnd[s], listener.recv_bufs[s], dialer.recv_bufs[s],
             s \in listener.inbound_streams, s = dialer.outbound_stream)
    BY StreamFacts, AbortShapes DEF Abort
<1>2. Counted(<<RST>>, <<RST>>, listener.recv_bufs[s], dialer.recv_bufs[s],
              s = dialer.outbound_stream, dialer.pending_ping)
    BY StreamFacts, CutCounts DEF Typed
<1>3. /\ request' = [request EXCEPT ![s] = <<RST>>] /\ reply' = [reply EXCEPT ![s] = <<RST>>]
      /\ UNCHANGED <<dialer, listener, dEnd>> /\ lEnd' = [lEnd EXCEPT ![s] = lEnd[s]]
      /\ listener'.recv_bufs = [listener.recv_bufs EXCEPT ![s] = listener.recv_bufs[s]]
      /\ listener'.outbound_stream = None
    BY DEF Abort, PingInv, Sound, PeerStates, ExchangeInv
<1> QED BY <1>1, <1>2, <1>3, ListenerStep

\* The steps of the listener.
LEMMA AcceptKeeps ==
    ASSUME PingInv, ExchangeInv, NEW s \in PingStreams, ListenerAccepts(s)
    PROVE  ExchangeInv' /\ ~Accuses(raised'.listener) /\ raised'.dialer = <<>>
<1> DEFINE out == RegisterInboundStream(listener, s)
           q2 == Tail(request[s])
           known == s \in listener.inbound_streams
           mine == s = dialer.outbound_stream
<1>1. request[s] # <<>> /\ request[s][1] = OPEN /\ Shortened(request[s], 1, 0, q2)
    BY StreamFacts, TailShortens DEF ListenerAccepts, Typed, Markers
<1>2. /\ Shaped(q2, reply[s], dEnd[s], "open", listener.recv_bufs[s], dialer.recv_bufs[s], TRUE, mine)
      /\ Shaped(<<>>, <<RST>>, dEnd[s], "resetting", listener.recv_bufs[s], dialer.recv_bufs[s],
                known, mine)
    BY <1>1, StreamFacts, AcceptShapes
<1>3. /\ Counted(q2, reply[s], listener.recv_bufs[s], dialer.recv_bufs[s], mine, dialer.pending_ping)
      /\ Counted(<<>>, <<RST>>, listener.recv_bufs[s], dialer.recv_bufs[s], mine, dialer.pending_ping)
    BY <1>1, StreamFacts, AcceptCounts, CutCounts, SMTT(60) DEF Typed, Shaped
<1>4. listener \in PeerStates /\ listener.outbound_stream = None /\ UNCHANGED <<dialer, dEnd>>
    BY DEF PingInv, Sound, ExchangeInv, ListenerAccepts
<1>5. \/ out = Outcome(listener, <<>>, <<>>) /\ s \in listener.inbound_streams
      \/ out = Outcome([listener EXCEPT !.inbound_streams = @ \cup {s}], <<>>,
                       <<PingEvent("InboundStreamAccepted", s)>>)
      \/ out = Outcome(listener, <<ResetStream(s)>>, <<PingEvent("StreamLimitExceeded", s)>>)
    BY DEF RegisterInboundStream
<1>6. /\ listener' = out.state /\ raised'.listener = out.events /\ raised'.dialer = <<>>
      /\ IF IsReset(out, s)
         THEN /\ lEnd' = [lEnd EXCEPT ![s] = "resetting"]
              /\ reply' = [reply EXCEPT ![s] = <<RST>>]
              /\ request' = [request EXCEPT ![s] = <<>>]
         ELSE /\ lEnd' = [lEnd EXCEPT ![s] = "open"]
              /\ request' = [request EXCEPT ![s] = q2]
              /\ reply' = [reply EXCEPT ![s] = reply[s]]
    BY DEF ListenerAccepts, Silent, PingInv
<1> HIDE DEF out, q2
<1>7. CASE out = Outcome(listener, <<ResetStream(s)>>, <<PingEvent("StreamLimitExceeded", s)>>)
    <2>1. listener' = listener /\ IsReset(out, s)
          /\ raised'.listener = <<PingEvent("StreamLimitExceeded", s)>>
        BY <1>6, <1>7, Resetting
    <2>2. ~Accuses(raised'.listener)
        BY <2>1 DEF Accuses, PingEvent
    <2>3. listener'.recv_bufs = [listener.recv_bufs EXCEPT ![s] = listener.recv_bufs[s]]
        BY <1>4, <2>1 DEF PeerStates
    <2>4. /\ request' = [request EXCEPT ![s] = <<>>] /\ reply' = [reply EXCEPT ![s] = <<RST>>]
          /\ lEnd' = [lEnd EXCEPT ![s] = "resetting"] /\ listener'.outbound_stream = None
          /\ listener'.inbound_streams = listener.inbound_streams
        BY <1>4, <1>6, <2>1
    <2>5. ExchangeInv'
        BY <1>2, <1>3, <1>4, <2>3, <2>4, ListenerStep
    <2> QED BY <1>6, <2>2, <2>5
<1>8. ASSUME NEW x, NEW evs, out = Outcome(x, <<>>, evs), s \in x.inbound_streams,
             evs = <<>> \/ evs = <<PingEvent("InboundStreamAccepted", s)>>,
             x.recv_bufs = listener.recv_bufs, x.outbound_stream = None,
             x.inbound_streams = listener.inbound_streams \cup {s}
      PROVE  ExchangeInv' /\ ~Accuses(raised'.listener) /\ raised'.dialer = <<>>
    <2>1. listener' = x /\ ~IsReset(out, s) /\ raised'.listener = evs
        BY <1>6, <1>8, Silently
    <2>2. ~Accuses(raised'.listener)
        BY <1>8, <2>1 DEF Accuses, PingEvent
    <2>3. listener'.recv_bufs = [listener.recv_bufs EXCEPT ![s] = listener.recv_bufs[s]]
        BY <1>4, <1>8, <2>1 DEF PeerStates
    <2>4. Shaped(q2, reply[s], dEnd[s], "open", listener.recv_bufs[s], dialer.recv_bufs[s],
                 s \in listener'.inbound_streams, mine)
        BY <1>2, <1>8, <2>1 DEF Shaped
    <2>5. /\ request' = [request EXCEPT ![s] = q2] /\ reply' = [reply EXCEPT ![s] = reply[s]]
          /\ lEnd' = [lEnd EXCEPT ![s] = "open"] /\ listener'.outbound_stream = None
          /\ \A t \in PingStreams \ {s} :
                t \in listener'.inbound_streams <=> t \in listener.inbound_streams
        BY <1>6, <1>8, <2>1
    <2>6. ExchangeInv'
        BY <1>3, <1>4, <2>3, <2>4, <2>5, ListenerStep
    <2> QED BY <1>6, <2>2, <2>6
<1>9. CASE out = Outcome(listener, <<>>, <<>>) /\ s \in listener.inbound_streams
    <2>1. listener.inbound_streams = listener.inbound_streams \cup {s}
        BY <1>9
    <2> QED BY <1>4, <1>8, <1>9, <2>1
<1>10. CASE out = Outcome([listener EXCEPT !.inbound_streams = @ \cup {s}], <<>>,
                          <<PingEvent("InboundStreamAccepted", s)>>)
    <2> DEFINE x == [listener EXCEPT !.inbound_streams = @ \cup {s}]
    <2>1. /\ x.recv_bufs = listener.recv_bufs /\ x.outbound_stream = None
          /\ x.inbound_streams = listener.inbound_streams \cup {s}
        BY <1>4 DEF PeerStates
    <2> HIDE DEF x
    <2>2. out = Outcome(x, <<>>, <<PingEvent("InboundStreamAccepted", s)>>)
        BY <1>10 DEF x
    <2> QED BY <1>8, <2>1, <2>2
<1> QED BY <1>5, <1>7, <1>9, <1>10

\* on_stream_data on the listener: the stream is known, the buffer does not overflow,
\* and what is echoed is the payload.
LEMMA ListenerReceivesKeeps ==
    ASSUME PingInv, ExchangeInv, NEW s \in PingStreams, NEW n, ListenerReceives(s, n)
    PROVE  ExchangeInv' /\ raised' = Silent
<1> DEFINE data == SubSeq(request[s], 1, n)
           q2 == Rest(request[s], n)
           L == listener.recv_bufs[s]
           buf == L \o data
           known == s \in listener.inbound_streams
           mine == s = dialer.outbound_stream
           out == OnStreamData(listener, s, data, now)
<1>1. /\ lEnd[s] \in {"open", "finished"} /\ IsChunk(request[s], n) /\ ListenerRuns(out, s, q2)
    BY DEF ListenerReceives
<1>2. /\ request[s] \in Seq(Symbols) /\ reply[s] \in Seq(Symbols) /\ L \in Seq(Symbols)
      /\ dialer.recv_bufs[s] \in Seq(Symbols)
    BY StreamFacts DEF Typed
<1>3. /\ n \in Nat \ {0} /\ n <= Len(request[s]) /\ data \in Seq(Symbols) /\ Len(data) = n
      /\ \A i \in 1..n : data[i] = request[s][i] /\ request[s][i] \notin Markers
      /\ Shortened(request[s], n, n, q2)
    BY <1>1, <1>2, ChunkShortens
<1> HIDE DEF data, q2
<1>4. Taken(request[s], n, L, buf)
    <2>1. Grown(L, data, buf)
        BY <1>2, <1>3, ConcatGrows
    <2> HIDE DEF L, buf
    <2> QED BY <1>2, <1>3, <2>1 DEF Taken, Grown
<1>5. /\ \A i \in 1..Len(request[s]) : request[s][i] # OPEN
      /\ \A i \in 1..Len(reply[s]) : reply[s][i] # OPEN
      /\ \A i \in 1..Len(L) : L[i] \notin Markers
    BY <1>1, StreamFacts DEF Shaped
<1>6. \A i \in 1..Len(buf) : buf[i] \notin Markers
    <2> SUFFICES ASSUME NEW i \in 1..Len(buf) PROVE buf[i] \notin Markers
        OBVIOUS
    <2>1. CASE i \in 1..Len(L)
        BY <1>2, <1>3, <1>5, <2>1
    <2>2. CASE i \notin 1..Len(L)
        <3>1. i - Len(L) \in 1..n /\ buf[i] = data[i - Len(L)]
            BY <1>2, <1>3, <2>2
        <3> QED BY <1>3, <3>1
    <2> QED BY <2>1, <2>2
<1>7. /\ known
      /\ \A L2 \in Seq(Symbols) : (\A i \in 1..Len(L2) : L2[i] \notin Markers) =>
            /\ Shaped(q2, reply[s], dEnd[s], lEnd[s], L2, dialer.recv_bufs[s], known, mine)
            /\ \A r2, x \in Seq(Symbols) :
                lEnd[s] = "open" /\ (\A i \in 1..Len(x) : x[i] \notin Markers) /\ Grown(reply[s], x, r2)
                    => Shaped(q2, r2, dEnd[s], lEnd[s], L2, dialer.recv_bufs[s], known, mine)
    <2>1. Typed(request[s], reply[s], dEnd[s], lEnd[s], L, dialer.recv_bufs[s])
          /\ Shaped(request[s], reply[s], dEnd[s], lEnd[s], L, dialer.recv_bufs[s], known, mine)
        BY StreamFacts
    <2>2. \A i \in 1..n : request[s][i] \notin Markers
        BY <1>3
    <2> HIDE DEF L, buf, known, mine
    <2> QED BY <1>1, <1>3, <2>1, <2>2, ChunkShapes
<1>8. /\ Len(buf) <= PING_PAYLOAD_LEN
      /\ Counted(q2, reply[s], buf, dialer.recv_bufs[s], mine, dialer.pending_ping)
      /\ Len(buf) = PING_PAYLOAD_LEN =>
            /\ Counted(q2, reply[s], <<>>, dialer.recv_bufs[s], mine, dialer.pending_ping)
            /\ \A r2 : Grown(reply[s], buf, r2) /\ (\A i \in 1..Len(buf) : buf[i] \notin Markers)
                        => Counted(q2, r2, <<>>, dialer.recv_bufs[s], mine, dialer.pending_ping)
    <2>1. /\ Counted(request[s], reply[s], L, dialer.recv_bufs[s], mine, dialer.pending_ping)
          /\ dialer.pending_ping # None => dialer.pending_ping.payload \in Payloads
        BY StreamFacts
    <2>2. \A i \in 1..n : request[s][i] \notin Markers
        BY <1>3
    <2> HIDE DEF L, buf, mine
    <2> QED BY <1>2, <1>3, <1>4, <1>5, <2>1, <2>2, ListenerChunkCounts
<1>9. /\ listener \in PeerStates /\ listener.outbound_stream = None /\ listener.outbound_stream # s
      /\ buf \in Seq(Symbols) /\ Len(buf) \in Nat
    BY <1>2, <1>3, PingAssumption DEF PingInv, Sound, ExchangeInv
<1>10. UNCHANGED <<dialer, dEnd>>
    BY <1>1 DEF ListenerRuns
<1>11. ASSUME NEW L2 \in Seq(Symbols), NEW acts, out = Outcome([listener EXCEPT !.recv_bufs = Buffered(listener, s, L2)], acts, <<>>),
              NEW r2, ~IsReset(out, s), reply' = [reply EXCEPT ![s] = r2], lEnd' = lEnd,
              out.state = [listener EXCEPT !.recv_bufs = Buffered(listener, s, L2)], out.events = <<>>,
              Shaped(q2, r2, dEnd[s], lEnd[s], L2, dialer.recv_bufs[s], known, mine),
              Counted(q2, r2, L2, dialer.recv_bufs[s], mine, dialer.pending_ping)
       PROVE  ExchangeInv' /\ raised' = Silent
    <2> DEFINE b == [listener.recv_bufs EXCEPT ![s] = L2]
    <2>0. listener' = [listener EXCEPT !.recv_bufs = b]
        BY <1>1, <1>11 DEF ListenerRuns, Buffered
    <2> HIDE DEF b
    <2>1. /\ listener'.recv_bufs = b
          /\ listener'.inbound_streams = listener.inbound_streams
          /\ listener'.outbound_stream = None
        BY <1>9, <2>0, Fields
    <2>2. request' = [request EXCEPT ![s] = q2] /\ lEnd' = [lEnd EXCEPT ![s] = lEnd[s]]
        BY <1>1, <1>11 DEF ListenerRuns, PingInv
    <2>3. ExchangeInv'
        <3>1. Shaped(q2, r2, dEnd[s], lEnd[s], L2, dialer.recv_bufs[s],
                     s \in listener'.inbound_streams, s = dialer.outbound_stream)
            BY <1>11, <2>1 DEF Shaped
        <3>2. listener'.recv_bufs = [listener.recv_bufs EXCEPT ![s] = L2]
            BY <2>1 DEF b
        <3>3. \A t \in PingStreams \ {s} :
                t \in listener'.inbound_streams <=> t \in listener.inbound_streams
            BY <2>1
        <3>4. /\ reply' = [reply EXCEPT ![s] = r2] /\ listener'.outbound_stream = None
              /\ Counted(q2, r2, L2, dialer.recv_bufs[s], s = dialer.outbound_stream,
                         dialer.pending_ping)
            BY <1>11, <2>1
        <3> QED BY <1>10, <2>2, <3>1, <3>2, <3>3, <3>4, ListenerStep
    <2>4. raised' = Silent
        BY <1>1, <1>11 DEF ListenerRuns, Silent
    <2> QED BY <2>3, <2>4
<1>12. CASE Len(buf) < PING_PAYLOAD_LEN
    <2>1. out = Outcome([listener EXCEPT !.recv_bufs = Buffered(listener, s, buf)], <<>>, <<>>)
        BY <1>7, <1>12, <1>9, PingAssumption DEF OnStreamData, IsKnown
    <2> HIDE DEF out
    <2>2. /\ ~IsReset(out, s) /\ Sent(out, s) = <<>> /\ out.events = <<>>
          /\ out.state = [listener EXCEPT !.recv_bufs = Buffered(listener, s, buf)]
        BY <2>1, Silently
    <2>3. reply' = [reply EXCEPT ![s] = reply[s]] /\ lEnd' = lEnd
        BY <1>1, <1>2, <2>2 DEF ListenerRuns, Transmit
    <2> QED BY <1>6, <1>7, <1>8, <1>9, <1>11, <2>1, <2>2, <2>3
<1>13. CASE Len(buf) = PING_PAYLOAD_LEN
    <2> DEFINE drained == [listener EXCEPT !.recv_bufs = Buffered(listener, s, <<>>)]
    <2>1. drained.outbound_stream = None
        BY <1>9, Fields
    <2>2. out = Outcome(drained, <<Send(s, buf)>>, <<>>)
        BY <1>7, <1>13, <1>9, <2>1, PingAssumption DEF OnStreamData, IsKnown, ProcessCompletePayload
    <2> HIDE DEF out, drained, buf
    <2>3. /\ ~IsReset(out, s) /\ Sent(out, s) = buf /\ out.events = <<>>
          /\ out.state = drained
        BY <2>2, Sending
    <2>4. PICK r2 : /\ reply' = [reply EXCEPT ![s] = r2]
                    /\ r2 = IF lEnd[s] = "open" THEN reply[s] \o buf ELSE reply[s]
        BY <1>1, <2>3 DEF ListenerRuns, Transmit
    <2>5. lEnd' = lEnd
        BY <1>1, <2>3 DEF ListenerRuns, Transmit
    <2>6. /\ r2 \in Seq(Symbols) /\ (lEnd[s] = "open" => Grown(reply[s], buf, r2))
          /\ <<>> \in Seq(Symbols) /\ \A i \in 1..Len(<<>>) : <<>>[i] \notin Markers
        <3>1. Grown(reply[s], buf, reply[s] \o buf) /\ reply[s] \o buf \in Seq(Symbols)
            BY <1>2, <1>9, ConcatGrows
        <3>2. <<>> \in Seq(Symbols) /\ \A i \in 1..Len(<<>>) : <<>>[i] \notin Markers
            OBVIOUS
        <3> QED BY <1>2, <2>4, <3>1, <3>2
    <2>7. Shaped(q2, r2, dEnd[s], lEnd[s], <<>>, dialer.recv_bufs[s], known, mine)
        BY <1>6, <1>7, <1>9, <2>4, <2>6
    <2>8. Counted(q2, r2, <<>>, dialer.recv_bufs[s], mine, dialer.pending_ping)
        BY <1>6, <1>8, <1>13, <2>4, <2>6
    <2> QED BY <1>11, <2>2, <2>3, <2>4, <2>5, <2>6, <2>7, <2>8 DEF drained
<1> HIDE DEF buf
<1>14. Len(buf) < PING_PAYLOAD_LEN \/ Len(buf) = PING_PAYLOAD_LEN
    BY <1>8, <1>9, PingAssumption
<1> QED BY <1>12, <1>13, <1>14

\* A handler of the listener that queued no action.
LEMMA QuietListener ==
    ASSUME PingInv, NEW s \in PingStreams, NEW x, NEW rest, ListenerRuns(Outcome(x, <<>>, <<>>), s, rest)
    PROVE  /\ listener' = x /\ request' = [request EXCEPT ![s] = rest]
           /\ reply' = [reply EXCEPT ![s] = reply[s]] /\ lEnd' = [lEnd EXCEPT ![s] = lEnd[s]]
           /\ UNCHANGED <<dialer, dEnd>> /\ raised' = Silent
<1> DEFINE out == Outcome(x, <<>>, <<>>)
<1>1. ~IsReset(out, s) /\ Sent(out, s) = <<>> /\ out.state = x /\ out.events = <<>>
    BY Silently
<1>2. ListenerRuns(out, s, rest)
    OBVIOUS
<1> HIDE DEF out
<1>3. reply[s] \o <<>> = reply[s]
    <2>1. reply[s] \in Seq(Symbols)
        BY DEF PingInv
    <2> QED BY <2>1
<1>4. reply' = [reply EXCEPT ![s] = reply[s]] /\ lEnd' = [lEnd EXCEPT ![s] = lEnd[s]]
    BY <1>1, <1>2, <1>3 DEF ListenerRuns, Transmit, PingInv
<1> QED BY <1>1, <1>2, <1>4 DEF ListenerRuns, Silent

\* on_stream_remote_write_closed on the listener.
LEMMA ListenerSeesFinKeeps ==
    ASSUME PingInv, ExchangeInv, NEW s \in PingStreams, ListenerSeesFin(s)
    PROVE  ExchangeInv' /\ raised' = Silent
<1> DEFINE q2 == Tail(request[s])
           mine == s = dialer.outbound_stream
           L == listener.recv_bufs[s]
           D == dialer.recv_bufs[s]
           b == [listener.recv_bufs EXCEPT ![s] = <<>>]
           i == listener.inbound_streams \ {s}
           out == OnStreamRemoteWriteClosed(listener, s)
<1>1. /\ request[s] # <<>> /\ request[s][1] = FIN /\ Shortened(request[s], 1, 0, q2)
      /\ lEnd[s] \in {"open", "finished"}
    BY StreamFacts, TailShortens DEF ListenerSeesFin, Typed, Markers
<1>2. listener \in PeerStates /\ listener.outbound_stream = None /\ listener.outbound_stream # s
    BY PingAssumption DEF PingInv, Sound, ExchangeInv
<1>3. /\ s \in listener.inbound_streams =>
            out = Outcome([listener EXCEPT !.inbound_streams = i, !.recv_bufs = b], <<>>, <<>>)
      /\ s \notin listener.inbound_streams => out = Outcome(listener, <<>>, <<>>)
    BY <1>2 DEF OnStreamRemoteWriteClosed, Buffered
<1>4. ListenerRuns(out, s, q2)
    BY DEF ListenerSeesFin
<1> HIDE DEF q2, out, b, i
<1>5. /\ Shaped(q2, reply[s], dEnd[s], lEnd[s], <<>>, D, FALSE, mine)
      /\ s \notin listener.inbound_streams =>
            Shaped(q2, reply[s], dEnd[s], lEnd[s], L, D, s \in listener.inbound_streams, mine)
    BY <1>1, StreamFacts, FinSeenShapes
<1>6. \A k \in 1..Len(q2) : ~Plain(q2, k)
    BY <1>1, <1>5 DEF Shaped
<1>7. /\ Counted(q2, reply[s], L, D, mine, dialer.pending_ping)
      /\ Counted(q2, reply[s], <<>>, D, mine, dialer.pending_ping)
    BY <1>1, <1>6, StreamFacts, FinSeenCounts DEF Typed
<1>8. CASE s \in listener.inbound_streams
    <2> DEFINE x == [listener EXCEPT !.inbound_streams = i, !.recv_bufs = b]
    <2>1. x.recv_bufs = b /\ x.inbound_streams = i /\ x.outbound_stream = None
        BY <1>2, Fields
    <2> HIDE DEF x
    <2>2. ListenerRuns(Outcome(x, <<>>, <<>>), s, q2)
        BY <1>3, <1>4, <1>8 DEF x
    <2>3. /\ listener' = x /\ request' = [request EXCEPT ![s] = q2]
          /\ reply' = [reply EXCEPT ![s] = reply[s]] /\ lEnd' = [lEnd EXCEPT ![s] = lEnd[s]]
          /\ UNCHANGED <<dialer, dEnd>> /\ raised' = Silent
        BY <2>2, QuietListener
    <2>4. /\ listener'.recv_bufs = [listener.recv_bufs EXCEPT ![s] = <<>>]
          /\ listener'.outbound_stream = None /\ s \notin listener'.inbound_streams
          /\ \A t \in PingStreams \ {s} :
                t \in listener'.inbound_streams <=> t \in listener.inbound_streams
        BY <2>1, <2>3 DEF b, i
    <2>5. Shaped(q2, reply[s], dEnd[s], lEnd[s], <<>>, D, s \in listener'.inbound_streams, mine)
        BY <1>5, <2>4 DEF Shaped
    <2> QED BY <1>7, <2>3, <2>4, <2>5, ListenerStep
<1>9. CASE s \notin listener.inbound_streams
    <2>1. ListenerRuns(Outcome(listener, <<>>, <<>>), s, q2)
        BY <1>3, <1>4, <1>9
    <2>2. /\ listener' = listener /\ request' = [request EXCEPT ![s] = q2]
          /\ reply' = [reply EXCEPT ![s] = reply[s]] /\ lEnd' = [lEnd EXCEPT ![s] = lEnd[s]]
          /\ UNCHANGED <<dialer, dEnd>> /\ raised' = Silent
        BY <2>1, QuietListener
    <2>3. /\ listener'.recv_bufs = [listener.recv_bufs EXCEPT ![s] = L]
          /\ listener'.outbound_stream = None
        BY <1>2, <2>2 DEF PeerStates
    <2> QED BY <1>5, <1>7, <1>9, <2>2, <2>3, ListenerStep
<1> QED BY <1>8, <1>9

\* on_stream_closed on the listener.
LEMMA ListenerSeesClosedKeeps ==
    ASSUME PingInv, ExchangeInv, NEW s \in PingStreams, ListenerSeesClosed(s)
    PROVE  ExchangeInv' /\ raised' = Silent
<1> DEFINE b == [listener.recv_bufs EXCEPT ![s] = <<>>]
           i == listener.inbound_streams \ {s}
           x == [listener EXCEPT !.inbound_streams = i, !.recv_bufs = b]
           mine == s = dialer.outbound_stream
           D == dialer.recv_bufs[s]
<1>1. listener \in PeerStates /\ listener.outbound_stream = None /\ listener.outbound_stream # s
    BY PingAssumption DEF PingInv, Sound, ExchangeInv
<1>2. listener' = x
    BY <1>1, OutcomeParts DEF ListenerSeesClosed, OnStreamClosed, Buffered
<1> HIDE DEF b, i
<1>3. x.recv_bufs = b /\ x.inbound_streams = i /\ x.outbound_stream = None
    BY <1>1, Fields
<1> HIDE DEF x
<1>4. /\ listener'.recv_bufs = [listener.recv_bufs EXCEPT ![s] = <<>>]
      /\ listener'.outbound_stream = None /\ s \notin listener'.inbound_streams
      /\ \A t \in PingStreams \ {s} :
            t \in listener'.inbound_streams <=> t \in listener.inbound_streams
    BY <1>2, <1>3 DEF b, i
<1>5. /\ lEnd[s] # "unused" /\ request' = [request EXCEPT ![s] = <<>>]
      /\ reply' = [reply EXCEPT ![s] = reply[s]] /\ lEnd' = [lEnd EXCEPT ![s] = "closed"]
      /\ UNCHANGED <<dialer, dEnd>> /\ raised' = Silent
    BY DEF ListenerSeesClosed, PingInv
<1>6. Shaped(<<>>, reply[s], dEnd[s], "closed", <<>>, D, FALSE, mine)
    BY <1>5, StreamFacts, ListenerClosedShapes
<1>7. Shaped(<<>>, reply[s], dEnd[s], "closed", <<>>, D, s \in listener'.inbound_streams, mine)
    BY <1>4, <1>6 DEF Shaped
<1>8. Counted(<<>>, reply[s], <<>>, D, mine, dialer.pending_ping)
    BY StreamFacts, CutCounts DEF Typed
<1> QED BY <1>4, <1>5, <1>7, <1>8, ListenerStep

\* The steps of the dialer: a handler that queued no action ...
LEMMA QuietDialer ==
    ASSUME PingInv, NEW s \in PingStreams, NEW x, NEW evs, NEW rest,
           DialerRuns(Outcome(x, <<>>, evs), s, rest)
    PROVE  /\ dialer' = x /\ reply' = [reply EXCEPT ![s] = rest]
           /\ request' = [request EXCEPT ![s] = request[s]] /\ dEnd' = [dEnd EXCEPT ![s] = dEnd[s]]
           /\ UNCHANGED <<listener, lEnd>> /\ raised' = [Silent EXCEPT !.dialer = evs]
<1> DEFINE out == Outcome(x, <<>>, evs)
<1>1. ~IsReset(out, s) /\ Sent(out, s) = <<>> /\ out.state = x /\ out.events = evs
    BY Silently
<1>2. DialerRuns(out, s, rest)
    OBVIOUS
<1> HIDE DEF out
<1>3. request[s] \o <<>> = request[s]
    <2>1. request[s] \in Seq(Symbols)
        BY DEF PingInv
    <2> QED BY <2>1
<1>4. request' = [request EXCEPT ![s] = request[s]] /\ dEnd' = [dEnd EXCEPT ![s] = dEnd[s]]
    BY <1>1, <1>2, <1>3 DEF DialerRuns, Transmit, PingInv
<1> QED BY <1>1, <1>2, <1>4 DEF DialerRuns

\* ... and one that reset the stream.
LEMMA ResettingDialer ==
    ASSUME PingInv, NEW s \in PingStreams, NEW x, NEW evs, NEW rest,
           DialerRuns(Outcome(x, <<ResetStream(s)>>, evs), s, rest)
    PROVE  /\ dialer' = x /\ reply' = [reply EXCEPT ![s] = <<>>]
           /\ UNCHANGED <<listener, lEnd>> /\ raised' = [Silent EXCEPT !.dialer = evs]
           /\ dEnd[s] \in {"open", "finished"} =>
                /\ dEnd' = [dEnd EXCEPT ![s] = "resetting"]
                /\ \E q2 : /\ request' = [request EXCEPT ![s] = q2]
                           /\ q2 = <<RST>> \/ EndedBy(request[s], RST, q2)
           /\ dEnd[s] \notin {"open", "finished"} =>
                /\ dEnd' = [dEnd EXCEPT ![s] = dEnd[s]]
                /\ request' = [request EXCEPT ![s] = request[s]]
<1> DEFINE out == Outcome(x, <<ResetStream(s)>>, evs)
<1>1. IsReset(out, s) /\ out.state = x /\ out.events = evs
    BY Resetting
<1>2. DialerRuns(out, s, rest)
    OBVIOUS
<1>3. EndedBy(request[s], RST, Append(request[s], RST))
    BY AppendEnds DEF PingInv, Markers
<1> HIDE DEF out
<1>4. Transmit(out, s, dEnd, request, dEnd', request')
    BY <1>2 DEF DialerRuns
<1>5. ASSUME dEnd[s] \in {"open", "finished"}
      PROVE  /\ dEnd' = [dEnd EXCEPT ![s] = "resetting"]
             /\ \E q2 : /\ request' = [request EXCEPT ![s] = q2]
                        /\ q2 = <<RST>> \/ EndedBy(request[s], RST, q2)
    BY <1>1, <1>3, <1>4, <1>5 DEF Transmit
<1>6. ASSUME dEnd[s] \notin {"open", "finished"}
      PROVE  /\ dEnd' = [dEnd EXCEPT ![s] = dEnd[s]]
             /\ request' = [request EXCEPT ![s] = request[s]]
    BY <1>1, <1>4, <1>6 DEF Transmit, PingInv
<1> QED BY <1>1, <1>2, <1>5, <1>6 DEF DialerRuns

\* The dialer resets a stream that it does not use, or no longer.
LEMMA GivingUpKeeps ==
    ASSUME PingInv, ExchangeInv, NEW s \in PingStreams, NEW x, NEW evs, NEW rest, NEW D2,
           DialerRuns(Outcome(x, <<ResetStream(s)>>, evs), s, rest),
           D2 = <<>> \/ (D2 = dialer.recv_bufs[s] /\ dEnd[s] \in {"open", "finished"}),
           x.inbound_streams = {}, x.recv_bufs = [dialer.recv_bufs EXCEPT ![s] = D2],
           x.outbound_stream # s,
           \/ dialer.outbound_stream = s /\ x.outbound_stream = None
           \/ x.outbound_stream = dialer.outbound_stream /\ x.pending_ping = dialer.pending_ping
    PROVE  ExchangeInv'
<1> DEFINE q == request[s]
           r == reply[s]
           L == listener.recv_bufs[s]
           D == dialer.recv_bufs[s]
           known == s \in listener.inbound_streams
<1>1. /\ dialer' = x /\ reply' = [reply EXCEPT ![s] = <<>>] /\ UNCHANGED <<listener, lEnd>>
      /\ dEnd[s] \in {"open", "finished"} =>
                /\ dEnd' = [dEnd EXCEPT ![s] = "resetting"]
                /\ \E q2 : /\ request' = [request EXCEPT ![s] = q2]
                           /\ q2 = <<RST>> \/ EndedBy(q, RST, q2)
      /\ dEnd[s] \notin {"open", "finished"} =>
                /\ dEnd' = [dEnd EXCEPT ![s] = dEnd[s]]
                /\ request' = [request EXCEPT ![s] = q]
    BY ResettingDialer
<1>2. /\ Typed(q, r, dEnd[s], lEnd[s], L, D)
      /\ Shaped(q, r, dEnd[s], lEnd[s], L, D, known, s = dialer.outbound_stream)
      /\ Counted(q, r, L, D, s = dialer.outbound_stream, dialer.pending_ping)
    BY StreamFacts
<1>3. D2 \in Seq(Symbols) /\ Len(D2) <= Len(D) /\ Len(D2) \in Nat /\ Len(D) \in Nat
    <2>1. D2 = <<>> \/ D2 = D
        OBVIOUS
    <2>2. D \in Seq(Symbols) /\ Len(D) \in Nat
        BY <1>2 DEF Typed
    <2> HIDE DEF D
    <2>3. CASE D2 = <<>>
        BY <2>2, <2>3
    <2>4. CASE D2 = D
        BY <2>2, <2>4
    <2> QED BY <2>1, <2>3, <2>4
<1> HIDE DEF q, r, L, D, known
<1>4. /\ Bytes(q) \in Nat /\ Bytes(r) \in Nat /\ Len(L) \in Nat
      /\ Bytes(<<>>) = 0 /\ Bytes(<<RST>>) = 0
    BY <1>2, BytesCount, BytesOfNone, BytesOfOne DEF Typed, Markers
<1>5. ASSUME NEW q2, Bytes(q2) \in Nat, Bytes(q2) <= Bytes(q)
      PROVE  Counted(q2, <<>>, L, D2, FALSE, x.pending_ping)
    <2>1. /\ Given(q2, <<>>, L, D2) <= Given(q, r, L, D)
          /\ Given(q2, <<>>, L, D2) \in Nat /\ Given(q, r, L, D) \in Nat
        BY <1>3, <1>4, <1>5 DEF Given
    <2> QED BY <1>2, <2>1, UnusedCounts, ZenonT(60)
<1>6. /\ dialer'.inbound_streams = {} /\ (s = dialer'.outbound_stream <=> FALSE)
      /\ dialer'.recv_bufs = [dialer.recv_bufs EXCEPT ![s] = D2]
      /\ \/ dialer.outbound_stream \in {s, None} /\ dialer'.outbound_stream \in {s, None}
         \/ /\ dialer'.outbound_stream = dialer.outbound_stream
            /\ dialer'.pending_ping = dialer.pending_ping
    BY <1>1
<1>7. CASE dEnd[s] \in {"open", "finished"}
    <2>1. PICK q2 : /\ request' = [request EXCEPT ![s] = q2]
                    /\ q2 = <<RST>> \/ EndedBy(q, RST, q2)
        BY <1>1, <1>7
    <2>3. Shaped(q2, <<>>, "resetting", lEnd[s], L, D2, known, FALSE)
        BY <1>2, <1>7, <2>1, DialerResetShapes
    <2>4. Bytes(q2) \in Nat /\ Bytes(q2) <= Bytes(q)
        BY <1>4, <2>1 DEF EndedBy
    <2>5. Counted(q2, <<>>, L, D2, FALSE, dialer'.pending_ping)
        BY <1>1, <1>5, <2>4
    <2>6. /\ Shaped(q2, <<>>, "resetting", lEnd[s], L, D2, known, s = dialer'.outbound_stream)
          /\ Counted(q2, <<>>, L, D2, s = dialer'.outbound_stream, dialer'.pending_ping)
        BY <1>6, <2>3, <2>5 DEF Shaped, Counted
    <2>7. dEnd' = [dEnd EXCEPT ![s] = "resetting"]
        BY <1>1, <1>7
    <2> QED BY <1>1, <1>6, <2>1, <2>6, <2>7, DialerStep DEF L, known
<1>8. CASE dEnd[s] \notin {"open", "finished"}
    <2>1. D2 = <<>>
        BY <1>8
    <2>2. Shaped(q, <<>>, dEnd[s], lEnd[s], L, D2, known, FALSE)
        BY <1>2, <1>8, <2>1, DropShapes
    <2>3. Counted(q, <<>>, L, D2, FALSE, dialer'.pending_ping)
        <3>1. Bytes(q) <= Bytes(q)
            BY <1>4
        <3> QED BY <1>1, <1>4, <1>5, <3>1
    <2>4. /\ Shaped(q, <<>>, dEnd[s], lEnd[s], L, D2, known, s = dialer'.outbound_stream)
          /\ Counted(q, <<>>, L, D2, s = dialer'.outbound_stream, dialer'.pending_ping)
        BY <1>6, <2>2, <2>3 DEF Shaped, Counted
    <2>5. dEnd' = [dEnd EXCEPT ![s] = dEnd[s]] /\ request' = [request EXCEPT ![s] = q]
        BY <1>1, <1>8
    <2> QED BY <1>1, <1>6, <2>4, <2>5, DialerStep DEF L, known
<1> QED BY <1>7, <1>8

\* The fields that dropping the outbound stream leaves.
LEMMA DropFields ==
    ASSUME PingInv, ExchangeInv, NEW s
    PROVE  LET x == DropOutbound(dialer, s)
           IN  /\ x.inbound_streams = {} /\ x.recv_bufs = [dialer.recv_bufs EXCEPT ![s] = <<>>]
               /\ x.outbound_stream = None /\ x.pending_ping = None
BY Fields DEF PingInv, Sound, ExchangeInv, DropOutbound, Buffered

\* A step that raises nothing accuses nobody, nor does one that only reports on streams.
LEMMA SilentIsFair == Silent.listener = <<>> /\ Silent.dialer = <<>> /\ (raised' = Silent => NoFalseAccusation')
BY DEF Silent, NoFalseAccusation, Accuses

\* A step of the dialer that accuses only a peer that gave up the stream.
LEMMA FairEvents ==
    ASSUME NEW evs, raised' = [Silent EXCEPT !.dialer = evs],
           \A i \in DOMAIN evs : evs[i].type = "ProtocolViolation" => lEnd'[evs[i].stream] \in GivenUp
    PROVE  NoFalseAccusation'
<1>1. raised'.dialer = evs /\ raised'.listener = <<>>
    BY DEF Silent
<1> QED BY <1>1 DEF NoFalseAccusation, Accuses, GivenUp

\* on_tick drops the stream of a ping that timed out.
LEMMA DialerTicksKeeps ==
    ASSUME PingInv, ExchangeInv, DialerTicks
    PROVE  ExchangeInv' /\ NoFalseAccusation'
<1> DEFINE s == dialer.outbound_stream
           x == DropOutbound(dialer, s)
           evs == <<PingEvent("Timeout", s), PingEvent("OutboundStreamClosed", s)>>
<1>1. s \in PingStreams /\ None \notin PingStreams
    BY PingAssumption DEF DialerTicks, TimedOut, PingInv, Sound, PeerStates
<1>2. DialerRuns(Outcome(x, <<ResetStream(s)>>, evs), s, reply[s])
    BY DEF DialerTicks, OnTick
<1>3. \A i \in DOMAIN evs : evs[i].type # "ProtocolViolation"
    BY DEF PingEvent
<1>4. /\ x.inbound_streams = {} /\ x.recv_bufs = [dialer.recv_bufs EXCEPT ![s] = <<>>]
      /\ x.outbound_stream = None
    BY DropFields
<1> HIDE DEF x, evs
<1>5. ExchangeInv'
    BY <1>1, <1>2, <1>4, GivingUpKeeps
<1>6. raised' = [Silent EXCEPT !.dialer = evs]
    BY <1>1, <1>2, ResettingDialer
<1> QED BY <1>3, <1>5, <1>6, FairEvents

\* on_stream_closed on the dialer.
LEMMA DialerSeesClosedKeeps ==
    ASSUME PingInv, ExchangeInv, NEW s \in PingStreams, DialerSeesClosed(s)
    PROVE  ExchangeInv' /\ raised' = Silent
<1> DEFINE q == request[s]
           r == reply[s]
           L == listener.recv_bufs[s]
           D == dialer.recv_bufs[s]
           known == s \in listener.inbound_streams
           i == dialer.inbound_streams \ {s}
           b == [dialer.recv_bufs EXCEPT ![s] = <<>>]
           closed == [dialer EXCEPT !.inbound_streams = i, !.recv_bufs = b]
<1>1. /\ reply' = [reply EXCEPT ![s] = <<>>] /\ dEnd' = [dEnd EXCEPT ![s] = "closed"]
      /\ UNCHANGED <<listener, lEnd>> /\ request' = [request EXCEPT ![s] = q]
      /\ dEnd[s] # "unused" /\ raised' = Silent
    BY DEF DialerSeesClosed, PingInv
<1>2. dialer \in PeerStates /\ i = {} /\ dialer.recv_bufs \in [PingStreams -> Seq(Symbols)]
    BY DEF PingInv, Sound, PeerStates, ExchangeInv
<1>3. dialer' = IF dialer.outbound_stream = s THEN DropOutbound(closed, s) ELSE closed
    BY OutcomeParts DEF DialerSeesClosed, OnStreamClosed, Buffered
<1>4. /\ closed.inbound_streams = {} /\ closed.recv_bufs = b
      /\ closed.outbound_stream = dialer.outbound_stream /\ closed.pending_ping = dialer.pending_ping
      /\ closed \in PeerStates
    <2>1. b \in [PingStreams -> Seq(Symbols)] /\ i \in SUBSET PingStreams
        BY <1>2
    <2> HIDE DEF b, i
    <2> QED BY <1>2, <2>1, Fields DEF PeerStates
<1> HIDE DEF closed
<1>5. LET y == DropOutbound(closed, s)
      IN  /\ y.inbound_streams = {} /\ y.recv_bufs = b
          /\ y.outbound_stream = None
    <2>1. [b EXCEPT ![s] = <<>>] = b
        BY <1>2
    <2> HIDE DEF b
    <2> QED BY <1>4, <2>1, Fields DEF DropOutbound, Buffered
<1>6. /\ dialer'.inbound_streams = {} /\ dialer'.recv_bufs = [dialer.recv_bufs EXCEPT ![s] = <<>>]
      /\ dialer'.outbound_stream # s
      /\ \/ dialer.outbound_stream \in {s, None} /\ dialer'.outbound_stream \in {s, None}
         \/ /\ dialer'.outbound_stream = dialer.outbound_stream
            /\ dialer'.pending_ping = dialer.pending_ping
    BY <1>3, <1>4, <1>5, PingAssumption
<1>7. /\ Typed(q, r, dEnd[s], lEnd[s], L, D)
      /\ Shaped(q, r, dEnd[s], lEnd[s], L, D, known, s = dialer.outbound_stream)
      /\ Counted(q, r, L, D, s = dialer.outbound_stream, dialer.pending_ping)
    BY StreamFacts
<1> HIDE DEF q, r, L, D, known
<1>8. Bytes(r) \in Nat
    BY <1>7, BytesCount DEF Typed
<1>9. Shaped(q, <<>>, "closed", lEnd[s], L, <<>>, known, FALSE)
    BY <1>1, <1>7, DialerClosedShapes
<1>10. Counted(q, <<>>, L, <<>>, FALSE, dialer'.pending_ping)
    <2>1. /\ Bytes(q) \in Nat /\ Len(L) \in Nat /\ Len(D) \in Nat
          /\ Bytes(<<>>) = 0 /\ Len(<<>>) = 0
        BY <1>7, BytesCount, BytesOfNone DEF Typed
    <2>2. /\ Given(q, <<>>, L, <<>>) <= Given(q, r, L, D)
          /\ Given(q, <<>>, L, <<>>) \in Nat /\ Given(q, r, L, D) \in Nat
        BY <1>8, <2>1 DEF Given
    <2> QED BY <1>7, <2>2, UnusedCounts
<1>11. /\ Shaped(q, <<>>, "closed", lEnd[s], L, <<>>, known, s = dialer'.outbound_stream)
       /\ Counted(q, <<>>, L, <<>>, s = dialer'.outbound_stream, dialer'.pending_ping)
    BY <1>6, <1>9, <1>10 DEF Shaped, Counted
<1> QED BY <1>1, <1>6, <1>11, DialerStep DEF L, known

\* on_stream_data on the dialer: a stream it forgot was half-closed by the listener, and on
\* the outbound stream only the answer to the ping in flight can be complete.
LEMMA DialerReceivesKeeps ==
    ASSUME PingInv, ExchangeInv, NEW s \in PingStreams, NEW n, DialerReceives(s, n)
    PROVE  ExchangeInv' /\ NoFalseAccusation'
<1> DEFINE data == SubSeq(reply[s], 1, n)
           q == request[s]
           r == reply[s]
           r2 == Rest(reply[s], n)
           L == listener.recv_bufs[s]
           D == dialer.recv_bufs[s]
           buf == D \o data
           known == s \in listener.inbound_streams
           out == OnStreamData(dialer, s, data, now)
<1>1. /\ dEnd[s] \in {"open", "finished"} /\ IsChunk(r, n) /\ DialerRuns(out, s, r2)
    BY DEF DialerReceives
<1>2. /\ Typed(q, r, dEnd[s], lEnd[s], L, D)
      /\ Shaped(q, r, dEnd[s], lEnd[s], L, D, known, s = dialer.outbound_stream)
      /\ Counted(q, r, L, D, s = dialer.outbound_stream, dialer.pending_ping)
      /\ dialer.pending_ping # None => dialer.pending_ping.payload \in Payloads
    BY StreamFacts
<1>3. dialer \in PeerStates /\ dialer.inbound_streams = {} /\ dialer.recv_bufs = [dialer.recv_bufs EXCEPT ![s] = D]
    BY DEF PingInv, Sound, PeerStates, ExchangeInv
<1>4. CASE s # dialer.outbound_stream
    <2> DEFINE evs == <<PingEvent("ProtocolViolation", s)>>
    <2>1. out = Outcome(dialer, <<ResetStream(s)>>, evs)
        BY <1>3, <1>4 DEF OnStreamData, IsKnown, ProtocolViolation
    <2>2. lEnd[s] \in GivenUp
        BY <1>1, <1>2, <1>4 DEF Shaped, Typed, EndStates, GivenUp
    <2>3. \A i \in DOMAIN evs : evs[i].stream = s
        BY DEF PingEvent
    <2> HIDE DEF evs, D, out
    <2>4. DialerRuns(Outcome(dialer, <<ResetStream(s)>>, evs), s, r2)
        BY <1>1, <2>1
    <2>5. ExchangeInv'
        BY <1>1, <1>3, <1>4, <2>4, GivingUpKeeps DEF D
    <2>6. raised' = [Silent EXCEPT !.dialer = evs] /\ lEnd' = lEnd
        BY <2>4, ResettingDialer
    <2> QED BY <2>2, <2>3, <2>5, <2>6, FairEvents
<1>5. CASE s = dialer.outbound_stream
    <2>1. /\ n \in Nat \ {0} /\ n <= Len(r) /\ data \in Seq(Symbols) /\ Len(data) = n
          /\ \A i \in 1..n : data[i] = r[i] /\ r[i] \notin Markers
          /\ Shortened(r, n, n, r2)
        BY <1>1, <1>2, ChunkShortens DEF Typed
    <2>2. Taken(r, n, D, buf)
        <3>1. Grown(D, data, buf)
            BY <1>2, <2>1, ConcatGrows DEF Typed
        <3> HIDE DEF D, buf, data, r, r2
        <3> QED BY <1>2, <2>1, <3>1 DEF Taken, Grown, Typed
    <2>3. /\ buf \in Seq(Symbols) /\ Len(buf) \in Nat
        BY <2>2 DEF Taken
    <2> HIDE DEF data, r2, buf, q, r, L, D, known
    <2>4. /\ dialer.pending_ping # None
          /\ Len(buf) <= PING_PAYLOAD_LEN
          /\ Counted(q, r2, L, buf, TRUE, dialer.pending_ping)
          /\ Len(buf) = PING_PAYLOAD_LEN =>
                /\ buf = dialer.pending_ping.payload
                /\ Counted(q, r2, L, <<>>, TRUE, None)
        <3>1. Counted(q, r, L, D, TRUE, dialer.pending_ping)
            BY <1>2, <1>5 DEF Counted
        <3>2. q \in Seq(Symbols) /\ r \in Seq(Symbols) /\ L \in Seq(Symbols) /\ D \in Seq(Symbols)
            BY <1>2 DEF Typed
        <3>3. \A i \in 1..n : r[i] \notin Markers
            BY <2>1
        <3>4. /\ n \in Nat \ {0} /\ n <= Len(r) /\ Shortened(r, n, n, r2)
              /\ dialer.pending_ping # None => dialer.pending_ping.payload \in Payloads
            BY <1>2, <2>1
        <3> DEFINE pend == dialer.pending_ping
        <3>5. Counted(q, r, L, D, TRUE, pend) /\ (pend # None => pend.payload \in Payloads)
            BY <3>1, <3>4
        <3> HIDE DEF pend
        <3>6. /\ pend # None
              /\ Len(buf) <= PING_PAYLOAD_LEN
              /\ Counted(q, r2, L, buf, TRUE, pend)
              /\ Len(buf) = PING_PAYLOAD_LEN => buf = pend.payload /\ Counted(q, r2, L, <<>>, TRUE, None)
            BY <2>2, <3>2, <3>3, <3>4, <3>5, DialerChunkCounts
        <3> QED BY <3>6 DEF pend
    <2>5. ASSUME NEW D2 PROVE Shaped(q, r2, dEnd[s], lEnd[s], L, D2, known, TRUE)
        <3>1. Shaped(q, r, dEnd[s], lEnd[s], L, D, known, TRUE)
            BY <1>2, <1>5 DEF Shaped
        <3>2. dEnd[s] # "unused" /\ n \in Nat
            BY <1>1, <2>1
        <3> QED BY <1>2, <2>1, <3>1, <3>2, DialerTakesShapes
    <2>6. ASSUME NEW x, NEW D2, NEW evs, out = Outcome(x, <<>>, evs), x.inbound_streams = {},
                 x.recv_bufs = [dialer.recv_bufs EXCEPT ![s] = D2], x.outbound_stream = s,
                 Counted(q, r2, L, D2, TRUE, x.pending_ping),
                 \A i \in DOMAIN evs : evs[i].type # "ProtocolViolation"
          PROVE  ExchangeInv' /\ NoFalseAccusation'
        <3> HIDE DEF out
        <3>1. DialerRuns(Outcome(x, <<>>, evs), s, r2)
            BY <1>1, <2>6
        <3>2. /\ dialer' = x /\ reply' = [reply EXCEPT ![s] = r2]
              /\ request' = [request EXCEPT ![s] = request[s]] /\ dEnd' = [dEnd EXCEPT ![s] = dEnd[s]]
              /\ UNCHANGED <<listener, lEnd>> /\ raised' = [Silent EXCEPT !.dialer = evs]
            BY <3>1, QuietDialer
        <3>3. Shaped(q, r2, dEnd[s], lEnd[s], L, D2, known, TRUE)
            BY <2>5
        <3>4. /\ Shaped(q, r2, dEnd[s], lEnd[s], L, D2, known, s = dialer'.outbound_stream)
              /\ Counted(q, r2, L, D2, s = dialer'.outbound_stream, dialer'.pending_ping)
            BY <2>6, <3>2, <3>3 DEF Shaped, Counted
        <3>5. /\ dialer'.inbound_streams = {} /\ dialer.outbound_stream \in {s, None}
              /\ dialer'.outbound_stream \in {s, None}
              /\ dialer'.recv_bufs = [dialer.recv_bufs EXCEPT ![s] = D2]
            BY <1>5, <2>6, <3>2
        <3>6. ExchangeInv'
            BY <3>2, <3>4, <3>5, DialerStep DEF q, L, known
        <3> QED BY <2>6, <3>2, <3>6, FairEvents
    <2>7. CASE Len(buf) < PING_PAYLOAD_LEN
        <3> DEFINE b == [dialer.recv_bufs EXCEPT ![s] = buf]
                   x == [dialer EXCEPT !.recv_bufs = b]
        <3>1. out = Outcome(x, <<>>, <<>>)
            BY <1>5, <2>3, <2>7, PingAssumption DEF OnStreamData, IsKnown, Buffered, buf, D
        <3> HIDE DEF out, b
        <3>2. /\ x.inbound_streams = {} /\ x.recv_bufs = b /\ x.outbound_stream = s
              /\ x.pending_ping = dialer.pending_ping
            BY <1>3, <1>5, Fields
        <3> HIDE DEF x
        <3>3. \A i \in DOMAIN <<>> : <<>>[i].type # "ProtocolViolation"
            OBVIOUS
        <3> QED BY <2>4, <2>6, <3>1, <3>2, <3>3 DEF b
    <2>8. CASE Len(buf) = PING_PAYLOAD_LEN
        <3> DEFINE b == [dialer.recv_bufs EXCEPT ![s] = <<>>]
                   drained == [dialer EXCEPT !.recv_bufs = b]
                   x == [drained EXCEPT !.pending_ping = None]
                   evs == <<[type |-> "RttMeasured", stream |-> s, rtt |-> Elapsed(drained, now)]>>
        <3>1. b \in [PingStreams -> Seq(Symbols)]
            BY <1>3 DEF PeerStates
        <3>2. out = ProcessCompletePayload(drained, s, buf, now)
            BY <1>5, <2>3, <2>8, PingAssumption DEF OnStreamData, IsKnown, Buffered, buf, D
        <3> HIDE DEF b, out
        <3>3. /\ drained \in PeerStates /\ drained.pending_ping = dialer.pending_ping
              /\ drained.outbound_stream = s /\ drained.inbound_streams = {} /\ drained.recv_bufs = b
            <4>1. /\ drained.pending_ping = dialer.pending_ping
                  /\ drained.outbound_stream = s /\ drained.inbound_streams = {} /\ drained.recv_bufs = b
                BY <1>3, <1>5, Fields
            <4>2. drained \in PeerStates
                BY <1>3, <3>1 DEF PeerStates
            <4> QED BY <4>1, <4>2
        <3> HIDE DEF drained
        <3>4. out = Outcome(x, <<>>, evs)
            BY <2>4, <2>8, <3>2, <3>3 DEF ProcessCompletePayload
        <3>5. /\ x.inbound_streams = {} /\ x.recv_bufs = b /\ x.outbound_stream = s
              /\ x.pending_ping = None
            BY <3>3, Fields
        <3>6. \A i \in DOMAIN evs : evs[i].type # "ProtocolViolation"
            OBVIOUS
        <3> HIDE DEF x, evs
        <3> QED BY <2>4, <2>6, <2>8, <3>4, <3>5, <3>6 DEF b
    <2> QED BY <2>3, <2>4, <2>7, <2>8, PingAssumption
<1> QED BY <1>4, <1>5

\* on_stream_remote_write_closed on the dialer: the listener half-closed.
LEMMA DialerSeesFinKeeps ==
    ASSUME PingInv, ExchangeInv, NEW s \in PingStreams, DialerSeesFin(s)
    PROVE  ExchangeInv' /\ NoFalseAccusation'
<1> DEFINE q == request[s]
           r == reply[s]
           r2 == Tail(reply[s])
           L == listener.recv_bufs[s]
           D == dialer.recv_bufs[s]
           known == s \in listener.inbound_streams
           dropped == DropOutbound(dialer, s)
           out == OnStreamRemoteWriteClosed(dialer, s)
           over == <<PingEvent("OutboundStreamClosed", s)>>
           bad == <<PingEvent("ProtocolViolation", s)>>
<1>1. /\ dEnd[s] \in {"open", "finished"} /\ r # <<>> /\ r[1] = FIN /\ Head(r) \in Markers
      /\ DialerRuns(out, s, r2)
    BY StreamFacts DEF DialerSeesFin, Typed, Markers
<1>2. /\ Typed(q, r, dEnd[s], lEnd[s], L, D)
      /\ Shaped(q, r, dEnd[s], lEnd[s], L, D, known, s = dialer.outbound_stream)
      /\ Counted(q, r, L, D, s = dialer.outbound_stream, dialer.pending_ping)
    BY StreamFacts
<1>3. /\ dialer \in PeerStates /\ dialer.inbound_streams = {}
      /\ dialer.recv_bufs = [dialer.recv_bufs EXCEPT ![s] = D]
    BY DEF PingInv, Sound, PeerStates, ExchangeInv
<1>4. /\ dropped.inbound_streams = {} /\ dropped.recv_bufs = [dialer.recv_bufs EXCEPT ![s] = <<>>]
      /\ dropped.outbound_stream = None /\ dropped.pending_ping = None
    BY DropFields
<1>5. IF dialer.outbound_stream = s
      THEN \/ out = Outcome(dropped, <<ResetStream(s)>>, bad)
           \/ out = Outcome(dropped, <<>>, over)
      ELSE out = Outcome(dialer, <<>>, <<>>)
    BY <1>3 DEF OnStreamRemoteWriteClosed, ProtocolViolation
<1>6. /\ \A i \in DOMAIN bad : bad[i].stream = s
      /\ \A i \in DOMAIN over : over[i].type # "ProtocolViolation"
      /\ \A i \in DOMAIN <<>> : <<>>[i].type # "ProtocolViolation"
    BY DEF PingEvent
<1>7. Shortened(r, 1, 0, r2) /\ 1 <= Len(r)
    BY <1>1, <1>2, TailShortens DEF Typed
<1> HIDE DEF q, r, r2, L, D, known, dropped, out, over, bad
<1>8. lEnd[s] \in GivenUp
    BY <1>1, <1>2, <1>7 DEF Typed, Shaped
<1>9. ASSUME NEW D2 PROVE Shaped(q, r2, dEnd[s], lEnd[s], L, D2, known, FALSE)
    <2>1. dEnd[s] # "unused"
        BY <1>1
    <2> QED BY <1>2, <1>7, <1>8, <2>1, DialerTakesShapes
<1>10. ASSUME NEW x, NEW evs, NEW D2, out = Outcome(x, <<>>, evs), D2 = <<>> \/ D2 = D,
              x.inbound_streams = {}, x.recv_bufs = [dialer.recv_bufs EXCEPT ![s] = D2],
              x.outbound_stream # s,
              \/ dialer.outbound_stream = s /\ x.outbound_stream = None
              \/ /\ x.outbound_stream = dialer.outbound_stream
                 /\ x.pending_ping = dialer.pending_ping,
              \A i \in DOMAIN evs : evs[i].type # "ProtocolViolation"
       PROVE  ExchangeInv' /\ NoFalseAccusation'
    <2>1. DialerRuns(Outcome(x, <<>>, evs), s, r2)
        BY <1>1, <1>10
    <2>2. /\ dialer' = x /\ reply' = [reply EXCEPT ![s] = r2]
          /\ request' = [request EXCEPT ![s] = request[s]] /\ dEnd' = [dEnd EXCEPT ![s] = dEnd[s]]
          /\ UNCHANGED <<listener, lEnd>> /\ raised' = [Silent EXCEPT !.dialer = evs]
        BY <2>1, QuietDialer
    <2>3. Counted(q, r2, L, D2, FALSE, x.pending_ping)
        <3>1. /\ Bytes(q) \in Nat /\ Bytes(r) \in Nat /\ Len(L) \in Nat /\ Len(D) \in Nat
              /\ Bytes(r2) = Bytes(r)
            BY <1>2, <1>7, BytesCount DEF Typed, Shortened
        <3>2. Len(D2) \in Nat /\ Len(D2) <= Len(D)
            <4>1. CASE D2 = <<>>
                BY <3>1, <4>1
            <4>2. CASE D2 = D
                BY <3>1, <4>2
            <4> QED BY <1>10, <4>1, <4>2
        <3>3. /\ Given(q, r2, L, D2) <= Given(q, r, L, D)
              /\ Given(q, r2, L, D2) \in Nat /\ Given(q, r, L, D) \in Nat
            BY <3>1, <3>2 DEF Given
        <3> QED BY <1>2, <3>3, UnusedCounts
    <2>4. Shaped(q, r2, dEnd[s], lEnd[s], L, D2, known, FALSE)
        BY <1>9
    <2>5. /\ Shaped(q, r2, dEnd[s], lEnd[s], L, D2, known, s = dialer'.outbound_stream)
          /\ Counted(q, r2, L, D2, s = dialer'.outbound_stream, dialer'.pending_ping)
        BY <1>10, <2>2, <2>3, <2>4 DEF Shaped, Counted
    <2>6. /\ dialer'.inbound_streams = {}
          /\ dialer'.recv_bufs = [dialer.recv_bufs EXCEPT ![s] = D2]
          /\ \/ dialer.outbound_stream \in {s, None} /\ dialer'.outbound_stream \in {s, None}
             \/ /\ dialer'.outbound_stream = dialer.outbound_stream
                /\ dialer'.pending_ping = dialer.pending_ping
        BY <1>10, <2>2
    <2>7. ExchangeInv'
        BY <2>2, <2>5, <2>6, DialerStep DEF q, L, known
    <2> QED BY <1>10, <2>2, <2>7, FairEvents, ZenonT(60)
<1>11. s # None
    BY PingAssumption
<1>12. CASE dialer.outbound_stream # s
    <2>1. out = Outcome(dialer, <<>>, <<>>)
        BY <1>5, <1>12
    <2> QED BY <1>3, <1>6, <1>10, <1>12, <2>1
<1>13. CASE dialer.outbound_stream = s /\ out = Outcome(dropped, <<>>, over)
    <2>1. dropped.outbound_stream # s /\ dialer.outbound_stream = s /\ out = Outcome(dropped, <<>>, over)
        BY <1>4, <1>11, <1>13
    <2>2. /\ dropped.inbound_streams = {} /\ dropped.outbound_stream = None
          /\ dropped.recv_bufs = [dialer.recv_bufs EXCEPT ![s] = <<>>]
          /\ \A k \in DOMAIN over : over[k].type # "ProtocolViolation"
        BY <1>4, <1>6
    <2> QED BY <1>10, <2>1, <2>2, Zenon
<1>14. CASE dialer.outbound_stream = s /\ out = Outcome(dropped, <<ResetStream(s)>>, bad)
    <2>1. DialerRuns(Outcome(dropped, <<ResetStream(s)>>, bad), s, r2)
        BY <1>1, <1>14
    <2>2. ExchangeInv'
        BY <1>4, <1>11, <1>14, <2>1, GivingUpKeeps
    <2>3. raised' = [Silent EXCEPT !.dialer = bad] /\ lEnd' = lEnd
        BY <2>1, ResettingDialer
    <2> QED BY <1>6, <1>8, <2>2, <2>3, FairEvents
<1> QED BY <1>5, <1>12, <1>13, <1>14

\* send_ping, with nothing of an earlier ping under way.
LEMMA DialerSendsKeeps ==
    ASSUME PingInv, ExchangeInv, NEW p \in Payloads, DialerSends(p)
    PROVE  ExchangeInv' /\ raised' = Silent
<1> DEFINE s == dialer.outbound_stream
           g == [payload |-> p, sent_at |-> now]
           x == [dialer EXCEPT !.pending_ping = g]
           out == Outcome(x, <<Send(s, p)>>, <<>>)
           q == request[s]
           q2 == IF dEnd[s] = "open" THEN q \o p ELSE q
           r == reply[s]
           L == listener.recv_bufs[s]
           D == dialer.recv_bufs[s]
           known == s \in listener.inbound_streams
<1>1. s \in PingStreams /\ dialer.pending_ping = None /\ dialer \in PeerStates /\ now \in Nat
    BY PayloadsAssumption DEF DialerSends, SendPingRejected, PingInv, Sound, PeerStates
<1>2. DialerRuns(out, s, r)
    BY DEF DialerSends, SendPing
<1>3. /\ x.inbound_streams = dialer.inbound_streams /\ x.recv_bufs = dialer.recv_bufs
      /\ x.outbound_stream = s /\ x.pending_ping = g
    BY <1>1, Fields
<1>4. ~IsReset(out, s) /\ Sent(out, s) = p /\ out.state = x /\ out.events = <<>>
    BY Sending
<1> HIDE DEF out, x
<1>5. /\ dialer' = x /\ reply' = [reply EXCEPT ![s] = r] /\ raised' = Silent
      /\ UNCHANGED <<listener, lEnd>>
      /\ request' = [request EXCEPT ![s] = q2] /\ dEnd' = [dEnd EXCEPT ![s] = dEnd[s]]
    BY <1>1, <1>2, <1>4 DEF DialerRuns, Transmit, Silent, PingInv
<1>6. p \in Seq(Symbols) /\ \A i \in 1..Len(p) : p[i] \notin Markers
    BY PayloadIsSeq, PayloadsAssumption
<1>7. /\ Typed(q, r, dEnd[s], lEnd[s], L, D)
      /\ Shaped(q, r, dEnd[s], lEnd[s], L, D, known, TRUE)
      /\ Counted(q, r, L, D, TRUE, None)
    <2>1. /\ Typed(q, r, dEnd[s], lEnd[s], L, D)
          /\ Shaped(q, r, dEnd[s], lEnd[s], L, D, known, s = dialer.outbound_stream)
          /\ Counted(q, r, L, D, s = dialer.outbound_stream, dialer.pending_ping)
        BY <1>1, StreamFacts
    <2> HIDE DEF q, r, L, D, known
    <2>2. Shaped(q, r, dEnd[s], lEnd[s], L, D, known, TRUE)
        BY <2>1 DEF Shaped
    <2>3. Counted(q, r, L, D, TRUE, None)
        BY <1>1, <2>1 DEF Counted
    <2> QED BY <2>1, <2>2, <2>3
<1> HIDE DEF q, r, L, D, known
<1>8. Grown(q, p, q \o p)
    BY <1>6, <1>7, ConcatGrows DEF Typed
<1>9. Shaped(q2, r, dEnd[s], lEnd[s], L, D, known, TRUE)
    <2>1. CASE dEnd[s] = "open"
        <3>1. Typed(q, r, "open", lEnd[s], L, D) /\ Shaped(q, r, "open", lEnd[s], L, D, known, TRUE)
            BY <1>7, <2>1
        <3>2. Shaped(q \o p, r, "open", lEnd[s], L, D, known, TRUE)
            BY <1>6, <1>8, <3>1, SendShapes
        <3> QED BY <2>1, <3>2
    <2>2. CASE dEnd[s] # "open"
        BY <1>7, <2>2
    <2> QED BY <2>1, <2>2
<1>10. Counted(q2, r, L, D, TRUE, g)
    <2>1. \A i \in 1..Len(q) : q[i] = OPEN => i = 1
        BY <1>7 DEF Shaped
    <2>2. Counted(q \o p, r, L, D, TRUE, g) /\ Counted(q, r, L, D, TRUE, g)
        BY <1>1, <1>6, <1>7, <1>8, <2>1, SendCounts DEF Typed
    <2> QED BY <2>2
<1> HIDE DEF q2, g
<1>11. /\ Shaped(q2, r, dEnd[s], lEnd[s], L, D, known, s = dialer'.outbound_stream)
       /\ Counted(q2, r, L, D, s = dialer'.outbound_stream, dialer'.pending_ping)
    BY <1>3, <1>5, <1>9, <1>10 DEF Shaped, Counted
<1>12. /\ dialer'.inbound_streams = {} /\ dialer.outbound_stream \in {s, None}
       /\ dialer'.outbound_stream \in {s, None}
       /\ dialer'.recv_bufs = [dialer.recv_bufs EXCEPT ![s] = D]
    BY <1>1, <1>3, <1>5 DEF D, PeerStates, ExchangeInv
<1> QED BY <1>1, <1>5, <1>11, <1>12, DialerStep DEF L, known

\* close_outbound_stream_write.
LEMMA DialerFinishesKeeps ==
    ASSUME PingInv, ExchangeInv, DialerFinishes
    PROVE  ExchangeInv' /\ raised' = Silent
<1> DEFINE s == dialer.outbound_stream
           q == request[s]
           q2 == Append(request[s], FIN)
           r == reply[s]
           L == listener.recv_bufs[s]
           D == dialer.recv_bufs[s]
           known == s \in listener.inbound_streams
<1>1. s \in PingStreams /\ dialer.pending_ping = None /\ dialer \in PeerStates
    BY DEF DialerFinishes, CloseOutboundRejected, PingInv, Sound, PeerStates
<1>2. CloseOutboundStreamWrite(dialer).actions[1].stream = s
    BY DEF CloseOutboundStreamWrite, Outcome, CloseWrite
<1>3. /\ dEnd[s] = "open" /\ dEnd' = [dEnd EXCEPT ![s] = "finished"]
      /\ request' = [request EXCEPT ![s] = q2] /\ reply' = [reply EXCEPT ![s] = r]
      /\ UNCHANGED <<dialer, listener, lEnd>> /\ raised' = Silent
    BY <1>1, <1>2 DEF DialerFinishes, PingInv
<1>4. EndedBy(q, FIN, q2)
    BY <1>1, AppendEnds DEF PingInv, Markers
<1>5. /\ Typed(q, r, "open", lEnd[s], L, D)
      /\ Shaped(q, r, "open", lEnd[s], L, D, known, TRUE)
      /\ Counted(q, r, L, D, TRUE, None)
    <2>1. /\ Typed(q, r, dEnd[s], lEnd[s], L, D)
          /\ Shaped(q, r, dEnd[s], lEnd[s], L, D, known, s = dialer.outbound_stream)
          /\ Counted(q, r, L, D, s = dialer.outbound_stream, dialer.pending_ping)
        BY <1>1, StreamFacts
    <2> HIDE DEF q, r, L, D, known
    <2>2. Shaped(q, r, "open", lEnd[s], L, D, known, TRUE)
        BY <1>3, <2>1 DEF Shaped
    <2>3. Counted(q, r, L, D, TRUE, None)
        BY <1>1, <2>1 DEF Counted
    <2> QED BY <1>3, <2>1, <2>2, <2>3
<1> HIDE DEF q, q2, r, L, D, known
<1>6. Shaped(q2, r, "finished", lEnd[s], L, D, known, TRUE)
    BY <1>4, <1>5, HalfCloseShapes
<1>7. Counted(q2, r, L, D, TRUE, None)
    BY <1>4, <1>5, HalfCloseCounts DEF Typed
<1>8. /\ Shaped(q2, r, "finished", lEnd[s], L, D, known, s = dialer'.outbound_stream)
      /\ Counted(q2, r, L, D, s = dialer'.outbound_stream, dialer'.pending_ping)
    BY <1>1, <1>3, <1>6, <1>7 DEF Shaped, Counted
<1>9. /\ dialer'.inbound_streams = {}
      /\ dialer'.recv_bufs = [dialer.recv_bufs EXCEPT ![s] = D]
    BY <1>1, <1>3 DEF D, PeerStates, ExchangeInv
<1> QED BY <1>1, <1>3, <1>8, <1>9, DialerStep DEF L, known

\* The empty system satisfies the invariant.
LEMMA ExchangeInit == Init => ExchangeInv /\ NoFalseAccusation
<1> SUFFICES ASSUME Init PROVE ExchangeInv /\ NoFalseAccusation
    OBVIOUS
<1>1. ASSUME NEW s \in PingStreams PROVE StreamOK(s)
    <2>1. /\ request[s] = <<>> /\ reply[s] = <<>> /\ dEnd[s] = "unused" /\ lEnd[s] = "unused"
          /\ listener.recv_bufs[s] = <<>> /\ dialer.recv_bufs[s] = <<>>
          /\ dialer.pending_ping = None
        BY DEF Init, DefaultPeerState
    <2>2. Bytes(<<>>) = 0 /\ Len(<<>>) = 0
        BY BytesOfNone
    <2>3. Counted(<<>>, <<>>, <<>>, <<>>, s = dialer.outbound_stream, None)
        BY <2>2, PingAssumption DEF Counted, Given
    <2>4. Shaped(<<>>, <<>>, "unused", "unused", <<>>, <<>>, s \in listener.inbound_streams,
                 s = dialer.outbound_stream)
        BY DEF Shaped
    <2> QED BY <2>1, <2>3, <2>4 DEF StreamOK
<1>2. listener.outbound_stream = None /\ dialer.inbound_streams = {}
    BY DEF Init, DefaultPeerState
<1>3. NoFalseAccusation
    BY DEF Init, Silent, NoFalseAccusation, Accuses
<1> QED BY <1>1, <1>2, <1>3 DEF ExchangeInv

\* Every step preserves the invariant and accuses nobody falsely.
LEMMA ExchangeStep ==
    PingInv /\ ExchangeInv /\ NoFalseAccusation /\ [Next]_vars => ExchangeInv' /\ NoFalseAccusation'
<1> SUFFICES ASSUME PingInv, ExchangeInv, NoFalseAccusation, [Next]_vars
             PROVE  ExchangeInv' /\ NoFalseAccusation'
    OBVIOUS
<1>1. ASSUME NEW s \in PingStreams, OpenPingStream(s) PROVE ExchangeInv' /\ NoFalseAccusation'
    <2> DEFINE evs == <<PingEvent("OutboundStreamRegistered", s)>>
    <2>1. raised' = [Silent EXCEPT !.dialer = evs]
        BY <1>1 DEF OpenPingStream, RegisterOutboundStream, Outcome
    <2>2. \A i \in DOMAIN evs : evs[i].type # "ProtocolViolation"
        BY DEF PingEvent
    <2> HIDE DEF evs
    <2> QED BY <1>1, <2>1, <2>2, OpenKeeps, FairEvents
<1>2. ASSUME NEW s \in PingStreams, ListenerFinishes(s) PROVE ExchangeInv' /\ NoFalseAccusation'
    <2>1. raised' = Silent
        BY <1>2 DEF ListenerFinishes
    <2> QED BY <1>2, <2>1, ListenerFinishesKeeps, SilentIsFair
<1>3. ASSUME NEW s \in PingStreams, Abort(s) PROVE ExchangeInv' /\ NoFalseAccusation'
    <2>1. raised' = Silent
        BY <1>3 DEF Abort
    <2> QED BY <1>3, <2>1, AbortKeeps, SilentIsFair
<1>4. ASSUME NEW s \in PingStreams, ListenerAccepts(s) PROVE ExchangeInv' /\ NoFalseAccusation'
    <2>1. ExchangeInv' /\ ~Accuses(raised'.listener) /\ raised'.dialer = <<>>
        BY <1>4, AcceptKeeps
    <2> QED BY <2>1 DEF NoFalseAccusation
<1>5. ASSUME NEW s \in PingStreams, NEW n, ListenerReceives(s, n)
      PROVE  ExchangeInv' /\ NoFalseAccusation'
    BY <1>5, ListenerReceivesKeeps, SilentIsFair
<1>6. ASSUME NEW s \in PingStreams, NEW n, DialerReceives(s, n)
      PROVE  ExchangeInv' /\ NoFalseAccusation'
    BY <1>6, DialerReceivesKeeps
<1>7. ASSUME NEW s \in PingStreams, ListenerSeesFin(s) PROVE ExchangeInv' /\ NoFalseAccusation'
    BY <1>7, ListenerSeesFinKeeps, SilentIsFair
<1>8. ASSUME NEW s \in PingStreams, DialerSeesFin(s) PROVE ExchangeInv' /\ NoFalseAccusation'
    BY <1>8, DialerSeesFinKeeps
<1>9. ASSUME NEW s \in PingStreams, ListenerSeesClosed(s) PROVE ExchangeInv' /\ NoFalseAccusation'
    BY <1>9, ListenerSeesClosedKeeps, SilentIsFair
<1>10. ASSUME NEW s \in PingStreams, DialerSeesClosed(s) PROVE ExchangeInv' /\ NoFalseAccusation'
    BY <1>10, DialerSeesClosedKeeps, SilentIsFair
<1>11. ASSUME NEW p \in Payloads, DialerSends(p) PROVE ExchangeInv' /\ NoFalseAccusation'
    BY <1>11, DialerSendsKeeps, SilentIsFair
<1>12. CASE DialerFinishes
    BY <1>12, DialerFinishesKeeps, SilentIsFair
<1>13. CASE AdvanceTime
    <2>1. raised' = Silent /\ UNCHANGED <<dialer, listener, request, reply, dEnd, lEnd>>
        BY <1>13 DEF AdvanceTime
    <2>2. ExchangeInv'
        BY <2>1 DEF ExchangeInv, StreamOK
    <2> QED BY <2>1, <2>2, SilentIsFair
<1>14. CASE DialerTicks
    BY <1>14, DialerTicksKeeps
<1>15. CASE UNCHANGED vars
    BY <1>15 DEF vars, ExchangeInv, StreamOK, NoFalseAccusation
<1> QED
    BY <1>1, <1>2, <1>3, <1>4, <1>5, <1>6, <1>7, <1>8, <1>9, <1>10, <1>11, <1>12, <1>13,
       <1>14, <1>15 DEF Next

\* Two endpoints that run this code over any number of streams, whatever the payload
\* length, the limit and the timeout, and however the transport cuts, delays, resets or
\* loses: at most one payload of a stream is under way, none without a ping in flight, and
\* an honest peer is never accused of a protocol violation, except one that half-closed
\* before it answered.
THEOREM ExchangesAreHonest == Spec => []HonestExchanges
<1>1. ExchangeInv => OnePayloadUnderWay
    <2> SUFFICES ASSUME ExchangeInv, NEW s \in PingStreams
                 PROVE  /\ Outstanding(s) <= PING_PAYLOAD_LEN
                        /\ s = dialer.outbound_stream /\ dialer.pending_ping = None =>
                                Outstanding(s) = 0
        BY DEF OnePayloadUnderWay
    <2> QED BY DEF ExchangeInv, StreamOK, Counted, Given, Outstanding
<1>2. PingInv /\ ExchangeInv /\ NoFalseAccusation => HonestExchanges
    BY <1>1 DEF HonestExchanges
<1> QED
    BY <1>2, PingInit, PingStep, ExchangeInit, ExchangeStep, PTL DEF Spec
=============================================================================
