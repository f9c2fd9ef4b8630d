---------------------------- MODULE SwarmProofs ----------------------------
(***************************************************************************)
(* What the swarm core's tables hold in every reachable state of           *)
(* SwarmRuntime, for any number of connections, peers, streams and calls.  *)
(*                                                                         *)
(* The invariant SwarmInv has three parts: the tables by peer (PeersSound),*)
(* the tables by stream (StreamsSound), and what ties them to the          *)
(* transport (Attached).  The lemmas follow the code: operators that only  *)
(* queue outputs, the ping handlers, the steps on what is kept of a peer,  *)
(* the steps on a stream, the stream handlers put together from them, the  *)
(* connection handlers, and at the end one lemma for each kind of action.  *)
(***************************************************************************)
EXTENDS SwarmRuntime, TLAPS, WellFoundedInduction, FiniteSetTheorems

\* The tables of the core that the results are about.
MapFields    == {"conn_to_peer", "peer_to_conn"}
PeerFields   == {"ping", "identify", "pending_pings", "ping_deadlines", "peer_info",
                 "ready_peers", "established_peers"}
StreamFields == {"inbound_negotiators", "outbound_negotiators", "stream_owner",
                 "abandoned_streams"}
CoreFields   == MapFields \cup PeerFields \cup StreamFields \cup {"pending_opens"}

\* Nothing is kept for peer p.
Blank(k, p) ==
    /\ k.ping[p] = None
    /\ k.identify[p] = None
    /\ k.pending_pings[p] = None
    /\ k.ping_deadlines[p] = None
    /\ k.peer_info[p] = None
    /\ p \notin k.ready_peers
    /\ p \notin k.established_peers

\* The fields of a peer's ping state that the handlers use.
PingFields == {"outbound_stream", "inbound_streams", "pending_ping", "recv_bufs"}

\* A peer's ping state, as far as its timer goes.
PingState(st) ==
    /\ PingFields \subseteq DOMAIN st
    /\ st.pending_ping # None => st.outbound_stream # None /\ st.pending_ping.sent_at \in Nat

\* The core's copy of the timer is due when the ping in flight first is.
Timed(st, deadline) ==
    st.pending_ping # None => deadline = st.pending_ping.sent_at + RequestTimeout + 1

\* Types, and the peer of a connection is its placeholder or the one at the other end.
PeerShape(k) ==
    /\ CoreFields \subseteq DOMAIN k
    /\ k.conn_to_peer \in [Conns -> PeerIds \cup {None}]
    /\ \A c \in Conns : k.conn_to_peer[c] \in {None, c, RemotePeer[c]}
    /\ k.peer_to_conn \in [PeerIds -> Conns \cup {None}]
    /\ k.ping_deadlines \in [PeerIds -> Nat \cup {None}]
    /\ DOMAIN k.ping = PeerIds
    /\ DOMAIN k.identify = PeerIds
    /\ DOMAIN k.pending_pings = PeerIds
    /\ DOMAIN k.peer_info = PeerIds

\* The two connection maps are inverse to each other.
MapsAgree(k) ==
    /\ \A p \in PeerIds : k.peer_to_conn[p] # None => k.conn_to_peer[k.peer_to_conn[p]] = p
    /\ \A c \in Conns : k.conn_to_peer[c] # None => k.peer_to_conn[k.conn_to_peer[c]] = c

\* The tables by peer are sound: the maps are inverse, a peer without a connection has
\* nothing, and every ping in flight is timed.
PeersSound(k) ==
    /\ PeerShape(k)
    /\ MapsAgree(k)
    /\ \A p \in PeerIds : k.peer_to_conn[p] = None => Blank(k, p)
    /\ \A p \in PeerIds : PingState(PingOf(k, p)) /\ Timed(PingOf(k, p), k.ping_deadlines[p])

\* Stream `key` is in some stage.
Staged(k, key) ==
    \/ key \in k.inbound_negotiators
    \/ k.outbound_negotiators[key] # None
    \/ k.stream_owner[key] # None
    \/ key \in k.abandoned_streams

\* ... and in one only.
OneStage(k, key) ==
    /\ key \in k.inbound_negotiators =>
        k.outbound_negotiators[key] = None /\ k.stream_owner[key] = None
    /\ k.outbound_negotiators[key] # None => k.stream_owner[key] = None
    /\ key \in k.abandoned_streams =>
        /\ key \notin k.inbound_negotiators
        /\ k.outbound_negotiators[key] = None
        /\ k.stream_owner[key] = None

\* What a stream is opened for.
Targets == {"Ping", "IdentifyInitiator", "User"}

\* The tables by stream are sound.
StreamsSound(k) ==
    /\ CoreFields \subseteq DOMAIN k
    /\ DOMAIN k.outbound_negotiators = Keys
    /\ DOMAIN k.stream_owner = Keys
    /\ \A key \in Keys :
        /\ k.stream_owner[key] \in Kinds \cup {None}
        /\ k.outbound_negotiators[key] \in Targets \cup {None}
        /\ OneStage(k, key)
    /\ \A o \in k.pending_opens : o.target \in Targets

\* States in which the transport has, or had and was asked to close, the connection.
HasTransport == {"anonymous", "up", "closing"}

\* Between the core and the transport: a connection has a peer only while the transport
\* has it; an unidentified connection has its placeholder; a stream is in a stage only
\* while it exists.
Attached(k, tc, ts, w) ==
    /\ \A c \in Conns : k.conn_to_peer[c] # None => tc[c] \in HasTransport /\ c \in w.conns
    /\ \A c \in Conns : tc[c] = "anonymous" => k.conn_to_peer[c] = c /\ w.late
    /\ \A key \in Keys : Staged(k, key) =>
        tc[key[1]] \in HasTransport /\ ts[key] \notin {"none", "closed"}

\* The core, the transport's connections and streams, the workload and the clock fit
\* together.
World(k, tc, ts, w, t) ==
    /\ PeersSound(k)
    /\ StreamsSound(k)
    /\ tc \in [Conns -> ConnStates]
    /\ ts \in [Keys -> StreamStates]
    /\ w \in Workloads
    /\ t \in Nat
    /\ Attached(k, tc, ts, w)

\* The inductive invariant.
SwarmInv == World(core, tconn, tstream, work, now)

-----------------------------------------------------------------------------
(* How a core k2 comes from k. *)

\* The tables F are left alone, and streams are only asked for to be used.
Agree(k, k2, F) ==
    /\ DOMAIN k2 = DOMAIN k
    /\ \A f \in F : k2[f] = k[f]
    /\ \A o \in k2.pending_opens : o \in k.pending_opens \/ o.target \in Targets

\* Only outputs are queued: every table is left alone.
Same(k, k2) == Agree(k, k2, MapFields \cup PeerFields \cup StreamFields)

\* At most connection c is given its placeholder.
MapStep(k, k2, c) ==
    \/ k2.conn_to_peer = k.conn_to_peer
    \/ k.conn_to_peer[c] = None /\ k2.conn_to_peer = [k.conn_to_peer EXCEPT ![c] = c]

\* At most stream `key` enters a stage.
StageStep(k, k2, key) ==
    \A other \in Keys : Staged(k2, other) => Staged(k, other) \/ other = key

-----------------------------------------------------------------------------
(* Operators that only queue outputs. *)

\* Emitting events, queueing actions and asking for streams leave every table alone.
LEMMA QueuesOnly ==
    ASSUME NEW k, CoreFields \subseteq DOMAIN k
    PROVE  /\ Same(k, k)
           /\ \A e : Same(k, Emit(k, e))
           /\ \A a : Same(k, Act(k, a))
           /\ \A p, c, s : Same(k, EmitError(k, p, c, s))
           /\ \A c, s : Same(k, SendStream(k, c, s)) /\ Same(k, QueueReset(k, c, s))
           /\ \A c : Same(k, RecordAddr(k, c))
           /\ \A key : Same(k, ResetOnce(k, key))
           /\ \A c, s : Same(k, ResetStreamFailed(k, c, s))
           /\ \A p, type, s : Same(k, IdentifyAct(k, p, type, s))
           /\ \A p, target : target \in Targets => Same(k, QueueOpenProtocolStream(k, p, target))
<1> USE DEF Same, Agree, CoreFields, MapFields, PeerFields, StreamFields
<1>1. Same(k, k)
    OBVIOUS
<1>2. ASSUME NEW e PROVE Same(k, Emit(k, e))
    BY DEF Emit
<1>3. ASSUME NEW a PROVE Same(k, Act(k, a))
    BY DEF Act
<1>4. ASSUME NEW p, NEW c, NEW s PROVE Same(k, EmitError(k, p, c, s))
    BY DEF EmitError, Emit
<1>5. ASSUME NEW c, NEW s PROVE Same(k, SendStream(k, c, s)) /\ Same(k, QueueReset(k, c, s))
    BY DEF SendStream, QueueReset, Act
<1>6. ASSUME NEW c PROVE Same(k, RecordAddr(k, c))
    BY DEF RecordAddr
<1>7. ASSUME NEW key PROVE Same(k, ResetOnce(k, key))
    BY DEF ResetOnce, QueueReset, Act
<1>8. ASSUME NEW c, NEW s PROVE Same(k, ResetStreamFailed(k, c, s))
    BY DEF ResetStreamFailed
<1>9. ASSUME NEW p, NEW type, NEW s PROVE Same(k, IdentifyAct(k, p, type, s))
    BY DEF IdentifyAct, Act
<1>10. ASSUME NEW p, NEW target, target \in Targets PROVE Same(k, QueueOpenProtocolStream(k, p, target))
    <2> DEFINE o == [token |-> k.next_open_token, conn_id |-> k.peer_to_conn[p], target |-> target]
               k2 == QueueOpenProtocolStream(k, p, target)
    <2>1. DOMAIN k2 = DOMAIN k /\ \A f \in MapFields \cup PeerFields \cup StreamFields : k2[f] = k[f]
        BY DEF QueueOpenProtocolStream
    <2>2. k2.pending_opens = k.pending_opens \cup {o}
        BY DEF QueueOpenProtocolStream
    <2>3. o.target \in Targets
        BY <1>10
    <2> HIDE DEF k2, o
    <2>4. \A x \in k2.pending_opens : x \in k.pending_opens \/ x.target \in Targets
        BY <2>2, <2>3
    <2>5. Same(k, k2)
        BY <2>1, <2>4
    <2> QED BY <2>5 DEF k2
<1> HIDE DEF Same
<1> QED BY <1>1, <1>2, <1>3, <1>4, <1>5, <1>6, <1>7, <1>8, <1>9, <1>10

\* Leaving tables alone composes, and keeps what is said of them.
LEMMA AgreeComposes ==
    ASSUME NEW F, NEW k, NEW k1, NEW k2, Agree(k, k1, F), Agree(k1, k2, F)
    PROVE  Agree(k, k2, F)
BY DEF Agree

\* What leaves more tables alone leaves fewer alone.
LEMMA AgreeWeakens ==
    ASSUME NEW F, NEW G, G \subseteq F, NEW k, NEW k2, Agree(k, k2, F)
    PROVE  Agree(k, k2, G)
BY DEF Agree

\* Soundness of the tables by peer depends on nothing else.
LEMMA PeersStaySound ==
    ASSUME NEW k, NEW k2, PeersSound(k), Agree(k, k2, MapFields \cup PeerFields)
    PROVE  PeersSound(k2)
<1>1. /\ k2.conn_to_peer = k.conn_to_peer /\ k2.peer_to_conn = k.peer_to_conn
      /\ k2.ping = k.ping /\ k2.identify = k.identify
      /\ k2.pending_pings = k.pending_pings /\ k2.ping_deadlines = k.ping_deadlines
      /\ k2.peer_info = k.peer_info /\ k2.ready_peers = k.ready_peers
      /\ k2.established_peers = k.established_peers
      /\ DOMAIN k2 = DOMAIN k
    BY DEF Agree, MapFields, PeerFields
<1>2. \A p : PingOf(k2, p) = PingOf(k, p)
    BY <1>1 DEF PingOf
<1>3. PeerShape(k2) /\ MapsAgree(k2)
    BY <1>1 DEF PeersSound, PeerShape, MapsAgree
<1>4. \A p : Blank(k2, p) <=> Blank(k, p)
    BY <1>1 DEF Blank
<1> QED BY <1>1, <1>2, <1>3, <1>4 DEF PeersSound

\* Soundness of the tables by stream depends on nothing else.
LEMMA StreamsStaySound ==
    ASSUME NEW k, NEW k2, StreamsSound(k), Agree(k, k2, StreamFields)
    PROVE  StreamsSound(k2) /\ \A key : Staged(k2, key) <=> Staged(k, key)
<1>1. /\ k2.inbound_negotiators = k.inbound_negotiators
      /\ k2.outbound_negotiators = k.outbound_negotiators
      /\ k2.stream_owner = k.stream_owner
      /\ k2.abandoned_streams = k.abandoned_streams
      /\ DOMAIN k2 = DOMAIN k
      /\ \A o \in k2.pending_opens : o \in k.pending_opens \/ o.target \in Targets
    BY DEF Agree, StreamFields
<1>2. \A key : /\ Staged(k2, key) <=> Staged(k, key)
               /\ OneStage(k2, key) <=> OneStage(k, key)
    BY <1>1 DEF Staged, OneStage
<1>3. \A o \in k2.pending_opens : o.target \in Targets
    BY <1>1 DEF StreamsSound
<1> QED BY <1>1, <1>2, <1>3 DEF StreamsSound

\* A step that changes what is kept of one connected peer.
LEMMA PeerUpdate ==
    ASSUME NEW k, NEW k2, PeersSound(k), DOMAIN k2 = DOMAIN k,
           \A f \in MapFields : k2[f] = k[f],
           NEW p \in PeerIds, k.peer_to_conn[p] # None,
           k2.ping_deadlines \in [PeerIds -> Nat \cup {None}],
           DOMAIN k2.ping = PeerIds, DOMAIN k2.identify = PeerIds,
           DOMAIN k2.pending_pings = PeerIds, DOMAIN k2.peer_info = PeerIds,
           \A q \in PeerIds \ {p} :
              /\ k2.ping[q] = k.ping[q]
              /\ k2.identify[q] = k.identify[q]
              /\ k2.pending_pings[q] = k.pending_pings[q]
              /\ k2.ping_deadlines[q] = k.ping_deadlines[q]
              /\ k2.peer_info[q] = k.peer_info[q]
              /\ q \in k2.ready_peers => q \in k.ready_peers
              /\ q \in k2.established_peers => q \in k.established_peers,
           PingState(PingOf(k2, p)), Timed(PingOf(k2, p), k2.ping_deadlines[p])
    PROVE  PeersSound(k2)
<1>1. k2.conn_to_peer = k.conn_to_peer /\ k2.peer_to_conn = k.peer_to_conn
    BY DEF MapFields
<1>2. PeerShape(k2) /\ MapsAgree(k2)
    BY <1>1 DEF PeersSound, PeerShape, MapsAgree
<1>3. \A q \in PeerIds : k2.peer_to_conn[q] = None => Blank(k2, q)
    BY <1>1 DEF PeersSound, Blank
<1>4. \A q \in PeerIds : PingState(PingOf(k2, q)) /\ Timed(PingOf(k2, q), k2.ping_deadlines[q])
    <2>1. \A q \in PeerIds \ {p} : PingOf(k2, q) = PingOf(k, q)
        BY DEF PingOf
    <2> QED BY <2>1 DEF PeersSound
<1> QED BY <1>2, <1>3, <1>4 DEF PeersSound

-----------------------------------------------------------------------------
(* The ping handlers: an input never leaves a ping in flight without its timer. *)

\* A state that an input other than send_ping leaves.
LEMMA DefaultIsPingState == PingState(DefaultPeerState) /\ DefaultPeerState.pending_ping = None
BY DEF PingState, PingFields, DefaultPeerState

\* What a handler leaves: the ping that was in flight or none, and none when it disarms.
Answered(st, out) ==
    /\ PingState(out.state)
    /\ out.state.pending_ping \in {None, st.pending_ping}
    /\ Disarms(out.events) => out.state.pending_ping = None

\* An outcome answers if its state and events do.
LEMMA OutcomeAnswers ==
    ASSUME NEW st, NEW st2, NEW acts, NEW evs, PingState(st2),
           st2.pending_ping \in {None, st.pending_ping},
           Disarms(evs) => st2.pending_ping = None
    PROVE  Answered(st, Outcome(st2, acts, evs))
BY DEF Answered, Outcome

\* Only RttMeasured, Timeout and OutboundStreamClosed disarm.
LEMMA DisarmingEvents ==
    /\ ~Disarms(<<>>)
    /\ \A e : Disarms(<<e>>) => e.type \in {"RttMeasured", "Timeout", "OutboundStreamClosed"}
<1>1. ~Disarms(<<>>)
    BY DEF Disarms
<1>2. ASSUME NEW e, Disarms(<<e>>)
      PROVE  e.type \in {"RttMeasured", "Timeout", "OutboundStreamClosed"}
    BY <1>2 DEF Disarms
<1> QED BY <1>1, <1>2

\* Reporting a protocol violation does not disarm the timer of a ping in flight.
LEMMA ViolationAnswers ==
    ASSUME NEW st, NEW st2, PingState(st2), st2.pending_ping \in {None, st.pending_ping}, NEW s
    PROVE  Answered(st, ProtocolViolation(st2, s))
<1>1. ~Disarms(<<PingEvent("ProtocolViolation", s)>>)
    BY DisarmingEvents DEF PingEvent
<1> QED BY <1>1, OutcomeAnswers DEF ProtocolViolation

\* Changes of other fields keep the ping in flight.
LEMMA PingStateUpdates ==
    ASSUME NEW st, PingState(st)
    PROVE  /\ \A b : PingState([st EXCEPT !.recv_bufs = b])
                        /\ [st EXCEPT !.recv_bufs = b].pending_ping = st.pending_ping
           /\ \A o : o # None => PingState([st EXCEPT !.outbound_stream = o])
                        /\ [st EXCEPT !.outbound_stream = o].pending_ping = st.pending_ping
           /\ \A i : PingState([st EXCEPT !.inbound_streams = i])
                        /\ [st EXCEPT !.inbound_streams = i].pending_ping = st.pending_ping
           /\ PingState([st EXCEPT !.pending_ping = None])
           /\ [st EXCEPT !.pending_ping = None].pending_ping = None
BY DEF PingState, PingFields

\* Without its outbound stream a peer has no ping in flight.
LEMMA DroppedIsPingState ==
    ASSUME NEW st, PingState(st), NEW s
    PROVE  PingState(DropOutbound(st, s)) /\ DropOutbound(st, s).pending_ping = None
BY DEF PingState, PingFields, DropOutbound

\* ping: register_outbound_stream
LEMMA RegisterOutboundAnswers ==
    ASSUME NEW st, PingState(st), NEW s, s # None
    PROVE  Answered(st, RegisterOutboundStream(st, s))
<1>1. ~Disarms(<<PingEvent("OutboundStreamRegistered", s)>>)
    BY DisarmingEvents DEF PingEvent
<1>2. PingState([st EXCEPT !.outbound_stream = s]) /\ [st EXCEPT !.outbound_stream = s].pending_ping = st.pending_ping
    BY PingStateUpdates
<1>3. Answered(st, Outcome([st EXCEPT !.outbound_stream = s], <<>>, <<PingEvent("OutboundStreamRegistered", s)>>))
    BY <1>1, <1>2, OutcomeAnswers
<1>4. Answered(st, Outcome(st, <<>>, <<>>))
    BY DisarmingEvents, OutcomeAnswers
<1> QED BY <1>3, <1>4 DEF RegisterOutboundStream

\* ping: register_inbound_stream
LEMMA RegisterInboundAnswers ==
    ASSUME NEW st, PingState(st), NEW s
    PROVE  Answered(st, RegisterInboundStream(st, s))
<1> DEFINE more == [st EXCEPT !.inbound_streams = st.inbound_streams \cup {s}]
<1>1. ~Disarms(<<PingEvent("StreamLimitExceeded", s)>>) /\ ~Disarms(<<PingEvent("InboundStreamAccepted", s)>>)
    BY DisarmingEvents DEF PingEvent
<1>2. PingState(more) /\ more.pending_ping = st.pending_ping
    BY PingStateUpdates
<1> HIDE DEF more
<1>3. Answered(st, Outcome(more, <<>>, <<PingEvent("InboundStreamAccepted", s)>>))
    BY <1>1, <1>2, OutcomeAnswers
<1>4. Answered(st, Outcome(st, <<>>, <<>>))
    BY DisarmingEvents, OutcomeAnswers
<1>5. Answered(st, Outcome(st, <<ResetStream(s)>>, <<PingEvent("StreamLimitExceeded", s)>>))
    BY <1>1, OutcomeAnswers
<1> QED BY <1>3, <1>4, <1>5 DEF RegisterInboundStream, more

\* ping: process_complete_payload, for an echo and for an answer.
LEMMA PayloadAnswers ==
    ASSUME NEW st, PingState(st), NEW s, NEW payload, NEW t
    PROVE  Answered(st, ProcessCompletePayload(st, s, payload, t))
<1> DEFINE taken == [st EXCEPT !.pending_ping = None]
           rtt   == [type |-> "RttMeasured", stream |-> s, rtt |-> Elapsed(st, t)]
<1>1. PingState(taken) /\ taken.pending_ping = None
    BY PingStateUpdates
<1> HIDE DEF taken, rtt
<1>2. Answered(st, ProtocolViolation(st, s)) /\ Answered(st, ProtocolViolation(taken, s))
    BY <1>1, ViolationAnswers
<1>3. Answered(st, Outcome(taken, <<>>, <<rtt>>))
    BY <1>1, OutcomeAnswers
<1>4. Answered(st, Outcome(st, <<Send(s, payload)>>, <<>>))
    BY DisarmingEvents, OutcomeAnswers
<1> QED BY <1>2, <1>3, <1>4 DEF ProcessCompletePayload, taken, rtt

\* ping: on_stream_data
LEMMA DataAnswers ==
    ASSUME NEW st, PingState(st), NEW s, NEW data, NEW t
    PROVE  Answered(st, OnStreamData(st, s, data, t))
<1> DEFINE buf     == st.recv_bufs[s] \o data
           drained == [st EXCEPT !.recv_bufs = Buffered(st, s, <<>>)]
           grown   == [st EXCEPT !.recv_bufs = Buffered(st, s, buf)]
<1>1. /\ PingState(drained) /\ drained.pending_ping = st.pending_ping
      /\ PingState(grown) /\ grown.pending_ping = st.pending_ping
    BY PingStateUpdates
<1> HIDE DEF buf, drained, grown
<1>2. Answered(st, ProtocolViolation(st, s)) /\ Answered(st, ProtocolViolation(drained, s))
    BY <1>1, ViolationAnswers
<1>3. Answered(st, Outcome(grown, <<>>, <<>>))
    BY <1>1, DisarmingEvents, OutcomeAnswers
<1>4. Answered(drained, ProcessCompletePayload(drained, s, buf, t))
    BY <1>1, PayloadAnswers
<1>5. Answered(st, ProcessCompletePayload(drained, s, buf, t))
    BY <1>1, <1>4 DEF Answered
<1> QED BY <1>2, <1>3, <1>5 DEF OnStreamData, buf, drained, grown

\* ping: on_stream_remote_write_closed and on_stream_closed
LEMMA EndAnswers ==
    ASSUME NEW st, PingState(st), NEW s
    PROVE  Answered(st, OnStreamRemoteWriteClosed(st, s)) /\ Answered(st, OnStreamClosed(st, s))
<1> DEFINE closed == [st EXCEPT !.inbound_streams = st.inbound_streams \ {s}, !.recv_bufs = Buffered(st, s, <<>>)]
<1>1. PingState(closed) /\ closed.pending_ping = st.pending_ping
    BY DEF PingState, PingFields
<1> HIDE DEF closed
<1>2. /\ PingState(DropOutbound(st, s)) /\ DropOutbound(st, s).pending_ping = None
      /\ PingState(DropOutbound(closed, s)) /\ DropOutbound(closed, s).pending_ping = None
    BY <1>1, DroppedIsPingState
<1>3. /\ Answered(st, Outcome(closed, <<>>, <<>>))
      /\ Answered(st, Outcome(st, <<>>, <<>>))
      /\ Answered(st, Outcome(DropOutbound(closed, s), <<>>, <<>>))
    BY <1>1, <1>2, DisarmingEvents, OutcomeAnswers
<1>4. Answered(st, Outcome(DropOutbound(st, s), <<>>, <<PingEvent("OutboundStreamClosed", s)>>))
    BY <1>2, OutcomeAnswers
<1>5. Answered(st, ProtocolViolation(DropOutbound(st, s), s))
    BY <1>2, ViolationAnswers
<1>6. Answered(st, OnStreamRemoteWriteClosed(st, s))
    BY <1>3, <1>4, <1>5 DEF OnStreamRemoteWriteClosed, closed
<1>7. Answered(st, OnStreamClosed(st, s))
    BY <1>3 DEF OnStreamClosed, closed
<1> QED BY <1>6, <1>7

-----------------------------------------------------------------------------
(* Operators that change what the core keeps of one peer, which is connected. *)

\* The connection maps and the streams are left alone, and the tables by peer stay sound.
PeerStep(k, k2) == PeersSound(k2) /\ Agree(k, k2, MapFields \cup StreamFields)

\* Steps on what is kept of a peer compose.
LEMMA PeerStepsCompose ==
    ASSUME NEW k, NEW k1, NEW k2, PeerStep(k, k1), PeerStep(k1, k2)
    PROVE  PeerStep(k, k2)
BY AgreeComposes DEF PeerStep

\* ... and keep the connection maps.
LEMMA PeerStepKeepsMaps ==
    ASSUME NEW k, NEW k2, PeerStep(k, k2)
    PROVE  /\ k2.peer_to_conn = k.peer_to_conn
           /\ k2.conn_to_peer = k.conn_to_peer
           /\ CoreFields \subseteq DOMAIN k2
           /\ PeersSound(k2)
BY DEF PeerStep, Agree, MapFields, PeersSound, PeerShape

\* A step that only queues outputs is one of them.
LEMMA SameIsPeerStep ==
    ASSUME NEW k, PeersSound(k), NEW k2, Same(k, k2)
    PROVE  PeerStep(k, k2)
<1>1. Agree(k, k2, MapFields \cup StreamFields) /\ Agree(k, k2, MapFields \cup PeerFields)
    BY AgreeWeakens DEF Same
<1> QED BY <1>1, PeersStaySound DEF PeerStep

\* A sound core has all its tables.
LEMMA SoundHasFields ==
    /\ \A k : PeersSound(k) => CoreFields \subseteq DOMAIN k
    /\ \A k : StreamsSound(k) => CoreFields \subseteq DOMAIN k
BY DEF PeersSound, PeerShape, StreamsSound

\* drain_ping_outputs after an input that answers.
LEMMA DrainPingKeeps ==
    ASSUME NEW k, PeersSound(k), NEW p \in PeerIds, k.peer_to_conn[p] # None,
           NEW out, Answered(PingOf(k, p), out)
    PROVE  PeerStep(k, DrainPing(k, p, out)) /\ PeerStep(k, InformPing(k, p, out))
<1> DEFINE k2 == DrainPing(k, p, out)
           k3 == InformPing(k, p, out)
           deadline == IF Disarms(out.events) THEN None ELSE k.ping_deadlines[p]
<1> USE DEF CoreFields, MapFields, PeerFields, StreamFields
<1>0. CoreFields \subseteq DOMAIN k
    BY SoundHasFields
<1>1. /\ Agree(k, k2, MapFields \cup StreamFields)
      /\ k2.ping = [k.ping EXCEPT ![p] = out.state]
      /\ k2.ping_deadlines = [k.ping_deadlines EXCEPT ![p] = deadline]
      /\ k2.identify = k.identify /\ k2.pending_pings = k.pending_pings
      /\ k2.peer_info = k.peer_info /\ k2.ready_peers = k.ready_peers
      /\ k2.established_peers = k.established_peers
    BY <1>0 DEF DrainPing, Agree
<1>2. /\ Agree(k, k3, MapFields \cup StreamFields)
      /\ k3.ping = [k.ping EXCEPT ![p] = IF k.ping[p] = None THEN None ELSE out.state]
      /\ k3.ping_deadlines = [k.ping_deadlines EXCEPT ![p] = deadline]
      /\ k3.identify = k.identify /\ k3.pending_pings = k.pending_pings
      /\ k3.peer_info = k.peer_info /\ k3.ready_peers = k.ready_peers
      /\ k3.established_peers = k.established_peers
    <2> HIDE DEF k2
    <2>1. DOMAIN k2 = DOMAIN k /\ DOMAIN k.ping = PeerIds
        BY <1>1 DEF Agree, PeersSound, PeerShape
    <2>2. CASE k.ping[p] = None
        <3>1. k3 = [k2 EXCEPT !.ping[p] = None]
            BY <2>2 DEF InformPing, k2
        <3> QED BY <3>1, <2>1, <2>2, <1>0, <1>1 DEF Agree
    <2>3. CASE k.ping[p] # None
        <3>1. k3 = k2
            BY <2>3 DEF InformPing, k2
        <3> QED BY <3>1, <2>3, <1>1
    <2> QED BY <2>2, <2>3
<1> HIDE DEF k2, k3
<1>3. /\ DOMAIN k.ping = PeerIds /\ DOMAIN k.identify = PeerIds
      /\ DOMAIN k.pending_pings = PeerIds /\ DOMAIN k.peer_info = PeerIds
      /\ k.ping_deadlines \in [PeerIds -> Nat \cup {None}]
    BY DEF PeersSound, PeerShape
<1>4. /\ PingState(out.state) /\ Timed(out.state, deadline)
      /\ PingState(DefaultPeerState) /\ Timed(DefaultPeerState, deadline)
    <2>1. Timed(PingOf(k, p), k.ping_deadlines[p])
        BY DEF PeersSound
    <2> QED BY <2>1, DefaultIsPingState DEF Answered, Timed
<1> HIDE DEF deadline
<1>5. deadline \in Nat \cup {None}
    BY <1>3 DEF deadline
<1>6. PeersSound(k2)
    <2>1. PingState(PingOf(k2, p)) /\ Timed(PingOf(k2, p), k2.ping_deadlines[p])
        BY <1>1, <1>3, <1>4 DEF PingOf
    <2>2. DOMAIN k2 = DOMAIN k /\ \A f \in MapFields : k2[f] = k[f]
        BY <1>1 DEF Agree
    <2> QED BY <2>1, <2>2, <1>1, <1>3, <1>5, PeerUpdate
<1>7. PeersSound(k3)
    <2>1. PingState(PingOf(k3, p)) /\ Timed(PingOf(k3, p), k3.ping_deadlines[p])
        BY <1>2, <1>3, <1>4 DEF PingOf
    <2>2. DOMAIN k3 = DOMAIN k /\ \A f \in MapFields : k3[f] = k[f]
        BY <1>2 DEF Agree
    <2> QED BY <2>1, <2>2, <1>2, <1>3, <1>5, PeerUpdate
<1> QED BY <1>1, <1>2, <1>6, <1>7 DEF PeerStep, k2, k3

\* Writes to the tables that have no timer.
LEMMA OtherWritesKeep ==
    ASSUME NEW k, PeersSound(k), NEW p \in PeerIds, k.peer_to_conn[p] # None, NEW v
    PROVE  /\ PeerStep(k, [k EXCEPT !.identify[p] = v])
           /\ PeerStep(k, [k EXCEPT !.pending_pings[p] = v])
           /\ PeerStep(k, [k EXCEPT !.peer_info[p] = v])
           /\ PeerStep(k, [k EXCEPT !.ready_peers = @ \cup {p}])
           /\ PeerStep(k, [k EXCEPT !.established_peers = @ \cup {p}])
<1> USE DEF CoreFields, MapFields, PeerFields, StreamFields
<1>0. CoreFields \subseteq DOMAIN k
    BY SoundHasFields
<1>1. /\ DOMAIN k.ping = PeerIds /\ DOMAIN k.identify = PeerIds
      /\ DOMAIN k.pending_pings = PeerIds /\ DOMAIN k.peer_info = PeerIds
      /\ k.ping_deadlines \in [PeerIds -> Nat \cup {None}]
      /\ PingState(PingOf(k, p)) /\ Timed(PingOf(k, p), k.ping_deadlines[p])
    BY DEF PeersSound, PeerShape
<1>2. PeerStep(k, [k EXCEPT !.identify[p] = v])
    <2> DEFINE k2 == [k EXCEPT !.identify[p] = v]
    <2>1. /\ Agree(k, k2, (MapFields \cup StreamFields \cup PeerFields) \ {"identify"})
          /\ k2.identify = [k.identify EXCEPT ![p] = v]
        BY <1>0 DEF Agree
    <2> HIDE DEF k2
    <2>2. PingOf(k2, p) = PingOf(k, p) /\ k2.ping_deadlines = k.ping_deadlines
        BY <2>1 DEF Agree, PingOf
    <2>3. PeersSound(k2)
        BY <2>1, <2>2, <1>1, PeerUpdate DEF Agree
    <2>4. Agree(k, k2, MapFields \cup StreamFields)
        BY <2>1 DEF Agree
    <2> QED BY <2>3, <2>4 DEF PeerStep, k2
<1>3. PeerStep(k, [k EXCEPT !.pending_pings[p] = v])
    <2> DEFINE k2 == [k EXCEPT !.pending_pings[p] = v]
    <2>1. /\ Agree(k, k2, (MapFields \cup StreamFields \cup PeerFields) \ {"pending_pings"})
          /\ k2.pending_pings = [k.pending_pings EXCEPT ![p] = v]
        BY <1>0 DEF Agree
    <2> HIDE DEF k2
    <2>2. PingOf(k2, p) = PingOf(k, p) /\ k2.ping_deadlines = k.ping_deadlines
        BY <2>1 DEF Agree, PingOf
    <2>3. PeersSound(k2)
        BY <2>1, <2>2, <1>1, PeerUpdate DEF Agree
    <2>4. Agree(k, k2, MapFields \cup StreamFields)
        BY <2>1 DEF Agree
    <2> QED BY <2>3, <2>4 DEF PeerStep, k2
<1>4. PeerStep(k, [k EXCEPT !.peer_info[p] = v])
    <2> DEFINE k2 == [k EXCEPT !.peer_info[p] = v]
    <2>1. /\ Agree(k, k2, (MapFields \cup StreamFields \cup PeerFields) \ {"peer_info"})
          /\ k2.peer_info = [k.peer_info EXCEPT ![p] = v]
        BY <1>0 DEF Agree
    <2> HIDE DEF k2
    <2>2. PingOf(k2, p) = PingOf(k, p) /\ k2.ping_deadlines = k.ping_deadlines
        BY <2>1 DEF Agree, PingOf
    <2>3. PeersSound(k2)
        BY <2>1, <2>2, <1>1, PeerUpdate DEF Agree
    <2>4. Agree(k, k2, MapFields \cup StreamFields)
        BY <2>1 DEF Agree
    <2> QED BY <2>3, <2>4 DEF PeerStep, k2
<1>5. PeerStep(k, [k EXCEPT !.ready_peers = @ \cup {p}])
    <2> DEFINE k2 == [k EXCEPT !.ready_peers = k.ready_peers \cup {p}]
    <2>1. /\ Agree(k, k2, (MapFields \cup StreamFields \cup PeerFields) \ {"ready_peers"})
          /\ k2.ready_peers = k.ready_peers \cup {p}
        BY <1>0 DEF Agree
    <2> HIDE DEF k2
    <2>2. PingOf(k2, p) = PingOf(k, p) /\ k2.ping_deadlines = k.ping_deadlines
        BY <2>1 DEF Agree, PingOf
    <2>3. PeersSound(k2)
        BY <2>1, <2>2, <1>1, PeerUpdate DEF Agree
    <2>4. Agree(k, k2, MapFields \cup StreamFields)
        BY <2>1 DEF Agree
    <2> QED BY <2>3, <2>4 DEF PeerStep, k2
<1>6. PeerStep(k, [k EXCEPT !.established_peers = @ \cup {p}])
    <2> DEFINE k2 == [k EXCEPT !.established_peers = k.established_peers \cup {p}]
    <2>1. /\ Agree(k, k2, (MapFields \cup StreamFields \cup PeerFields) \ {"established_peers"})
          /\ k2.established_peers = k.established_peers \cup {p}
        BY <1>0 DEF Agree
    <2> HIDE DEF k2
    <2>2. PingOf(k2, p) = PingOf(k, p) /\ k2.ping_deadlines = k.ping_deadlines
        BY <2>1 DEF Agree, PingOf
    <2>3. PeersSound(k2)
        BY <2>1, <2>2, <1>1, PeerUpdate DEF Agree
    <2>4. Agree(k, k2, MapFields \cup StreamFields)
        BY <2>1 DEF Agree
    <2> QED BY <2>3, <2>4 DEF PeerStep, k2
<1> QED BY <1>2, <1>3, <1>4, <1>5, <1>6

\* A ping is sent: its timer starts.
LEMMA SendPingKeeps ==
    ASSUME NEW k, PeersSound(k), NEW p \in PeerIds, k.peer_to_conn[p] # None,
           NEW st, PingState(st), st.outbound_stream # None, NEW payload, NEW t \in Nat
    PROVE  /\ PeerStep(k, DrainPing(RecordPingDeadline(k, p, t), p, SendPing(st, payload, t)))
           /\ PeerStep(k, RecordPingDeadline(DrainPing(k, p, SendPing(st, payload, t)), p, t))
<1> DEFINE sent == [st EXCEPT !.pending_ping = [payload |-> payload, sent_at |-> t]]
           out  == SendPing(st, payload, t)
           k2   == DrainPing(RecordPingDeadline(k, p, t), p, out)
           k3   == RecordPingDeadline(DrainPing(k, p, out), p, t)
           due  == t + RequestTimeout + 1
<1> USE DEF CoreFields, MapFields, PeerFields, StreamFields
<1>0. CoreFields \subseteq DOMAIN k
    BY SoundHasFields
<1>1. out.state = sent /\ out.events = <<>>
    BY DEF SendPing, Outcome
<1>2. PingState(sent) /\ Timed(sent, due)
    BY DEF PingState, PingFields, Timed
<1>3. ~Disarms(out.events)
    BY <1>1, DisarmingEvents
<1>4. /\ DOMAIN k.ping = PeerIds /\ DOMAIN k.identify = PeerIds
      /\ DOMAIN k.pending_pings = PeerIds /\ DOMAIN k.peer_info = PeerIds
      /\ k.ping_deadlines \in [PeerIds -> Nat \cup {None}]
    BY DEF PeersSound, PeerShape
<1>5. due \in Nat
    BY PingAssumption
<1> HIDE DEF sent, out, due
<1>6. /\ Agree(k, k2, (MapFields \cup StreamFields \cup PeerFields) \ {"ping", "ping_deadlines"})
      /\ k2.ping = [k.ping EXCEPT ![p] = sent]
      /\ k2.ping_deadlines = [k.ping_deadlines EXCEPT ![p] = due]
    <2> DEFINE k1 == RecordPingDeadline(k, p, t)
    <2>1. /\ Agree(k, k1, (MapFields \cup StreamFields \cup PeerFields) \ {"ping_deadlines"})
          /\ k1.ping_deadlines = [k.ping_deadlines EXCEPT ![p] = due]
        BY <1>0 DEF RecordPingDeadline, Agree, due
    <2> HIDE DEF k1
    <2>2. CoreFields \subseteq DOMAIN k1
        BY <2>1, <1>0 DEF Agree
    <2>3. /\ Agree(k1, k2, (MapFields \cup StreamFields \cup PeerFields) \ {"ping", "ping_deadlines"})
          /\ k2.ping = [k1.ping EXCEPT ![p] = sent]
          /\ k2.ping_deadlines = [k1.ping_deadlines EXCEPT ![p] = k1.ping_deadlines[p]]
        BY <2>2, <1>1, <1>3 DEF DrainPing, Agree, k1
    <2> HIDE DEF k2
    <2>4. k2.ping_deadlines = k1.ping_deadlines /\ k1.ping = k.ping
        BY <2>1, <2>3, <1>4 DEF Agree
    <2> QED BY <2>1, <2>3, <2>4 DEF Agree
<1>7. /\ Agree(k, k3, (MapFields \cup StreamFields \cup PeerFields) \ {"ping", "ping_deadlines"})
      /\ k3.ping = [k.ping EXCEPT ![p] = sent]
      /\ k3.ping_deadlines = [k.ping_deadlines EXCEPT ![p] = due]
    <2> DEFINE k1 == DrainPing(k, p, out)
    <2>1. /\ Agree(k, k1, (MapFields \cup StreamFields \cup PeerFields) \ {"ping", "ping_deadlines"})
          /\ k1.ping = [k.ping EXCEPT ![p] = sent]
          /\ k1.ping_deadlines = [k.ping_deadlines EXCEPT ![p] = k.ping_deadlines[p]]
        BY <1>0, <1>1, <1>3 DEF DrainPing, Agree
    <2> HIDE DEF k1
    <2>2. CoreFields \subseteq DOMAIN k1
        BY <2>1, <1>0 DEF Agree
    <2>3. /\ Agree(k1, k3, (MapFields \cup StreamFields \cup PeerFields) \ {"ping_deadlines"})
          /\ k3.ping_deadlines = [k1.ping_deadlines EXCEPT ![p] = due]
        BY <2>2 DEF RecordPingDeadline, Agree, due, k1
    <2> HIDE DEF k3
    <2>4. k1.ping_deadlines = k.ping_deadlines /\ k3.ping = k1.ping
        BY <2>1, <2>3, <1>4 DEF Agree
    <2> QED BY <2>1, <2>3, <2>4 DEF Agree
<1> HIDE DEF k2, k3
<1>8. PeersSound(k2)
    <2>1. PingState(PingOf(k2, p)) /\ Timed(PingOf(k2, p), k2.ping_deadlines[p])
        BY <1>2, <1>4, <1>6, DefaultIsPingState DEF PingOf, Timed
    <2> QED BY <2>1, <1>4, <1>5, <1>6, PeerUpdate DEF Agree
<1>9. PeersSound(k3)
    <2>1. PingState(PingOf(k3, p)) /\ Timed(PingOf(k3, p), k3.ping_deadlines[p])
        BY <1>2, <1>4, <1>7, DefaultIsPingState DEF PingOf, Timed
    <2> QED BY <2>1, <1>4, <1>5, <1>7, PeerUpdate DEF Agree
<1>10. Agree(k, k2, MapFields \cup StreamFields) /\ Agree(k, k3, MapFields \cup StreamFields)
    BY <1>6, <1>7 DEF Agree
<1> QED BY <1>8, <1>9, <1>10 DEF PeerStep, k2, k3, out

\* try_emit_peer_ready
LEMMA ReadyKeeps ==
    ASSUME NEW k, PeersSound(k), NEW p \in PeerIds
    PROVE  PeerStep(k, TryEmitPeerReady(k, p))
<1>0. CoreFields \subseteq DOMAIN k
    BY SoundHasFields
<1>1. PeerStep(k, k)
    BY <1>0, QueuesOnly, SameIsPeerStep
<1>2. ASSUME k.peer_to_conn[p] # None, NEW e
      PROVE  PeerStep(k, Emit([k EXCEPT !.ready_peers = @ \cup {p}], e))
    <2> DEFINE k1 == [k EXCEPT !.ready_peers = @ \cup {p}]
    <2>1. PeerStep(k, k1)
        BY <1>2, OtherWritesKeep
    <2> HIDE DEF k1
    <2>2. PeerStep(k1, Emit(k1, e))
        BY <2>1, PeerStepKeepsMaps, QueuesOnly, SameIsPeerStep
    <2>3. PeerStep(k, Emit(k1, e))
        BY <2>1, <2>2, PeerStepsCompose
    <2> QED BY <2>3 DEF k1
<1> QED BY <1>1, <1>2 DEF TryEmitPeerReady

\* The identify handlers.
LEMMA IdentifyKeeps ==
    ASSUME NEW k, PeersSound(k), NEW p \in PeerIds, k.peer_to_conn[p] # None, NEW s
    PROVE  /\ PeerStep(k, IdentifyRespond(k, p, s))
           /\ PeerStep(k, IdentifyListen(k, p, s))
           /\ PeerStep(k, IdentifyClosed(k, p, s))
           /\ \A oversized : PeerStep(k, IdentifyData(k, p, s, oversized))
           /\ \A info : PeerStep(k, IdentifyFinished(k, p, s, info))
<1>0. CoreFields \subseteq DOMAIN k
    BY SoundHasFields
<1>1. PeerStep(k, k)
    BY <1>0, QueuesOnly, SameIsPeerStep
<1>2. ASSUME NEW k1, PeerStep(k, k1), NEW k2, Same(k1, k2) PROVE PeerStep(k, k2)
    <2>1. PeerStep(k1, k2)
        BY <1>2, PeerStepKeepsMaps, SameIsPeerStep
    <2> QED BY <2>1, <1>2, PeerStepsCompose
<1>3. ASSUME NEW k1, PeerStep(k, k1)
      PROVE  /\ \A e : PeerStep(k, Emit(k1, e))
             /\ \A q, c, z : PeerStep(k, EmitError(k1, q, c, z))
             /\ \A q, type, z : PeerStep(k, IdentifyAct(k1, q, type, z))
    <2>1. CoreFields \subseteq DOMAIN k1
        BY <1>3, PeerStepKeepsMaps
    <2>2. /\ \A e : Same(k1, Emit(k1, e))
          /\ \A q, c, z : Same(k1, EmitError(k1, q, c, z))
          /\ \A q, type, z : Same(k1, IdentifyAct(k1, q, type, z))
        BY <2>1, QueuesOnly
    <2> QED BY <2>2, <1>2, <1>3
<1>4. \A v : PeerStep(k, [k EXCEPT !.identify[p] = v])
    BY OtherWritesKeep
<1>5. PeerStep(k, StopReading(k, p, s))
    BY <1>4 DEF StopReading
<1>6. PeerStep(k, IdentifyRespond(k, p, s))
    <2> DEFINE st == [IdentifyOf(k, p) EXCEPT !.outbound_stream = s]
               k1 == [k EXCEPT !.identify[p] = st]
               k2 == IdentifyAct(k1, p, "SendStream", s)
    <2>1. PeerStep(k, k1) /\ PeerStep(k, [k EXCEPT !.identify[p] = IdentifyOf(k, p)])
        BY <1>4
    <2> HIDE DEF k1
    <2>2. PeerStep(k, k2)
        BY <2>1, <1>3
    <2> HIDE DEF k2
    <2>3. PeerStep(k, IdentifyAct(k2, p, "CloseStreamWrite", s))
        BY <2>2, <1>3
    <2> QED BY <2>1, <2>3 DEF IdentifyRespond, k1, k2
<1>7. PeerStep(k, IdentifyListen(k, p, s))
    BY <1>4 DEF IdentifyListen
<1>8. PeerStep(k, IdentifyClosed(k, p, s))
    BY <1>1, <1>4 DEF IdentifyClosed
<1>9. ASSUME NEW oversized PROVE PeerStep(k, IdentifyData(k, p, s, oversized))
    BY <1>1, <1>3, <1>5 DEF IdentifyData
<1>10. ASSUME NEW info PROVE PeerStep(k, IdentifyFinished(k, p, s, info))
    <2> DEFINE k1 == IdentifyAct(StopReading(k, p, s), p, "CloseStreamWrite", s)
               k2 == [k1 EXCEPT !.peer_info[p] = info]
               k3 == Emit(k2, Event("IdentifyReceived", p, None, None))
    <2>1. PeerStep(k, k1)
        BY <1>3, <1>5
    <2>2. PeersSound(k1) /\ k1.peer_to_conn[p] # None
        BY <2>1, PeerStepKeepsMaps
    <2> HIDE DEF k1
    <2>3. PeerStep(k1, k2)
        BY <2>2, OtherWritesKeep
    <2>4. PeerStep(k, k2)
        BY <2>1, <2>3, PeerStepsCompose
    <2> HIDE DEF k2
    <2>5. PeerStep(k, k3)
        BY <2>4, <1>3
    <2>6. PeersSound(k3)
        BY <2>5 DEF PeerStep
    <2> HIDE DEF k3
    <2>7. PeerStep(k3, TryEmitPeerReady(k3, p))
        BY <2>6, ReadyKeeps
    <2>8. PeerStep(k, TryEmitPeerReady(k3, p))
        BY <2>5, <2>7, PeerStepsCompose
    <2>9. PeerStep(k, EmitError(k1, None, None, None))
        BY <2>1, <1>3
    <2> QED BY <1>1, <2>8, <2>9 DEF IdentifyFinished, k1, k2, k3
<1> QED BY <1>6, <1>7, <1>8, <1>9, <1>10

\* ensure_peer_id_for_conn: a connection without a peer gets its placeholder, under which
\* nothing is kept.
LEMMA EnsureKeeps ==
    ASSUME NEW k, PeersSound(k), NEW c \in Conns
    PROVE  LET k2 == EnsurePeerIdForConn(k, c)
           IN  /\ PeersSound(k2)
               /\ Agree(k, k2, PeerFields \cup StreamFields)
               /\ MapStep(k, k2, c)
               /\ k2.conn_to_peer[c] \in PeerIds
               /\ k2.peer_to_conn[k2.conn_to_peer[c]] = c
<1> DEFINE k2 == EnsurePeerIdForConn(k, c)
<1>0. CoreFields \subseteq DOMAIN k
    BY SoundHasFields
<1>t. /\ k.conn_to_peer \in [Conns -> PeerIds \cup {None}]
      /\ k.peer_to_conn \in [PeerIds -> Conns \cup {None}]
      /\ \A d \in Conns : k.conn_to_peer[d] \in {None, d, RemotePeer[d]}
      /\ MapsAgree(k)
      /\ None \notin PeerIds /\ None \notin Conns /\ c \in PeerIds
    BY SwarmAssumption DEF PeersSound, PeerShape, PeerIds
<1>1. CASE k.conn_to_peer[c] # None
    <2>1. k2 = k
        BY <1>1 DEF EnsurePeerIdForConn
    <2> HIDE DEF k2
    <2>2. Agree(k, k, PeerFields \cup StreamFields)
        BY DEF Agree
    <2>3. MapStep(k, k2, c)
        BY <2>1 DEF MapStep
    <2>4. k2.conn_to_peer[c] \in PeerIds /\ k2.peer_to_conn[k2.conn_to_peer[c]] = c
        BY <1>1, <1>t, <2>1 DEF MapsAgree
    <2> QED BY <2>1, <2>2, <2>3, <2>4 DEF k2
<1>2. CASE k.conn_to_peer[c] = None
    <2>1. /\ Agree(k, k2, PeerFields \cup StreamFields)
          /\ k2.conn_to_peer = [k.conn_to_peer EXCEPT ![c] = c]
          /\ k2.peer_to_conn = [k.peer_to_conn EXCEPT ![c] = c]
        BY <1>0, <1>2 DEF EnsurePeerIdForConn, Agree, CoreFields, MapFields, PeerFields, StreamFields
    <2> HIDE DEF k2
    <2>2. k.peer_to_conn[c] = None
        <3>1. ASSUME k.peer_to_conn[c] # None PROVE FALSE
            <4>1. PICK d \in Conns : d = k.peer_to_conn[c]
                BY <3>1, <1>t
            <4>2. k.conn_to_peer[d] = c
                BY <3>1, <4>1, <1>t DEF MapsAgree
            <4>3. RemotePeer[d] \in Peers /\ c \notin Peers
                BY RuntimeAssumption, SwarmAssumption
            <4>4. d = c
                BY <4>2, <4>3, <1>t
            <4> QED BY <4>2, <4>4, <1>2, <1>t
        <3> QED BY <3>1
    <2>3. PeerShape(k2)
        <3>1. /\ k2.ping = k.ping /\ k2.identify = k.identify
              /\ k2.pending_pings = k.pending_pings /\ k2.ping_deadlines = k.ping_deadlines
              /\ k2.peer_info = k.peer_info /\ DOMAIN k2 = DOMAIN k
            BY <2>1 DEF Agree, PeerFields
        <3>2. k2.conn_to_peer \in [Conns -> PeerIds \cup {None}] /\ k2.peer_to_conn \in [PeerIds -> Conns \cup {None}]
            BY <2>1, <1>t
        <3>3. \A d \in Conns : k2.conn_to_peer[d] \in {None, d, RemotePeer[d]}
            BY <2>1, <1>t
        <3> QED BY <3>1, <3>2, <3>3 DEF PeersSound, PeerShape
    <2>4. MapsAgree(k2)
        BY <2>1, <2>2, <1>2, <1>t DEF MapsAgree
    <2>5. \A p \in PeerIds : k2.peer_to_conn[p] = None => Blank(k2, p)
        <3>1. \A p \in PeerIds : k2.peer_to_conn[p] = None => k.peer_to_conn[p] = None
            BY <2>1, <2>2, <1>t
        <3>2. \A p \in PeerIds : Blank(k, p) => Blank(k2, p)
            BY <2>1 DEF Blank, Agree, PeerFields
        <3> QED BY <3>1, <3>2 DEF PeersSound
    <2>6. \A p \in PeerIds : PingState(PingOf(k2, p)) /\ Timed(PingOf(k2, p), k2.ping_deadlines[p])
        <3>1. k2.ping = k.ping /\ k2.ping_deadlines = k.ping_deadlines
            BY <2>1 DEF Agree, PeerFields
        <3>2. \A p : PingOf(k2, p) = PingOf(k, p)
            BY <3>1 DEF PingOf
        <3> QED BY <3>1, <3>2 DEF PeersSound
    <2>7. PeersSound(k2)
        BY <2>3, <2>4, <2>5, <2>6 DEF PeersSound
    <2>8. MapStep(k, k2, c)
        BY <2>1, <1>2 DEF MapStep
    <2>9. k2.conn_to_peer[c] \in PeerIds /\ k2.peer_to_conn[k2.conn_to_peer[c]] = c
        BY <2>1, <1>t
    <2> QED BY <2>1, <2>7, <2>8, <2>9 DEF k2
<1> QED BY <1>1, <1>2

\* handle_tick: a deadline is dropped only with its ping.
LEMMA TickKeeps ==
    ASSUME NEW k, PeersSound(k), NEW t \in Nat
    PROVE  PeerStep(k, HandleTick(k, t))
<1> DEFINE due == {p \in PeerIds : TimedOut(PingOf(k, p), t)}
           k2  == HandleTick(k, t)
<1>0. CoreFields \subseteq DOMAIN k
    BY SoundHasFields
<1>1. /\ Agree(k, k2, (MapFields \cup StreamFields \cup PeerFields) \ {"ping", "ping_deadlines"})
      /\ k2.ping = [p \in PeerIds |-> IF p \in due THEN OnTick(PingOf(k, p), t).state ELSE k.ping[p]]
      /\ k2.ping_deadlines =
            [p \in PeerIds |-> IF p \in due \/ (k.ping_deadlines[p] # None /\ k.ping_deadlines[p] <= t)
                               THEN None ELSE k.ping_deadlines[p]]
    BY <1>0 DEF HandleTick, Agree, CoreFields, MapFields, PeerFields, StreamFields
<1> HIDE DEF k2
<1>2. k.ping_deadlines \in [PeerIds -> Nat \cup {None}] /\ DOMAIN k.ping = PeerIds
    BY DEF PeersSound, PeerShape
<1>3. /\ k2.conn_to_peer = k.conn_to_peer /\ k2.peer_to_conn = k.peer_to_conn
      /\ k2.identify = k.identify /\ k2.pending_pings = k.pending_pings
      /\ k2.peer_info = k.peer_info /\ k2.ready_peers = k.ready_peers
      /\ k2.established_peers = k.established_peers
      /\ DOMAIN k2 = DOMAIN k
    BY <1>1 DEF Agree, MapFields, PeerFields, StreamFields
<1>4. PeerShape(k2) /\ MapsAgree(k2)
    <2>1. k2.ping_deadlines \in [PeerIds -> Nat \cup {None}] /\ DOMAIN k2.ping = PeerIds
        BY <1>1, <1>2
    <2> QED BY <2>1, <1>3 DEF PeersSound, PeerShape, MapsAgree
<1>5. \A p \in PeerIds : k2.peer_to_conn[p] = None => Blank(k2, p)
    <2> SUFFICES ASSUME NEW p \in PeerIds, k2.peer_to_conn[p] = None
                 PROVE  Blank(k2, p)
        OBVIOUS
    <2>1. Blank(k, p)
        BY <1>3 DEF PeersSound
    <2>2. PingOf(k, p).outbound_stream = None
        BY <2>1 DEF Blank, PingOf, DefaultPeerState
    <2>3. p \notin due
        BY <2>2 DEF TimedOut
    <2> HIDE DEF due
    <2> QED BY <2>1, <2>3, <1>1, <1>3 DEF Blank
<1>6. ASSUME NEW p \in PeerIds
      PROVE  PingState(PingOf(k2, p)) /\ Timed(PingOf(k2, p), k2.ping_deadlines[p])
    <2> DEFINE st == PingOf(k, p)
    <2>1. PingState(st) /\ Timed(st, k.ping_deadlines[p])
        BY DEF PeersSound
    <2>2. CASE p \in due
        <3>1. OnTick(st, t).state = DropOutbound(st, st.outbound_stream)
            BY <2>2 DEF OnTick, Outcome
        <3>2. k2.ping[p] = DropOutbound(st, st.outbound_stream)
            BY <3>1, <2>2, <1>1
        <3>3. PingState(k2.ping[p]) /\ k2.ping[p].pending_ping = None
            BY <3>2, <2>1, DroppedIsPingState
        <3> QED BY <3>3, DefaultIsPingState DEF PingOf, Timed
    <2>3. CASE p \notin due
        <3> HIDE DEF due
        <3>1. k2.ping[p] = k.ping[p]
            BY <2>3, <1>1
        <3>2. PingOf(k2, p) = st
            BY <3>1 DEF PingOf
        <3>3. ASSUME st.pending_ping # None
              PROVE  k2.ping_deadlines[p] = st.pending_ping.sent_at + RequestTimeout + 1
            <4> HIDE DEF st
            <4>1. st.pending_ping.sent_at \in Nat /\ st.outbound_stream # None
                BY <3>3, <2>1 DEF PingState
            <4>2. k.ping_deadlines[p] = st.pending_ping.sent_at + RequestTimeout + 1
                BY <3>3, <2>1 DEF Timed
            <4>3. ~(Elapsed(st, t) > RequestTimeout)
                BY <3>3, <4>1, <2>3 DEF due, TimedOut, st
            <4>4. ~(k.ping_deadlines[p] <= t)
                BY <4>1, <4>2, <4>3, PingAssumption DEF Elapsed
            <4> QED BY <4>2, <4>4, <2>3, <1>1
        <3> QED BY <3>2, <3>3, <2>1 DEF Timed
    <2> QED BY <2>2, <2>3
<1>7. PeersSound(k2)
    BY <1>4, <1>5, <1>6 DEF PeersSound
<1>8. Agree(k, k2, MapFields \cup StreamFields)
    BY <1>1 DEF Agree, MapFields, PeerFields, StreamFields
<1> QED BY <1>7, <1>8 DEF PeerStep, k2

\* fn ping
LEMMA PingPeerKeeps ==
    ASSUME NEW k, PeersSound(k), NEW p \in PeerIds, k.peer_to_conn[p] # None,
           NEW payload, NEW t \in Nat
    PROVE  PeerStep(k, PingPeer(k, p, payload, t))
<1> DEFINE queued == [k EXCEPT !.pending_pings[p] = payload]
<1>1. PeerStep(k, queued)
    BY OtherWritesKeep
<1>2. PeersSound(queued) /\ CoreFields \subseteq DOMAIN queued
    BY <1>1, PeerStepKeepsMaps
<1> HIDE DEF queued
<1>3. PeerStep(queued, QueueOpenProtocolStream(queued, p, "Ping"))
    <2>1. Same(queued, QueueOpenProtocolStream(queued, p, "Ping"))
        BY <1>2, QueuesOnly DEF Targets
    <2> QED BY <2>1, <1>2, SameIsPeerStep
<1>4. PeerStep(k, QueueOpenProtocolStream(queued, p, "Ping"))
    BY <1>1, <1>3, PeerStepsCompose
<1>5. CASE FindNegotiatedPingStream(k, p) # None
    <2>1. PingState(PingOf(k, p)) /\ PingOf(k, p).outbound_stream # None
        BY <1>5 DEF PeersSound, FindNegotiatedPingStream
    <2>2. PeerStep(k, DrainPing(RecordPingDeadline(k, p, t), p, SendPing(PingOf(k, p), payload, t)))
        BY <2>1, SendPingKeeps
    <2> QED BY <2>2, <1>5 DEF PingPeer
<1>6. CASE FindNegotiatedPingStream(k, p) = None
    BY <1>6, <1>1, <1>4 DEF PingPeer, queued
<1> QED BY <1>5, <1>6

-----------------------------------------------------------------------------
(* Operators that change the stage of one stream. *)

\* At most stream `key` enters a stage, and the tables by peer are left alone.
StreamStep(k, k2, key) ==
    /\ StreamsSound(k2)
    /\ StageStep(k, k2, key)
    /\ Agree(k, k2, MapFields \cup PeerFields)

\* Writing one stream's entries.
LEMMA StreamUpdate ==
    ASSUME NEW k, StreamsSound(k), NEW k2, NEW key, Agree(k, k2, MapFields \cup PeerFields),
           DOMAIN k2.outbound_negotiators = Keys, DOMAIN k2.stream_owner = Keys,
           \A other \in Keys \ {key} :
              /\ k2.outbound_negotiators[other] = k.outbound_negotiators[other]
              /\ k2.stream_owner[other] = k.stream_owner[other]
              /\ other \in k2.inbound_negotiators <=> other \in k.inbound_negotiators
              /\ other \in k2.abandoned_streams <=> other \in k.abandoned_streams,
           key \in Keys => /\ k2.stream_owner[key] \in Kinds \cup {None}
                           /\ k2.outbound_negotiators[key] \in Targets \cup {None}
                           /\ OneStage(k2, key)
    PROVE  StreamStep(k, k2, key)
<1>1. CoreFields \subseteq DOMAIN k2 /\ \A o \in k2.pending_opens : o.target \in Targets
    BY DEF StreamsSound, Agree
<1>2. \A other \in Keys \ {key} :
        /\ k2.stream_owner[other] \in Kinds \cup {None}
        /\ k2.outbound_negotiators[other] \in Targets \cup {None}
        /\ OneStage(k2, other)
        /\ Staged(k2, other) => Staged(k, other)
    BY DEF StreamsSound, OneStage, Staged
<1>3. StreamsSound(k2)
    BY <1>1, <1>2 DEF StreamsSound
<1>4. StageStep(k, k2, key)
    BY <1>2 DEF StageStep
<1> QED BY <1>3, <1>4 DEF StreamStep

\* Taking a stream out of a stage, and putting one that is in none into a stage.
LEMMA StageWrites ==
    ASSUME NEW k, StreamsSound(k), NEW key
    PROVE  /\ StreamStep(k, [k EXCEPT !.stream_owner[key] = None], key)
           /\ StreamStep(k, [k EXCEPT !.outbound_negotiators[key] = None], key)
           /\ StreamStep(k, [k EXCEPT !.inbound_negotiators = @ \ {key}], key)
           /\ ~Staged(k, key) =>
                /\ \A kind \in Kinds : StreamStep(k, [k EXCEPT !.stream_owner[key] = kind], key)
                /\ \A target \in Targets :
                        StreamStep(k, [k EXCEPT !.outbound_negotiators[key] = target], key)
                /\ StreamStep(k, [k EXCEPT !.inbound_negotiators = @ \cup {key}], key)
<1> USE DEF CoreFields, MapFields, PeerFields, StreamFields
<1>0. /\ CoreFields \subseteq DOMAIN k
      /\ DOMAIN k.outbound_negotiators = Keys /\ DOMAIN k.stream_owner = Keys
      /\ key \in Keys => /\ k.stream_owner[key] \in Kinds \cup {None}
                         /\ k.outbound_negotiators[key] \in Targets \cup {None}
                         /\ OneStage(k, key)
    BY DEF StreamsSound
<1>1. ASSUME NEW kind \in Kinds \cup {None}, kind = None \/ ~Staged(k, key)
      PROVE  StreamStep(k, [k EXCEPT !.stream_owner[key] = kind], key)
    <2> DEFINE k2 == [k EXCEPT !.stream_owner[key] = kind]
    <2>1. /\ Agree(k, k2, MapFields \cup PeerFields)
          /\ k2.stream_owner = [k.stream_owner EXCEPT ![key] = kind]
          /\ k2.outbound_negotiators = k.outbound_negotiators
          /\ k2.inbound_negotiators = k.inbound_negotiators
          /\ k2.abandoned_streams = k.abandoned_streams
        BY <1>0 DEF Agree
    <2> HIDE DEF k2
    <2>2. key \in Keys => OneStage(k2, key) /\ k2.stream_owner[key] = kind
        BY <2>1, <1>0, <1>1 DEF OneStage, Staged
    <2>3. StreamStep(k, k2, key)
        BY <2>1, <2>2, <1>0, StreamUpdate
    <2> QED BY <2>3 DEF k2
<1>2. ASSUME NEW target \in Targets \cup {None}, target = None \/ ~Staged(k, key)
      PROVE  StreamStep(k, [k EXCEPT !.outbound_negotiators[key] = target], key)
    <2> DEFINE k2 == [k EXCEPT !.outbound_negotiators[key] = target]
    <2>1. /\ Agree(k, k2, MapFields \cup PeerFields)
          /\ k2.outbound_negotiators = [k.outbound_negotiators EXCEPT ![key] = target]
          /\ k2.stream_owner = k.stream_owner
          /\ k2.inbound_negotiators = k.inbound_negotiators
          /\ k2.abandoned_streams = k.abandoned_streams
        BY <1>0 DEF Agree
    <2> HIDE DEF k2
    <2>2. key \in Keys => OneStage(k2, key) /\ k2.outbound_negotiators[key] = target
        BY <2>1, <1>0, <1>2 DEF OneStage, Staged
    <2>3. StreamStep(k, k2, key)
        BY <2>1, <2>2, <1>0, StreamUpdate
    <2> QED BY <2>3 DEF k2
<1>3. ASSUME NEW S, S \in {k.inbound_negotiators \ {key}, k.inbound_negotiators \cup {key}},
             S = k.inbound_negotiators \ {key} \/ ~Staged(k, key)
      PROVE  StreamStep(k, [k EXCEPT !.inbound_negotiators = S], key)
    <2> DEFINE k2 == [k EXCEPT !.inbound_negotiators = S]
    <2>1. /\ Agree(k, k2, MapFields \cup PeerFields)
          /\ k2.inbound_negotiators = S
          /\ k2.stream_owner = k.stream_owner
          /\ k2.outbound_negotiators = k.outbound_negotiators
          /\ k2.abandoned_streams = k.abandoned_streams
        BY <1>0 DEF Agree
    <2> HIDE DEF k2
    <2>2. key \in Keys => OneStage(k2, key)
        BY <2>1, <1>0, <1>3 DEF OneStage, Staged
    <2>3. \A other \in Keys \ {key} : other \in S <=> other \in k.inbound_negotiators
        BY <1>3
    <2>4. StreamStep(k, k2, key)
        BY <2>1, <2>2, <2>3, <1>0, StreamUpdate
    <2> QED BY <2>4 DEF k2
<1> QED BY <1>1, <1>2, <1>3

-----------------------------------------------------------------------------
(* What a handler of a stream of connection c does to the core. *)

\* The tables stay sound, at most c is given its placeholder and at most `key` a stage.
HandlerStep(k, k2, c, key) ==
    /\ PeersSound(k2)
    /\ StreamsSound(k2)
    /\ MapStep(k, k2, c)
    /\ StageStep(k, k2, key)

\* Parts of a handler compose.
LEMMA HandlerStepsCompose ==
    ASSUME NEW k, NEW k1, NEW k2, NEW c \in Conns, NEW key, PeersSound(k),
           HandlerStep(k, k1, c, key), HandlerStep(k1, k2, c, key)
    PROVE  HandlerStep(k, k2, c, key)
<1>1. StageStep(k, k2, key)
    BY DEF HandlerStep, StageStep
<1>2. MapStep(k, k2, c)
    <2>1. k.conn_to_peer \in [Conns -> PeerIds \cup {None}] /\ c # None
        BY SwarmAssumption DEF PeersSound, PeerShape
    <2>2. MapStep(k, k1, c) /\ MapStep(k1, k2, c)
        BY DEF HandlerStep
    <2> QED BY <2>1, <2>2 DEF MapStep
<1> QED BY <1>1, <1>2 DEF HandlerStep

\* A step on what is kept of a peer may be part of a handler.
LEMMA PeerStepHandles ==
    ASSUME NEW k, StreamsSound(k), NEW k2, PeerStep(k, k2), NEW c, NEW key
    PROVE  HandlerStep(k, k2, c, key) /\ \A z : Staged(k2, z) <=> Staged(k, z)
<1>1. Agree(k, k2, StreamFields)
    BY AgreeWeakens DEF PeerStep
<1>2. StreamsSound(k2) /\ \A z : Staged(k2, z) <=> Staged(k, z)
    BY <1>1, StreamsStaySound
<1>3. MapStep(k, k2, c)
    BY PeerStepKeepsMaps DEF MapStep
<1> QED BY <1>2, <1>3 DEF HandlerStep, PeerStep, StageStep

\* So may one that only queues outputs.
LEMMA SameHandles ==
    ASSUME NEW k, PeersSound(k), StreamsSound(k), NEW k2, Same(k, k2), NEW c, NEW key
    PROVE  HandlerStep(k, k2, c, key) /\ \A z : Staged(k2, z) <=> Staged(k, z)
BY SameIsPeerStep, PeerStepHandles

\* So may one that writes the stream's own entries.
LEMMA StreamStepHandles ==
    ASSUME NEW k, PeersSound(k), NEW k2, NEW c, NEW key, StreamStep(k, k2, key)
    PROVE  /\ HandlerStep(k, k2, c, key)
           /\ k2.conn_to_peer = k.conn_to_peer
           /\ k2.peer_to_conn = k.peer_to_conn
           /\ k2.ping = k.ping
<1>1. PeersSound(k2)
    BY PeersStaySound DEF StreamStep
<1>2. k2.conn_to_peer = k.conn_to_peer /\ k2.peer_to_conn = k.peer_to_conn /\ k2.ping = k.ping
    BY DEF StreamStep, Agree, MapFields, PeerFields
<1> QED BY <1>1, <1>2 DEF HandlerStep, StreamStep, MapStep

\* ensure_peer_id_for_conn, at the start of a handler.
LEMMA EnsureHandles ==
    ASSUME NEW k, PeersSound(k), StreamsSound(k), NEW c \in Conns, NEW key
    PROVE  LET k2 == EnsurePeerIdForConn(k, c)
           IN  /\ HandlerStep(k, k2, c, key)
               /\ \A z : Staged(k2, z) <=> Staged(k, z)
               /\ k2.conn_to_peer[c] \in PeerIds
               /\ k2.peer_to_conn[k2.conn_to_peer[c]] # None
               /\ k2.stream_owner = k.stream_owner
<1> DEFINE k2 == EnsurePeerIdForConn(k, c)
<1>1. /\ PeersSound(k2)
      /\ Agree(k, k2, PeerFields \cup StreamFields)
      /\ MapStep(k, k2, c)
      /\ k2.conn_to_peer[c] \in PeerIds
      /\ k2.peer_to_conn[k2.conn_to_peer[c]] = c
    BY EnsureKeeps
<1> HIDE DEF k2
<1>2. Agree(k, k2, StreamFields)
    BY <1>1, AgreeWeakens
<1>3. StreamsSound(k2) /\ \A z : Staged(k2, z) <=> Staged(k, z)
    BY <1>2, StreamsStaySound
<1>4. c # None /\ k2.stream_owner = k.stream_owner
    BY <1>2, SwarmAssumption DEF Agree, StreamFields
<1> QED BY <1>1, <1>3, <1>4 DEF HandlerStep, StageStep, k2

\* A handler's step followed by one that only queues outputs, or by one of the peer's.
LEMMA ThenSame ==
    ASSUME NEW k, PeersSound(k), NEW k1, NEW k2, NEW c \in Conns, NEW key,
           HandlerStep(k, k1, c, key), Same(k1, k2)
    PROVE  HandlerStep(k, k2, c, key)
<1>1. HandlerStep(k1, k2, c, key)
    BY SameHandles DEF HandlerStep
<1> QED BY <1>1, HandlerStepsCompose

\* A handler goes on with a step on what is kept of a peer.
LEMMA ThenPeer ==
    ASSUME NEW k, PeersSound(k), NEW k1, NEW k2, NEW c \in Conns, NEW key,
           HandlerStep(k, k1, c, key), PeerStep(k1, k2)
    PROVE  HandlerStep(k, k2, c, key)
<1>1. HandlerStep(k1, k2, c, key)
    BY PeerStepHandles DEF HandlerStep
<1> QED BY <1>1, HandlerStepsCompose

\* A handler goes on with outputs.
LEMMA ThenOutputs ==
    ASSUME NEW k, PeersSound(k), NEW k1, NEW c \in Conns, NEW key, HandlerStep(k, k1, c, key)
    PROVE  /\ \A e : HandlerStep(k, Emit(k1, e), c, key)
           /\ \A p, d, s : HandlerStep(k, EmitError(k1, p, d, s), c, key)
           /\ \A d, s : HandlerStep(k, SendStream(k1, d, s), c, key)
           /\ \A d, s : HandlerStep(k, QueueReset(k1, d, s), c, key)
           /\ \A z : HandlerStep(k, ResetOnce(k1, z), c, key)
<1>1. CoreFields \subseteq DOMAIN k1
    BY SoundHasFields DEF HandlerStep
<1>2. /\ \A e : Same(k1, Emit(k1, e))
      /\ \A p, d, s : Same(k1, EmitError(k1, p, d, s))
      /\ \A d, s : Same(k1, SendStream(k1, d, s))
      /\ \A d, s : Same(k1, QueueReset(k1, d, s))
      /\ \A z : Same(k1, ResetOnce(k1, z))
    BY <1>1, QueuesOnly
<1> QED BY <1>2, ThenSame

-----------------------------------------------------------------------------
(* The stream handlers. *)

\* A handler may do nothing.
LEMMA StutterHandles ==
    ASSUME NEW k, PeersSound(k), StreamsSound(k), NEW c, NEW key
    PROVE  HandlerStep(k, k, c, key)
BY DEF HandlerStep, MapStep, StageStep

\* A stream of a connection has a key.
LEMMA KeyOf == \A c \in Conns, s \in Sids : <<c, s>> \in Keys
BY DEF Keys

\* dispatch_protocol_data and handle_stream_remote_write_closed
LEMMA OwnerHandles ==
    ASSUME NEW k, PeersSound(k), StreamsSound(k), NEW c \in Conns, NEW s \in Sids
    PROVE  /\ \A data, oversized, t :
                HandlerStep(k, DispatchProtocolData(k, c, s, data, oversized, t), c, <<c, s>>)
           /\ \A info : HandlerStep(k, HandleStreamRemoteWriteClosed(k, c, s, info), c, <<c, s>>)
<1> DEFINE key == <<c, s>>
           k1  == EnsurePeerIdForConn(k, c)
           p   == k1.conn_to_peer[c]
           st  == PingOf(k1, p)
<1>1. HandlerStep(k, k1, c, key) /\ p \in PeerIds /\ k1.peer_to_conn[p] # None
    BY EnsureHandles
<1>2. k.stream_owner[key] \in Kinds \cup {None}
    BY KeyOf DEF StreamsSound
<1> HIDE DEF k1, p, key
<1>3. PeersSound(k1) /\ PingState(st)
    BY <1>1 DEF HandlerStep, PeersSound
<1>4. HandlerStep(k, k, c, key)
    BY StutterHandles
<1>5. \A e : HandlerStep(k, Emit(k1, e), c, key)
    BY <1>1, ThenOutputs
<1>6. \A out : Answered(st, out) => HandlerStep(k, InformPing(k1, p, out), c, key)
    <2>1. \A out : Answered(st, out) => PeerStep(k1, InformPing(k1, p, out))
        BY <1>1, <1>3, DrainPingKeeps
    <2> QED BY <2>1, <1>1, ThenPeer
<1> HIDE DEF st
<1>7. ASSUME NEW data, NEW oversized, NEW t
      PROVE  HandlerStep(k, DispatchProtocolData(k, c, s, data, oversized, t), c, key)
    <2>1. HandlerStep(k, InformPing(k1, p, OnStreamData(st, s, data, t)), c, key)
        BY <1>3, <1>6, DataAnswers
    <2>2. HandlerStep(k, IdentifyData(k1, p, s, oversized), c, key)
        <3>1. PeerStep(k1, IdentifyData(k1, p, s, oversized))
            BY <1>1, <1>3, IdentifyKeeps
        <3> QED BY <3>1, <1>1, ThenPeer
    <2> QED BY <2>1, <2>2, <1>1, <1>2, <1>4, <1>5 DEF DispatchProtocolData, Kinds, k1, p, st, key
<1>8. ASSUME NEW info
      PROVE  HandlerStep(k, HandleStreamRemoteWriteClosed(k, c, s, info), c, key)
    <2>1. HandlerStep(k, InformPing(k1, p, OnStreamRemoteWriteClosed(st, s)), c, key)
        BY <1>3, <1>6, EndAnswers
    <2>2. HandlerStep(k, IdentifyFinished(k1, p, s, info), c, key)
        <3>1. PeerStep(k1, IdentifyFinished(k1, p, s, info))
            BY <1>1, <1>3, IdentifyKeeps
        <3> QED BY <3>1, <1>1, ThenPeer
    <2> QED BY <2>1, <2>2, <1>1, <1>2, <1>4, <1>5 DEF HandleStreamRemoteWriteClosed, Kinds, k1, p, st, key
<1> QED BY <1>7, <1>8 DEF key

\* A stream without a stage is given to protocol `kind` of the connection's peer.
LEMMA OwnHandles ==
    ASSUME NEW k, PeersSound(k), StreamsSound(k), NEW c \in Conns, NEW s \in Sids,
           ~Staged(k, <<c, s>>), NEW kind \in Kinds
    PROVE  LET k1 == EnsurePeerIdForConn(k, c)
               p  == k1.conn_to_peer[c]
               k2 == [k1 EXCEPT !.stream_owner[<<c, s>>] = kind]
           IN  /\ HandlerStep(k, k1, c, <<c, s>>)
               /\ HandlerStep(k, k2, c, <<c, s>>)
               /\ p \in PeerIds /\ k1.peer_to_conn[p] # None /\ k2.peer_to_conn[p] # None
               /\ k2.ping = k1.ping
<1> DEFINE k1 == EnsurePeerIdForConn(k, c)
           p  == k1.conn_to_peer[c]
           k2 == [k1 EXCEPT !.stream_owner[<<c, s>>] = kind]
<1>1. /\ HandlerStep(k, k1, c, <<c, s>>) /\ p \in PeerIds /\ k1.peer_to_conn[p] # None
      /\ ~Staged(k1, <<c, s>>)
    BY EnsureHandles
<1> HIDE DEF k1
<1>2. PeersSound(k1) /\ StreamsSound(k1)
    BY <1>1 DEF HandlerStep
<1>3. StreamStep(k1, k2, <<c, s>>)
    BY <1>1, <1>2, StageWrites
<1> HIDE DEF k2
<1>4. HandlerStep(k1, k2, c, <<c, s>>) /\ k2.peer_to_conn = k1.peer_to_conn /\ k2.ping = k1.ping
    BY <1>2, <1>3, StreamStepHandles
<1>5. HandlerStep(k, k2, c, <<c, s>>)
    BY <1>1, <1>4, HandlerStepsCompose
<1> QED BY <1>1, <1>4, <1>5 DEF k1, k2

\* on_inbound_negotiated
LEMMA InboundNegotiatedHandles ==
    ASSUME NEW k, PeersSound(k), StreamsSound(k), NEW c \in Conns, NEW s \in Sids,
           ~Staged(k, <<c, s>>), NEW protocol \in {"ping", "identify", "user"}
    PROVE  HandlerStep(k, OnInboundNegotiated(k, c, s, protocol), c, <<c, s>>)
<1> DEFINE key == <<c, s>>
           k1  == EnsurePeerIdForConn(k, c)
           p   == k1.conn_to_peer[c]
           Own(kind) == [k1 EXCEPT !.stream_owner[<<c, s>>] = kind]
<1>1. \A kind \in Kinds : /\ HandlerStep(k, k1, c, key) /\ HandlerStep(k, Own(kind), c, key)
                          /\ p \in PeerIds /\ k1.peer_to_conn[p] # None
                          /\ Own(kind).peer_to_conn[p] # None
                          /\ Own(kind).ping = k1.ping
    BY OwnHandles
<1>2. {"Ping", "IdentifyResponder", "User"} \subseteq Kinds
    BY DEF Kinds
<1> DEFINE kp == Own("Ping")
           ki == Own("IdentifyResponder")
           ku == Own("User")
<1>3. /\ HandlerStep(k, k1, c, key) /\ p \in PeerIds /\ k1.peer_to_conn[p] # None
      /\ HandlerStep(k, kp, c, key) /\ kp.peer_to_conn[p] # None /\ kp.ping = k1.ping
      /\ HandlerStep(k, ki, c, key) /\ ki.peer_to_conn[p] # None
      /\ HandlerStep(k, ku, c, key)
    BY <1>1, <1>2
<1>d. OnInboundNegotiated(k, c, s, protocol) =
        CASE protocol = "ping" -> DrainPing(kp, p, RegisterInboundStream(PingOf(k1, p), s))
          [] protocol = "identify" ->
                IF IdentifyOf(k1, p).outbound_stream # None
                THEN QueueReset(EmitError(IdentifyRespond(k1, p, s), p, c, None), c, s)
                ELSE IdentifyRespond(ki, p, s)
          [] protocol = "user" -> Emit(ku, Event("StreamReady", p, c, s))
    BY DEF OnInboundNegotiated
<1> HIDE DEF k1, kp, ki, ku, p, key
<1>4. HandlerStep(k, DrainPing(kp, p, RegisterInboundStream(PingOf(k1, p), s)), c, key)
    <2>1. PingOf(kp, p) = PingOf(k1, p)
        BY <1>3 DEF PingOf
    <2>2. PeersSound(kp) /\ PingState(PingOf(kp, p))
        BY <1>3 DEF HandlerStep, PeersSound
    <2>3. Answered(PingOf(kp, p), RegisterInboundStream(PingOf(k1, p), s))
        BY <2>1, <2>2, RegisterInboundAnswers
    <2>4. PeerStep(kp, DrainPing(kp, p, RegisterInboundStream(PingOf(k1, p), s)))
        BY <2>2, <2>3, <1>3, DrainPingKeeps
    <2> QED BY <2>4, <1>3, ThenPeer
<1>5. HandlerStep(k, QueueReset(EmitError(IdentifyRespond(k1, p, s), p, c, None), c, s), c, key)
    <2>1. PeersSound(k1)
        BY <1>3 DEF HandlerStep
    <2>2. PeerStep(k1, IdentifyRespond(k1, p, s))
        BY <2>1, <1>3, IdentifyKeeps
    <2>3. HandlerStep(k, IdentifyRespond(k1, p, s), c, key)
        BY <2>2, <1>3, ThenPeer
    <2>4. HandlerStep(k, EmitError(IdentifyRespond(k1, p, s), p, c, None), c, key)
        BY <2>3, ThenOutputs
    <2> QED BY <2>4, ThenOutputs
<1>6. HandlerStep(k, IdentifyRespond(ki, p, s), c, key)
    <2>1. PeersSound(ki)
        BY <1>3 DEF HandlerStep
    <2>2. PeerStep(ki, IdentifyRespond(ki, p, s))
        BY <2>1, <1>3, IdentifyKeeps
    <2> QED BY <2>2, <1>3, ThenPeer
<1>7. HandlerStep(k, Emit(ku, Event("StreamReady", p, c, s)), c, key)
    BY <1>3, ThenOutputs
<1>8. HandlerStep(k, OnInboundNegotiated(k, c, s, protocol), c, key)
    BY <1>d, <1>4, <1>5, <1>6, <1>7
<1> QED BY <1>8 DEF key

\* The Ping part of on_outbound_negotiated
LEMMA PingNegotiatedHandles ==
    ASSUME NEW k, PeersSound(k), StreamsSound(k), NEW c \in Conns, NEW s \in Sids,
           NEW p \in PeerIds, k.peer_to_conn[p] # None, NEW t \in Nat
    PROVE  HandlerStep(k, OnPingNegotiated(k, p, c, s, t), c, <<c, s>>)
<1> DEFINE key == <<c, s>>
           st  == PingOf(k, p)
           k1  == DrainPing(k, p, RegisterOutboundStream(st, s))
           k2  == [k1 EXCEPT !.pending_pings[p] = None]
           k3  == [k EXCEPT !.stream_owner[key] = None]
           k4  == [k3 EXCEPT !.ping[p] = st]
<1>1. PingState(st) /\ s # None /\ Timed(st, k.ping_deadlines[p])
    BY PingAssumption DEF PeersSound, Sids
<1>2. Answered(st, RegisterOutboundStream(st, s))
    BY <1>1, RegisterOutboundAnswers
<1>3. PeerStep(k, k1)
    BY <1>2, DrainPingKeeps
<1>4. k1.ping[p] = RegisterOutboundStream(st, s).state
    <2>1. CoreFields \subseteq DOMAIN k /\ DOMAIN k.ping = PeerIds
        BY DEF PeersSound, PeerShape
    <2> QED BY <2>1 DEF DrainPing, CoreFields, PeerFields
<1>5. PingState(k1.ping[p])
    BY <1>2, <1>4 DEF Answered
<1>d. OnPingNegotiated(k, p, c, s, t) =
        CASE RegisterOutboundRejected(st, s) -> QueueReset(EmitError(k4, p, c, None), c, s)
          [] ~RegisterOutboundRejected(st, s) /\ k1.pending_pings[p] # None ->
                IF SendPingRejected(k1.ping[p])
                THEN EmitError(k2, p, c, None)
                ELSE RecordPingDeadline(
                        DrainPing(k2, p, SendPing(k1.ping[p], k1.pending_pings[p], t)), p, t)
          [] OTHER -> k1
    BY DEF OnPingNegotiated
<1> HIDE DEF k1
<1>6. PeersSound(k1) /\ k1.peer_to_conn[p] # None
    BY <1>3, PeerStepKeepsMaps
<1>7. PeerStep(k1, k2)
    BY <1>6, OtherWritesKeep
<1>8. PeersSound(k2) /\ k2.peer_to_conn[p] # None
    BY <1>6, <1>7, PeerStepKeepsMaps
<1> HIDE DEF k2
<1>9. HandlerStep(k, k1, c, key)
    BY <1>3, PeerStepHandles
<1>10. HandlerStep(k, k2, c, key)
    BY <1>7, <1>9, ThenPeer
<1>11. HandlerStep(k, EmitError(k2, p, c, None), c, key)
    BY <1>10, ThenOutputs
<1>12. ASSUME ~SendPingRejected(k1.ping[p])
       PROVE  HandlerStep(k, RecordPingDeadline(
                    DrainPing(k2, p, SendPing(k1.ping[p], k1.pending_pings[p], t)), p, t), c, key)
    <2>1. k1.ping[p].outbound_stream # None
        BY <1>12 DEF SendPingRejected
    <2>2. PeerStep(k2, RecordPingDeadline(
                    DrainPing(k2, p, SendPing(k1.ping[p], k1.pending_pings[p], t)), p, t))
        BY <2>1, <1>5, <1>8, SendPingKeeps
    <2> QED BY <2>2, <1>10, ThenPeer
<1>13. HandlerStep(k, QueueReset(EmitError(k4, p, c, None), c, s), c, key)
    <2>1. StreamStep(k, k3, key)
        BY StageWrites
    <2> HIDE DEF k3, key, st
    <2>2. /\ HandlerStep(k, k3, c, key) /\ k3.ping = k.ping
          /\ k3.peer_to_conn = k.peer_to_conn
          /\ Agree(k, k3, MapFields \cup PeerFields)
        BY <2>1, StreamStepHandles DEF StreamStep
    <2>3. PeersSound(k3) /\ k3.ping_deadlines = k.ping_deadlines
        BY <2>2 DEF HandlerStep, Agree, PeerFields
    <2>4. PeerStep(k3, k4)
        <3>0. /\ CoreFields \subseteq DOMAIN k3 /\ DOMAIN k3.ping = PeerIds
              /\ DOMAIN k3.identify = PeerIds /\ DOMAIN k3.pending_pings = PeerIds
              /\ DOMAIN k3.peer_info = PeerIds
              /\ k3.ping_deadlines \in [PeerIds -> Nat \cup {None}]
            BY <2>3 DEF PeersSound, PeerShape
        <3>1. /\ Agree(k3, k4, (MapFields \cup StreamFields \cup PeerFields) \ {"ping"})
              /\ k4.ping = [k3.ping EXCEPT ![p] = st]
            BY <3>0 DEF Agree, CoreFields, MapFields, PeerFields, StreamFields
        <3> HIDE DEF k4
        <3>2. k4.ping_deadlines = k3.ping_deadlines
            BY <3>1 DEF Agree, PeerFields
        <3>3. PingOf(k4, p) \in {st, DefaultPeerState}
            BY <3>0, <3>1 DEF PingOf
        <3>4. PingState(PingOf(k4, p)) /\ Timed(PingOf(k4, p), k4.ping_deadlines[p])
            BY <3>2, <3>3, <2>3, <1>1, DefaultIsPingState DEF Timed
        <3>5. k3.peer_to_conn[p] # None
            BY <2>2
        <3>6. PeersSound(k4)
            BY <3>0, <3>1, <3>4, <3>5, <2>3, PeerUpdate DEF Agree, MapFields, PeerFields, StreamFields
        <3>7. Agree(k3, k4, MapFields \cup StreamFields)
            BY <3>1 DEF Agree, MapFields, PeerFields, StreamFields
        <3> QED BY <3>6, <3>7 DEF PeerStep
    <2> HIDE DEF k4
    <2>5. HandlerStep(k, k4, c, key)
        BY <2>2, <2>4, ThenPeer
    <2>6. HandlerStep(k, EmitError(k4, p, c, None), c, key)
        BY <2>5, ThenOutputs
    <2> QED BY <2>6, ThenOutputs
<1> HIDE DEF key
<1>14. HandlerStep(k, OnPingNegotiated(k, p, c, s, t), c, key)
    BY <1>d, <1>9, <1>11, <1>12, <1>13
<1> QED BY <1>14 DEF key

\* on_outbound_negotiated
LEMMA OutboundNegotiatedHandles ==
    ASSUME NEW k, PeersSound(k), StreamsSound(k), NEW c \in Conns, NEW s \in Sids,
           ~Staged(k, <<c, s>>), NEW target \in Targets, NEW t \in Nat
    PROVE  HandlerStep(k, OnOutboundNegotiated(k, c, s, target, t), c, <<c, s>>)
<1> DEFINE key == <<c, s>>
           k1  == EnsurePeerIdForConn(k, c)
           p   == k1.conn_to_peer[c]
           k2  == [k1 EXCEPT !.stream_owner[<<c, s>>] = target]
<1>1. target \in Kinds
    BY DEF Targets, Kinds
<1>2. HandlerStep(k, k2, c, key) /\ p \in PeerIds /\ k2.peer_to_conn[p] # None
    BY <1>1, OwnHandles
<1>d. OnOutboundNegotiated(k, c, s, target, t) =
        CASE target = "Ping" -> OnPingNegotiated(k2, p, c, s, t)
          [] target = "IdentifyInitiator" -> IdentifyListen(k2, p, s)
          [] target = "User" -> Emit(k2, Event("StreamReady", p, c, s))
    BY DEF OnOutboundNegotiated
<1> HIDE DEF k1, k2, p
<1>3. PeersSound(k2) /\ StreamsSound(k2)
    BY <1>2 DEF HandlerStep
<1>4. HandlerStep(k, OnPingNegotiated(k2, p, c, s, t), c, key)
    <2>1. HandlerStep(k2, OnPingNegotiated(k2, p, c, s, t), c, key)
        BY <1>2, <1>3, PingNegotiatedHandles
    <2> QED BY <2>1, <1>2, HandlerStepsCompose
<1>5. HandlerStep(k, IdentifyListen(k2, p, s), c, key)
    <2>1. PeerStep(k2, IdentifyListen(k2, p, s))
        BY <1>2, <1>3, IdentifyKeeps
    <2> QED BY <2>1, <1>2, ThenPeer
<1>6. HandlerStep(k, Emit(k2, Event("StreamReady", p, c, s)), c, key)
    BY <1>2, ThenOutputs
<1> HIDE DEF key
<1>7. HandlerStep(k, OnOutboundNegotiated(k, c, s, target, t), c, key)
    BY <1>d, <1>4, <1>5, <1>6 DEF Targets
<1> QED BY <1>7 DEF key

\* The bytes behind a negotiation
LEMMA RemainingHandles ==
    ASSUME NEW k, PeersSound(k), NEW k1, NEW c \in Conns, NEW s \in Sids,
           HandlerStep(k, k1, c, <<c, s>>), NEW data, NEW oversized, NEW t
    PROVE  HandlerStep(k, WithRemaining(k1, c, s, data, oversized, t), c, <<c, s>>)
<1>1. PeersSound(k1) /\ StreamsSound(k1)
    BY DEF HandlerStep
<1>2. HandlerStep(k1, DispatchProtocolData(k1, c, s, data, oversized, t), c, <<c, s>>)
    BY <1>1, OwnerHandles
<1>3. HandlerStep(k, DispatchProtocolData(k1, c, s, data, oversized, t), c, <<c, s>>)
    BY <1>2, HandlerStepsCompose
<1> QED BY <1>3 DEF WithRemaining

\* feed_inbound_negotiator
LEMMA FeedInboundHandles ==
    ASSUME NEW k, PeersSound(k), StreamsSound(k), NEW c \in Conns, NEW s \in Sids,
           <<c, s>> \in k.inbound_negotiators, NEW t,
           NEW line \in {"incomplete", "unavailable", "error", "ping", "identify", "user"},
           NEW data, NEW oversized
    PROVE  HandlerStep(k, FeedInboundNegotiator(k, c, s, line, data, oversized, t), c, <<c, s>>)
<1> DEFINE key  == <<c, s>>
           gone == [k EXCEPT !.inbound_negotiators = @ \ {<<c, s>>}]
           sent == SendStream(gone, c, s)
<1>d. FeedInboundNegotiator(k, c, s, line, data, oversized, t) =
        CASE line = "incomplete" -> k
          [] line = "unavailable" -> SendStream(k, c, s)
          [] line = "error" -> NegotiationFailed(gone, c, s)
          [] line \in {"ping", "identify", "user"} ->
                WithRemaining(OnInboundNegotiated(sent, c, s, line), c, s, data, oversized, t)
    BY DEF FeedInboundNegotiator
<1>1. StreamStep(k, gone, key)
    BY StageWrites
<1>2. /\ gone.inbound_negotiators = k.inbound_negotiators \ {key}
      /\ gone.outbound_negotiators = k.outbound_negotiators
      /\ gone.stream_owner = k.stream_owner
      /\ gone.abandoned_streams = k.abandoned_streams
    BY DEF StreamsSound, CoreFields, StreamFields
<1> HIDE DEF gone
<1>3. ~Staged(gone, key)
    <2>1. OneStage(k, key)
        BY KeyOf DEF StreamsSound
    <2> QED BY <1>2, <2>1 DEF OneStage, Staged
<1>4. HandlerStep(k, gone, c, key)
    BY <1>1, StreamStepHandles
<1>5. HandlerStep(k, sent, c, key)
    BY <1>4, ThenOutputs
<1>6. ~Staged(sent, key) /\ PeersSound(sent) /\ StreamsSound(sent)
    <2>1. PeersSound(gone) /\ StreamsSound(gone) /\ CoreFields \subseteq DOMAIN gone
        BY <1>4, SoundHasFields DEF HandlerStep
    <2>2. Same(gone, sent)
        BY <2>1, QueuesOnly
    <2>3. Staged(sent, key) <=> Staged(gone, key)
        BY <2>1, <2>2, SameHandles
    <2> QED BY <2>3, <1>3, <1>5 DEF HandlerStep
<1> HIDE DEF sent
<1>7. ASSUME line \in {"ping", "identify", "user"}
      PROVE  HandlerStep(k, WithRemaining(OnInboundNegotiated(sent, c, s, line), c, s, data, oversized, t), c, key)
    <2>1. HandlerStep(sent, OnInboundNegotiated(sent, c, s, line), c, key)
        BY <1>6, <1>7, InboundNegotiatedHandles
    <2>2. HandlerStep(k, OnInboundNegotiated(sent, c, s, line), c, key)
        BY <2>1, <1>5, HandlerStepsCompose
    <2> QED BY <2>2, RemainingHandles
<1>8. HandlerStep(k, NegotiationFailed(gone, c, s), c, key)
    <2>1. \A p : HandlerStep(k, EmitError(gone, p, c, s), c, key)
        BY <1>4, ThenOutputs
    <2>2. \A p : HandlerStep(k, QueueReset(EmitError(gone, p, c, s), c, s), c, key)
        BY <2>1, ThenOutputs
    <2> QED BY <2>2 DEF NegotiationFailed
<1>9. HandlerStep(k, k, c, key) /\ HandlerStep(k, SendStream(k, c, s), c, key)
    <2>1. HandlerStep(k, k, c, key)
        BY StutterHandles
    <2> QED BY <2>1, ThenOutputs
<1> HIDE DEF key
<1>10. HandlerStep(k, FeedInboundNegotiator(k, c, s, line, data, oversized, t), c, key)
    BY <1>d, <1>7, <1>8, <1>9
<1> QED BY <1>10 DEF key

\* feed_outbound_negotiator
LEMMA FeedOutboundHandles ==
    ASSUME NEW k, PeersSound(k), StreamsSound(k), NEW c \in Conns, NEW s \in Sids,
           k.outbound_negotiators[<<c, s>>] # None, NEW t \in Nat,
           NEW line \in {"incomplete", "header", "unavailable", "error", "accepted"},
           NEW data, NEW oversized
    PROVE  HandlerStep(k, FeedOutboundNegotiator(k, c, s, line, data, oversized, t), c, <<c, s>>)
<1> DEFINE key    == <<c, s>>
           target == k.outbound_negotiators[<<c, s>>]
           gone   == [k EXCEPT !.outbound_negotiators[<<c, s>>] = None]
<1>d. FeedOutboundNegotiator(k, c, s, line, data, oversized, t) =
        CASE line = "incomplete" -> k
          [] line = "header" -> SendStream(k, c, s)
          [] line \in {"unavailable", "error"} -> NegotiationFailed(gone, c, s)
          [] line = "accepted" ->
                WithRemaining(OnOutboundNegotiated(gone, c, s, target, t), c, s, data, oversized, t)
    BY DEF FeedOutboundNegotiator
<1>1. StreamStep(k, gone, key)
    BY StageWrites
<1>2. /\ gone.inbound_negotiators = k.inbound_negotiators
      /\ gone.outbound_negotiators = [k.outbound_negotiators EXCEPT ![key] = None]
      /\ gone.stream_owner = k.stream_owner
      /\ gone.abandoned_streams = k.abandoned_streams
    BY DEF StreamsSound, CoreFields, StreamFields
<1> HIDE DEF gone
<1>3. ~Staged(gone, key)
    <2>1. OneStage(k, key) /\ key \in DOMAIN k.outbound_negotiators
        BY KeyOf DEF StreamsSound
    <2> QED BY <1>2, <2>1 DEF OneStage, Staged
<1>4. HandlerStep(k, gone, c, key)
    BY <1>1, StreamStepHandles
<1>5. PeersSound(gone) /\ StreamsSound(gone) /\ target \in Targets
    BY <1>4, KeyOf DEF HandlerStep, StreamsSound
<1> HIDE DEF target
<1>6. HandlerStep(k, WithRemaining(OnOutboundNegotiated(gone, c, s, target, t), c, s, data, oversized, t), c, key)
    <2>1. HandlerStep(gone, OnOutboundNegotiated(gone, c, s, target, t), c, key)
        BY <1>3, <1>5, OutboundNegotiatedHandles
    <2>2. HandlerStep(k, OnOutboundNegotiated(gone, c, s, target, t), c, key)
        BY <2>1, <1>4, HandlerStepsCompose
    <2> QED BY <2>2, RemainingHandles
<1>7. HandlerStep(k, NegotiationFailed(gone, c, s), c, key)
    <2>1. \A p : HandlerStep(k, EmitError(gone, p, c, s), c, key)
        BY <1>4, ThenOutputs
    <2>2. \A p : HandlerStep(k, QueueReset(EmitError(gone, p, c, s), c, s), c, key)
        BY <2>1, ThenOutputs
    <2> QED BY <2>2 DEF NegotiationFailed
<1>8. HandlerStep(k, k, c, key) /\ HandlerStep(k, SendStream(k, c, s), c, key)
    <2>1. HandlerStep(k, k, c, key)
        BY StutterHandles
    <2> QED BY <2>1, ThenOutputs
<1> HIDE DEF key
<1>9. HandlerStep(k, FeedOutboundNegotiator(k, c, s, line, data, oversized, t), c, key)
    BY <1>d, <1>6, <1>7, <1>8
<1> QED BY <1>9 DEF key

\* handle_stream_closed: the stream is in no stage afterwards.
LEMMA StreamClosedHandles ==
    ASSUME NEW k, PeersSound(k), StreamsSound(k), NEW c \in Conns, NEW s \in Sids
    PROVE  /\ HandlerStep(k, HandleStreamClosed(k, c, s), c, <<c, s>>)
           /\ ~Staged(HandleStreamClosed(k, c, s), <<c, s>>)
<1> DEFINE key  == <<c, s>>
           kind == k.stream_owner[key]
           p    == k.conn_to_peer[c]
           k1   == [k EXCEPT !.reset_pending = @ \ {key},
                             !.abandoned_streams = @ \ {key},
                             !.inbound_negotiators = @ \ {key},
                             !.outbound_negotiators[key] = None]
           k2   == [k1 EXCEPT !.stream_owner[key] = None]
           st   == PingOf(k2, p)
<1> USE DEF CoreFields, MapFields, PeerFields, StreamFields
<1>0. /\ CoreFields \subseteq DOMAIN k /\ key \in Keys
      /\ DOMAIN k.outbound_negotiators = Keys /\ DOMAIN k.stream_owner = Keys
      /\ kind \in Kinds \cup {None} /\ OneStage(k, key)
    BY KeyOf DEF StreamsSound
<1>d. HandleStreamClosed(k, c, s) =
        CASE key \in k.abandoned_streams -> k1
          [] key \notin k.abandoned_streams /\ (kind = None \/ p = None) -> k2
          [] OTHER ->
                CASE kind = "Ping" -> InformPing(k2, p, OnStreamClosed(PingOf(k2, p), s))
                  [] kind \in {"IdentifyInitiator", "IdentifyResponder"} -> IdentifyClosed(k2, p, s)
                  [] kind = "User" -> Emit(k2, Event("StreamClosed", p, c, s))
    BY DEF HandleStreamClosed
<1>1. /\ Agree(k, k1, MapFields \cup PeerFields)
      /\ k1.stream_owner = k.stream_owner
      /\ k1.outbound_negotiators = [k.outbound_negotiators EXCEPT ![key] = None]
      /\ k1.inbound_negotiators = k.inbound_negotiators \ {key}
      /\ k1.abandoned_streams = k.abandoned_streams \ {key}
    BY <1>0 DEF Agree
<1> HIDE DEF k1, key
<1>2. StreamStep(k, k1, key)
    <2>1. OneStage(k1, key)
        BY <1>0, <1>1 DEF OneStage
    <2> QED BY <1>0, <1>1, <2>1, StreamUpdate
<1>3. HandlerStep(k, k1, c, key) /\ PeersSound(k1) /\ StreamsSound(k1)
    BY <1>2, StreamStepHandles DEF HandlerStep
<1>4. /\ Agree(k1, k2, MapFields \cup PeerFields)
      /\ k2.stream_owner = [k1.stream_owner EXCEPT ![key] = None]
      /\ k2.outbound_negotiators = k1.outbound_negotiators
      /\ k2.inbound_negotiators = k1.inbound_negotiators
      /\ k2.abandoned_streams = k1.abandoned_streams
    <2>1. CoreFields \subseteq DOMAIN k1
        BY <1>3, SoundHasFields
    <2> QED BY <2>1 DEF Agree
<1>5. StreamStep(k1, k2, key)
    BY <1>3, StageWrites
<1> HIDE DEF k2
<1>6. HandlerStep(k, k2, c, key) /\ k2.peer_to_conn = k.peer_to_conn
    <2>1. HandlerStep(k1, k2, c, key) /\ k2.peer_to_conn = k1.peer_to_conn
        BY <1>3, <1>5, StreamStepHandles
    <2>2. k1.peer_to_conn = k.peer_to_conn
        BY <1>2, StreamStepHandles
    <2> QED BY <2>1, <2>2, <1>3, HandlerStepsCompose
<1>7. ~Staged(k2, key) /\ (key \in k.abandoned_streams => ~Staged(k1, key))
    BY <1>0, <1>1, <1>4 DEF Staged, OneStage
<1>8. PeersSound(k2) /\ StreamsSound(k2)
    BY <1>6 DEF HandlerStep
<1>9. ASSUME NEW k3, PeerStep(k2, k3) PROVE HandlerStep(k, k3, c, key) /\ ~Staged(k3, key)
    <2>1. ~Staged(k3, key)
        BY <1>7, <1>8, <1>9, PeerStepHandles
    <2>2. HandlerStep(k, k3, c, key)
        BY <1>6, <1>9, ThenPeer
    <2> QED BY <2>1, <2>2
<1>10. ASSUME p # None
       PROVE  /\ PeerStep(k2, InformPing(k2, p, OnStreamClosed(st, s)))
              /\ PeerStep(k2, IdentifyClosed(k2, p, s))
              /\ \A e : PeerStep(k2, Emit(k2, e))
    <2>1. p \in PeerIds /\ k2.peer_to_conn[p] # None
        BY <1>6, <1>10, SwarmAssumption DEF PeersSound, PeerShape, MapsAgree
    <2> HIDE DEF p
    <2>2. PingState(st)
        BY <2>1, <1>8 DEF PeersSound
    <2> HIDE DEF st
    <2>3. Answered(st, OnStreamClosed(st, s))
        BY <2>2, EndAnswers
    <2>4. PeerStep(k2, InformPing(k2, p, OnStreamClosed(st, s)))
        BY <2>1, <2>3, <1>8, DrainPingKeeps DEF st
    <2>5. PeerStep(k2, IdentifyClosed(k2, p, s))
        BY <2>1, <1>8, IdentifyKeeps
    <2>6. \A e : PeerStep(k2, Emit(k2, e))
        <3>1. \A e : Same(k2, Emit(k2, e))
            BY <1>8, SoundHasFields, QueuesOnly
        <3> QED BY <3>1, <1>8, SameIsPeerStep
    <2> QED BY <2>4, <2>5, <2>6
<1> DEFINE k3 == HandleStreamClosed(k, c, s)
<1>11. CASE key \in k.abandoned_streams
    <2>1. k3 = k1
        BY <1>11, <1>d
    <2> QED BY <2>1, <1>3, <1>7, <1>11 DEF key
<1>12. CASE key \notin k.abandoned_streams /\ (kind = None \/ p = None)
    <2>1. k3 = k2
        BY <1>12, <1>d
    <2> QED BY <2>1, <1>6, <1>7 DEF key
<1>13. CASE key \notin k.abandoned_streams /\ kind # None /\ p # None
    <2>1. k3 = CASE kind = "Ping" -> InformPing(k2, p, OnStreamClosed(st, s))
                 [] kind \in {"IdentifyInitiator", "IdentifyResponder"} -> IdentifyClosed(k2, p, s)
                 [] kind = "User" -> Emit(k2, Event("StreamClosed", p, c, s))
        BY <1>13, <1>d
    <2>2. kind \in {"Ping", "IdentifyInitiator", "IdentifyResponder", "User"}
        BY <1>0, <1>13 DEF Kinds
    <2> HIDE DEF k3, kind, p, st
    <2>3. p # None
        BY <1>13
    <2>4. PeerStep(k2, k3)
        BY <2>1, <2>2, <2>3, <1>10
    <2>5. HandlerStep(k, k3, c, key) /\ ~Staged(k3, key)
        BY <2>4, <1>9
    <2> QED BY <2>5 DEF k3, key
<1> QED BY <1>11, <1>12, <1>13

\* handle_stream_data: `line` is one of what the negotiation can yield.
LEMMA StreamDataHandles ==
    ASSUME NEW k, PeersSound(k), StreamsSound(k), NEW c \in Conns, NEW s \in Sids, NEW t \in Nat,
           NEW line, NEW data, NEW oversized,
           <<c, s>> \in k.inbound_negotiators =>
                line \in {"incomplete", "unavailable", "error", "ping", "identify", "user"},
           <<c, s>> \notin k.inbound_negotiators /\ k.outbound_negotiators[<<c, s>>] # None =>
                line \in {"incomplete", "header", "unavailable", "error", "accepted"}
    PROVE  HandlerStep(k, HandleStreamData(k, c, s, line, data, oversized, t), c, <<c, s>>)
<1>1. CASE <<c, s>> \in k.inbound_negotiators
    <2>1. HandlerStep(k, FeedInboundNegotiator(k, c, s, line, data, oversized, t), c, <<c, s>>)
        BY <1>1, FeedInboundHandles
    <2> QED BY <2>1, <1>1 DEF HandleStreamData
<1>2. CASE <<c, s>> \notin k.inbound_negotiators /\ k.outbound_negotiators[<<c, s>>] # None
    <2>1. HandlerStep(k, FeedOutboundNegotiator(k, c, s, line, data, oversized, t), c, <<c, s>>)
        BY <1>2, FeedOutboundHandles
    <2> QED BY <2>1, <1>2 DEF HandleStreamData
<1>3. CASE <<c, s>> \notin k.inbound_negotiators /\ k.outbound_negotiators[<<c, s>>] = None
    <2>1. HandlerStep(k, DispatchProtocolData(k, c, s, data, oversized, t), c, <<c, s>>)
        BY OwnerHandles
    <2> QED BY <2>1, <1>3 DEF HandleStreamData
<1> QED BY <1>1, <1>2, <1>3

\* handle_incoming_stream
LEMMA IncomingStreamHandles ==
    ASSUME NEW k, PeersSound(k), StreamsSound(k), NEW c \in Conns, NEW s \in Sids,
           ~Staged(k, <<c, s>>)
    PROVE  HandlerStep(k, HandleIncomingStream(k, c, s), c, <<c, s>>)
<1> DEFINE k1 == [k EXCEPT !.inbound_negotiators = @ \cup {<<c, s>>}]
<1>1. StreamStep(k, k1, <<c, s>>)
    BY StageWrites
<1> HIDE DEF k1
<1>2. HandlerStep(k, k1, c, <<c, s>>)
    BY <1>1, StreamStepHandles
<1>3. HandlerStep(k, SendStream(k1, c, s), c, <<c, s>>)
    BY <1>2, ThenOutputs
<1> QED BY <1>3 DEF HandleIncomingStream, k1

\* Opens that are taken back.
LEMMA FewerOpens ==
    ASSUME NEW k, CoreFields \subseteq DOMAIN k, NEW S
    PROVE  Same(k, [k EXCEPT !.pending_opens = @ \ S])
BY DEF Same, Agree, CoreFields, MapFields, PeerFields, StreamFields

\* handle_open_stream_failed
LEMMA OpenFailedIsSame ==
    ASSUME NEW k, CoreFields \subseteq DOMAIN k, NEW tok
    PROVE  Same(k, HandleOpenStreamFailed(k, tok))
<1> DEFINE matching == {o \in k.pending_opens : o.token = tok}
           k1 == [k EXCEPT !.pending_opens = @ \ matching]
           o  == CHOOSE x \in matching : TRUE
<1>1. Same(k, k1)
    BY FewerOpens
<1>2. CoreFields \subseteq DOMAIN k1
    OBVIOUS
<1> HIDE DEF matching, o
<1>d. HandleOpenStreamFailed(k, tok) =
        IF matching = {} THEN EmitError(k, None, None, None)
        ELSE EmitError(k1, EstablishedPeerForConn(k, o.conn_id), o.conn_id, None)
    BY DEF HandleOpenStreamFailed, matching, o
<1> HIDE DEF k1
<1>3. \A p, d : Same(k1, EmitError(k1, p, d, None))
    BY <1>2, QueuesOnly
<1>4. \A p, d : Same(k, EmitError(k1, p, d, None))
    BY <1>1, <1>3, AgreeComposes DEF Same
<1>5. Same(k, EmitError(k, None, None, None))
    BY QueuesOnly
<1> QED BY <1>d, <1>4, <1>5

\* A non-empty set of natural numbers has a least one, which FirstConn picks.
LEMMA FirstIsIn ==
    ASSUME NEW S \in SUBSET Nat, S # {}
    PROVE  FirstConn(S) \in S /\ \A n \in S : FirstConn(S) <= n
<1> DEFINE R == OpToRel(<, Nat)
<1>1. \A x, y \in Nat : x < y => <<x, y>> \in R
    BY DEF OpToRel
<1>2. IsWellFoundedOn(R, Nat)
    BY NatLessThanWellFounded
<1> HIDE DEF R
<1>3. PICK x \in S : \A y \in S : ~(<<y, x>> \in R)
    BY <1>2, WFMin
<1>4. \A y \in S : y \in Nat /\ x \in Nat /\ ~(y < x)
    BY <1>1, <1>3
<1>5. \A y \in S : x <= y
    BY <1>4
<1> QED BY <1>5 DEF FirstConn

\* forget_stream
LEMMA ForgetHandles ==
    ASSUME NEW k, PeersSound(k), StreamsSound(k), NEW c \in Conns, NEW s \in Sids
    PROVE  /\ HandlerStep(k, ForgetStream(k, c, s), c, <<c, s>>)
           /\ ~Staged(ForgetStream(k, c, s), <<c, s>>)
           /\ ForgetStream(k, c, s).conn_to_peer = k.conn_to_peer
<1> DEFINE key == <<c, s>>
           k2  == ForgetStream(k, c, s)
<1>0. /\ CoreFields \subseteq DOMAIN k /\ key \in Keys
      /\ DOMAIN k.outbound_negotiators = Keys /\ DOMAIN k.stream_owner = Keys
    BY KeyOf DEF StreamsSound
<1>1. /\ Agree(k, k2, MapFields \cup PeerFields)
      /\ k2.stream_owner = [k.stream_owner EXCEPT ![key] = None]
      /\ k2.outbound_negotiators = [k.outbound_negotiators EXCEPT ![key] = None]
      /\ k2.inbound_negotiators = k.inbound_negotiators \ {key}
      /\ k2.abandoned_streams = k.abandoned_streams \ {key}
    BY <1>0 DEF ForgetStream, Agree, CoreFields, MapFields, PeerFields, StreamFields
<1> HIDE DEF k2, key
<1>2. ~Staged(k2, key) /\ OneStage(k2, key)
    BY <1>0, <1>1 DEF Staged, OneStage
<1>3. StreamStep(k, k2, key)
    BY <1>0, <1>1, <1>2, StreamUpdate
<1>4. HandlerStep(k, k2, c, key) /\ k2.conn_to_peer = k.conn_to_peer
    BY <1>3, StreamStepHandles
<1> QED BY <1>2, <1>4 DEF k2, key

\* abandon_stream: no stream enters a stage that was in none.
LEMMA AbandonKeeps ==
    ASSUME NEW k, PeersSound(k), StreamsSound(k), NEW p, NEW s \in Sids
    PROVE  LET k2 == AbandonStream(k, p, s)
           IN  /\ PeersSound(k2) /\ StreamsSound(k2)
               /\ k2.conn_to_peer = k.conn_to_peer
               /\ \A key \in Keys : Staged(k2, key) => Staged(k, key)
<1> DEFINE k1    == [k EXCEPT !.events = WithoutStream(@, p, s)]
           again == AbandonedConns(k, p, s)
           conns == IF DialingConns(k, p, s) # {} THEN DialingConns(k, p, s) ELSE UserConns(k, p, s)
           c     == FirstConn(conns)
           key   == <<c, s>>
           kr    == ResetOnce(k1, key)
           k2    == [kr EXCEPT !.abandoned_streams = @ \cup {key},
                               !.stream_owner[key] = None,
                               !.inbound_negotiators = @ \ {key},
                               !.outbound_negotiators[key] = None]
<1>d. AbandonStream(k, p, s) =
        CASE again # {} -> ResetOnce(k1, <<FirstConn(again), s>>)
          [] again = {} /\ conns = {} -> k1
          [] OTHER -> k2
    BY DEF AbandonStream
<1>0. CoreFields \subseteq DOMAIN k
    BY SoundHasFields
<1>1. Same(k, k1) /\ CoreFields \subseteq DOMAIN k1
    BY <1>0 DEF Same, Agree, CoreFields, MapFields, PeerFields, StreamFields
<1>2. conns # {} => c \in Conns /\ Staged(k, key)
    <2>1. conns \in SUBSET Nat /\ conns \subseteq Conns
        BY SwarmAssumption DEF DialingConns, UserConns, OwningConns
    <2>2. conns # {} => c \in conns
        <3> HIDE DEF conns
        <3> QED BY <2>1, FirstIsIn
    <2>3. \A d \in conns : k.outbound_negotiators[<<d, s>>] # None \/ k.stream_owner[<<d, s>>] # None
        <3>1. "User" # None
            BY SwarmAssumption DEF Kinds
        <3>2. CASE DialingConns(k, p, s) # {}
            BY <3>2 DEF DialingConns
        <3>3. CASE DialingConns(k, p, s) = {}
            BY <3>1, <3>3 DEF UserConns, OwningConns
        <3> QED BY <3>2, <3>3
    <2> HIDE DEF conns, c
    <2> QED BY <2>1, <2>2, <2>3 DEF Staged
<1>3. ASSUME NEW k3, Same(k, k3)
      PROVE  /\ PeersSound(k3) /\ StreamsSound(k3)
             /\ k3.conn_to_peer = k.conn_to_peer
             /\ \A z : Staged(k3, z) <=> Staged(k, z)
    <2>1. PeerStep(k, k3)
        BY <1>3, SameIsPeerStep
    <2>2. k3.conn_to_peer = k.conn_to_peer /\ PeersSound(k3)
        BY <2>1, PeerStepKeepsMaps
    <2>3. StreamsSound(k3) /\ \A z : Staged(k3, z) <=> Staged(k, z)
        BY <1>3, SameHandles DEF HandlerStep
    <2> QED BY <2>2, <2>3
<1> HIDE DEF k1, conns, c, again
<1>4. \A z : Same(k, ResetOnce(k1, z))
    <2>1. \A z : Same(k1, ResetOnce(k1, z))
        BY <1>1, QueuesOnly
    <2> QED BY <2>1, <1>1, AgreeComposes DEF Same
<1>5. ASSUME conns # {}
      PROVE  /\ PeersSound(k2) /\ StreamsSound(k2)
             /\ k2.conn_to_peer = k.conn_to_peer
             /\ \A z \in Keys : Staged(k2, z) => Staged(k, z)
    <2>1. Same(k, kr)
        BY <1>4
    <2>2. /\ PeersSound(kr) /\ StreamsSound(kr)
          /\ kr.conn_to_peer = k.conn_to_peer
          /\ \A z : Staged(kr, z) <=> Staged(k, z)
        BY <2>1, <1>3
    <2> HIDE DEF kr
    <2>3. /\ CoreFields \subseteq DOMAIN kr /\ key \in Keys
          /\ DOMAIN kr.outbound_negotiators = Keys /\ DOMAIN kr.stream_owner = Keys
        BY <2>2, <1>2, <1>5, KeyOf DEF StreamsSound
    <2>4. /\ Agree(kr, k2, MapFields \cup PeerFields)
          /\ k2.stream_owner = [kr.stream_owner EXCEPT ![key] = None]
          /\ k2.outbound_negotiators = [kr.outbound_negotiators EXCEPT ![key] = None]
          /\ k2.inbound_negotiators = kr.inbound_negotiators \ {key}
          /\ k2.abandoned_streams = kr.abandoned_streams \cup {key}
        BY <2>3 DEF Agree, CoreFields, MapFields, PeerFields, StreamFields
    <2> HIDE DEF k2, key
    <2>5. OneStage(k2, key)
        BY <2>3, <2>4 DEF OneStage
    <2>6. StreamStep(kr, k2, key)
        BY <2>2, <2>3, <2>4, <2>5, StreamUpdate
    <2>7. HandlerStep(kr, k2, c, key) /\ k2.conn_to_peer = kr.conn_to_peer
        BY <2>2, <2>6, StreamStepHandles
    <2>8. \A z \in Keys : Staged(k2, z) => Staged(k, z)
        BY <2>2, <2>7, <1>2, <1>5 DEF HandlerStep, StageStep
    <2> QED BY <2>2, <2>7, <2>8 DEF HandlerStep
<1> DEFINE k3 == AbandonStream(k, p, s)
<1>6. CASE again # {}
    <2>1. k3 = ResetOnce(k1, <<FirstConn(again), s>>)
        BY <1>6, <1>d
    <2>2. Same(k, k3)
        BY <2>1, <1>4
    <2> QED BY <2>2, <1>3
<1>7. CASE again = {} /\ conns = {}
    <2>1. k3 = k1
        BY <1>7, <1>d
    <2>2. Same(k, k3)
        BY <2>1, <1>1
    <2> QED BY <2>2, <1>3
<1>8. CASE again = {} /\ conns # {}
    <2>1. k3 = k2
        BY <1>8, <1>d
    <2> QED BY <2>1, <1>5, <1>8
<1> QED BY <1>6, <1>7, <1>8

-----------------------------------------------------------------------------
(* Connections and identities. *)

\* The streams of a connection that is given up are in no stage, the others stay as
\* they are, and no table by peer is touched.
LEMMA StreamsForgotten ==
    ASSUME NEW k, StreamsSound(k), NEW c
    PROVE  LET k2 == ForgetConnectionStreams(k, c)
           IN  /\ Agree(k, k2, MapFields \cup PeerFields)
               /\ StreamsSound(k2)
               /\ \A key \in Keys : Staged(k2, key) => Staged(k, key) /\ key \notin {c} \X Sids
<1> DEFINE k2 == ForgetConnectionStreams(k, c)
           off == {c} \X Sids
<1>0. /\ CoreFields \subseteq DOMAIN k
      /\ DOMAIN k.outbound_negotiators = Keys /\ DOMAIN k.stream_owner = Keys
    BY DEF StreamsSound
<1>1. /\ DOMAIN k2 = DOMAIN k
      /\ \A f \in MapFields \cup PeerFields : k2[f] = k[f]
    BY <1>0 DEF ForgetConnectionStreams, CoreFields, MapFields, PeerFields
<1>2. k2.pending_opens = {o \in k.pending_opens : o.conn_id # c}
    BY <1>0 DEF ForgetConnectionStreams, CoreFields
<1>3. /\ k2.stream_owner = [key \in Keys |-> IF key \in off THEN None ELSE k.stream_owner[key]]
      /\ k2.outbound_negotiators =
            [key \in Keys |-> IF key \in off THEN None ELSE k.outbound_negotiators[key]]
      /\ k2.inbound_negotiators = k.inbound_negotiators \ off
      /\ k2.abandoned_streams = k.abandoned_streams \ off
    BY <1>0 DEF ForgetConnectionStreams, CoreFields, StreamFields
<1> HIDE DEF k2, off
<1>4. Agree(k, k2, MapFields \cup PeerFields)
    BY <1>1, <1>2 DEF Agree
<1>5. \A key \in Keys :
        /\ k2.stream_owner[key] \in Kinds \cup {None}
        /\ k2.outbound_negotiators[key] \in Targets \cup {None}
        /\ OneStage(k2, key)
        /\ Staged(k2, key) => Staged(k, key) /\ key \notin off
    BY <1>3 DEF StreamsSound, OneStage, Staged
<1>6. \A o \in k2.pending_opens : o.target \in Targets
    BY <1>2 DEF StreamsSound
<1>7. CoreFields \subseteq DOMAIN k2 /\ DOMAIN k2.outbound_negotiators = Keys /\ DOMAIN k2.stream_owner = Keys
    BY <1>0, <1>1, <1>3
<1>8. StreamsSound(k2)
    BY <1>5, <1>6, <1>7 DEF StreamsSound
<1> QED BY <1>4, <1>5, <1>8 DEF k2, off

\* Everything kept by peer id is a write to that peer's entries.
PeerForgotten(k, k2, p) ==
    /\ DOMAIN k2 = DOMAIN k
    /\ k2.ping = [k.ping EXCEPT ![p] = None]
    /\ k2.identify = [k.identify EXCEPT ![p] = None]
    /\ k2.ping_deadlines = [k.ping_deadlines EXCEPT ![p] = None]
    /\ k2.peer_info = [k.peer_info EXCEPT ![p] = None]
    /\ k2.ready_peers = k.ready_peers \ {p}
    /\ k2.established_peers = k.established_peers \ {p}

\* supersede_connection, for a connection that has peer p.
LEMMA SupersedeForgets ==
    ASSUME NEW k, PeersSound(k), StreamsSound(k), NEW old \in Conns, NEW p,
           k.conn_to_peer[old] = p, p # None
    PROVE  LET k2 == SupersedeConnection(k, old)
           IN  /\ PeerForgotten(k, k2, p)
               /\ k2.conn_to_peer = [k.conn_to_peer EXCEPT ![old] = None]
               /\ k2.peer_to_conn = k.peer_to_conn
               /\ k2.pending_pings = k.pending_pings
               /\ StreamsSound(k2)
               /\ \A key \in Keys : Staged(k2, key) => Staged(k, key)
<1> DEFINE e  == Event("ConnectionClosed", p, old, None)
           kp == ForgetPeer(Emit([k EXCEPT !.conn_to_peer[old] = None], e), p)
           kf == ForgetConnectionStreams(kp, old)
           k2 == SupersedeConnection(k, old)
<1>0. CoreFields \subseteq DOMAIN k
    BY SoundHasFields
<1>d. k2 = [kf EXCEPT !.conn_to_remote_addr = @ \ {old},
                      !.actions = ActionsNotOn(@, old),
                      !.after_event_actions =
                        Append(ActionsNotOn(@, old), Action("CloseConnection", old, None))]
    BY DEF SupersedeConnection
<1> HIDE DEF e
<1>1. /\ PeerForgotten(k, kp, p)
      /\ kp.conn_to_peer = [k.conn_to_peer EXCEPT ![old] = None]
      /\ kp.peer_to_conn = k.peer_to_conn
      /\ kp.pending_pings = k.pending_pings
    BY <1>0 DEF PeerForgotten, ForgetPeer, Emit, CoreFields, MapFields, PeerFields
<1>2. Agree(k, kp, StreamFields)
    BY <1>0 DEF Agree, ForgetPeer, Emit, CoreFields, StreamFields
<1> HIDE DEF kp
<1>3. StreamsSound(kp) /\ \A key : Staged(kp, key) <=> Staged(k, key)
    BY <1>2, StreamsStaySound
<1>4. /\ Agree(kp, kf, MapFields \cup PeerFields)
      /\ StreamsSound(kf)
      /\ \A key \in Keys : Staged(kf, key) => Staged(kp, key)
    BY <1>3, StreamsForgotten
<1> HIDE DEF kf, k2
<1>5. CoreFields \subseteq DOMAIN kf
    BY <1>4, SoundHasFields
<1>6. Same(kf, k2)
    BY <1>d, <1>5 DEF Same, Agree, CoreFields, MapFields, PeerFields, StreamFields
<1>7. StreamsSound(k2) /\ \A key : Staged(k2, key) <=> Staged(kf, key)
    <2>1. Agree(kf, k2, StreamFields)
        BY <1>6, AgreeWeakens DEF Same
    <2> QED BY <2>1, <1>4, StreamsStaySound
<1>8. DOMAIN k2 = DOMAIN kp /\ \A f \in MapFields \cup PeerFields : k2[f] = kp[f]
    BY <1>4, <1>6 DEF Same, Agree
<1>9. /\ PeerForgotten(k, k2, p)
      /\ k2.conn_to_peer = [k.conn_to_peer EXCEPT ![old] = None]
      /\ k2.peer_to_conn = k.peer_to_conn
      /\ k2.pending_pings = k.pending_pings
    BY <1>1, <1>8 DEF PeerForgotten, MapFields, PeerFields
<1> QED BY <1>3, <1>4, <1>7, <1>9 DEF k2

\* The tables once connection c, which had no peer, is the one of p: the connection that
\* p had before, if any, has lost it.
LEMMA PeerGiven ==
    ASSUME NEW k, PeersSound(k), NEW c \in Conns, NEW p \in Peers, p = RemotePeer[c],
           k.conn_to_peer[c] = None,
           NEW k2, DOMAIN k2 = DOMAIN k,
           k2.conn_to_peer = [d \in Conns |-> IF d = c THEN p
                                              ELSE IF k.peer_to_conn[p] = d THEN None
                                              ELSE k.conn_to_peer[d]],
           k2.peer_to_conn = [k.peer_to_conn EXCEPT ![p] = c],
           k2.pending_pings = k.pending_pings,
           \/ /\ k2.ping = k.ping /\ k2.identify = k.identify /\ k2.peer_info = k.peer_info
              /\ k2.ping_deadlines = k.ping_deadlines
              /\ k2.ready_peers = k.ready_peers
              /\ k2.established_peers = k.established_peers
           \/ PeerForgotten(k, k2, p)
    PROVE  PeersSound(k2)
<1>0. /\ CoreFields \subseteq DOMAIN k /\ p \in PeerIds /\ c \in PeerIds
      /\ None \notin PeerIds /\ None \notin Conns
      /\ k.conn_to_peer \in [Conns -> PeerIds \cup {None}]
      /\ k.peer_to_conn \in [PeerIds -> Conns \cup {None}]
      /\ k.ping_deadlines \in [PeerIds -> Nat \cup {None}]
      /\ DOMAIN k.ping = PeerIds /\ DOMAIN k.identify = PeerIds
      /\ DOMAIN k.pending_pings = PeerIds /\ DOMAIN k.peer_info = PeerIds
      /\ \A d \in Conns : k.conn_to_peer[d] \in {None, d, RemotePeer[d]}
    BY SwarmAssumption DEF PeersSound, PeerShape, PeerIds
<1>1. /\ k2.ping_deadlines \in [PeerIds -> Nat \cup {None}]
      /\ DOMAIN k2.ping = PeerIds /\ DOMAIN k2.identify = PeerIds
      /\ DOMAIN k2.pending_pings = PeerIds /\ DOMAIN k2.peer_info = PeerIds
      /\ \A q \in PeerIds \ {p} :
            /\ k2.ping[q] = k.ping[q] /\ k2.identify[q] = k.identify[q]
            /\ k2.pending_pings[q] = k.pending_pings[q]
            /\ k2.ping_deadlines[q] = k.ping_deadlines[q]
            /\ k2.peer_info[q] = k.peer_info[q]
            /\ q \in k2.ready_peers => q \in k.ready_peers
            /\ q \in k2.established_peers => q \in k.established_peers
      /\ \/ k2.ping[p] = None
         \/ k2.ping[p] = k.ping[p] /\ k2.ping_deadlines[p] = k.ping_deadlines[p]
    BY <1>0 DEF PeerForgotten
<1>2. PeerShape(k2)
    BY <1>0, <1>1 DEF PeerShape
<1>3. MapsAgree(k2)
    <2>1. MapsAgree(k)
        BY DEF PeersSound
    <2> QED BY <2>1, <1>0 DEF MapsAgree
<1>4. \A q \in PeerIds : k2.peer_to_conn[q] = None => Blank(k2, q)
    <2>1. ASSUME NEW q \in PeerIds, k2.peer_to_conn[q] = None PROVE Blank(k2, q)
        <3>1. q # p /\ k.peer_to_conn[q] = None
            BY <2>1, <1>0
        <3>2. Blank(k, q)
            BY <3>1 DEF PeersSound
        <3> QED BY <3>1, <3>2, <1>1 DEF Blank
    <2> QED BY <2>1
<1>5. \A q \in PeerIds : PingState(PingOf(k2, q)) /\ Timed(PingOf(k2, q), k2.ping_deadlines[q])
    <2>1. \A q \in PeerIds : PingState(PingOf(k, q)) /\ Timed(PingOf(k, q), k.ping_deadlines[q])
        BY DEF PeersSound
    <2>2. ASSUME NEW q \in PeerIds \ {p}
          PROVE  PingState(PingOf(k2, q)) /\ Timed(PingOf(k2, q), k2.ping_deadlines[q])
        <3>1. PingOf(k2, q) = PingOf(k, q) /\ k2.ping_deadlines[q] = k.ping_deadlines[q]
            BY <1>1 DEF PingOf
        <3> QED BY <3>1, <2>1
    <2>3. CASE k2.ping[p] = None
        <3>1. PingOf(k2, p) = DefaultPeerState
            BY <2>3 DEF PingOf
        <3>2. PingState(PingOf(k2, p)) /\ Timed(PingOf(k2, p), k2.ping_deadlines[p])
            BY <3>1, DefaultIsPingState DEF Timed
        <3> QED BY <3>2, <2>2
    <2>4. CASE k2.ping[p] = k.ping[p] /\ k2.ping_deadlines[p] = k.ping_deadlines[p]
        <3>1. PingOf(k2, p) = PingOf(k, p)
            BY <2>4 DEF PingOf
        <3> QED BY <3>1, <2>4, <2>1, <2>2, <1>0
    <2> QED BY <2>3, <2>4, <1>1
<1> QED BY <1>2, <1>3, <1>4, <1>5 DEF PeersSound

\* What a connection that is given a peer, or loses it, does to the core: `moved` are the
\* connections whose peer changes.
TablesStep(k, k2, moved) ==
    /\ PeersSound(k2)
    /\ StreamsSound(k2)
    /\ \A d \in Conns \ moved : k2.conn_to_peer[d] = k.conn_to_peer[d]
    /\ \A key \in Keys : Staged(k2, key) => Staged(k, key)

\* Whatever only queues outputs, or records what is known of a peer, may follow.
LEMMA ThenQuietly ==
    ASSUME NEW k, NEW moved, NEW k1, TablesStep(k, k1, moved), NEW k2, PeerStep(k1, k2)
    PROVE  TablesStep(k, k2, moved) /\ k2.conn_to_peer = k1.conn_to_peer
<1>1. PeersSound(k2) /\ k2.conn_to_peer = k1.conn_to_peer
    BY PeerStepKeepsMaps
<1>2. Agree(k1, k2, StreamFields)
    BY AgreeWeakens DEF PeerStep
<1>3. StreamsSound(k2) /\ \A key : Staged(k2, key) <=> Staged(k1, key)
    BY <1>2, StreamsStaySound DEF TablesStep
<1> QED BY <1>1, <1>3 DEF TablesStep

\* An announced connection: the peer is established, the application is told, and a
\* stream is asked for.
LEMMA AnnounceKeeps ==
    ASSUME NEW k, PeersSound(k), NEW p \in PeerIds, k.peer_to_conn[p] # None, NEW e
    PROVE  PeerStep(k, Emit([k EXCEPT !.established_peers = @ \cup {p}], e))
<1> DEFINE k1 == [k EXCEPT !.established_peers = @ \cup {p}]
<1>1. PeerStep(k, k1)
    BY OtherWritesKeep
<1> HIDE DEF k1
<1>2. PeersSound(k1) /\ CoreFields \subseteq DOMAIN k1
    BY <1>1, PeerStepKeepsMaps
<1>3. PeerStep(k1, Emit(k1, e))
    BY <1>2, QueuesOnly, SameIsPeerStep
<1>4. PeerStep(k, Emit(k1, e))
    BY <1>1, <1>3, PeerStepsCompose
<1> QED BY <1>4 DEF k1

\* queue_open_protocol_stream
LEMMA OpenKeeps ==
    ASSUME NEW k, PeersSound(k), NEW p, NEW target \in Targets
    PROVE  PeerStep(k, QueueOpenProtocolStream(k, p, target))
<1>1. CoreFields \subseteq DOMAIN k
    BY SoundHasFields
<1> QED BY <1>1, QueuesOnly, SameIsPeerStep

\* register_connection for a connection that is new to the core.
LEMMA RegisterKeeps ==
    ASSUME NEW k, PeersSound(k), StreamsSound(k), NEW c \in Conns, NEW p \in Peers,
           p = RemotePeer[c], k.conn_to_peer[c] = None
    PROVE  LET k2 == RegisterConnection(k, c, p)
           IN  /\ TablesStep(k, k2, {c, k.peer_to_conn[p]})
               /\ k2.conn_to_peer[c] = p
               /\ \A d \in Conns \ {c} : k.peer_to_conn[p] = d => k2.conn_to_peer[d] = None
<1> DEFINE old == k.peer_to_conn[p]
           k1 == IF old \notin {None, c} THEN SupersedeConnection(k, old) ELSE k
           k2 == [k1 EXCEPT !.conn_to_peer[c] = p, !.peer_to_conn[p] = c]
           k3 == Emit([k2 EXCEPT !.established_peers = @ \cup {p}],
                      Event("ConnectionEstablished", p, c, None))
           k4 == QueueOpenProtocolStream(k3, p, "IdentifyInitiator")
           k5 == QueueOpenProtocolStream(k4, p, "Ping")
           kr == RegisterConnection(k, c, p)
<1>d. kr = k4 \/ kr = k5
    BY DEF RegisterConnection
<1>0. /\ CoreFields \subseteq DOMAIN k /\ p \in PeerIds
      /\ None \notin PeerIds /\ None \notin Conns
      /\ k.conn_to_peer \in [Conns -> PeerIds \cup {None}]
      /\ k.peer_to_conn \in [PeerIds -> Conns \cup {None}]
      /\ MapsAgree(k)
    BY SwarmAssumption DEF PeersSound, PeerShape, PeerIds
<1>1. old # None => old \in Conns /\ k.conn_to_peer[old] = p /\ old # c
    BY <1>0 DEF MapsAgree
<1> HIDE DEF old
<1>2. /\ StreamsSound(k1)
      /\ DOMAIN k1 = DOMAIN k
      /\ \A key \in Keys : Staged(k1, key) => Staged(k, key)
      /\ k1.peer_to_conn = k.peer_to_conn
      /\ k1.pending_pings = k.pending_pings
      /\ k1.conn_to_peer =
            [d \in Conns |-> IF old = d THEN None ELSE k.conn_to_peer[d]]
      /\ \/ /\ k1.ping = k.ping /\ k1.identify = k.identify /\ k1.peer_info = k.peer_info
            /\ k1.ping_deadlines = k.ping_deadlines
            /\ k1.ready_peers = k.ready_peers
            /\ k1.established_peers = k.established_peers
         \/ PeerForgotten(k, k1, p)
    <2>1. CASE old = None
        BY <2>1, <1>0
    <2>2. CASE old # None
        <3> DEFINE ks == SupersedeConnection(k, old)
        <3>1. /\ PeerForgotten(k, ks, p)
              /\ ks.conn_to_peer = [k.conn_to_peer EXCEPT ![old] = None]
              /\ ks.peer_to_conn = k.peer_to_conn
              /\ ks.pending_pings = k.pending_pings
              /\ StreamsSound(ks)
              /\ \A key \in Keys : Staged(ks, key) => Staged(k, key)
            BY <1>1, <2>2, SupersedeForgets, <1>0
        <3> HIDE DEF ks
        <3>2. k1 = ks
            BY <1>1, <2>2 DEF ks
        <3> HIDE DEF k1
        <3>3. ks.conn_to_peer = [d \in Conns |-> IF old = d THEN None ELSE k.conn_to_peer[d]]
            BY <3>1, <1>0, <1>1, <2>2
        <3> QED BY <3>1, <3>2, <3>3 DEF PeerForgotten
    <2> QED BY <2>1, <2>2
<1> HIDE DEF k1
<1>3. /\ DOMAIN k2 = DOMAIN k
      /\ k2.conn_to_peer = [k1.conn_to_peer EXCEPT ![c] = p]
      /\ k2.peer_to_conn = [k.peer_to_conn EXCEPT ![p] = c]
      /\ \A f \in PeerFields : k2[f] = k1[f]
      /\ Agree(k1, k2, StreamFields)
    BY <1>0, <1>2 DEF Agree, CoreFields, MapFields, PeerFields, StreamFields
<1> HIDE DEF k2
<1>4. k2.conn_to_peer = [d \in Conns |-> IF d = c THEN p
                                         ELSE IF k.peer_to_conn[p] = d THEN None
                                         ELSE k.conn_to_peer[d]]
    BY <1>2, <1>3 DEF old
<1>5. /\ k2.pending_pings = k.pending_pings
      /\ \/ /\ k2.ping = k.ping /\ k2.identify = k.identify /\ k2.peer_info = k.peer_info
            /\ k2.ping_deadlines = k.ping_deadlines
            /\ k2.ready_peers = k.ready_peers
            /\ k2.established_peers = k.established_peers
         \/ PeerForgotten(k, k2, p)
    BY <1>2, <1>3 DEF PeerFields, PeerForgotten
<1>6. PeersSound(k2)
    BY <1>3, <1>4, <1>5, PeerGiven
<1>7. StreamsSound(k2) /\ \A key \in Keys : Staged(k2, key) => Staged(k, key)
    BY <1>2, <1>3, StreamsStaySound
<1>8. TablesStep(k, k2, {c, old})
    BY <1>4, <1>6, <1>7 DEF TablesStep, old
<1>9. k2.peer_to_conn[p] # None
    BY <1>3, <1>0
<1>10. PeerStep(k2, k3)
    BY <1>0, <1>6, <1>9, AnnounceKeeps
<1> HIDE DEF k3
<1>11. PeerStep(k3, k4)
    BY <1>10, PeerStepKeepsMaps, OpenKeeps DEF Targets
<1> HIDE DEF k4
<1>12. PeerStep(k4, k5)
    BY <1>11, PeerStepKeepsMaps, OpenKeeps DEF Targets
<1> HIDE DEF k5
<1>13. PeerStep(k2, k4) /\ PeerStep(k2, k5)
    BY <1>10, <1>11, <1>12, PeerStepsCompose
<1>14. PeerStep(k2, kr)
    BY <1>d, <1>13
<1> HIDE DEF kr
<1>15. TablesStep(k, kr, {c, old}) /\ kr.conn_to_peer = k2.conn_to_peer
    BY <1>8, <1>14, ThenQuietly
<1>16. /\ TablesStep(k, kr, {c, k.peer_to_conn[p]})
       /\ kr.conn_to_peer[c] = p
       /\ \A d \in Conns \ {c} : k.peer_to_conn[p] = d => kr.conn_to_peer[d] = None
    BY <1>15, <1>4 DEF old
<1> QED BY <1>16 DEF kr

\* `if let Some(v) = map.remove(old) { map.insert(new, v) }`, where nothing was kept for
\* the new id.
LEMMA RekeyMoves ==
    ASSUME NEW f, NEW old \in DOMAIN f, NEW new \in DOMAIN f, old # new, f[new] = None
    PROVE  LET g == Rekey(f, old, new)
           IN  /\ DOMAIN g = DOMAIN f
               /\ g[new] = f[old]
               /\ g[old] = None
               /\ \A x \in DOMAIN f \ {old, new} : g[x] = f[x]
BY DEF Rekey

\* upgrade_connection_identity of a connection that has its placeholder, to a peer that
\* has no connection.
LEMMA UpgradeKeeps ==
    ASSUME NEW k, PeersSound(k), StreamsSound(k), NEW c \in Conns, NEW p \in Peers,
           p = RemotePeer[c], k.conn_to_peer[c] = c, k.peer_to_conn[p] = None
    PROVE  LET k2 == UpgradeConnectionIdentity(k, c, p)
           IN  TablesStep(k, k2, {c}) /\ k2.conn_to_peer[c] = p
<1> DEFINE k1 == MigratePeer(k, c, p)
           k2 == [k1 EXCEPT !.conn_to_peer[c] = p,
                            !.peer_to_conn[p] = c,
                            !.established_peers = @ \cup {p}]
           ke == Emit(k2, Event("ConnectionEstablished", p, c, None))
           k3 == TryEmitPeerReady(ke, p)
           k4 == QueueOpenProtocolStream(k3, p, "IdentifyInitiator")
           ku == UpgradeConnectionIdentity(k, c, p)
<1>0. /\ CoreFields \subseteq DOMAIN k /\ p \in PeerIds /\ c \in PeerIds /\ c # p
      /\ None \notin PeerIds /\ None \notin Conns
      /\ k.conn_to_peer \in [Conns -> PeerIds \cup {None}]
      /\ k.peer_to_conn \in [PeerIds -> Conns \cup {None}]
      /\ k.ping_deadlines \in [PeerIds -> Nat \cup {None}]
      /\ DOMAIN k.ping = PeerIds /\ DOMAIN k.identify = PeerIds
      /\ DOMAIN k.pending_pings = PeerIds /\ DOMAIN k.peer_info = PeerIds
      /\ \A d \in Conns : k.conn_to_peer[d] \in {None, d, RemotePeer[d]}
      /\ MapsAgree(k)
    BY SwarmAssumption DEF PeersSound, PeerShape, PeerIds
<1>d. ku = k4
    BY <1>0 DEF UpgradeConnectionIdentity
<1>1. Blank(k, p)
    BY <1>0 DEF PeersSound
<1>2. /\ DOMAIN k1 = DOMAIN k
      /\ k1.conn_to_peer = k.conn_to_peer
      /\ k1.peer_to_conn = [k.peer_to_conn EXCEPT ![c] = None]
      /\ k1.ping = Rekey(k.ping, c, p)
      /\ k1.identify = Rekey(k.identify, c, p)
      /\ k1.pending_pings = Rekey(k.pending_pings, c, p)
      /\ k1.ping_deadlines = Rekey(k.ping_deadlines, c, p)
      /\ k1.peer_info = Rekey(k.peer_info, c, p)
      /\ k1.ready_peers = RekeySet(k.ready_peers, c, p)
      /\ k1.established_peers = RekeySet(k.established_peers, c, p)
    BY <1>0 DEF MigratePeer, CoreFields, MapFields, PeerFields
<1>3. Agree(k, k1, StreamFields)
    BY <1>0 DEF MigratePeer, Agree, CoreFields, StreamFields
<1> HIDE DEF k1
<1>4. /\ DOMAIN k2 = DOMAIN k
      /\ k2.conn_to_peer = [k.conn_to_peer EXCEPT ![c] = p]
      /\ k2.peer_to_conn = [k1.peer_to_conn EXCEPT ![p] = c]
      /\ \A f \in PeerFields \ {"established_peers"} : k2[f] = k1[f]
      /\ k2.established_peers = k1.established_peers \cup {p}
      /\ Agree(k1, k2, StreamFields)
    BY <1>0, <1>2 DEF Agree, CoreFields, MapFields, PeerFields, StreamFields
<1> HIDE DEF k2
<1>5. /\ DOMAIN k2.ping = PeerIds /\ k2.ping[p] = k.ping[c] /\ k2.ping[c] = None
      /\ \A q \in PeerIds \ {c, p} : k2.ping[q] = k.ping[q]
    BY <1>0, <1>1, <1>2, <1>4, RekeyMoves DEF Blank, PeerFields
<1>6. /\ DOMAIN k2.identify = PeerIds /\ k2.identify[c] = None
      /\ \A q \in PeerIds \ {c, p} : k2.identify[q] = k.identify[q]
    BY <1>0, <1>1, <1>2, <1>4, RekeyMoves DEF Blank, PeerFields
<1>7. /\ DOMAIN k2.pending_pings = PeerIds /\ k2.pending_pings[c] = None
      /\ \A q \in PeerIds \ {c, p} : k2.pending_pings[q] = k.pending_pings[q]
    BY <1>0, <1>1, <1>2, <1>4, RekeyMoves DEF Blank, PeerFields
<1>8. /\ DOMAIN k2.peer_info = PeerIds /\ k2.peer_info[c] = None
      /\ \A q \in PeerIds \ {c, p} : k2.peer_info[q] = k.peer_info[q]
    BY <1>0, <1>1, <1>2, <1>4, RekeyMoves DEF Blank, PeerFields
<1>9. /\ k2.ping_deadlines \in [PeerIds -> Nat \cup {None}]
      /\ k2.ping_deadlines[p] = k.ping_deadlines[c] /\ k2.ping_deadlines[c] = None
      /\ \A q \in PeerIds \ {c, p} : k2.ping_deadlines[q] = k.ping_deadlines[q]
    <2>1. k2.ping_deadlines = Rekey(k.ping_deadlines, c, p)
        BY <1>2, <1>4 DEF PeerFields
    <2>2. k.ping_deadlines[p] = None
        BY <1>1 DEF Blank
    <2> QED BY <2>1, <2>2, <1>0 DEF Rekey
<1>10. /\ c \notin k2.ready_peers /\ c \notin k2.established_peers
       /\ \A q \in PeerIds \ {c, p} :
            /\ q \in k2.ready_peers => q \in k.ready_peers
            /\ q \in k2.established_peers => q \in k.established_peers
    BY <1>0, <1>2, <1>4 DEF RekeySet, PeerFields
<1>11. PeerShape(k2)
    <2>1. /\ k2.conn_to_peer \in [Conns -> PeerIds \cup {None}]
          /\ \A d \in Conns : k2.conn_to_peer[d] \in {None, d, RemotePeer[d]}
          /\ k2.peer_to_conn \in [PeerIds -> Conns \cup {None}]
        BY <1>0, <1>2, <1>4
    <2> QED BY <2>1, <1>0, <1>4, <1>5, <1>6, <1>7, <1>8, <1>9 DEF PeerShape
<1>12. k2.peer_to_conn = [q \in PeerIds |-> IF q = p THEN c ELSE IF q = c THEN None
                                            ELSE k.peer_to_conn[q]]
    BY <1>0, <1>2, <1>4
<1>13. MapsAgree(k2)
    BY <1>0, <1>4, <1>12 DEF MapsAgree
<1>14. \A q \in PeerIds : k2.peer_to_conn[q] = None => Blank(k2, q)
    <2>1. ASSUME NEW q \in PeerIds, k2.peer_to_conn[q] = None PROVE Blank(k2, q)
        <3>1. q # p
            BY <2>1, <1>12, <1>0
        <3>2. CASE q = c
            BY <3>2, <1>5, <1>6, <1>7, <1>8, <1>9, <1>10 DEF Blank
        <3>3. CASE q # c
            <4>1. Blank(k, q)
                BY <3>1, <3>3, <2>1, <1>12 DEF PeersSound
            <4>2. q \in PeerIds \ {c, p}
                BY <3>1, <3>3
            <4>3. /\ k2.ping[q] = k.ping[q] /\ k2.identify[q] = k.identify[q]
                  /\ k2.pending_pings[q] = k.pending_pings[q]
                  /\ k2.ping_deadlines[q] = k.ping_deadlines[q]
                  /\ k2.peer_info[q] = k.peer_info[q]
                  /\ q \in k2.ready_peers => q \in k.ready_peers
                  /\ q \in k2.established_peers => q \in k.established_peers
                <5>1. k2.ping[q] = k.ping[q]
                    BY <4>2, <1>5
                <5>2. k2.identify[q] = k.identify[q]
                    BY <4>2, <1>6
                <5>3. k2.pending_pings[q] = k.pending_pings[q]
                    BY <4>2, <1>7
                <5>4. k2.ping_deadlines[q] = k.ping_deadlines[q]
                    BY <4>2, <1>9
                <5>5. k2.peer_info[q] = k.peer_info[q]
                    BY <4>2, <1>8
                <5>6. /\ q \in k2.ready_peers => q \in k.ready_peers
                      /\ q \in k2.established_peers => q \in k.established_peers
                    BY <4>2, <1>10
                <5> QED BY <5>1, <5>2, <5>3, <5>4, <5>5, <5>6
            <4> QED BY <4>1, <4>3 DEF Blank
        <3> QED BY <3>2, <3>3
    <2> QED BY <2>1
<1>15. \A q \in PeerIds : PingState(PingOf(k2, q)) /\ Timed(PingOf(k2, q), k2.ping_deadlines[q])
    <2>1. \A q \in PeerIds : PingState(PingOf(k, q)) /\ Timed(PingOf(k, q), k.ping_deadlines[q])
        BY DEF PeersSound
    <2>2. PingOf(k2, p) = PingOf(k, c) /\ PingOf(k2, c) = DefaultPeerState
        BY <1>5 DEF PingOf
    <2>3. \A q \in PeerIds \ {c, p} : PingOf(k2, q) = PingOf(k, q)
        BY <1>5 DEF PingOf
    <2>4. PingState(PingOf(k2, p)) /\ Timed(PingOf(k2, p), k2.ping_deadlines[p])
        BY <2>1, <2>2, <1>0, <1>9
    <2>5. PingState(PingOf(k2, c)) /\ Timed(PingOf(k2, c), k2.ping_deadlines[c])
        BY <2>2, DefaultIsPingState DEF Timed
    <2>6. \A q \in PeerIds \ {c, p} :
            PingState(PingOf(k2, q)) /\ Timed(PingOf(k2, q), k2.ping_deadlines[q])
        BY <2>1, <2>3, <1>9
    <2> QED BY <2>4, <2>5, <2>6
<1>16. PeersSound(k2)
    BY <1>11, <1>13, <1>14, <1>15 DEF PeersSound
<1>17. StreamsSound(k2) /\ \A key : Staged(k2, key) <=> Staged(k, key)
    BY <1>3, <1>4, StreamsStaySound
<1>18. TablesStep(k, k2, {c}) /\ k2.conn_to_peer[c] = p
    BY <1>0, <1>4, <1>16, <1>17 DEF TablesStep
<1>19. PeerStep(k2, ke)
    BY <1>16, QueuesOnly, SoundHasFields, SameIsPeerStep
<1> HIDE DEF ke
<1>20. PeerStep(ke, k3)
    BY <1>19, <1>0, PeerStepKeepsMaps, ReadyKeeps
<1> HIDE DEF k3
<1>21. PeerStep(k3, k4)
    BY <1>20, PeerStepKeepsMaps, OpenKeeps DEF Targets
<1> HIDE DEF k4
<1>22. PeerStep(k2, k4)
    BY <1>19, <1>20, <1>21, PeerStepsCompose
<1>23. TablesStep(k, k4, {c}) /\ k4.conn_to_peer[c] = p
    BY <1>18, <1>22, ThenQuietly
<1> QED BY <1>23, <1>d

\* handle_connection_closed
LEMMA ClosedKeeps ==
    ASSUME NEW k, PeersSound(k), StreamsSound(k), NEW c \in Conns
    PROVE  LET k2 == HandleConnectionClosed(k, c)
           IN  /\ TablesStep(k, k2, {c})
               /\ k2.conn_to_peer[c] = None
               /\ \A key \in Keys : Staged(k2, key) => key \notin {c} \X Sids
<1> DEFINE p  == k.conn_to_peer[c]
           e  == Event("ConnectionClosed", p, c, None)
           k1 == [k EXCEPT !.conn_to_peer[c] = None, !.conn_to_remote_addr = @ \ {c}]
           kq == [k1 EXCEPT !.peer_to_conn[p] = None, !.pending_pings[p] = None]
           kp == Emit(ForgetPeer(kq, p), e)
           ki == IF p = None THEN k1 ELSE kp
           kf == ForgetConnectionStreams(ki, c)
           k2 == HandleConnectionClosed(k, c)
<1>0. /\ CoreFields \subseteq DOMAIN k
      /\ None \notin PeerIds /\ None \notin Conns
      /\ k.conn_to_peer \in [Conns -> PeerIds \cup {None}]
      /\ k.peer_to_conn \in [PeerIds -> Conns \cup {None}]
      /\ k.ping_deadlines \in [PeerIds -> Nat \cup {None}]
      /\ DOMAIN k.ping = PeerIds /\ DOMAIN k.identify = PeerIds
      /\ DOMAIN k.pending_pings = PeerIds /\ DOMAIN k.peer_info = PeerIds
      /\ \A d \in Conns : k.conn_to_peer[d] \in {None, d, RemotePeer[d]}
      /\ MapsAgree(k)
    BY SwarmAssumption DEF PeersSound, PeerShape, PeerIds
<1>1. p # None => p \in PeerIds /\ k.peer_to_conn[p] = c
    BY <1>0 DEF MapsAgree
<1>d. k2 = kf
    BY <1>1 DEF HandleConnectionClosed
<1> HIDE DEF p, e
<1>2. PeersSound(ki) /\ StreamsSound(ki)
      /\ ki.conn_to_peer = [k.conn_to_peer EXCEPT ![c] = None]
      /\ \A key : Staged(ki, key) <=> Staged(k, key)
    <2>1. CASE p = None
        <3>1. k1.conn_to_peer = k.conn_to_peer
            BY <2>1, <1>0 DEF p, CoreFields, MapFields
        <3>2. Same(k, k1)
            BY <3>1, <1>0 DEF Same, Agree, CoreFields, MapFields, PeerFields, StreamFields
        <3> HIDE DEF k1
        <3>3. PeersSound(k1) /\ StreamsSound(k1) /\ \A key : Staged(k1, key) <=> Staged(k, key)
            BY <3>2, SameHandles DEF HandlerStep
        <3>4. k1.conn_to_peer = [k.conn_to_peer EXCEPT ![c] = None]
            BY <3>1, <2>1, <1>0 DEF p
        <3> QED BY <2>1, <3>3, <3>4
    <2>2. CASE p # None
        <3>1. /\ PeerForgotten(k, kp, p)
              /\ kp.conn_to_peer = [k.conn_to_peer EXCEPT ![c] = None]
              /\ kp.peer_to_conn = [k.peer_to_conn EXCEPT ![p] = None]
              /\ kp.pending_pings = [k.pending_pings EXCEPT ![p] = None]
            BY <1>0 DEF PeerForgotten, ForgetPeer, Emit, CoreFields, MapFields, PeerFields
        <3>2. Agree(k, kp, StreamFields)
            BY <1>0 DEF Agree, ForgetPeer, Emit, CoreFields, StreamFields
        <3> HIDE DEF kp
        <3>3. StreamsSound(kp) /\ \A key : Staged(kp, key) <=> Staged(k, key)
            BY <3>2, StreamsStaySound
        <3>4. /\ DOMAIN kp = DOMAIN k
              /\ kp.conn_to_peer \in [Conns -> PeerIds \cup {None}]
              /\ \A d \in Conns : kp.conn_to_peer[d] \in {None, d, RemotePeer[d]}
              /\ kp.peer_to_conn \in [PeerIds -> Conns \cup {None}]
              /\ kp.ping_deadlines \in [PeerIds -> Nat \cup {None}]
              /\ DOMAIN kp.ping = PeerIds /\ DOMAIN kp.identify = PeerIds
              /\ DOMAIN kp.pending_pings = PeerIds /\ DOMAIN kp.peer_info = PeerIds
            <4>1. /\ kp.conn_to_peer \in [Conns -> PeerIds \cup {None}]
                  /\ \A d \in Conns : kp.conn_to_peer[d] \in {None, d, RemotePeer[d]}
                BY <3>1, <1>0
            <4>2. /\ kp.peer_to_conn \in [PeerIds -> Conns \cup {None}]
                  /\ kp.ping_deadlines \in [PeerIds -> Nat \cup {None}]
                <5>1. kp.peer_to_conn \in [PeerIds -> Conns \cup {None}]
                    <6>1. kp.peer_to_conn = [k.peer_to_conn EXCEPT ![p] = None]
                        BY <3>1
                    <6>2. k.peer_to_conn \in [PeerIds -> Conns \cup {None}]
                        BY <1>0
                    <6> QED BY <6>1, <6>2
                <5>2. kp.ping_deadlines = [k.ping_deadlines EXCEPT ![p] = None]
                    BY <3>1 DEF PeerForgotten
                <5>3. kp.ping_deadlines \in [PeerIds -> Nat \cup {None}]
                    BY <5>2, <1>0
                <5> QED BY <5>1, <5>3
            <4>3. /\ DOMAIN kp = DOMAIN k
                  /\ DOMAIN kp.ping = PeerIds /\ DOMAIN kp.identify = PeerIds
                  /\ DOMAIN kp.pending_pings = PeerIds /\ DOMAIN kp.peer_info = PeerIds
                BY <3>1, <1>0 DEF PeerForgotten
            <4> QED BY <4>1, <4>2, <4>3
        <3>5. PeerShape(kp)
            BY <3>4, <1>0 DEF PeerShape
        <3>6. MapsAgree(kp)
            BY <3>1, <1>0, <1>1, <2>2 DEF MapsAgree, p
        <3>7. \A q \in PeerIds : kp.peer_to_conn[q] = None => Blank(kp, q)
            <4>1. Blank(kp, p)
                BY <3>1, <1>0, <1>1, <2>2 DEF Blank, PeerForgotten
            <4>2. ASSUME NEW q \in PeerIds \ {p}, kp.peer_to_conn[q] = None PROVE Blank(kp, q)
                <5>1. Blank(k, q)
                    BY <4>2, <3>1, <1>0 DEF PeersSound
                <5> QED BY <5>1, <4>2, <3>1, <1>0 DEF Blank, PeerForgotten
            <4> QED BY <4>1, <4>2
        <3>8. \A q \in PeerIds :
                PingState(PingOf(kp, q)) /\ Timed(PingOf(kp, q), kp.ping_deadlines[q])
            <4>1. PingOf(kp, p) = DefaultPeerState
                BY <3>1, <1>0, <1>1, <2>2 DEF PingOf, PeerForgotten
            <4>2. PingState(PingOf(kp, p)) /\ Timed(PingOf(kp, p), kp.ping_deadlines[p])
                BY <4>1, DefaultIsPingState DEF Timed
            <4>3. ASSUME NEW q \in PeerIds \ {p}
                  PROVE  PingState(PingOf(kp, q)) /\ Timed(PingOf(kp, q), kp.ping_deadlines[q])
                <5>1. PingOf(kp, q) = PingOf(k, q) /\ kp.ping_deadlines[q] = k.ping_deadlines[q]
                    BY <4>3, <3>1, <1>0 DEF PingOf, PeerForgotten
                <5> QED BY <5>1 DEF PeersSound
            <4> QED BY <4>2, <4>3
        <3>9. PeersSound(kp)
            BY <3>5, <3>6, <3>7, <3>8 DEF PeersSound
        <3> QED BY <2>2, <3>1, <3>3, <3>9
    <2> QED BY <2>1, <2>2
<1> HIDE DEF ki
<1>3. /\ Agree(ki, kf, MapFields \cup PeerFields)
      /\ StreamsSound(kf)
      /\ \A key \in Keys : Staged(kf, key) => Staged(ki, key) /\ key \notin {c} \X Sids
    BY <1>2, StreamsForgotten
<1> HIDE DEF kf
<1>4. PeersSound(kf) /\ kf.conn_to_peer = ki.conn_to_peer
    BY <1>2, <1>3, PeersStaySound DEF Agree, MapFields
<1>5. /\ TablesStep(k, kf, {c})
      /\ kf.conn_to_peer[c] = None
      /\ \A key \in Keys : Staged(kf, key) => key \notin {c} \X Sids
    BY <1>0, <1>2, <1>3, <1>4 DEF TablesStep
<1> QED BY <1>5, <1>d

\* handle_stream_opened, whatever connection the action names.
LEMMA StreamOpenedKeeps ==
    ASSUME NEW k, PeersSound(k), StreamsSound(k), NEW c, NEW s, NEW tok,
           <<c, s>> \in Keys => ~Staged(k, <<c, s>>)
    PROVE  LET k2 == HandleStreamOpened(k, c, s, tok)
           IN  /\ PeersSound(k2) /\ StreamsSound(k2)
               /\ k2.conn_to_peer = k.conn_to_peer
               /\ StageStep(k, k2, <<c, s>>)
<1> DEFINE key == <<c, s>>
           matching == {o \in k.pending_opens : o.token = tok}
           k1 == [k EXCEPT !.pending_opens = @ \ matching]
           o  == CHOOSE x \in matching : TRUE
           k2 == [k1 EXCEPT !.outbound_negotiators[<<c, s>>] = o.target]
           kh == HandleStreamOpened(k, c, s, tok)
           Kept(m) == /\ PeersSound(m) /\ StreamsSound(m)
                      /\ m.conn_to_peer = k.conn_to_peer
                      /\ StageStep(k, m, <<c, s>>)
<1>d. kh = CASE matching = {} -> EmitError(k, None, None, None)
             [] matching # {} /\ o.conn_id # c ->
                    EmitError(k1, EstablishedPeerForConn(k1, c), c, None)
             [] OTHER -> SendStream(k2, c, s)
    BY DEF HandleStreamOpened
<1>0. CoreFields \subseteq DOMAIN k /\ (matching # {} => o \in matching)
    BY SoundHasFields
<1>1. matching # {} => o.target \in Targets
    BY <1>0 DEF StreamsSound
<1> HIDE DEF o, matching, kh
<1>2. Same(k, k1)
    BY <1>0, FewerOpens
<1> HIDE DEF k1
<1>3. ASSUME NEW m, NEW m2, Kept(m), Same(m, m2) PROVE Kept(m2)
    <2>1. PeerStep(m, m2)
        BY <1>3, SameIsPeerStep
    <2>2. StreamsSound(m2) /\ \A z : Staged(m2, z) <=> Staged(m, z)
        BY <2>1, <1>3, PeerStepHandles DEF HandlerStep
    <2>3. PeersSound(m2) /\ m2.conn_to_peer = m.conn_to_peer
        BY <2>1, PeerStepKeepsMaps
    <2> QED BY <2>2, <2>3, <1>3 DEF StageStep
<1>4. Kept(k)
    BY DEF StageStep
<1>5. Kept(k1) /\ CoreFields \subseteq DOMAIN k1
    BY <1>2, <1>3, <1>4, SoundHasFields
<1>6. Kept(EmitError(k, None, None, None))
    BY <1>0, <1>3, <1>4, QueuesOnly
<1>7. Kept(EmitError(k1, EstablishedPeerForConn(k1, c), c, None))
    BY <1>3, <1>5, QueuesOnly
<1>8. ASSUME matching # {} PROVE Kept(SendStream(k2, c, s))
    <2>1. CASE key \in Keys
        <3>1. ~Staged(k1, key)
            BY <1>2, <2>1, SameHandles
        <3>2. StreamStep(k1, k2, key)
            BY <3>1, <1>1, <1>5, <1>8, StageWrites
        <3> HIDE DEF k2
        <3>3. HandlerStep(k1, k2, c, key) /\ k2.conn_to_peer = k1.conn_to_peer
            BY <1>5, <3>2, StreamStepHandles
        <3>4. Kept(k2) /\ CoreFields \subseteq DOMAIN k2
            BY <1>5, <3>3, SoundHasFields DEF HandlerStep, StageStep
        <3> QED BY <1>3, <3>4, QueuesOnly
    <2>2. CASE key \notin Keys
        <3>1. DOMAIN k1.outbound_negotiators = Keys /\ DOMAIN k1.stream_owner = Keys
            BY <1>5 DEF StreamsSound
        <3>2. k2.outbound_negotiators = [k1.outbound_negotiators EXCEPT ![key] = o.target]
            BY <1>5 DEF CoreFields, StreamFields
        <3>3. /\ Agree(k1, k2, MapFields \cup PeerFields)
              /\ k2.stream_owner = k1.stream_owner
              /\ k2.inbound_negotiators = k1.inbound_negotiators
              /\ k2.abandoned_streams = k1.abandoned_streams
            BY <1>5 DEF Agree, CoreFields, MapFields, PeerFields, StreamFields
        <3> HIDE DEF k2, key
        <3>4. StreamStep(k1, k2, key)
            BY <3>1, <3>2, <3>3, <2>2, <1>5, StreamUpdate
        <3>5. HandlerStep(k1, k2, c, key) /\ k2.conn_to_peer = k1.conn_to_peer
            BY <1>5, <3>4, StreamStepHandles
        <3>6. Kept(k2) /\ CoreFields \subseteq DOMAIN k2
            BY <1>5, <3>5, SoundHasFields DEF HandlerStep, StageStep, key
        <3> QED BY <1>3, <3>6, QueuesOnly
    <2> QED BY <2>1, <2>2
<1> HIDE DEF k2, Kept
<1>9. Kept(kh)
    BY <1>d, <1>6, <1>7, <1>8
<1> QED BY <1>9 DEF Kept, kh

-----------------------------------------------------------------------------
(* The core and the transport together. *)

\* A change of the tables, and what the transport did meanwhile.
LEMMA WorldMoves ==
    ASSUME NEW k, NEW tc, NEW ts, NEW w, NEW t, World(k, tc, ts, w, t),
           NEW k2, NEW moved, TablesStep(k, k2, moved),
           NEW tc2 \in [Conns -> ConnStates], NEW ts2 \in [Keys -> StreamStates], NEW t2 \in Nat,
           \A d \in Conns \ moved :
              /\ tc[d] \in HasTransport => tc2[d] \in HasTransport
              /\ tc2[d] = "anonymous" => tc[d] = "anonymous",
           \A d \in Conns : d \in moved =>
              /\ k2.conn_to_peer[d] # None => tc2[d] \in HasTransport /\ d \in w.conns
              /\ tc2[d] = "anonymous" => k2.conn_to_peer[d] = d /\ w.late,
           \A key \in Keys : Staged(k2, key) =>
              /\ tc[key[1]] \in HasTransport => tc2[key[1]] \in HasTransport
              /\ ts[key] \notin {"none", "closed"} => ts2[key] \notin {"none", "closed"}
    PROVE  World(k2, tc2, ts2, w, t2)
<1>1. Attached(k, tc, ts, w) /\ w \in Workloads
    BY DEF World
<1>2. \A c \in Conns : k2.conn_to_peer[c] # None => tc2[c] \in HasTransport /\ c \in w.conns
    BY <1>1 DEF Attached, TablesStep
<1>3. \A c \in Conns : tc2[c] = "anonymous" => k2.conn_to_peer[c] = c /\ w.late
    BY <1>1 DEF Attached, TablesStep
<1>4. \A key \in Keys : Staged(k2, key) =>
        tc2[key[1]] \in HasTransport /\ ts2[key] \notin {"none", "closed"}
    BY <1>1 DEF Attached, TablesStep
<1>5. Attached(k2, tc2, ts2, w)
    BY <1>2, <1>3, <1>4 DEF Attached
<1> QED BY <1>1, <1>5 DEF World, TablesStep

\* Steps that leave every connection its peer, and no stream a new stage.
LEMMA QuietSteps ==
    ASSUME NEW k, PeersSound(k), StreamsSound(k), NEW k2
    PROVE  /\ PeerStep(k, k2) => TablesStep(k, k2, {})
           /\ Same(k, k2) => TablesStep(k, k2, {})
<1>1. TablesStep(k, k, {})
    BY DEF TablesStep
<1>2. PeerStep(k, k2) => TablesStep(k, k2, {})
    BY <1>1, ThenQuietly
<1> QED BY <1>2, SameIsPeerStep

\* The transport stands still, or at most moves its streams on and asks connections to
\* close.
LEMMA WorldQuiet ==
    ASSUME NEW k, NEW tc, NEW ts, NEW w, NEW t, World(k, tc, ts, w, t),
           NEW k2, TablesStep(k, k2, {}), NEW t2 \in Nat,
           NEW tc2 \in [Conns -> ConnStates], NEW ts2 \in [Keys -> StreamStates],
           \A d \in Conns : /\ tc[d] \in HasTransport => tc2[d] \in HasTransport
                            /\ tc2[d] = "anonymous" => tc[d] = "anonymous",
           \A key \in Keys : ts[key] \notin {"none", "closed"} => ts2[key] \notin {"none", "closed"}
    PROVE  World(k2, tc2, ts2, w, t2)
<1>1. \A key \in Keys : key[1] \in Conns
    BY DEF Keys
<1> QED BY <1>1, WorldMoves

\* A handler of stream `key` of a connection the transport has.
LEMMA WorldHandles ==
    ASSUME NEW k, NEW tc, NEW ts, NEW w, NEW t, World(k, tc, ts, w, t),
           NEW c \in Conns, c \in w.conns, tc[c] \in HasTransport,
           NEW key, NEW k2, HandlerStep(k, k2, c, key),
           NEW ts2 \in [Keys -> StreamStates],
           \A other \in Keys : other # key => ts2[other] = ts[other],
           key \in Keys /\ Staged(k2, key) =>
                tc[key[1]] \in HasTransport /\ ts2[key] \notin {"none", "closed"}
    PROVE  World(k2, tc, ts2, w, t)
<1>1. /\ Attached(k, tc, ts, w) /\ w \in Workloads /\ t \in Nat /\ tc \in [Conns -> ConnStates]
      /\ k.conn_to_peer \in [Conns -> PeerIds \cup {None}]
      /\ c # None
    BY SwarmAssumption DEF World, PeersSound, PeerShape
<1>2. \A d \in Conns \ {c} : k2.conn_to_peer[d] = k.conn_to_peer[d]
    BY <1>1 DEF HandlerStep, MapStep
<1>3. k2.conn_to_peer[c] = k.conn_to_peer[c] \/ k2.conn_to_peer[c] = c
    BY <1>1 DEF HandlerStep, MapStep
<1>4. /\ \A d \in Conns : k2.conn_to_peer[d] # None => tc[d] \in HasTransport /\ d \in w.conns
      /\ \A d \in Conns : tc[d] = "anonymous" => k2.conn_to_peer[d] = d /\ w.late
    BY <1>1, <1>2, <1>3 DEF Attached
<1>5. \A z \in Keys : Staged(k2, z) =>
        tc[z[1]] \in HasTransport /\ ts2[z] \notin {"none", "closed"}
    BY <1>1 DEF Attached, HandlerStep, StageStep
<1>6. Attached(k2, tc, ts2, w)
    BY <1>4, <1>5 DEF Attached
<1> QED BY <1>1, <1>6 DEF World, HandlerStep

\* What a workload's fields hold.
LEMMA WorkloadFields ==
    ASSUME NEW w \in Workloads
    PROVE  /\ w.conns \subseteq Conns
           /\ w.local \subseteq Sids
           /\ w.protocols \subseteq {"user", "identify", "ping"}
BY RuntimeAssumption DEF Workload

\* Every swarm starts with empty tables and no connection.
LEMMA InitIsWorld == Init => SwarmInv
<1> SUFFICES ASSUME Init PROVE SwarmInv
    OBVIOUS
<1> DEFINE k == InitialCore
<1>0. CoreFields \subseteq DOMAIN k
    BY DEF InitialCore, CoreFields, MapFields, PeerFields, StreamFields
<1>1. /\ k.conn_to_peer = [c \in Conns |-> None] /\ k.peer_to_conn = [p \in PeerIds |-> None]
      /\ k.ping = [p \in PeerIds |-> None] /\ k.identify = [p \in PeerIds |-> None]
      /\ k.pending_pings = [p \in PeerIds |-> None] /\ k.ping_deadlines = [p \in PeerIds |-> None]
      /\ k.peer_info = [p \in PeerIds |-> None] /\ k.ready_peers = {} /\ k.established_peers = {}
    BY DEF InitialCore
<1>2. /\ k.outbound_negotiators = [key \in Keys |-> None] /\ k.stream_owner = [key \in Keys |-> None]
      /\ k.inbound_negotiators = {} /\ k.abandoned_streams = {} /\ k.pending_opens = {}
    BY DEF InitialCore
<1> HIDE DEF k
<1>3. PeersSound(k)
    <2>1. PeerShape(k) /\ MapsAgree(k)
        BY <1>0, <1>1 DEF PeerShape, MapsAgree
    <2>2. \A p \in PeerIds : Blank(k, p)
        BY <1>1 DEF Blank
    <2>3. \A p \in PeerIds : PingOf(k, p) = DefaultPeerState
        BY <1>1 DEF PingOf
    <2>4. \A p \in PeerIds : PingState(PingOf(k, p)) /\ Timed(PingOf(k, p), k.ping_deadlines[p])
        BY <2>3, DefaultIsPingState DEF Timed
    <2> QED BY <2>1, <2>2, <2>4 DEF PeersSound
<1>4. StreamsSound(k)
    BY <1>0, <1>2 DEF StreamsSound, OneStage
<1>5. Attached(k, tconn, tstream, work)
    BY <1>1, <1>2 DEF Attached, Staged, Init
<1>6. tconn \in [Conns -> ConnStates] /\ tstream \in [Keys -> StreamStates]
    BY DEF Init, ConnStates, StreamStates
<1>7. core = k /\ work \in Workloads /\ now \in Nat
    BY DEF Init, k
<1> QED BY <1>3, <1>4, <1>5, <1>6, <1>7 DEF SwarmInv, World

\* A table change that follows one that only queued outputs.
LEMMA SameThen ==
    ASSUME NEW k, PeersSound(k), StreamsSound(k), NEW k1, Same(k, k1),
           NEW k2, NEW moved, TablesStep(k1, k2, moved)
    PROVE  TablesStep(k, k2, moved)
<1>1. TablesStep(k, k1, {})
    BY QuietSteps
<1> QED BY <1>1 DEF TablesStep

\* flush_actions, when it starts, only queues what was deferred.
LEMMA FlushIsSame ==
    ASSUME NEW k, CoreFields \subseteq DOMAIN k, BeginFlush(k)
    PROVE  Same(k, core')
<1>1. Same(k, [k EXCEPT !.actions = deferred \o @])
    BY DEF Same, Agree, CoreFields, MapFields, PeerFields, StreamFields
<1>2. Same(k, k)
    BY QueuesOnly
<1> QED BY <1>1, <1>2 DEF BeginFlush

\* The invariant after a handler and the flush it starts.
LEMMA FlushedWorld ==
    ASSUME NEW k, World(k, tconn', tstream', work, now'), BeginFlush(k), work' = work
    PROVE  SwarmInv'
<1>1. /\ PeersSound(k) /\ StreamsSound(k) /\ now' \in Nat
      /\ tconn' \in [Conns -> ConnStates] /\ tstream' \in [Keys -> StreamStates]
    BY DEF World
<1>2. CoreFields \subseteq DOMAIN k
    BY <1>1, SoundHasFields
<1>3. Same(k, core')
    BY <1>2, FlushIsSame
<1>4. TablesStep(k, core', {})
    BY <1>1, <1>3, QuietSteps
<1>5. World(core', tconn', tstream', work, now')
    BY <1>1, <1>4, WorldQuiet
<1> QED BY <1>5 DEF SwarmInv

\* The invariant after an event of the transport.
LEMMA DeliveredWorld ==
    ASSUME NEW k, World(k, tconn', tstream', work, now), Deliver(k)
    PROVE  SwarmInv'
<1>1. now' = now /\ work' = work /\ BeginFlush(k)
    BY DEF Deliver
<1> QED BY <1>1, FlushedWorld

\* The invariant, opened.
LEMMA Opened ==
    ASSUME SwarmInv
    PROVE  /\ World(core, tconn, tstream, work, now)
           /\ PeersSound(core) /\ StreamsSound(core)
           /\ CoreFields \subseteq DOMAIN core
           /\ tconn \in [Conns -> ConnStates] /\ tstream \in [Keys -> StreamStates]
           /\ work \in Workloads /\ work.conns \subseteq Conns
           /\ now \in Nat
           /\ Attached(core, tconn, tstream, work)
<1>1. World(core, tconn, tstream, work, now)
    BY DEF SwarmInv
<1> QED BY <1>1, WorkloadFields, SoundHasFields DEF World

-----------------------------------------------------------------------------
(* The transport's events. *)

\* TransportEvent::IncomingConnection
LEMMA IncomingConnectionKeeps ==
    ASSUME SwarmInv, NEW c \in work.conns, IncomingConnection(c)
    PROVE  SwarmInv'
<1> DEFINE k2 == HandleIncomingConnection(core, c)
<1>0. c \in Conns /\ CoreFields \subseteq DOMAIN core
    BY Opened
<1>1. TablesStep(core, k2, {})
    BY <1>0, Opened, QueuesOnly, QuietSteps DEF HandleIncomingConnection
<1>2. Deliver(k2) /\ tconn[c] = "idle" /\ tconn' = [tconn EXCEPT ![c] = "incoming"] /\ tstream' = tstream
    BY DEF IncomingConnection
<1> HIDE DEF k2
<1>3. tconn' \in [Conns -> ConnStates]
    BY <1>0, <1>2, Opened DEF ConnStates
<1>4. \A d \in Conns : /\ tconn[d] \in HasTransport => tconn'[d] \in HasTransport
                       /\ tconn'[d] = "anonymous" => tconn[d] = "anonymous"
    BY <1>0, <1>2, Opened DEF HasTransport
<1>5. World(k2, tconn', tstream', work, now)
    BY <1>1, <1>2, <1>3, <1>4, Opened, WorldQuiet
<1> QED BY <1>2, <1>5, DeliveredWorld

\* TransportEvent::Error
LEMMA TransportErrorKeeps ==
    ASSUME SwarmInv, NEW c \in work.conns, TransportError(c)
    PROVE  SwarmInv'
<1> DEFINE k2 == HandleTransportError(core, c)
<1>1. TablesStep(core, k2, {})
    BY Opened, QueuesOnly, QuietSteps DEF HandleTransportError
<1>2. Deliver(k2) /\ tconn' = tconn /\ tstream' = tstream
    BY DEF TransportError
<1> HIDE DEF k2
<1>3. World(k2, tconn', tstream', work, now)
    BY <1>1, <1>2, Opened, WorldQuiet
<1> QED BY <1>2, <1>3, DeliveredWorld

\* TransportEvent::Connected: a known peer is registered and its previous connection
\* superseded, an unknown one gets its placeholder.
LEMMA ConnectedKeeps ==
    ASSUME SwarmInv, NEW c \in work.conns, Connected(c)
    PROVE  SwarmInv'
<1>0. /\ c \in Conns /\ CoreFields \subseteq DOMAIN core
      /\ PeersSound(core) /\ StreamsSound(core)
      /\ Attached(core, tconn, tstream, work)
    BY Opened
<1> DEFINE k0 == RecordAddr(core, c)
<1>1. tconn[c] \in {"idle", "incoming"} /\ tstream' = tstream
    BY DEF Connected
<1>2. core.conn_to_peer[c] = None
    BY <1>0, <1>1 DEF Attached, HasTransport
<1>3. \A key \in Keys : Staged(core, key) => key[1] # c
    BY <1>0, <1>1 DEF Attached, HasTransport
<1>4. Same(core, k0)
    BY <1>0, QueuesOnly
<1>5. /\ PeersSound(k0) /\ StreamsSound(k0)
      /\ k0.conn_to_peer = core.conn_to_peer /\ k0.peer_to_conn = core.peer_to_conn
    BY <1>0, <1>4, SameIsPeerStep, PeerStepKeepsMaps, SameHandles DEF HandlerStep
<1>6. PICK known \in {TRUE, ~work.late} :
        /\ tconn' = [tconn EXCEPT ![c] = IF known THEN "up" ELSE "anonymous"]
        /\ Deliver(HandleConnected(core, c, IF known THEN RemotePeer[c] ELSE None))
    BY DEF Connected
<1>7. tconn' \in [Conns -> ConnStates] /\ tstream' \in [Keys -> StreamStates]
    BY <1>0, <1>1, <1>6, Opened DEF ConnStates
<1> HIDE DEF k0
<1>8. CASE known
    <2> DEFINE p  == RemotePeer[c]
               k2 == RegisterConnection(k0, c, p)
    <2>1. p \in Peers /\ p # None /\ p \in PeerIds
        BY <1>0, RuntimeAssumption, SwarmAssumption DEF PeerIds
    <2>2. /\ TablesStep(k0, k2, {c, k0.peer_to_conn[p]})
          /\ k2.conn_to_peer[c] = p
          /\ \A d \in Conns \ {c} : k0.peer_to_conn[p] = d => k2.conn_to_peer[d] = None
        BY <1>0, <1>2, <1>5, <2>1, RegisterKeeps
    <2>3. Deliver(k2) /\ tconn' = [tconn EXCEPT ![c] = "up"]
        BY <1>6, <1>8, <2>1 DEF HandleConnected, k0
    <2> HIDE DEF k2
    <2> DEFINE old == core.peer_to_conn[p]
    <2>4. TablesStep(core, k2, {c, old})
        BY <1>0, <1>4, <1>5, <2>2, SameThen
    <2>5. old \in Conns => core.conn_to_peer[old] = p /\ old # p
        BY <1>0, <2>1, SwarmAssumption DEF PeersSound, MapsAgree
    <2>6. \A d \in Conns \ {c} : tconn'[d] = tconn[d]
        BY <2>3, Opened
    <2>7. tconn'[c] = "up"
        BY <2>3, <1>0, Opened
    <2>8. \A d \in Conns : d \in {c, old} =>
            /\ k2.conn_to_peer[d] # None => tconn'[d] \in HasTransport /\ d \in work.conns
            /\ tconn'[d] = "anonymous" => k2.conn_to_peer[d] = d /\ work.late
        <3> SUFFICES ASSUME NEW d \in Conns, d \in {c, old}
                     PROVE  /\ k2.conn_to_peer[d] # None => tconn'[d] \in HasTransport /\ d \in work.conns
                            /\ tconn'[d] = "anonymous" => k2.conn_to_peer[d] = d /\ work.late
            OBVIOUS
        <3>1. CASE d = c
            BY <3>1, <2>7 DEF HasTransport
        <3>2. CASE d # c
            <4>1. d = old /\ k2.conn_to_peer[d] = None
                BY <3>2, <2>2, <1>5
            <4>2. tconn[d] # "anonymous"
                BY <4>1, <2>5, <1>0 DEF Attached
            <4> QED BY <4>1, <4>2, <2>6, <3>2
        <3> QED BY <3>1, <3>2
    <2>9. \A key \in Keys : Staged(k2, key) => tconn'[key[1]] = tconn[key[1]]
        <3>1. \A key \in Keys : key[1] \in Conns
            BY DEF Keys
        <3> QED BY <3>1, <1>3, <2>4, <2>6 DEF TablesStep
    <2>10. \A d \in Conns \ {c, old} :
              /\ tconn[d] \in HasTransport => tconn'[d] \in HasTransport
              /\ tconn'[d] = "anonymous" => tconn[d] = "anonymous"
        BY <2>6
    <2>11. World(k2, tconn', tstream', work, now)
        BY <2>4, <2>8, <2>9, <2>10, <1>1, <1>7, Opened, WorldMoves
    <2> QED BY <2>3, <2>11, DeliveredWorld
<1>9. CASE ~known
    <2> DEFINE k2 == EnsurePeerIdForConn(k0, c)
    <2>1. /\ PeersSound(k2) /\ Agree(k0, k2, PeerFields \cup StreamFields)
          /\ MapStep(k0, k2, c) /\ k2.conn_to_peer[c] \in PeerIds
        BY <1>0, <1>5, EnsureKeeps
    <2>2. Deliver(k2) /\ tconn' = [tconn EXCEPT ![c] = "anonymous"] /\ work.late
        <3>1. HandleConnected(core, c, None) = k2
            BY DEF HandleConnected, k0
        <3> QED BY <3>1, <1>6, <1>9
    <2> HIDE DEF k2
    <2>3. k2.conn_to_peer = [core.conn_to_peer EXCEPT ![c] = c]
        <3>1. None \notin PeerIds
            BY SwarmAssumption DEF PeerIds
        <3> QED BY <2>1, <3>1, <1>2, <1>5 DEF MapStep
    <2>4. StreamsSound(k2) /\ \A key : Staged(k2, key) <=> Staged(k0, key)
        <3>1. Agree(k0, k2, StreamFields)
            BY <2>1, AgreeWeakens
        <3> QED BY <3>1, <1>5, StreamsStaySound
    <2>5. DOMAIN core.conn_to_peer = Conns
        BY <1>0 DEF PeersSound, PeerShape
    <2>6. TablesStep(k0, k2, {c})
        BY <2>1, <2>3, <2>4, <2>5, <1>5 DEF TablesStep
    <2>7. TablesStep(core, k2, {c})
        BY <1>0, <1>4, <2>6, SameThen
    <2>8. \A d \in Conns \ {c} : tconn'[d] = tconn[d]
        BY <2>2, Opened
    <2>9. tconn'[c] = "anonymous" /\ k2.conn_to_peer[c] = c
        BY <2>2, <2>3, <2>5, <1>0, Opened
    <2>10. \A key \in Keys : Staged(k2, key) => tconn'[key[1]] = tconn[key[1]]
        <3>1. \A key \in Keys : key[1] \in Conns
            BY DEF Keys
        <3> QED BY <3>1, <1>3, <2>7, <2>8 DEF TablesStep
    <2>11. \A d \in Conns : d \in {c} =>
            /\ k2.conn_to_peer[d] # None => tconn'[d] \in HasTransport /\ d \in work.conns
            /\ tconn'[d] = "anonymous" => k2.conn_to_peer[d] = d /\ work.late
        BY <2>2, <2>9 DEF HasTransport
    <2>12. \A d \in Conns \ {c} :
              /\ tconn[d] \in HasTransport => tconn'[d] \in HasTransport
              /\ tconn'[d] = "anonymous" => tconn[d] = "anonymous"
        BY <2>8
    <2>13. World(k2, tconn', tstream', work, now)
        BY <2>7, <2>10, <2>11, <2>12, <1>1, <1>7, Opened, WorldMoves
    <2> QED BY <2>2, <2>13, DeliveredWorld
<1> QED BY <1>8, <1>9

\* A connection whose peer is verified late is the only one to that peer.
\* upgrade_connection_identity (core.rs:1151), unlike register_connection, does not
\* supersede, so without this the peer's other connection would be orphaned.
IdentitiesInTime ==
    \A w \in Workloads : w.late =>
        \A c, d \in w.conns : RemotePeer[c] = RemotePeer[d] => c = d

\* TransportEvent::PeerIdentityVerified: the peer has no other connection, by the
\* hypothesis.
LEMMA PeerIdentityVerifiedKeeps ==
    ASSUME SwarmInv, IdentitiesInTime, NEW c \in work.conns, PeerIdentityVerified(c)
    PROVE  SwarmInv'
<1> DEFINE p  == RemotePeer[c]
           k0 == RecordAddr(core, c)
           k2 == UpgradeConnectionIdentity(k0, c, p)
<1>0. /\ c \in Conns /\ CoreFields \subseteq DOMAIN core
      /\ PeersSound(core) /\ StreamsSound(core)
      /\ Attached(core, tconn, tstream, work) /\ work \in Workloads
    BY Opened
<1>1. /\ tconn[c] = "anonymous" /\ tconn' = [tconn EXCEPT ![c] = "up"] /\ tstream' = tstream
      /\ Deliver(k2)
    BY DEF PeerIdentityVerified, HandlePeerIdentityVerified
<1>2. core.conn_to_peer[c] = c /\ work.late
    BY <1>0, <1>1 DEF Attached
<1>3. p \in Peers /\ p \notin Conns /\ p \in PeerIds /\ None \notin Conns
    BY <1>0, RuntimeAssumption, SwarmAssumption DEF PeerIds
<1>4. core.peer_to_conn[p] = None
    <2> DEFINE d == core.peer_to_conn[p]
    <2>1. SUFFICES ASSUME d # None PROVE FALSE
        OBVIOUS
    <2>2. d \in Conns /\ core.conn_to_peer[d] = p
        BY <1>0, <1>3, <2>1 DEF PeersSound, PeerShape, MapsAgree
    <2>3. core.conn_to_peer[d] \in {None, d, RemotePeer[d]} /\ p # None
        BY <1>0, <1>3, <2>2, SwarmAssumption DEF PeersSound, PeerShape
    <2>4. RemotePeer[d] = RemotePeer[c] /\ d \in work.conns
        BY <1>0, <1>3, <2>2, <2>3 DEF Attached
    <2>5. c = d
        BY <1>0, <1>2, <2>4 DEF IdentitiesInTime
    <2> QED BY <1>2, <1>3, <2>2, <2>5, <1>0
<1>5. Same(core, k0)
    BY <1>0, QueuesOnly
<1> HIDE DEF k0
<1>6. /\ PeersSound(k0) /\ StreamsSound(k0)
      /\ k0.conn_to_peer = core.conn_to_peer /\ k0.peer_to_conn = core.peer_to_conn
    BY <1>0, <1>5, SameIsPeerStep, PeerStepKeepsMaps, SameHandles DEF HandlerStep
<1>7. TablesStep(k0, k2, {c}) /\ k2.conn_to_peer[c] = p
    BY <1>0, <1>2, <1>3, <1>4, <1>6, UpgradeKeeps
<1> HIDE DEF k2
<1>8. TablesStep(core, k2, {c})
    BY <1>0, <1>5, <1>7, SameThen
<1>9. tconn' \in [Conns -> ConnStates] /\ tstream' \in [Keys -> StreamStates]
    BY <1>0, <1>1, Opened DEF ConnStates
<1>10. tconn'[c] = "up" /\ \A d \in Conns \ {c} : tconn'[d] = tconn[d]
    BY <1>0, <1>1, Opened
<1>11. \A d \in Conns : /\ tconn[d] \in HasTransport => tconn'[d] \in HasTransport
                        /\ tconn'[d] = "anonymous" => tconn[d] = "anonymous"
    BY <1>10 DEF HasTransport
<1>12. \A d \in Conns : d \in {c} =>
            /\ k2.conn_to_peer[d] # None => tconn'[d] \in HasTransport /\ d \in work.conns
            /\ tconn'[d] = "anonymous" => k2.conn_to_peer[d] = d /\ work.late
    BY <1>10 DEF HasTransport
<1>13. \A key \in Keys : key[1] \in Conns
    BY DEF Keys
<1>14. \A d \in Conns \ {c} :
            /\ tconn[d] \in HasTransport => tconn'[d] \in HasTransport
            /\ tconn'[d] = "anonymous" => tconn[d] = "anonymous"
    BY <1>11
<1>15. \A key \in Keys : Staged(k2, key) =>
            /\ tconn[key[1]] \in HasTransport => tconn'[key[1]] \in HasTransport
            /\ tstream[key] \notin {"none", "closed"} => tstream'[key] \notin {"none", "closed"}
    BY <1>1, <1>11, <1>13
<1>16. World(k2, tconn', tstream', work, now)
    BY <1>8, <1>9, <1>12, <1>14, <1>15, Opened, WorldMoves
<1> QED BY <1>1, <1>16, DeliveredWorld

\* TransportEvent::Closed
LEMMA ClosedEventKeeps ==
    ASSUME SwarmInv, NEW c \in work.conns, Closed(c)
    PROVE  SwarmInv'
<1> DEFINE k2 == HandleConnectionClosed(core, c)
<1>0. c \in Conns /\ PeersSound(core) /\ StreamsSound(core)
    BY Opened
<1>1. tconn' = [tconn EXCEPT ![c] = "closed"] /\ tstream' = tstream /\ Deliver(k2)
    BY DEF Closed
<1>2. /\ TablesStep(core, k2, {c})
      /\ k2.conn_to_peer[c] = None
      /\ \A key \in Keys : Staged(k2, key) => key \notin {c} \X Sids
    BY <1>0, ClosedKeeps
<1> HIDE DEF k2
<1>3. tconn' \in [Conns -> ConnStates] /\ tstream' \in [Keys -> StreamStates]
    BY <1>0, <1>1, Opened DEF ConnStates
<1>4. tconn'[c] = "closed" /\ \A d \in Conns \ {c} : tconn'[d] = tconn[d]
    BY <1>0, <1>1, Opened
<1>5. \A key \in Keys : Staged(k2, key) => key[1] \in Conns \ {c}
    <2>1. \A key \in Keys : key \notin {c} \X Sids => key[1] \in Conns \ {c}
        BY DEF Keys
    <2> QED BY <2>1, <1>2
<1>6. \A d \in Conns : d \in {c} =>
            /\ k2.conn_to_peer[d] # None => tconn'[d] \in HasTransport /\ d \in work.conns
            /\ tconn'[d] = "anonymous" => k2.conn_to_peer[d] = d /\ work.late
    BY <1>2, <1>4
<1>7. \A d \in Conns \ {c} :
            /\ tconn[d] \in HasTransport => tconn'[d] \in HasTransport
            /\ tconn'[d] = "anonymous" => tconn[d] = "anonymous"
    BY <1>4
<1>8. \A key \in Keys : Staged(k2, key) =>
            /\ tconn[key[1]] \in HasTransport => tconn'[key[1]] \in HasTransport
            /\ tstream[key] \notin {"none", "closed"} => tstream'[key] \notin {"none", "closed"}
    BY <1>1, <1>4, <1>5
<1>9. World(k2, tconn', tstream', work, now)
    BY <1>2, <1>3, <1>6, <1>7, <1>8, Opened, WorldMoves
<1> QED BY <1>1, <1>9, DeliveredWorld

\* The parts that the events of a stream share: stream (c, s) of the core is handled and
\* at most its own transport state changes.
LEMMA StreamEventKeeps ==
    ASSUME SwarmInv, NEW c \in work.conns, NEW s \in Sids, tconn[c] \in {"anonymous", "up"},
           NEW k2, HandlerStep(core, k2, c, <<c, s>>), Deliver(k2),
           tconn' = tconn, NEW st \in StreamStates, tstream' = [tstream EXCEPT ![<<c, s>>] = st],
           Staged(k2, <<c, s>>) => st \notin {"none", "closed"}
    PROVE  SwarmInv'
<1> DEFINE key == <<c, s>>
<1>0. c \in Conns /\ key \in Keys
    BY Opened, KeyOf
<1>1. key[1] = c /\ tconn[c] \in HasTransport
    BY DEF HasTransport
<1> HIDE DEF key
<1>2. /\ tstream' \in [Keys -> StreamStates]
      /\ tstream'[key] = st
      /\ \A other \in Keys : other # key => tstream'[other] = tstream[other]
    BY <1>0, Opened DEF key
<1>3. World(k2, tconn, tstream', work, now)
    BY <1>0, <1>1, <1>2, Opened, WorldHandles DEF key
<1> QED BY <1>3, DeliveredWorld

\* TransportEvent::IncomingStream
LEMMA IncomingStreamKeeps ==
    ASSUME SwarmInv, NEW c \in work.conns, NEW s \in Sids, IncomingStream(c, s)
    PROVE  SwarmInv'
<1> DEFINE k2 == HandleIncomingStream(core, c, s)
<1>0. /\ tconn[c] \in {"anonymous", "up"} /\ tstream[<<c, s>>] = "none" /\ tconn' = tconn
      /\ tstream' = [tstream EXCEPT ![<<c, s>>] = "open"] /\ Deliver(k2)
    BY DEF IncomingStream
<1>1. c \in Conns /\ <<c, s>> \in Keys
    BY Opened, KeyOf
<1>2. ~Staged(core, <<c, s>>)
    BY <1>0, <1>1, Opened DEF Attached
<1>3. HandlerStep(core, k2, c, <<c, s>>)
    BY <1>1, <1>2, Opened, IncomingStreamHandles
<1> HIDE DEF k2
<1>4. "open" \in StreamStates
    BY DEF StreamStates
<1> QED BY <1>0, <1>3, <1>4, StreamEventKeeps

\* TransportEvent::StreamData
LEMMA StreamDataKeeps ==
    ASSUME SwarmInv, NEW c \in work.conns, NEW s \in Sids, StreamData(c, s)
    PROVE  SwarmInv'
<1> DEFINE key == <<c, s>>
<1>0. /\ tconn[c] \in {"anonymous", "up"} /\ tstream[key] \in {"open", "dying"}
      /\ tconn' = tconn /\ tstream' = tstream
    BY DEF StreamData, Readable
<1>1. c \in Conns /\ key \in Keys /\ now \in Nat /\ work \in Workloads
    BY Opened, KeyOf
<1>2. PICK line \in Lines(c, s) : \E data \in Payloads(line) :
        Deliver(HandleStreamData(core, c, s, line, data, Len(data) > 1, now))
    BY DEF StreamData
<1>3. PICK data : Deliver(HandleStreamData(core, c, s, line, data, Len(data) > 1, now))
    BY <1>2
<1> DEFINE k2 == HandleStreamData(core, c, s, line, data, Len(data) > 1, now)
<1>4. /\ <<c, s>> \in core.inbound_negotiators =>
            line \in {"incomplete", "unavailable", "error", "ping", "identify", "user"}
      /\ <<c, s>> \notin core.inbound_negotiators /\ core.outbound_negotiators[<<c, s>>] # None =>
            line \in {"incomplete", "header", "unavailable", "error", "accepted"}
    <2>1. work.protocols \subseteq {"user", "identify", "ping"}
        BY <1>1, WorkloadFields
    <2> QED BY <1>2, <2>1 DEF Lines
<1>5. HandlerStep(core, k2, c, <<c, s>>)
    BY <1>1, <1>4, Opened, StreamDataHandles
<1>6. tstream' = [tstream EXCEPT ![<<c, s>>] = tstream[key]] /\ tstream[key] \in StreamStates
    BY <1>0, <1>1, Opened DEF StreamStates
<1> HIDE DEF k2
<1> QED BY <1>0, <1>3, <1>5, <1>6, StreamEventKeeps DEF k2

\* TransportEvent::StreamRemoteWriteClosed
LEMMA RemoteWriteClosedKeeps ==
    ASSUME SwarmInv, NEW c \in work.conns, NEW s \in Sids, StreamRemoteWriteClosed(c, s)
    PROVE  SwarmInv'
<1> DEFINE key == <<c, s>>
           st  == IF tstream[key] = "dying" THEN "dying" ELSE "finished"
<1>0. /\ tconn[c] \in {"anonymous", "up"} /\ tconn' = tconn
      /\ tstream' = [tstream EXCEPT ![key] = st]
    BY DEF StreamRemoteWriteClosed, Readable
<1>1. c \in Conns /\ now \in Nat
    BY Opened
<1>2. PICK info : Deliver(HandleStreamRemoteWriteClosed(core, c, s, info))
    BY DEF StreamRemoteWriteClosed
<1> DEFINE k2 == HandleStreamRemoteWriteClosed(core, c, s, info)
<1>3. HandlerStep(core, k2, c, <<c, s>>)
    BY <1>1, Opened, OwnerHandles
<1> HIDE DEF k2
<1>4. st \in StreamStates /\ st \notin {"none", "closed"}
    BY DEF StreamStates
<1> QED BY <1>0, <1>2, <1>3, <1>4, StreamEventKeeps DEF k2

\* TransportEvent::StreamClosed
LEMMA StreamClosedEventKeeps ==
    ASSUME SwarmInv, NEW c \in work.conns, NEW s \in Sids, StreamClosed(c, s)
    PROVE  SwarmInv'
<1> DEFINE k2 == HandleStreamClosed(core, c, s)
<1>0. /\ tconn[c] \in {"anonymous", "up"} /\ tconn' = tconn
      /\ tstream' = [tstream EXCEPT ![<<c, s>>] = "closed"] /\ Deliver(k2)
    BY DEF StreamClosed, Readable
<1>1. c \in Conns
    BY Opened
<1>2. HandlerStep(core, k2, c, <<c, s>>) /\ ~Staged(k2, <<c, s>>)
    BY <1>1, Opened, StreamClosedHandles
<1> HIDE DEF k2
<1>3. "closed" \in StreamStates
    BY DEF StreamStates
<1> QED BY <1>0, <1>2, <1>3, StreamEventKeeps

-----------------------------------------------------------------------------
(* The runtime. *)

\* A stream enters a stage without a connection changing its peer.
LEMMA WorldOpens ==
    ASSUME NEW k, NEW tc, NEW ts, NEW w, NEW t, World(k, tc, ts, w, t),
           NEW key, NEW k2, PeersSound(k2), StreamsSound(k2),
           k2.conn_to_peer = k.conn_to_peer, StageStep(k, k2, key),
           NEW ts2 \in [Keys -> StreamStates],
           \A other \in Keys : other # key => ts2[other] = ts[other],
           key \in Keys => tc[key[1]] \in HasTransport /\ ts2[key] \notin {"none", "closed"}
    PROVE  World(k2, tc, ts2, w, t)
<1>1. Attached(k, tc, ts, w) /\ w \in Workloads /\ t \in Nat /\ tc \in [Conns -> ConnStates]
    BY DEF World
<1>2. \A z \in Keys : Staged(k2, z) =>
        tc[z[1]] \in HasTransport /\ ts2[z] \notin {"none", "closed"}
    BY <1>1 DEF Attached, StageStep
<1>3. Attached(k2, tc, ts2, w)
    BY <1>1, <1>2 DEF Attached
<1> QED BY <1>1, <1>3 DEF World

\* The invariant of a core that differs from the present one in its outputs, with the
\* transport as it is.
LEMMA PoppedWorld ==
    ASSUME SwarmInv, NEW k, Same(core, k)
    PROVE  World(k, tconn, tstream, work, now) /\ CoreFields \subseteq DOMAIN k
<1>1. TablesStep(core, k, {})
    BY Opened, QuietSteps
<1>2. World(k, tconn, tstream, work, now)
    BY <1>1, Opened, WorldQuiet
<1> QED BY <1>2, SoundHasFields DEF World

\* dispatch_action of OpenStream: a stream is opened under an id that no stream of the
\* connection had, or the failure is fed back.
LEMMA DispatchOpenKeeps ==
    ASSUME NEW k, World(k, tconn, tstream, work, now), NEW a, DispatchOpenStream(k, a),
           work' = work, now' = now
    PROVE  SwarmInv'
<1>0. /\ PeersSound(k) /\ StreamsSound(k) /\ CoreFields \subseteq DOMAIN k
      /\ tconn \in [Conns -> ConnStates] /\ tstream \in [Keys -> StreamStates]
      /\ work \in Workloads /\ now \in Nat /\ Attached(k, tconn, tstream, work)
    BY SoundHasFields DEF World
<1>1. CASE /\ tconn[a.conn] \in {"anonymous", "up"}
           /\ FreeLocalSids(a.conn) # {}
           /\ LET s == FirstConn(FreeLocalSids(a.conn))
              IN  /\ core' = HandleStreamOpened(k, a.conn, s, a.token)
                  /\ tstream' = [tstream EXCEPT ![<<a.conn, s>>] = "fresh"]
           /\ UNCHANGED tconn
    <2> DEFINE c == a.conn
               s == FirstConn(FreeLocalSids(c))
               key == <<c, s>>
    <2>1. FreeLocalSids(c) \in SUBSET Nat
        BY <1>0, WorkloadFields, PingAssumption DEF FreeLocalSids, Sids
    <2>2. s \in FreeLocalSids(c)
        BY <1>1, <2>1, FirstIsIn
    <2>3. tstream[key] = "none" /\ tconn[c] \in HasTransport
        BY <1>1, <2>2 DEF FreeLocalSids, HasTransport
    <2>4. key \in Keys => ~Staged(k, key)
        BY <1>0, <2>3 DEF Attached
    <2>5. /\ core' = HandleStreamOpened(k, c, s, a.token)
          /\ tstream' = [tstream EXCEPT ![key] = "fresh"]
          /\ tconn' = tconn
        BY <1>1
    <2> HIDE DEF s, c
    <2>6. /\ PeersSound(core') /\ StreamsSound(core')
          /\ core'.conn_to_peer = k.conn_to_peer
          /\ StageStep(k, core', key)
        BY <1>0, <2>4, <2>5, StreamOpenedKeeps
    <2>7. key[1] = c
        OBVIOUS
    <2> HIDE DEF key
    <2>8. /\ tstream' \in [Keys -> StreamStates]
          /\ \A other \in Keys : other # key => tstream'[other] = tstream[other]
          /\ key \in Keys => tstream'[key] = "fresh"
        BY <1>0, <2>5 DEF StreamStates
    <2>9. World(core', tconn, tstream', work, now)
        BY <2>3, <2>6, <2>7, <2>8, WorldOpens
    <2> QED BY <2>5, <2>9 DEF SwarmInv
<1>2. CASE core' = HandleOpenStreamFailed(k, a.token) /\ UNCHANGED <<tconn, tstream>>
    <2>1. TablesStep(k, core', {})
        BY <1>0, <1>2, OpenFailedIsSame, QuietSteps
    <2>2. World(core', tconn, tstream, work, now)
        BY <1>0, <2>1, WorldQuiet
    <2> QED BY <1>2, <2>2 DEF SwarmInv
<1> QED BY <1>1, <1>2 DEF DispatchOpenStream

\* dispatch_action
LEMMA DispatchKeeps ==
    ASSUME SwarmInv, DispatchAction
    PROVE  SwarmInv'
<1> DEFINE a == Head(core.actions)
           k == [core EXCEPT !.actions = Tail(@)]
<1>0. work' = work /\ now' = now
    BY DEF DispatchAction
<1>1. \/ DispatchOpenStream(k, a)
      \/ DispatchWrite(k, a)
      \/ DispatchReset(k, a)
      \/ DispatchClose(k, a)
    BY DEF DispatchAction
<1>2. Same(core, k)
    BY Opened DEF Same, Agree, CoreFields, MapFields, PeerFields, StreamFields
<1> HIDE DEF a, k
<1>3. World(k, tconn, tstream, work, now) /\ CoreFields \subseteq DOMAIN k
    BY <1>2, PoppedWorld
<1>4. /\ PeersSound(k) /\ StreamsSound(k) /\ now \in Nat
      /\ tconn \in [Conns -> ConnStates] /\ tstream \in [Keys -> StreamStates]
    BY <1>3 DEF World
<1>5. ASSUME NEW k2, Same(k, k2) PROVE TablesStep(k, k2, {})
    BY <1>4, <1>5, QuietSteps
<1>6. CASE DispatchOpenStream(k, a)
    BY <1>0, <1>3, <1>6, DispatchOpenKeeps
<1>7. CASE DispatchWrite(k, a)
    <2>1. Same(k, core') /\ tconn' = tconn /\ tstream' = tstream
        BY <1>3, <1>7, QueuesOnly DEF DispatchWrite
    <2>2. World(core', tconn, tstream, work, now)
        BY <1>3, <1>4, <1>5, <2>1, WorldQuiet
    <2> QED BY <1>0, <2>1, <2>2 DEF SwarmInv
<1>8. CASE DispatchReset(k, a)
    <2>1. Same(k, core')
        <3> DEFINE k1 == ResetStreamFailed(k, a.conn, a.stream)
        <3>1. Same(k, k) /\ Same(k, k1)
            BY <1>3, QueuesOnly
        <3>2. CoreFields \subseteq DOMAIN k1
            BY <1>3, <3>1 DEF Same, Agree
        <3> HIDE DEF k1
        <3>3. Same(k1, EmitError(k1, None, a.conn, a.stream))
            BY <3>2, QueuesOnly
        <3>4. Same(k, EmitError(k1, None, a.conn, a.stream))
            BY <3>1, <3>3, AgreeComposes DEF Same
        <3> QED BY <1>8, <3>1, <3>4 DEF DispatchReset, k1
    <2>2. tconn' = tconn /\ tstream' \in {tstream, [tstream EXCEPT ![<<a.conn, a.stream>>] = "dying"]}
        BY <1>8 DEF DispatchReset
    <2>3. /\ tstream' \in [Keys -> StreamStates]
          /\ \A key \in Keys : tstream[key] \notin {"none", "closed"} => tstream'[key] \notin {"none", "closed"}
        BY <1>4, <2>2 DEF StreamStates
    <2>4. World(core', tconn, tstream', work, now)
        BY <1>3, <1>4, <1>5, <2>1, <2>3, WorldQuiet
    <2> QED BY <1>0, <2>2, <2>4 DEF SwarmInv
<1>9. CASE DispatchClose(k, a)
    <2>1. core' = k /\ tstream' = tstream
        BY <1>9 DEF DispatchClose
    <2>2. tconn' = [tconn EXCEPT ![a.conn] =
                        IF tconn[a.conn] \in {"idle", "closed"} THEN tconn[a.conn] ELSE "closing"]
        BY <1>9 DEF DispatchClose
    <2>3. /\ tconn' \in [Conns -> ConnStates]
          /\ \A d \in Conns : /\ tconn[d] \in HasTransport => tconn'[d] \in HasTransport
                              /\ tconn'[d] = "anonymous" => tconn[d] = "anonymous"
        BY <1>4, <2>2 DEF ConnStates, HasTransport
    <2>4. TablesStep(k, k, {})
        BY <1>3, <1>5, QueuesOnly
    <2>5. World(k, tconn', tstream, work, now)
        BY <1>3, <1>4, <2>3, <2>4, WorldQuiet
    <2> QED BY <1>0, <2>1, <2>5 DEF SwarmInv
<1> QED BY <1>1, <1>6, <1>7, <1>8, <1>9

\* Steps that leave the core's tables and the transport alone.
LEMMA IdleKeeps ==
    ASSUME SwarmInv, Same(core, core'), tconn' = tconn, tstream' = tstream, work' = work,
           now' \in Nat
    PROVE  SwarmInv'
<1>1. TablesStep(core, core', {})
    BY Opened, QuietSteps
<1>2. World(core', tconn, tstream, work, now')
    BY <1>1, Opened, WorldQuiet
<1> QED BY <1>2 DEF SwarmInv

\* The steps of poll and of the flush.
LEMMA RuntimeKeeps ==
    ASSUME SwarmInv, Runtime
    PROVE  SwarmInv'
<1>0. Same(core, core) /\ now \in Nat /\ CoreFields \subseteq DOMAIN core
    BY Opened, QueuesOnly
<1>1. CASE DispatchAction
    BY <1>1, DispatchKeeps
<1>2. CASE SurfaceEvents
    <2>1. Same(core, core')
        BY <1>0, <1>2 DEF SurfaceEvents, Same, Agree, CoreFields, MapFields, PeerFields, StreamFields
    <2>2. tconn' = tconn /\ tstream' = tstream /\ work' = work /\ now' = now
        BY <1>2 DEF SurfaceEvents
    <2> QED BY <1>0, <2>1, <2>2, IdleKeeps
<1>3. CASE PollStarts
    <2>1. BeginFlush(core) /\ tconn' = tconn /\ tstream' = tstream /\ work' = work /\ now' \in {now, now + 1}
        BY <1>3 DEF PollStarts
    <2>2. Same(core, core') /\ now' \in Nat
        BY <1>0, <2>1, FlushIsSame
    <2> QED BY <2>1, <2>2, IdleKeeps
<1>4. CASE TransportPolled
    <2>1. core' = core /\ tconn' = tconn /\ work' = work /\ now' = now
        BY <1>4 DEF TransportPolled
    <2>2. /\ tstream' \in [Keys -> StreamStates]
          /\ \A key \in Keys : tstream[key] \notin {"none", "closed"} => tstream'[key] \notin {"none", "closed"}
        BY <1>4, Opened DEF TransportPolled, StreamStates
    <2>3. TablesStep(core, core, {})
        BY <1>0, Opened, QuietSteps
    <2>4. World(core, tconn, tstream', work, now)
        BY <2>2, <2>3, Opened, WorldQuiet
    <2> QED BY <2>1, <2>4 DEF SwarmInv
<1>5. CASE Tick
    <2> DEFINE k == HandleTick(core, now)
    <2>1. BeginFlush(k) /\ tconn' = tconn /\ tstream' = tstream /\ work' = work /\ now' = now
        BY <1>5 DEF Tick
    <2>2. TablesStep(core, k, {})
        BY Opened, TickKeeps, QuietSteps
    <2> HIDE DEF k
    <2>3. World(k, tconn, tstream, work, now)
        BY <2>2, Opened, WorldQuiet
    <2> QED BY <2>1, <2>3, FlushedWorld
<1>6. CASE PollReturns \/ PollNextReturns \/ TakeBuffered
    <2>1. core' = core /\ tconn' = tconn /\ tstream' = tstream /\ work' = work /\ now' = now
        BY <1>6 DEF PollReturns, PollNextReturns, TakeBuffered
    <2> QED BY <1>0, <2>1, IdleKeeps
<1> QED BY <1>1, <1>2, <1>3, <1>4, <1>5, <1>6 DEF Runtime

-----------------------------------------------------------------------------
(* The application. *)

\* A call that changes no connection's peer and gives no stream a stage, and the flush
\* it starts.
LEMMA CallFlushes ==
    ASSUME SwarmInv, NEW k, TablesStep(core, k, {}), BeginFlush(k),
           tconn' = tconn, tstream' = tstream, work' = work, now' = now
    PROVE  SwarmInv'
<1>1. World(k, tconn, tstream, work, now)
    BY Opened, WorldQuiet
<1> QED BY <1>1, FlushedWorld

\* The application's calls.
LEMMA ApplicationKeeps ==
    ASSUME SwarmInv, Application
    PROVE  SwarmInv'
<1>0. /\ PeersSound(core) /\ StreamsSound(core) /\ now \in Nat
      /\ CoreFields \subseteq DOMAIN core
    BY Opened
<1>1. \A k : PeerStep(core, k) \/ Same(core, k) => TablesStep(core, k, {})
    BY <1>0, QuietSteps
<1>2. ASSUME NEW p \in Peers, AppPings(p) PROVE SwarmInv'
    <2> DEFINE k == PingPeer(core, p, PingPayload, now)
    <2>1. /\ BeginFlush(k) /\ core.peer_to_conn[p] # None
          /\ tconn' = tconn /\ tstream' = tstream /\ work' = work /\ now' = now
        BY <1>2 DEF AppPings, Call, PingAccepted
    <2>2. PeerStep(core, k)
        BY <1>0, <2>1, PingPeerKeeps DEF PeerIds
    <2> HIDE DEF k
    <2> QED BY <1>1, <2>1, <2>2, CallFlushes
<1>3. ASSUME NEW p \in Peers, AppOpensStream(p) PROVE SwarmInv'
    <2> DEFINE k == OpenUserStream(core, p)
    <2>1. /\ BeginFlush(k)
          /\ tconn' = tconn /\ tstream' = tstream /\ work' = work /\ now' = now
        BY <1>3 DEF AppOpensStream, Call
    <2>2. PeerStep(core, k)
        BY <1>0, OpenKeeps DEF OpenUserStream, Targets
    <2> HIDE DEF k
    <2> QED BY <1>1, <2>1, <2>2, CallFlushes
<1>4. ASSUME NEW p \in Peers, AppDisconnects(p) PROVE SwarmInv'
    <2> DEFINE k == Disconnect(core, p)
    <2>1. /\ BeginFlush(k)
          /\ tconn' = tconn /\ tstream' = tstream /\ work' = work /\ now' = now
        BY <1>4 DEF AppDisconnects, Call
    <2>2. Same(core, k)
        BY <1>0, QueuesOnly DEF Disconnect
    <2> HIDE DEF k
    <2> QED BY <1>1, <2>1, <2>2, CallFlushes
<1>5. ASSUME NEW p \in Peers, NEW s \in Sids, AppWrites(p, s) PROVE SwarmInv'
    <2> DEFINE k1 == SendUserStream(core, p, s)
               k2 == CloseStreamWrite(core, p, s)
    <2>1. /\ BeginFlush(k1) \/ BeginFlush(k2)
          /\ tconn' = tconn /\ tstream' = tstream /\ work' = work /\ now' = now
        BY <1>5 DEF AppWrites, Call
    <2>2. Same(core, k1) /\ Same(core, k2)
        BY <1>0, QueuesOnly DEF SendUserStream, CloseStreamWrite
    <2> HIDE DEF k1, k2
    <2> QED BY <1>1, <2>1, <2>2, CallFlushes
<1>6. ASSUME NEW p \in Peers, NEW s \in Sids, AppResets(p, s) PROVE SwarmInv'
    <2> DEFINE k == ResetUserStream(core, p, s)
    <2>1. /\ BeginFlush(k)
          /\ tconn' = tconn /\ tstream' = tstream /\ work' = work /\ now' = now
        BY <1>6 DEF AppResets, Call
    <2>2. Same(core, k)
        BY <1>0, QueuesOnly DEF ResetUserStream
    <2> HIDE DEF k
    <2> QED BY <1>1, <2>1, <2>2, CallFlushes
<1>7. ASSUME NEW p \in Peers, NEW s \in Sids, AppAbandons(p, s) PROVE SwarmInv'
    <2> DEFINE k  == AbandonStream(core, p, s)
               kq == [k EXCEPT !.actions = deferred \o @]
    <2>1. /\ core' = k \/ core' = kq
          /\ tconn' = tconn /\ tstream' = tstream /\ work' = work /\ now' = now
        BY <1>7 DEF AppAbandons, Call
    <2>2. /\ PeersSound(k) /\ StreamsSound(k)
          /\ k.conn_to_peer = core.conn_to_peer
          /\ \A key \in Keys : Staged(k, key) => Staged(core, key)
        BY <1>0, AbandonKeeps
    <2> HIDE DEF k
    <2>3. TablesStep(core, k, {})
        BY <2>2 DEF TablesStep
    <2>4. PeerStep(k, k) /\ PeerStep(k, kq)
        <3>1. CoreFields \subseteq DOMAIN k
            BY <2>2, SoundHasFields
        <3>2. Same(k, k) /\ Same(k, kq)
            BY <3>1 DEF Same, Agree, CoreFields, MapFields, PeerFields, StreamFields
        <3> HIDE DEF kq
        <3> QED BY <3>2, <2>2, SameIsPeerStep
    <2> HIDE DEF kq
    <2>5. TablesStep(core, core', {})
        BY <2>1, <2>3, <2>4, ThenQuietly
    <2>6. World(core', tconn, tstream, work, now)
        BY <2>5, Opened, WorldQuiet
    <2> QED BY <2>1, <2>6 DEF SwarmInv
<1>8. ASSUME NEW c \in Conns, NEW s \in Sids, AppForgets(c, s) PROVE SwarmInv'
    <2> DEFINE k == ForgetStream(core, c, s)
    <2>1. /\ core' = k
          /\ tconn' = tconn /\ tstream' = tstream /\ work' = work /\ now' = now
        BY <1>8 DEF AppForgets, Call
    <2>2. /\ HandlerStep(core, k, c, <<c, s>>) /\ ~Staged(k, <<c, s>>)
          /\ k.conn_to_peer = core.conn_to_peer
        BY <1>0, ForgetHandles
    <2> HIDE DEF k
    <2>3. TablesStep(core, k, {})
        BY <2>2 DEF TablesStep, HandlerStep, StageStep
    <2>4. World(core', tconn, tstream, work, now)
        BY <2>1, <2>3, Opened, WorldQuiet
    <2> QED BY <2>1, <2>4 DEF SwarmInv
<1> QED BY <1>2, <1>3, <1>4, <1>5, <1>6, <1>7, <1>8 DEF Application

-----------------------------------------------------------------------------
(* The theorems. *)

\* The transport's events together.
LEMMA TransportKeeps ==
    ASSUME SwarmInv, IdentitiesInTime, Transport
    PROVE  SwarmInv'
<1>1. PICK c \in work.conns :
        \/ IncomingConnection(c) \/ Connected(c) \/ PeerIdentityVerified(c)
        \/ TransportError(c) \/ Closed(c)
        \/ \E s \in Sids : IncomingStream(c, s) \/ StreamData(c, s)
                            \/ StreamRemoteWriteClosed(c, s) \/ StreamClosed(c, s)
    BY DEF Transport
<1>2. CASE \E s \in Sids : IncomingStream(c, s) \/ StreamData(c, s)
                            \/ StreamRemoteWriteClosed(c, s) \/ StreamClosed(c, s)
    BY <1>2, IncomingStreamKeeps, StreamDataKeeps, RemoteWriteClosedKeeps, StreamClosedEventKeeps
<1> QED BY <1>1, <1>2, IncomingConnectionKeeps, ConnectedKeeps, PeerIdentityVerifiedKeeps,
           TransportErrorKeeps, ClosedEventKeeps

\* The invariant is inductive.
THEOREM SwarmInvariant ==
    ASSUME IdentitiesInTime
    PROVE  Spec => []SwarmInv
<1>1. Init => SwarmInv
    BY InitIsWorld
<1>2. SwarmInv /\ [Next]_vars => SwarmInv'
    <2> SUFFICES ASSUME SwarmInv, [Next]_vars PROVE SwarmInv'
        OBVIOUS
    <2>1. CASE UNCHANGED vars
        BY <2>1 DEF vars, SwarmInv
    <2> QED BY <2>1, RuntimeKeeps, TransportKeeps, ApplicationKeeps DEF Next
<1> QED BY <1>1, <1>2, PTL DEF Spec

\* The invariant leaves a stream in one stage at most, and in none once the transport
\* reported it or its connection closed.
LEMMA OneStageAtATime == SwarmInv => StreamStages
<1> SUFFICES ASSUME SwarmInv, NEW key \in Keys
             PROVE  /\ Cardinality(StagesOf(key)) <= 1
                    /\ StagesOf(key) # {} => tconn[key[1]] # "closed" /\ tstream[key] # "closed"
    BY DEF StreamStages
<1>1. OneStage(core, key) /\ Attached(core, tconn, tstream, work)
    BY Opened DEF StreamsSound
<1>2. \A i, j \in StagesOf(key) : i = j
    BY <1>1 DEF StagesOf, OneStage
<1>3. Cardinality(StagesOf(key)) <= 1
    <2>1. CASE StagesOf(key) = {}
        BY <2>1, FS_EmptySet
    <2>2. CASE StagesOf(key) # {}
        <3>1. PICK i : StagesOf(key) = {i}
            BY <2>2, <1>2
        <3>2. Cardinality({i}) = 1
            BY FS_Singleton
        <3> QED BY <3>1, <3>2
    <2> QED BY <2>1, <2>2
<1>4. StagesOf(key) # {} => Staged(core, key)
    BY DEF StagesOf, Staged
<1>5. StagesOf(key) # {} => tconn[key[1]] # "closed" /\ tstream[key] # "closed"
    BY <1>1, <1>4 DEF Attached, HasTransport
<1> QED BY <1>3, <1>5

\* After every mix of connects, supersessions, late identities, closes, stream events,
\* pings and calls of the application: peer_to_conn and conn_to_peer are inverse, nothing
\* is kept for a peer that has no connection, and a stream is in one stage at most, while
\* it exists.
THEOREM CoreTablesAreSound ==
    ASSUME IdentitiesInTime
    PROVE  Spec => []CoreTables
<1>1. SwarmInv => CoreTables
    <2> SUFFICES ASSUME SwarmInv PROVE CoreTables
        OBVIOUS
    <2>1. PeersSound(core)
        BY Opened
    <2>2. NoOrphan
        BY <2>1 DEF NoOrphan, PeersSound, MapsAgree
    <2>3. PeerStateOnlyWhileConnected
        BY <2>1 DEF PeerStateOnlyWhileConnected, PeersSound, Blank
    <2> QED BY <2>2, <2>3, OneStageAtATime DEF CoreTables
<1> QED BY <1>1, SwarmInvariant, PTL

\* While a ping is in flight, next_timeout fires no later than the first instant at which
\* the ping protocol would give up.
THEOREM PingWakesDriver ==
    ASSUME IdentitiesInTime
    PROVE  Spec => []PingTimerArmed
<1>1. SwarmInv => PingTimerArmed
    <2> SUFFICES ASSUME SwarmInv, NEW p \in PeerIds, PingOf(core, p).pending_ping # None
                 PROVE  LET overdue == PingOf(core, p).pending_ping.sent_at + RequestTimeout + 1
                            wait    == NextTimeout(core, now)
                        IN  wait # None /\ now + wait <= Max({now, overdue})
        BY DEF PingTimerArmed
    <2> DEFINE overdue == PingOf(core, p).pending_ping.sent_at + RequestTimeout + 1
               armed   == {core.ping_deadlines[q] : q \in PeerIds} \ {None}
               due     == CHOOSE d \in armed : \A e \in armed : d <= e
               wait    == NextTimeout(core, now)
    <2>1. PeersSound(core) /\ now \in Nat
        BY Opened
    <2>2. core.ping_deadlines[p] = overdue /\ overdue \in Nat
        BY <2>1, PingAssumption DEF PeersSound, PingState, Timed
    <2>3. armed \in SUBSET Nat
        BY <2>1 DEF PeersSound, PeerShape
    <2>4. overdue \in armed
        BY <2>2, SwarmAssumption
    <2>5. due = FirstConn(armed)
        BY DEF FirstConn
    <2> HIDE DEF armed, due
    <2>6. due \in armed /\ due \in Nat /\ due <= overdue
        BY <2>3, <2>4, <2>5, FirstIsIn
    <2>7. wait = IF due > now THEN due - now ELSE 0
        BY <2>4 DEF NextTimeout, armed, due
    <2>8. wait # None
        BY <2>1, <2>6, <2>7, SwarmAssumption
    <2> HIDE DEF overdue, wait
    <2>9. Max({now, overdue}) \in {now, overdue} /\ now <= Max({now, overdue}) /\ overdue <= Max({now, overdue})
        BY <2>1, <2>2 DEF Max
    <2>10. now + wait <= Max({now, overdue})
        BY <2>1, <2>2, <2>6, <2>7, <2>9
    <2> QED BY <2>8, <2>10 DEF overdue, wait
<1> QED BY <1>1, SwarmInvariant, PTL
=============================================================================
