---------------------------- MODULE PubsubProofs ----------------------------
(***************************************************************************)
(* The mesh of gossipsub stays right, for any number of peers, topics and  *)
(* streams, any configuration that validates and any workload.             *)
(***************************************************************************)
EXTENDS Pubsub, FiniteSetTheorems, NaturalsInduction, TLAPS

Fields ==
    { "topics", "peers", "roles", "mesh", "fanout", "fanout_left", "backoff", "mcache", "seen",
      "iwant_requested", "ihave_budget", "iwant_served", "next_heartbeat", "next_seqno",
      "actions", "events" }
StateFields ==
    { "sender", "pending_messages", "acknowledged_topics", "unsubscribe_tombstones",
      "subscription_queue", "inbound", "remote_topics", "advertised_version",
      "outbound_version", "pending_control" }

\* The tables that the mesh depends on.
Shape(h) ==
    /\ DOMAIN h = Fields
    /\ DOMAIN h.peers \subseteq Peers
    /\ \A p \in DOMAIN h.peers : DOMAIN h.peers[p] = StateFields
    /\ h.mesh \in [Topics -> SUBSET Peers]
    /\ DOMAIN h.fanout = Topics
    /\ h.backoff \in [Topics -> [Peers -> Nat]]

\* Peer p may be in the mesh of t.
Fit(h, t, p) ==
    /\ t \in h.topics
    /\ p \in DOMAIN h.peers
    /\ t \in h.peers[p].remote_topics
    /\ h.backoff[t][p] = 0

TopicSound(h, t) ==
    /\ \A p \in h.mesh[t] : Fit(h, t, p)
    /\ Cardinality(h.mesh[t]) <= d_high
    /\ t \in h.topics => h.fanout[t] = None

\* A router whose mesh is right and that knows the peers of P.
Sound(h, P) == Shape(h) /\ P \subseteq DOMAIN h.peers /\ \A t \in Topics : TopicSound(h, t)

\* The inductive invariant.
MeshInv == mode \in Range(Modes) /\ (Gossip => Sound(g, {}))

\* k differs from h in nothing that the mesh depends on.
Alike(h, k) ==
    /\ DOMAIN k = Fields
    /\ k.topics = h.topics /\ k.mesh = h.mesh /\ k.fanout = h.fanout /\ k.backoff = h.backoff
    /\ DOMAIN k.peers = DOMAIN h.peers
    /\ \A p \in DOMAIN h.peers :
        DOMAIN k.peers[p] = StateFields /\ k.peers[p].remote_topics = h.peers[p].remote_topics

-----------------------------------------------------------------------------
(* Frames. *)

LEMMA AlikeSound == ASSUME NEW h, NEW k, NEW P, Sound(h, P), Alike(h, k) PROVE Sound(k, P)
<1>1. Shape(k) BY DEF Sound, Shape, Alike
<1>2. ASSUME NEW t \in Topics PROVE TopicSound(k, t)
  <2>1. TopicSound(h, t) BY DEF Sound
  <2> QED BY <2>1 DEF Alike, TopicSound, Fit
<1> QED BY <1>1, <1>2 DEF Sound, Alike

LEMMA AlikeSelf == ASSUME NEW h, Shape(h) PROVE Alike(h, h)
BY DEF Alike, Shape

LEMMA AlikeThen == ASSUME NEW h, NEW k, NEW z, Alike(h, k), Alike(k, z) PROVE Alike(h, z)
BY DEF Alike

LEMMA AlikeShape == ASSUME NEW h, NEW k, Shape(h), Alike(h, k) PROVE Shape(k)
BY DEF Alike, Shape

LEMMA SoundShape == ASSUME NEW h, NEW P, Sound(h, P) PROVE Shape(h)
BY DEF Sound

\* A change of one peer's state that leaves the remote's topics alone.
LEMMA StateAlike ==
  ASSUME NEW h, Shape(h), NEW p, NEW r,
         p \in DOMAIN h.peers => DOMAIN r = StateFields /\ r.remote_topics = h.peers[p].remote_topics
  PROVE  Alike(h, [h EXCEPT !.peers[p] = r])
BY DEF Alike, Shape, Fields

\* Changes of fields that the mesh does not depend on.
LEMMA PushAlike == ASSUME NEW h, Shape(h), NEW x PROVE Alike(h, Push(h, x))
BY DEF Alike, Shape, Fields, Push

LEMMA RaiseAlike == ASSUME NEW h, Shape(h), NEW x PROVE Alike(h, Raise(h, x))
BY DEF Alike, Shape, Fields, Raise

LEMMA RejectAlike == ASSUME NEW h, Shape(h), NEW p, NEW s PROVE Alike(h, RejectStream(h, p, s))
BY DEF Alike, Shape, Fields, Push, RejectStream

LEMMA DropRoleAlike == ASSUME NEW h, Shape(h), NEW p, NEW s PROVE Alike(h, DropRole(h, p, s))
BY DEF Alike, Shape, Fields, DropRole

LEMMA SeenInsertAlike == ASSUME NEW h, Shape(h), NEW x PROVE Alike(h, SeenInsert(h, x))
BY DEF Alike, Shape, Fields, SeenInsert

LEMMA SeenGcAlike == ASSUME NEW h, Shape(h) PROVE Alike(h, SeenGc(h))
BY DEF Alike, Shape, Fields, SeenGc

LEMMA McachePutAlike == ASSUME NEW h, Shape(h), NEW m, NEW ts PROVE Alike(h, McachePut(h, m, ts))
BY DEF Alike, Shape, Fields, McachePut

LEMMA McacheShiftAlike == ASSUME NEW h, Shape(h) PROVE Alike(h, McacheShift(h))
BY DEF Alike, Shape, Fields, McacheShift

LEMMA ArmHeartbeatAlike == ASSUME NEW h, Shape(h) PROVE Alike(h, ArmHeartbeat(h))
BY DEF Alike, Shape, Fields, ArmHeartbeat

\* The states of several peers.
LEMMA StatesAlike ==
  ASSUME NEW h, Shape(h), NEW f, DOMAIN f = DOMAIN h.peers,
         \A p \in DOMAIN h.peers :
            DOMAIN f[p] = StateFields /\ f[p].remote_topics = h.peers[p].remote_topics
  PROVE  Alike(h, [h EXCEPT !.peers = f])
BY DEF Alike, Shape, Fields

-----------------------------------------------------------------------------
(* The inbound half. *)

LEMMA DropInboundAlike == ASSUME NEW h, Shape(h), NEW p, NEW s PROVE Alike(h, DropInbound(h, p, s))
BY AlikeSelf DEF Alike, Shape, Fields, StateFields, DropInbound, Known

LEMMA ViolationResetAlike ==
  ASSUME NEW h, Shape(h), NEW p, NEW s PROVE Alike(h, ViolationReset(h, p, s))
<1> DEFINE k == DropInbound(h, p, s)
           z == Raise(k, ProtocolViolation(p))
<1>1. ViolationReset(h, p, s) = RejectStream(z, p, s) BY DEF ViolationReset, DropInbound
<1>2. Alike(h, k) BY DropInboundAlike
<1> HIDE DEF k
<1>3. Shape(k) BY <1>2, AlikeShape
<1>4. Alike(k, z) BY <1>3, RaiseAlike
<1> HIDE DEF z
<1>5. Shape(z) /\ Alike(h, z) BY <1>2, <1>3, <1>4, AlikeShape, AlikeThen
<1>6. Alike(z, RejectStream(z, p, s)) BY <1>5, RejectAlike
<1> QED BY <1>1, <1>5, <1>6, AlikeThen

LEMMA OnInboundReadyAlike ==
  ASSUME NEW h, Shape(h), NEW p, NEW s PROVE Alike(h, OnInboundReady(h, p, s))
<1> DEFINE k == Raise(h, ProtocolViolation(p))
           z == [h EXCEPT !.peers[p].inbound[s] = "Empty", !.roles[p][s] = "Inbound"]
<1>1. Alike(h, RejectStream(k, p, s)) BY RaiseAlike, AlikeShape, RejectAlike, AlikeThen
<1>2. Alike(h, z) BY DEF Alike, Shape, Fields, StateFields
<1>3. OnInboundReady(h, p, s) = RejectStream(k, p, s) \/ OnInboundReady(h, p, s) = z
    BY DEF OnInboundReady
<1> HIDE DEF k, z
<1> QED BY <1>1, <1>2, <1>3

LEMMA OnRemoteWriteClosedAlike ==
  ASSUME NEW h, Shape(h), NEW p, NEW s PROVE Alike(h, OnRemoteWriteClosed(h, p, s))
<1> DEFINE k == DropInbound(h, p, s)
           z == Push(k, CloseStreamWrite(p, s))
<1>1. Alike(h, h) /\ Alike(h, ViolationReset(h, p, s)) BY AlikeSelf, ViolationResetAlike
<1>2. Alike(h, k) BY DropInboundAlike
<1>3. OnRemoteWriteClosed(h, p, s) \in {h, ViolationReset(h, p, s), z}
    BY DEF OnRemoteWriteClosed, DropInbound
<1> HIDE DEF k
<1>4. Alike(h, z) BY <1>2, AlikeShape, PushAlike, AlikeThen
<1> HIDE DEF z
<1> QED BY <1>1, <1>3, <1>4

-----------------------------------------------------------------------------
(* Queues and senders. *)

LEMMA QueueControlAllAlike ==
  ASSUME NEW h, Shape(h), NEW ps, NEW x PROVE Alike(h, QueueControlAll(h, ps, x))
<1> DEFINE f == [p \in DOMAIN h.peers |-> IF p \in ps THEN WithControls(h.peers[p], x) ELSE h.peers[p]]
<1>1. QueueControlAll(h, ps, x) = [h EXCEPT !.peers = f] BY DEF QueueControlAll
<1>2. \A p \in DOMAIN h.peers :
          DOMAIN f[p] = StateFields /\ f[p].remote_topics = h.peers[p].remote_topics
    BY DEF Shape, StateFields, WithControls
<1>3. DOMAIN f = DOMAIN h.peers OBVIOUS
<1> HIDE DEF f
<1> QED BY <1>1, <1>2, <1>3, StatesAlike

LEMMA QueueControlAlike ==
  ASSUME NEW h, Shape(h), NEW p, NEW x PROVE Alike(h, QueueControl(h, p, x))
BY QueueControlAllAlike DEF QueueControl

LEMMA QueueMessageAlike ==
  ASSUME NEW h, Shape(h), NEW p, NEW m PROVE Alike(h, QueueMessage(h, p, m))
<1> DEFINE z == [h EXCEPT !.peers[p].pending_messages = Append(@, m)]
<1>1. QueueMessage(h, p, m) \in {h, Raise(h, OutboundFailure(p)), z} BY DEF QueueMessage
<1>2. Alike(h, z) BY DEF Alike, Shape, Fields, StateFields
<1> HIDE DEF z
<1> QED BY <1>1, <1>2, AlikeSelf, RaiseAlike

LEMMA InFlightAlike ==
  ASSUME NEW h, Shape(h), NEW p, NEW x PROVE Alike(h, InFlight(h, p, x))
<1> DEFINE k == [h EXCEPT !.peers[p].sender.in_flight = x]
<1>1. Alike(h, k) BY DEF Alike, Shape, Fields, StateFields
<1>2. InFlight(h, p, x) = Push(k, SendStream(p, h.peers[p].sender.s, x)) BY DEF InFlight
<1> HIDE DEF k
<1> QED BY <1>1, <1>2, AlikeShape, PushAlike, AlikeThen

LEMMA EmitNextFrameAlike ==
  ASSUME NEW h, Shape(h), NEW p PROVE Alike(h, EmitNextFrame(h, p))
<1>1. ASSUME NEW x, NEW q PROVE Alike(h, InFlight([h EXCEPT !.peers[p].subscription_queue = q], p, x))
  <2> DEFINE k == [h EXCEPT !.peers[p].subscription_queue = q]
  <2>1. Alike(h, k) BY DEF Alike, Shape, Fields, StateFields
  <2> HIDE DEF k
  <2>2. Alike(k, InFlight(k, p, x)) BY <2>1, AlikeShape, InFlightAlike
  <2>3. Alike(h, InFlight(k, p, x)) BY <2>1, <2>2, AlikeThen
  <2> QED BY <2>3 DEF k
<1>2. ASSUME NEW x, NEW q PROVE Alike(h, InFlight([h EXCEPT !.peers[p].pending_control = q], p, x))
  <2> DEFINE k == [h EXCEPT !.peers[p].pending_control = q]
  <2>1. Alike(h, k) BY DEF Alike, Shape, Fields, StateFields
  <2> HIDE DEF k
  <2>2. Alike(k, InFlight(k, p, x)) BY <2>1, AlikeShape, InFlightAlike
  <2>3. Alike(h, InFlight(k, p, x)) BY <2>1, <2>2, AlikeThen
  <2> QED BY <2>3 DEF k
<1>3. \A x : Alike(h, InFlight(h, p, x)) BY InFlightAlike
<1>4. Alike(h, h) BY AlikeSelf
<1>5. \/ EmitNextFrame(h, p) = h
      \/ \E x : EmitNextFrame(h, p) = InFlight(h, p, x)
      \/ \E x, q : EmitNextFrame(h, p) = InFlight([h EXCEPT !.peers[p].subscription_queue = q], p, x)
      \/ \E x, q : EmitNextFrame(h, p) = InFlight([h EXCEPT !.peers[p].pending_control = q], p, x)
    BY Zenon DEF EmitNextFrame
<1> QED BY <1>1, <1>2, <1>3, <1>4, <1>5

LEMMA DriveSenderAlike ==
  ASSUME NEW h, Shape(h), NEW p PROVE Alike(h, DriveSender(h, p))
<1> DEFINE k == [h EXCEPT !.peers[p].sender = Opening]
<1>1. Alike(h, k) BY DEF Alike, Shape, Fields, StateFields
<1>2. DriveSender(h, p) \in {h, Push(k, OpenStream(p)), EmitNextFrame(h, p)} BY DEF DriveSender
<1> HIDE DEF k
<1>3. Alike(h, Push(k, OpenStream(p))) BY <1>1, AlikeShape, PushAlike, AlikeThen
<1> QED BY <1>2, <1>3, AlikeSelf, EmitNextFrameAlike

LEMMA CommitFrameAlike ==
  ASSUME NEW h, Shape(h), NEW p, NEW c PROVE Alike(h, CommitFrame(h, p, c))
<1> DEFINE k == [h EXCEPT !.peers[p].acknowledged_topics = Candidate(@, c.items),
                          !.peers[p].unsubscribe_tombstones = FoldLeft(CommitSub, @, c.items)]
           z == [h EXCEPT !.peers[p].pending_messages = Tail(@)]
<1>1. CommitFrame(h, p, c) \in {h, k, z} BY DEF CommitFrame
<1>2. Alike(h, z) BY DEF Alike, Shape, Fields, StateFields
<1>3. Alike(h, k)
  <2>1. ASSUME NEW v, NEW w
        PROVE  Alike(h, [h EXCEPT !.peers[p].acknowledged_topics = v, !.peers[p].unsubscribe_tombstones = w])
      BY DEF Alike, Shape, Fields, StateFields
  <2> QED BY <2>1
<1> HIDE DEF k, z
<1> QED BY <1>1, <1>2, <1>3, AlikeSelf

LEMMA RestoreCommitAlike ==
  ASSUME NEW h, Shape(h), NEW p, NEW c PROVE Alike(h, RestoreCommit(h, p, c))
BY AlikeSelf DEF Alike, Shape, Fields, StateFields, RestoreCommit

LEMMA SenderLostAlike == ASSUME NEW h, Shape(h), NEW p PROVE Alike(h, SenderLost(h, p))
BY DEF Alike, Shape, Fields, StateFields, SenderLost

\* An arbitrary sender in place of p's.
LEMMA SenderAlike ==
  ASSUME NEW h, Shape(h), NEW p, NEW x PROVE Alike(h, [h EXCEPT !.peers[p].sender = x])
BY DEF Alike, Shape, Fields, StateFields

LEMMA MessagesAlike ==
  ASSUME NEW h, Shape(h), NEW p, NEW x PROVE Alike(h, [h EXCEPT !.peers[p].pending_messages = x])
BY DEF Alike, Shape, Fields, StateFields

LEMMA StreamOpenResultAlike ==
  ASSUME NEW h, Shape(h), NEW p, NEW s PROVE Alike(h, StreamOpenResult(h, p, s))
<1> DEFINE k == [h EXCEPT !.peers[p].sender = Idle]
           z == [h EXCEPT !.peers[p].sender = Negotiating(s, @.left), !.roles[p][s] = "Outbound"]
<1>1. StreamOpenResult(h, p, s) \in {h, RejectStream(h, p, s), Raise(k, OutboundFailure(p)), z}
    BY DEF StreamOpenResult
<1>2. Alike(h, z)
  <2>1. ASSUME NEW x PROVE Alike(h, [h EXCEPT !.peers[p].sender = x, !.roles[p][s] = "Outbound"])
      BY DEF Alike, Shape, Fields, StateFields
  <2> QED BY <2>1
<1>3. Alike(h, k) BY SenderAlike
<1> HIDE DEF k, z
<1>4. Alike(h, Raise(k, OutboundFailure(p))) BY <1>3, AlikeShape, RaiseAlike, AlikeThen
<1> QED BY <1>1, <1>2, <1>4, AlikeSelf, RejectAlike

LEMMA OnStreamClosedAlike ==
  ASSUME NEW h, Shape(h), NEW p, NEW s PROVE Alike(h, OnStreamClosed(h, p, s))
<1> DEFINE k    == DropRole(ArmHeartbeat(h), p, s)
           c    == h.peers[p].sender.in_flight
           lost == SenderLost(k, p)
           cleared == [k EXCEPT !.peers[p].outbound_version = FALSE, !.peers[p].subscription_queue = <<>>]
<1>1. OnStreamClosed(h, p, s)
        \in {k, cleared, lost, Raise(lost, OutboundFailure(p)), RestoreCommit(lost, p, c), DropInbound(k, p, s)}
    BY DEF OnStreamClosed
<1>2. Alike(h, k) /\ Shape(k) BY ArmHeartbeatAlike, DropRoleAlike, AlikeShape, AlikeThen
<1> HIDE DEF k
<1>3. Alike(k, cleared) BY <1>2 DEF Alike, Shape, Fields, StateFields
<1>4. Alike(k, lost) /\ Shape(lost) BY <1>2, SenderLostAlike, AlikeShape
<1> HIDE DEF lost, cleared
<1>5. Alike(k, Raise(lost, OutboundFailure(p))) BY <1>4, RaiseAlike, AlikeThen
<1>6. Alike(k, RestoreCommit(lost, p, c)) BY <1>4, RestoreCommitAlike, AlikeThen
<1>7. Alike(k, DropInbound(k, p, s)) /\ Alike(k, k) BY <1>2, DropInboundAlike, AlikeSelf
<1>8. Alike(k, OnStreamClosed(h, p, s)) BY <1>1, <1>3, <1>4, <1>5, <1>6, <1>7
<1> QED BY <1>2, <1>8, AlikeThen

LEMMA TimeOutAlike == ASSUME NEW h, Shape(h), NEW p PROVE Alike(h, TimeOut(h, p))
<1>1. ASSUME NEW k, Alike(h, k) PROVE Alike(h, Raise(SenderLost(k, p), OutboundFailure(p)))
  <2>1. Shape(k) BY <1>1, AlikeShape
  <2>2. Alike(k, SenderLost(k, p)) BY <2>1, SenderLostAlike
  <2>3. Alike(k, Raise(SenderLost(k, p), OutboundFailure(p))) BY <2>1, <2>2, AlikeShape, RaiseAlike, AlikeThen
  <2> QED BY <1>1, <2>3, AlikeThen
<1>2. Alike(h, h) /\ Alike(h, RejectStream(h, p, h.peers[p].sender.s)) BY AlikeSelf, RejectAlike
<1>3. TimeOut(h, p) \in {h, Raise(SenderLost(h, p), OutboundFailure(p)),
                         Raise(SenderLost(RejectStream(h, p, h.peers[p].sender.s), p), OutboundFailure(p))}
    BY DEF TimeOut
<1> QED BY <1>1, <1>2, <1>3

LEMMA SendToAlike ==
  ASSUME NEW h, Shape(h), NEW p, NEW rs, NEW m PROVE Alike(h, SendTo(h, p, rs, m))
<1> DEFINE k == [h EXCEPT !.peers[p].pending_messages = Append(@, m)]
<1>1. SendTo(h, p, rs, m) \in {h, DriveSender(k, p)} BY DEF SendTo
<1>2. Alike(h, k) BY MessagesAlike
<1> HIDE DEF k
<1>3. Alike(h, DriveSender(k, p)) BY <1>2, AlikeShape, DriveSenderAlike, AlikeThen
<1> QED BY <1>1, <1>3, AlikeSelf

LEMMA AskAlike == ASSUME NEW h, Shape(h), NEW p, NEW x PROVE Alike(h, Ask(h, p, x))
<1> DEFINE k == [h EXCEPT !.iwant_requested = @ \union {x}]
<1>1. Ask(h, p, x) \in {h, QueueControl(k, p, IWant(x))} BY DEF Ask
<1>2. Alike(h, k) BY DEF Alike, Shape, Fields
<1> HIDE DEF k
<1>3. Alike(h, QueueControl(k, p, IWant(x))) BY <1>2, AlikeShape, QueueControlAlike, AlikeThen
<1> QED BY <1>1, <1>3, AlikeSelf

LEMMA ServeAlike == ASSUME NEW h, Shape(h), NEW p, NEW x PROVE Alike(h, Serve(h, p, x))
<1>1. ASSUME NEW m, NEW f PROVE Alike(h, [QueueMessage(h, p, m) EXCEPT !.iwant_served = f])
  <2> DEFINE k == QueueMessage(h, p, m)
  <2>1. Alike(h, k) BY QueueMessageAlike
  <2> HIDE DEF k
  <2>2. Alike(h, [k EXCEPT !.iwant_served = f]) BY <2>1 DEF Alike, Fields
  <2> QED BY <2>2 DEF k
<1>2. Serve(h, p, x) = h \/ \E m, f : Serve(h, p, x) = [QueueMessage(h, p, m) EXCEPT !.iwant_served = f]
  <2> DEFINE full == Len(h.peers[p].pending_messages) >= max_pending_per_peer
             m == (CHOOSE entry \in {entry \in Cached(h) : entry.m.id = x} : TRUE).m
             k == QueueMessage(h, p, m)
             f == [k.iwant_served EXCEPT ![p] = IF full THEN @ ELSE @ + 1]
  <2>1. Serve(h, p, x) = h \/ Serve(h, p, x) = [k EXCEPT !.iwant_served = f] BY DEF Serve
  <2> QED BY <2>1
<1> QED BY <1>1, <1>2, AlikeSelf

LEMMA ForwardAlike ==
  ASSUME NEW h, Shape(h), NEW p, NEW rs, NEW m PROVE Alike(h, Forward(h, p, rs, m))
<1> DEFINE k == QueueMessage(h, p, m)
<1>1. Forward(h, p, rs, m) \in {h, k, DriveSender(k, p)} BY DEF Forward
<1>2. Alike(h, k) BY QueueMessageAlike
<1> HIDE DEF k
<1>3. Alike(h, DriveSender(k, p)) BY <1>2, AlikeShape, DriveSenderAlike, AlikeThen
<1> QED BY <1>1, <1>2, <1>3, AlikeSelf

LEMMA EmitGossipAlike ==
  ASSUME NEW h, Shape(h), NEW t, NEW o PROVE Alike(h, EmitGossip(h, t, o))
BY QueueControlAllAlike DEF EmitGossip

LEMMA SendResultAlike ==
  ASSUME NEW h, Shape(h), NEW p, NEW s, NEW ok PROVE Alike(h, SendResult(h, p, s, ok))
<1> DEFINE c == h.peers[p].sender.in_flight
           k == [h EXCEPT !.peers[p].sender.in_flight = None]
           done == DriveSender(CommitFrame(k, p, c), p)
           back == Push(RestoreCommit(k, p, c), ResetStream(p, s))
           lost == Raise(SenderLost(back, p), OutboundFailure(p))
<1>1. SendResult(h, p, s, ok) \in {h, done, lost} BY DEF SendResult
<1>2. Alike(h, k) BY DEF Alike, Shape, Fields, StateFields
<1> HIDE DEF k, c
<1>3. Shape(k) BY <1>2, AlikeShape
<1>4. Alike(k, CommitFrame(k, p, c)) /\ Alike(k, RestoreCommit(k, p, c))
    BY <1>3, CommitFrameAlike, RestoreCommitAlike
<1>5. Alike(k, done) BY <1>3, <1>4, AlikeShape, DriveSenderAlike, AlikeThen
<1>6. Alike(k, back) /\ Shape(back) BY <1>3, <1>4, AlikeShape, PushAlike, AlikeThen
<1> HIDE DEF back, done
<1>7. Alike(back, SenderLost(back, p)) /\ Shape(SenderLost(back, p)) BY <1>6, SenderLostAlike, AlikeShape
<1>8. Alike(back, lost) BY <1>7, RaiseAlike, AlikeThen
<1> HIDE DEF lost
<1>9. Alike(h, done) /\ Alike(h, lost) BY <1>2, <1>5, <1>6, <1>8, AlikeThen
<1> QED BY <1>1, <1>9, AlikeSelf

-----------------------------------------------------------------------------
(* The router's loops are folds over sequences.  Step is one turn of each of them.
   The definition of a fold chooses a function on the subsets of the sequence's
   positions; that there is one is shown by induction on the length, and that the
   fold keeps what each turn keeps, by induction on the turns. *)

Step(kind, acc, x, a, b) ==
    CASE kind = "drive"   -> DriveSender(acc, x)
      [] kind = "send"    -> SendTo(acc, x, a, b)
      [] kind = "offer"   -> IF x \in b THEN GraftNew(acc, a, x) ELSE acc
      [] kind = "graft"   -> OnGraft(acc, a, x)
      [] kind = "prune"   -> OnPrune(acc, a, x.t, x.backoff)
      [] kind = "ask"     -> Ask(acc, a, x)
      [] kind = "ihave"   -> OnIHave(acc, a, x.t, x.ids)
      [] kind = "serve"   -> Serve(acc, a, x)
      [] kind = "forward" -> Forward(acc, x, a, b)
      [] kind = "message" -> ProcessMessage(acc, a, x)
      [] kind = "frame"   -> OnFrame(acc, a, b, x)
      [] kind = "mesh"    -> MaintainMesh(acc, x, a[x])
      [] kind = "gossip"  -> EmitGossip(acc, x, a[x])
      [] kind = "expire"  -> TimeOut(acc, x)

Turn(kind, seq, q, s, h, a, b) ==
    IF s = {} THEN h ELSE Step(kind, q[s \ {Max(s)}], seq[Max(s)], a, b)
Turns(kind, seq, m, q, h, a, b) == [s \in SUBSET (1..m) |-> Turn(kind, seq, q, s, h, a, b)]
Runs(kind, seq, m, h, a, b) == \E q : q = Turns(kind, seq, m, q, h, a, b)
IsFold(kind, seq, h, a, b, v) ==
    \E q : q = Turns(kind, seq, Len(seq), q, h, a, b) /\ v = q[1..Len(seq)]

LEMMA LeastElement == ASSUME NEW S \in SUBSET Nat, S # {} PROVE \E x \in S : \A y \in S : x <= y
<1>1. IsWellFoundedOn(OpToRel(<, Nat), Nat) BY NatLessThanWellFounded
<1>2. \E x \in S : \A y \in S : ~ (<<y, x>> \in OpToRel(<, Nat))
  BY <1>1, WFMin, Zenon
<1>3. PICK x \in S : \A y \in S : ~ (<<y, x>> \in OpToRel(<, Nat)) BY <1>2, Zenon
<1>4. ASSUME NEW y \in S PROVE x <= y
  <2>1. x \in Nat /\ y \in Nat BY Zenon
  <2>2. ~ (<<y, x>> \in OpToRel(<, Nat)) BY <1>3, Zenon
  <2> QED BY <2>1, <2>2 DEF OpToRel
<1> QED BY <1>4, Zenon

LEMMA Induction == ASSUME NEW S \in SUBSET Nat, 0 \in S, \A k \in S : k + 1 \in S PROVE S = Nat
<1>1. SUFFICES ASSUME Nat \ S # {} PROVE FALSE OBVIOUS
<1>2. Nat \ S \in SUBSET Nat OBVIOUS
<1>3. PICK x \in Nat \ S : \A y \in Nat \ S : x <= y BY <1>1, <1>2, LeastElement
<1>4. x # 0 /\ x \in Nat BY <1>3
<1>5. x - 1 \in Nat BY <1>4
<1>6. x - 1 \notin Nat \ S BY <1>3, <1>4, <1>5
<1>7. (x - 1) + 1 \in S BY <1>5, <1>6
<1> QED BY <1>3, <1>4, <1>7

LEMMA MaxOfRange == ASSUME NEW m \in Nat, NEW s \in SUBSET (1..m), m \in s PROVE Max(s) = m
<1>1. \A x \in s : x \in Int /\ m >= x OBVIOUS
<1>2. m \in s /\ \A y \in s : m >= y BY <1>1
<1>3. \A z \in s : (\A y \in s : z >= y) => z = m BY <1>1
<1>4. Max(s) \in s /\ \A y \in s : Max(s) >= y BY <1>2 DEF Max
<1> QED BY <1>3, <1>4

LEMMA TurnsLonger ==
  ASSUME NEW kind, NEW seq, NEW m \in Nat, NEW h, NEW a, NEW b,
         Runs(kind, seq, m, h, a, b)
  PROVE  Runs(kind, seq, m + 1, h, a, b)
<1>1. PICK q : q = [s \in SUBSET (1..m) |-> Turn(kind, seq, q, s, h, a, b)] BY DEF Runs, Turns
<1> DEFINE z == [s \in SUBSET (1..(m + 1)) |->
                   IF m + 1 \in s THEN Step(kind, q[s \ {m + 1}], seq[m + 1], a, b) ELSE q[s]]
<1>2. ASSUME NEW s \in SUBSET (1..(m + 1)) PROVE z[s] = Turn(kind, seq, z, s, h, a, b)
  <2>1. CASE m + 1 \in s
    <3>1. Max(s) = m + 1 BY <2>1, MaxOfRange
    <3>2. s \ {m + 1} \in SUBSET (1..m) OBVIOUS
    <3>3. s \ {m + 1} \in SUBSET (1..(m + 1)) /\ m + 1 \notin s \ {m + 1} OBVIOUS
    <3>4. z[s \ {m + 1}] = q[s \ {m + 1}] BY <3>3
    <3>5. z[s] = Step(kind, q[s \ {m + 1}], seq[m + 1], a, b) BY <2>1
    <3>6. s # {} BY <2>1
    <3> HIDE DEF z
    <3> QED BY <3>1, <3>4, <3>5, <3>6 DEF Turn
  <2>2. CASE m + 1 \notin s
    <3>1. s \in SUBSET (1..m) BY <2>2
    <3>2. z[s] = q[s] BY <2>2
    <3>3. q[s] = Turn(kind, seq, q, s, h, a, b) BY <1>1, <3>1
    <3>4. s \ {Max(s)} \in SUBSET (1..(m + 1)) /\ m + 1 \notin s \ {Max(s)} BY <2>2
    <3>5. z[s \ {Max(s)}] = q[s \ {Max(s)}] BY <3>4
    <3> HIDE DEF z
    <3> QED BY <3>2, <3>3, <3>5 DEF Turn
  <2> QED BY <2>1, <2>2
<1>3. z = [s \in SUBSET (1..(m + 1)) |-> z[s]] OBVIOUS
<1> HIDE DEF z
<1>4. z = [s \in SUBSET (1..(m + 1)) |-> Turn(kind, seq, z, s, h, a, b)] BY <1>2, <1>3
<1> QED BY <1>4 DEF Runs, Turns

LEMMA TurnsExist ==
  ASSUME NEW kind, NEW seq, NEW K \in Nat, NEW h, NEW a, NEW b
  PROVE  Runs(kind, seq, K, h, a, b)
<1> DEFINE S == {m \in Nat : Runs(kind, seq, m, h, a, b)}
<1>1. S \in SUBSET Nat OBVIOUS
<1>2. 0 \in S
  <2>1. SUBSET (1..0) = {{}} OBVIOUS
  <2> DEFINE e == [s \in SUBSET (1..0) |-> h]
  <2>2. e = Turns(kind, seq, 0, e, h, a, b) BY <2>1 DEF Turn, Turns
  <2> QED BY <2>2 DEF Runs
<1>3. \A m \in S : m + 1 \in S BY TurnsLonger
<1> HIDE DEF S
<1>4. S = Nat BY <1>1, <1>2, <1>3, Induction
<1> QED BY <1>4 DEF S

LEMMA FoldKeeps ==
  ASSUME NEW kind, NEW seq, IsSeq(seq), NEW h, NEW a, NEW b, NEW v, NEW P,
         IsFold(kind, seq, h, a, b, v), Sound(h, P),
         \A k : \A i \in 1..Len(seq) : Sound(k, P) => Sound(Step(kind, k, seq[i], a, b), P)
  PROVE  Sound(v, P)
<1> DEFINE K == Len(seq)
<1>1. PICK q : q = Turns(kind, seq, K, q, h, a, b) /\ v = q[1..K] BY DEF IsFold
<1>2. K \in Nat BY DEF IsSeq
<1>3. \A s \in SUBSET (1..K) : q[s] = Turn(kind, seq, q, s, h, a, b) BY <1>1 DEF Turns
<1> HIDE DEF K
<1> DEFINE S == {k \in Nat : k <= K => Sound(q[1..k], P)}
<1>4. 0 \in S
  <2>1. 1..0 = {} /\ 1..0 \in SUBSET (1..K) OBVIOUS
  <2>2. q[1..0] = h BY <1>3, <2>1 DEF Turn
  <2> QED BY <2>2
<1>5. ASSUME NEW k \in S PROVE k + 1 \in S
  <2> SUFFICES ASSUME k + 1 <= K PROVE Sound(q[1..(k + 1)], P) OBVIOUS
  <2> DEFINE i == k + 1
  <2>1. k \in Nat OBVIOUS
  <2>2. i \in Nat /\ i \in 1..K /\ i \in 1..i /\ k <= K BY <1>2, <2>1
  <2>3. 1..i \in SUBSET (1..K) /\ 1..i \in SUBSET (1..i) BY <1>2, <2>2
  <2>4. 1..i # {} BY <2>2
  <2>5. Max(1..i) = i BY <2>2, <2>3, MaxOfRange
  <2>6. (1..i) \ {i} = 1..k BY <2>1
  <2>7. q[1..i] = Turn(kind, seq, q, 1..i, h, a, b) BY <1>3, <2>3
  <2>8. q[1..i] = Step(kind, q[1..k], seq[i], a, b) BY <2>4, <2>5, <2>6, <2>7 DEF Turn
  <2>9. Sound(q[1..k], P) BY <2>1, <2>2
  <2> HIDE DEF i
  <2>10. Sound(q[1..i], P) BY <2>2, <2>8, <2>9 DEF K
  <2> QED BY <2>10 DEF i
<1>6. S = Nat
  <2>1. S \in SUBSET Nat OBVIOUS
  <2> HIDE DEF S
  <2> QED BY <1>4, <1>5, <2>1, Induction
<1>7. Sound(q[1..K], P) BY <1>2, <1>6
<1> QED BY <1>1, <1>7

\* The loops.
SendAll(h, seq, rs, m) == FoldLeft(LAMBDA acc, p : SendTo(acc, p, rs, m), h, seq)
OfferAll(h, seq, p, ts) == FoldLeft(LAMBDA acc, t : IF t \in ts THEN GraftNew(acc, p, t) ELSE acc, h, seq)
GraftAll(h, seq, p) == FoldLeft(LAMBDA acc, t : OnGraft(acc, p, t), h, seq)
PruneEach(h, seq, p) == FoldLeft(LAMBDA acc, x : OnPrune(acc, p, x.t, x.backoff), h, seq)
AskAll(h, seq, p) == FoldLeft(LAMBDA acc, id : Ask(acc, p, id), h, seq)
IHaveAll(h, seq, p) == FoldLeft(LAMBDA acc, x : OnIHave(acc, p, x.t, x.ids), h, seq)
ServeAll(h, seq, p) == FoldLeft(LAMBDA acc, id : Serve(acc, p, id), h, seq)
ForwardAll(h, seq, rs, m) == FoldLeft(LAMBDA acc, p : Forward(acc, p, rs, m), h, seq)
MessageAll(h, seq, p) == FoldLeft(LAMBDA acc, m : ProcessMessage(acc, p, m), h, seq)
FrameAll(h, seq, p, x) == FoldLeft(LAMBDA acc, frame : OnFrame(acc, p, x, frame), h, seq)
MeshAll(h, seq, pick) == FoldLeft(LAMBDA acc, t : MaintainMesh(acc, t, pick[t]), h, seq)
GossipAll(h, seq, pick) == FoldLeft(LAMBDA acc, t : EmitGossip(acc, t, pick[t]), h, seq)

LEMMA DriveFold ==
  ASSUME NEW h, NEW seq, IsSeq(seq)
  PROVE  IsFold("drive", seq, h, None, None, FoldLeft(DriveSender, h, seq))
<1> DEFINE Ran(q) == [s \in SUBSET (1..Len(seq)) |->
                        IF s = {} THEN h ELSE DriveSender(q[s \ {Max(s)}], seq[Max(s)])]
           iter == CHOOSE q : q = Ran(q)
<1>1. \A q : Ran(q) = Turns("drive", seq, Len(seq), q, h, None, None) BY DEF Turns, Turn, Step
<1>2. \E q : q = Ran(q)
  <2>1. Len(seq) \in Nat BY DEF IsSeq
  <2>2. Runs("drive", seq, Len(seq), h, None, None) BY <2>1, TurnsExist
  <2>3. PICK q : q = Turns("drive", seq, Len(seq), q, h, None, None) BY <2>2 DEF Runs
  <2> QED BY <1>1, <2>3
<1>3. iter = Ran(iter) BY <1>2, Zenon
<1>4. DOMAIN seq = 1..Len(seq) BY DEF IsSeq
<1>5. FoldLeft(DriveSender, h, seq) = iter[1..Len(seq)]
    BY <1>4, Zenon DEF FoldLeft, MapThenFoldSet
<1> HIDE DEF iter
<1>6. iter = Turns("drive", seq, Len(seq), iter, h, None, None) BY <1>1, <1>3
<1> QED BY <1>5, <1>6 DEF IsFold

LEMMA SendFold ==
  ASSUME NEW h, NEW seq, NEW rs, NEW m, IsSeq(seq)
  PROVE  IsFold("send", seq, h, rs, m, SendAll(h, seq, rs, m))
<1> DEFINE Ran(q) == [s \in SUBSET (1..Len(seq)) |->
                        IF s = {} THEN h ELSE SendTo(q[s \ {Max(s)}], seq[Max(s)], rs, m)]
           iter == CHOOSE q : q = Ran(q)
<1>1. \A q : Ran(q) = Turns("send", seq, Len(seq), q, h, rs, m) BY DEF Turns, Turn, Step
<1>2. \E q : q = Ran(q)
  <2>1. Len(seq) \in Nat BY DEF IsSeq
  <2>2. Runs("send", seq, Len(seq), h, rs, m) BY <2>1, TurnsExist
  <2>3. PICK q : q = Turns("send", seq, Len(seq), q, h, rs, m) BY <2>2 DEF Runs
  <2> QED BY <1>1, <2>3
<1>3. iter = Ran(iter) BY <1>2, Zenon
<1>4. DOMAIN seq = 1..Len(seq) BY DEF IsSeq
<1>5. SendAll(h, seq, rs, m) = iter[1..Len(seq)]
    BY <1>4, Zenon DEF SendAll, FoldLeft, MapThenFoldSet
<1> HIDE DEF iter
<1>6. iter = Turns("send", seq, Len(seq), iter, h, rs, m) BY <1>1, <1>3
<1> QED BY <1>5, <1>6 DEF IsFold

LEMMA OfferFold ==
  ASSUME NEW h, NEW seq, NEW p, NEW ts, IsSeq(seq)
  PROVE  IsFold("offer", seq, h, p, ts, OfferAll(h, seq, p, ts))
<1> DEFINE Ran(q) == [s \in SUBSET (1..Len(seq)) |->
                        IF s = {} THEN h ELSE IF seq[Max(s)] \in ts THEN GraftNew(q[s \ {Max(s)}], p, seq[Max(s)]) ELSE q[s \ {Max(s)}]]
           iter == CHOOSE q : q = Ran(q)
<1>1. \A q : Ran(q) = Turns("offer", seq, Len(seq), q, h, p, ts) BY DEF Turns, Turn, Step
<1>2. \E q : q = Ran(q)
  <2>1. Len(seq) \in Nat BY DEF IsSeq
  <2>2. Runs("offer", seq, Len(seq), h, p, ts) BY <2>1, TurnsExist
  <2>3. PICK q : q = Turns("offer", seq, Len(seq), q, h, p, ts) BY <2>2 DEF Runs
  <2> QED BY <1>1, <2>3
<1>3. iter = Ran(iter) BY <1>2, Zenon
<1>4. DOMAIN seq = 1..Len(seq) BY DEF IsSeq
<1>5. OfferAll(h, seq, p, ts) = iter[1..Len(seq)]
    BY <1>4, Zenon DEF OfferAll, FoldLeft, MapThenFoldSet
<1> HIDE DEF iter
<1>6. iter = Turns("offer", seq, Len(seq), iter, h, p, ts) BY <1>1, <1>3
<1> QED BY <1>5, <1>6 DEF IsFold

LEMMA GraftFold ==
  ASSUME NEW h, NEW seq, NEW p, IsSeq(seq)
  PROVE  IsFold("graft", seq, h, p, None, GraftAll(h, seq, p))
<1> DEFINE Ran(q) == [s \in SUBSET (1..Len(seq)) |->
                        IF s = {} THEN h ELSE OnGraft(q[s \ {Max(s)}], p, seq[Max(s)])]
           iter == CHOOSE q : q = Ran(q)
<1>1. \A q : Ran(q) = Turns("graft", seq, Len(seq), q, h, p, None) BY DEF Turns, Turn, Step
<1>2. \E q : q = Ran(q)
  <2>1. Len(seq) \in Nat BY DEF IsSeq
  <2>2. Runs("graft", seq, Len(seq), h, p, None) BY <2>1, TurnsExist
  <2>3. PICK q : q = Turns("graft", seq, Len(seq), q, h, p, None) BY <2>2 DEF Runs
  <2> QED BY <1>1, <2>3
<1>3. iter = Ran(iter) BY <1>2, Zenon
<1>4. DOMAIN seq = 1..Len(seq) BY DEF IsSeq
<1>5. GraftAll(h, seq, p) = iter[1..Len(seq)]
    BY <1>4, Zenon DEF GraftAll, FoldLeft, MapThenFoldSet
<1> HIDE DEF iter
<1>6. iter = Turns("graft", seq, Len(seq), iter, h, p, None) BY <1>1, <1>3
<1> QED BY <1>5, <1>6 DEF IsFold

LEMMA PruneFold ==
  ASSUME NEW h, NEW seq, NEW p, IsSeq(seq)
  PROVE  IsFold("prune", seq, h, p, None, PruneEach(h, seq, p))
<1> DEFINE Ran(q) == [s \in SUBSET (1..Len(seq)) |->
                        IF s = {} THEN h ELSE OnPrune(q[s \ {Max(s)}], p, seq[Max(s)].t, seq[Max(s)].backoff)]
           iter == CHOOSE q : q = Ran(q)
<1>1. \A q : Ran(q) = Turns("prune", seq, Len(seq), q, h, p, None) BY DEF Turns, Turn, Step
<1>2. \E q : q = Ran(q)
  <2>1. Len(seq) \in Nat BY DEF IsSeq
  <2>2. Runs("prune", seq, Len(seq), h, p, None) BY <2>1, TurnsExist
  <2>3. PICK q : q = Turns("prune", seq, Len(seq), q, h, p, None) BY <2>2 DEF Runs
  <2> QED BY <1>1, <2>3
<1>3. iter = Ran(iter) BY <1>2, Zenon
<1>4. DOMAIN seq = 1..Len(seq) BY DEF IsSeq
<1>5. PruneEach(h, seq, p) = iter[1..Len(seq)]
    BY <1>4, Zenon DEF PruneEach, FoldLeft, MapThenFoldSet
<1> HIDE DEF iter
<1>6. iter = Turns("prune", seq, Len(seq), iter, h, p, None) BY <1>1, <1>3
<1> QED BY <1>5, <1>6 DEF IsFold

LEMMA AskFold ==
  ASSUME NEW h, NEW seq, NEW p, IsSeq(seq)
  PROVE  IsFold("ask", seq, h, p, None, AskAll(h, seq, p))
<1> DEFINE Ran(q) == [s \in SUBSET (1..Len(seq)) |->
                        IF s = {} THEN h ELSE Ask(q[s \ {Max(s)}], p, seq[Max(s)])]
           iter == CHOOSE q : q = Ran(q)
<1>1. \A q : Ran(q) = Turns("ask", seq, Len(seq), q, h, p, None) BY DEF Turns, Turn, Step
<1>2. \E q : q = Ran(q)
  <2>1. Len(seq) \in Nat BY DEF IsSeq
  <2>2. Runs("ask", seq, Len(seq), h, p, None) BY <2>1, TurnsExist
  <2>3. PICK q : q = Turns("ask", seq, Len(seq), q, h, p, None) BY <2>2 DEF Runs
  <2> QED BY <1>1, <2>3
<1>3. iter = Ran(iter) BY <1>2, Zenon
<1>4. DOMAIN seq = 1..Len(seq) BY DEF IsSeq
<1>5. AskAll(h, seq, p) = iter[1..Len(seq)]
    BY <1>4, Zenon DEF AskAll, FoldLeft, MapThenFoldSet
<1> HIDE DEF iter
<1>6. iter = Turns("ask", seq, Len(seq), iter, h, p, None) BY <1>1, <1>3
<1> QED BY <1>5, <1>6 DEF IsFold

LEMMA IHaveFold ==
  ASSUME NEW h, NEW seq, NEW p, IsSeq(seq)
  PROVE  IsFold("ihave", seq, h, p, None, IHaveAll(h, seq, p))
<1> DEFINE Ran(q) == [s \in SUBSET (1..Len(seq)) |->
                        IF s = {} THEN h ELSE OnIHave(q[s \ {Max(s)}], p, seq[Max(s)].t, seq[Max(s)].ids)]
           iter == CHOOSE q : q = Ran(q)
<1>1. \A q : Ran(q) = Turns("ihave", seq, Len(seq), q, h, p, None) BY DEF Turns, Turn, Step
<1>2. \E q : q = Ran(q)
  <2>1. Len(seq) \in Nat BY DEF IsSeq
  <2>2. Runs("ihave", seq, Len(seq), h, p, None) BY <2>1, TurnsExist
  <2>3. PICK q : q = Turns("ihave", seq, Len(seq), q, h, p, None) BY <2>2 DEF Runs
  <2> QED BY <1>1, <2>3
<1>3. iter = Ran(iter) BY <1>2, Zenon
<1>4. DOMAIN seq = 1..Len(seq) BY DEF IsSeq
<1>5. IHaveAll(h, seq, p) = iter[1..Len(seq)]
    BY <1>4, Zenon DEF IHaveAll, FoldLeft, MapThenFoldSet
<1> HIDE DEF iter
<1>6. iter = Turns("ihave", seq, Len(seq), iter, h, p, None) BY <1>1, <1>3
<1> QED BY <1>5, <1>6 DEF IsFold

LEMMA ServeFold ==
  ASSUME NEW h, NEW seq, NEW p, IsSeq(seq)
  PROVE  IsFold("serve", seq, h, p, None, ServeAll(h, seq, p))
<1> DEFINE Ran(q) == [s \in SUBSET (1..Len(seq)) |->
                        IF s = {} THEN h ELSE Serve(q[s \ {Max(s)}], p, seq[Max(s)])]
           iter == CHOOSE q : q = Ran(q)
<1>1. \A q : Ran(q) = Turns("serve", seq, Len(seq), q, h, p, None) BY DEF Turns, Turn, Step
<1>2. \E q : q = Ran(q)
  <2>1. Len(seq) \in Nat BY DEF IsSeq
  <2>2. Runs("serve", seq, Len(seq), h, p, None) BY <2>1, TurnsExist
  <2>3. PICK q : q = Turns("serve", seq, Len(seq), q, h, p, None) BY <2>2 DEF Runs
  <2> QED BY <1>1, <2>3
<1>3. iter = Ran(iter) BY <1>2, Zenon
<1>4. DOMAIN seq = 1..Len(seq) BY DEF IsSeq
<1>5. ServeAll(h, seq, p) = iter[1..Len(seq)]
    BY <1>4, Zenon DEF ServeAll, FoldLeft, MapThenFoldSet
<1> HIDE DEF iter
<1>6. iter = Turns("serve", seq, Len(seq), iter, h, p, None) BY <1>1, <1>3
<1> QED BY <1>5, <1>6 DEF IsFold

LEMMA ForwardFold ==
  ASSUME NEW h, NEW seq, NEW rs, NEW m, IsSeq(seq)
  PROVE  IsFold("forward", seq, h, rs, m, ForwardAll(h, seq, rs, m))
<1> DEFINE Ran(q) == [s \in SUBSET (1..Len(seq)) |->
                        IF s = {} THEN h ELSE Forward(q[s \ {Max(s)}], seq[Max(s)], rs, m)]
           iter == CHOOSE q : q = Ran(q)
<1>1. \A q : Ran(q) = Turns("forward", seq, Len(seq), q, h, rs, m) BY DEF Turns, Turn, Step
<1>2. \E q : q = Ran(q)
  <2>1. Len(seq) \in Nat BY DEF IsSeq
  <2>2. Runs("forward", seq, Len(seq), h, rs, m) BY <2>1, TurnsExist
  <2>3. PICK q : q = Turns("forward", seq, Len(seq), q, h, rs, m) BY <2>2 DEF Runs
  <2> QED BY <1>1, <2>3
<1>3. iter = Ran(iter) BY <1>2, Zenon
<1>4. DOMAIN seq = 1..Len(seq) BY DEF IsSeq
<1>5. ForwardAll(h, seq, rs, m) = iter[1..Len(seq)]
    BY <1>4, Zenon DEF ForwardAll, FoldLeft, MapThenFoldSet
<1> HIDE DEF iter
<1>6. iter = Turns("forward", seq, Len(seq), iter, h, rs, m) BY <1>1, <1>3
<1> QED BY <1>5, <1>6 DEF IsFold

LEMMA MessageFold ==
  ASSUME NEW h, NEW seq, NEW p, IsSeq(seq)
  PROVE  IsFold("message", seq, h, p, None, MessageAll(h, seq, p))
<1> DEFINE Ran(q) == [s \in SUBSET (1..Len(seq)) |->
                        IF s = {} THEN h ELSE ProcessMessage(q[s \ {Max(s)}], p, seq[Max(s)])]
           iter == CHOOSE q : q = Ran(q)
<1>1. \A q : Ran(q) = Turns("message", seq, Len(seq), q, h, p, None) BY DEF Turns, Turn, Step
<1>2. \E q : q = Ran(q)
  <2>1. Len(seq) \in Nat BY DEF IsSeq
  <2>2. Runs("message", seq, Len(seq), h, p, None) BY <2>1, TurnsExist
  <2>3. PICK q : q = Turns("message", seq, Len(seq), q, h, p, None) BY <2>2 DEF Runs
  <2> QED BY <1>1, <2>3
<1>3. iter = Ran(iter) BY <1>2, Zenon
<1>4. DOMAIN seq = 1..Len(seq) BY DEF IsSeq
<1>5. MessageAll(h, seq, p) = iter[1..Len(seq)]
    BY <1>4, Zenon DEF MessageAll, FoldLeft, MapThenFoldSet
<1> HIDE DEF iter
<1>6. iter = Turns("message", seq, Len(seq), iter, h, p, None) BY <1>1, <1>3
<1> QED BY <1>5, <1>6 DEF IsFold

LEMMA FrameFold ==
  ASSUME NEW h, NEW seq, NEW p, NEW x, IsSeq(seq)
  PROVE  IsFold("frame", seq, h, p, x, FrameAll(h, seq, p, x))
<1> DEFINE Ran(q) == [s \in SUBSET (1..Len(seq)) |->
                        IF s = {} THEN h ELSE OnFrame(q[s \ {Max(s)}], p, x, seq[Max(s)])]
           iter == CHOOSE q : q = Ran(q)
<1>1. \A q : Ran(q) = Turns("frame", seq, Len(seq), q, h, p, x) BY DEF Turns, Turn, Step
<1>2. \E q : q = Ran(q)
  <2>1. Len(seq) \in Nat BY DEF IsSeq
  <2>2. Runs("frame", seq, Len(seq), h, p, x) BY <2>1, TurnsExist
  <2>3. PICK q : q = Turns("frame", seq, Len(seq), q, h, p, x) BY <2>2 DEF Runs
  <2> QED BY <1>1, <2>3
<1>3. iter = Ran(iter) BY <1>2, Zenon
<1>4. DOMAIN seq = 1..Len(seq) BY DEF IsSeq
<1>5. FrameAll(h, seq, p, x) = iter[1..Len(seq)]
    BY <1>4, Zenon DEF FrameAll, FoldLeft, MapThenFoldSet
<1> HIDE DEF iter
<1>6. iter = Turns("frame", seq, Len(seq), iter, h, p, x) BY <1>1, <1>3
<1> QED BY <1>5, <1>6 DEF IsFold

LEMMA MeshFold ==
  ASSUME NEW h, NEW seq, NEW pick, IsSeq(seq)
  PROVE  IsFold("mesh", seq, h, pick, None, MeshAll(h, seq, pick))
<1> DEFINE Ran(q) == [s \in SUBSET (1..Len(seq)) |->
                        IF s = {} THEN h ELSE MaintainMesh(q[s \ {Max(s)}], seq[Max(s)], pick[seq[Max(s)]])]
           iter == CHOOSE q : q = Ran(q)
<1>1. \A q : Ran(q) = Turns("mesh", seq, Len(seq), q, h, pick, None) BY DEF Turns, Turn, Step
<1>2. \E q : q = Ran(q)
  <2>1. Len(seq) \in Nat BY DEF IsSeq
  <2>2. Runs("mesh", seq, Len(seq), h, pick, None) BY <2>1, TurnsExist
  <2>3. PICK q : q = Turns("mesh", seq, Len(seq), q, h, pick, None) BY <2>2 DEF Runs
  <2> QED BY <1>1, <2>3
<1>3. iter = Ran(iter) BY <1>2, Zenon
<1>4. DOMAIN seq = 1..Len(seq) BY DEF IsSeq
<1>5. MeshAll(h, seq, pick) = iter[1..Len(seq)]
    BY <1>4, Zenon DEF MeshAll, FoldLeft, MapThenFoldSet
<1> HIDE DEF iter
<1>6. iter = Turns("mesh", seq, Len(seq), iter, h, pick, None) BY <1>1, <1>3
<1> QED BY <1>5, <1>6 DEF IsFold

LEMMA GossipFold ==
  ASSUME NEW h, NEW seq, NEW pick, IsSeq(seq)
  PROVE  IsFold("gossip", seq, h, pick, None, GossipAll(h, seq, pick))
<1> DEFINE Ran(q) == [s \in SUBSET (1..Len(seq)) |->
                        IF s = {} THEN h ELSE EmitGossip(q[s \ {Max(s)}], seq[Max(s)], pick[seq[Max(s)]])]
           iter == CHOOSE q : q = Ran(q)
<1>1. \A q : Ran(q) = Turns("gossip", seq, Len(seq), q, h, pick, None) BY DEF Turns, Turn, Step
<1>2. \E q : q = Ran(q)
  <2>1. Len(seq) \in Nat BY DEF IsSeq
  <2>2. Runs("gossip", seq, Len(seq), h, pick, None) BY <2>1, TurnsExist
  <2>3. PICK q : q = Turns("gossip", seq, Len(seq), q, h, pick, None) BY <2>2 DEF Runs
  <2> QED BY <1>1, <2>3
<1>3. iter = Ran(iter) BY <1>2, Zenon
<1>4. DOMAIN seq = 1..Len(seq) BY DEF IsSeq
<1>5. GossipAll(h, seq, pick) = iter[1..Len(seq)]
    BY <1>4, Zenon DEF GossipAll, FoldLeft, MapThenFoldSet
<1> HIDE DEF iter
<1>6. iter = Turns("gossip", seq, Len(seq), iter, h, pick, None) BY <1>1, <1>3
<1> QED BY <1>5, <1>6 DEF IsFold

LEMMA ExpireFold ==
  ASSUME NEW h, NEW seq, IsSeq(seq)
  PROVE  IsFold("expire", seq, h, None, None, FoldLeft(TimeOut, h, seq))
<1> DEFINE Ran(q) == [s \in SUBSET (1..Len(seq)) |->
                        IF s = {} THEN h ELSE TimeOut(q[s \ {Max(s)}], seq[Max(s)])]
           iter == CHOOSE q : q = Ran(q)
<1>1. \A q : Ran(q) = Turns("expire", seq, Len(seq), q, h, None, None) BY DEF Turns, Turn, Step
<1>2. \E q : q = Ran(q)
  <2>1. Len(seq) \in Nat BY DEF IsSeq
  <2>2. Runs("expire", seq, Len(seq), h, None, None) BY <2>1, TurnsExist
  <2>3. PICK q : q = Turns("expire", seq, Len(seq), q, h, None, None) BY <2>2 DEF Runs
  <2> QED BY <1>1, <2>3
<1>3. iter = Ran(iter) BY <1>2, Zenon
<1>4. DOMAIN seq = 1..Len(seq) BY DEF IsSeq
<1>5. FoldLeft(TimeOut, h, seq) = iter[1..Len(seq)]
    BY <1>4, Zenon DEF FoldLeft, MapThenFoldSet
<1> HIDE DEF iter
<1>6. iter = Turns("expire", seq, Len(seq), iter, h, None, None) BY <1>1, <1>3
<1> QED BY <1>5, <1>6 DEF IsFold

-----------------------------------------------------------------------------
(* Selections of peers. *)

LEMMA PeersFinite == IsFiniteSet(Peers)
<1> DEFINE n == Len(PeerSeq)
           f == [i \in 1..n |-> PeerSeq[i]]
<1>1. n \in Nat /\ DOMAIN PeerSeq = 1..n BY OrderAssumption DEF IsSeq
<1>2. Peers = {PeerSeq[i] : i \in 1..n} BY <1>1 DEF Peers, ToSet
<1>3. f \in Surjection(1..n, Peers) BY <1>2 DEF Surjection
<1>4. IsFiniteSet(1..n) BY <1>1, FS_Interval
<1> HIDE DEF f
<1> QED BY <1>3, <1>4, FS_Surjection

LEMMA MeshFinite ==
  ASSUME NEW S, S \subseteq Peers PROVE IsFiniteSet(S) /\ Cardinality(S) \in Nat
BY PeersFinite, FS_Subset, FS_CardinalityType

LEMMA SmallerSet ==
  ASSUME NEW S, NEW T, T \subseteq Peers, S \subseteq T PROVE Cardinality(S) <= Cardinality(T)
BY MeshFinite, FS_Subset

LEMMA NoMembers == Cardinality({}) = 0
BY FS_EmptySet, Zenon

LEMMA TwoMax == ASSUME NEW x \in Nat, NEW y \in Nat PROVE Max({x, y}) \in Nat
<1>1. \E z \in {x, y} : \A w \in {x, y} : z >= w OBVIOUS
<1> QED BY <1>1 DEF Max

LEMMA TwoMin == ASSUME NEW x \in Nat, NEW y \in Nat PROVE Min({x, y}) \in Nat
<1>1. \E z \in {x, y} : \A w \in {x, y} : z =< w OBVIOUS
<1> QED BY <1>1 DEF Min

\* A selection has at most `count` members.
LEMMA Selected ==
  ASSUME NEW C, NEW count \in Nat, NEW order \in Seq(Peers)
  PROVE  LET S == SelectPeers(C, count, order)
         IN  S \subseteq C /\ S \subseteq Peers /\ Cardinality(S) <= count
<1> DEFINE n == Len(order)
           at == {i \in DOMAIN order : order[i] \in C}
           Below(x) == {y \in at : y <= x}
           X == {x \in at : Cardinality(Below(x)) <= count}
           S == SelectPeers(C, count, order)
<1>1. S = {order[i] : i \in X} BY DEF SelectPeers
<1>2. n \in Nat /\ DOMAIN order = 1..n /\ \A i \in 1..n : order[i] \in Peers OBVIOUS
<1>3. at \subseteq 1..n /\ X \subseteq at /\ X \subseteq 1..n BY <1>2
<1>4. S \subseteq C /\ S \subseteq Peers BY <1>1, <1>2
<1>5. IsFiniteSet(1..n) BY <1>2, FS_Interval
<1>6. IsFiniteSet(X) /\ IsFiniteSet(at) BY <1>3, <1>5, FS_Subset
<1>7. IsFiniteSet(S) /\ Cardinality(S) <= Cardinality(X)
  <2> DEFINE f == [i \in X |-> order[i]]
  <2>1. f \in Surjection(X, S) BY <1>1 DEF Surjection
  <2> HIDE DEF X, S, f
  <2> QED BY <1>6, <2>1, FS_Surjection
<1>8. Cardinality(X) <= count
  <2>1. CASE X = {}
    <3>1. Cardinality(X) = 0 BY <2>1, NoMembers, Zenon
    <3> HIDE DEF X
    <3> QED BY <3>1
  <2>2. CASE X # {}
    <3> DEFINE U == {k \in Nat : \A x \in X : x <= k}
    <3>1. n \in U /\ U \in SUBSET Nat
      <4>1. \A x \in X : x <= n BY <1>2, <1>3
      <4> HIDE DEF X, n
      <4> QED BY <1>2, <4>1
    <3>2. PICK m \in U : \A k \in U : m <= k BY <3>1, LeastElement
    <3>3. m \in X
      <4>1. SUFFICES ASSUME m \notin X PROVE FALSE OBVIOUS
      <4>2. \A x \in X : x \in Nat /\ x >= 1 BY <1>2, <1>3
      <4> HIDE DEF X, n, at
      <4>3. \A x \in X : x <= m /\ x # m BY <3>2, <4>1
      <4>4. m \in Nat BY <3>2
      <4>5. \A x \in X : x <= m - 1 BY <4>2, <4>3, <4>4
      <4>6. m >= 1 BY <2>2, <4>2, <4>3, <4>4
      <4>7. m - 1 \in U BY <4>4, <4>5, <4>6
      <4>8. m <= m - 1 BY <3>2, <4>7
      <4> QED BY <4>4, <4>8
    <3>4. Cardinality(Below(m)) <= count BY <3>3
    <3>5. X \subseteq Below(m) /\ Below(m) \subseteq at BY <1>3, <3>2
    <3>6. IsFiniteSet(Below(m)) BY <1>6, <3>5, FS_Subset
    <3>7. Cardinality(X) <= Cardinality(Below(m)) /\ Cardinality(X) \in Nat /\ Cardinality(Below(m)) \in Nat
        BY <1>6, <3>5, <3>6, FS_Subset, FS_CardinalityType
    <3> QED BY <3>4, <3>7
  <2> QED BY <2>1, <2>2
<1>9. Cardinality(S) <= count BY <1>6, <1>7, <1>8, FS_CardinalityType
<1> QED BY <1>4, <1>9

\* A set is filled up to `count` members.
LEMMA Filled ==
  ASSUME NEW S, S \subseteq Peers, NEW C, NEW count \in Nat, NEW order \in Seq(Peers)
  PROVE  LET Full == FillUp(S, C, count, order)
         IN  /\ Full \subseteq S \union C /\ Full \subseteq Peers /\ S \subseteq Full
             /\ Cardinality(S) <= count => Cardinality(Full) <= count
<1> DEFINE n == count - Cardinality(S)
           T == SelectPeers(C \ S, n, order)
<1>1. Cardinality(S) \in Nat /\ IsFiniteSet(S) BY MeshFinite
<1>2. CASE Cardinality(S) >= count BY <1>2 DEF FillUp
<1>3. CASE ~(Cardinality(S) >= count)
  <2>1. n \in Nat BY <1>1, <1>3
  <2>2. FillUp(S, C, count, order) = S \union T BY <1>3 DEF FillUp
  <2>3. T \subseteq C \ S /\ T \subseteq Peers /\ Cardinality(T) <= n BY <2>1, Selected
  <2>4. IsFiniteSet(T) /\ Cardinality(T) \in Nat BY <2>3, MeshFinite
  <2> HIDE DEF T
  <2>5. S \cap T = {} BY <2>3
  <2>6. Cardinality(S \union T) = Cardinality(S) + Cardinality(T)
    <3>1. Cardinality(S \union T) = Cardinality(S) + Cardinality(T) - Cardinality(S \cap T)
        BY <1>1, <2>4, FS_Union
    <3>2. Cardinality(S \cap T) = 0 BY <2>5, NoMembers, Zenon
    <3> QED BY <1>1, <2>4, <3>1, <3>2
  <2>7. Cardinality(S \union T) <= count BY <1>1, <2>1, <2>3, <2>4, <2>6
  <2> QED BY <2>2, <2>3, <2>7
<1> QED BY <1>2, <1>3
-----------------------------------------------------------------------------
(* Changes of the mesh. *)

\* As Alike, but for the backoff of the peers of ps in topic t.
AlikeBut(h, k, t, ps) ==
    /\ DOMAIN k = Fields
    /\ k.topics = h.topics /\ k.mesh = h.mesh /\ k.fanout = h.fanout
    /\ DOMAIN k.peers = DOMAIN h.peers
    /\ \A p \in DOMAIN h.peers :
        DOMAIN k.peers[p] = StateFields /\ k.peers[p].remote_topics = h.peers[p].remote_topics
    /\ k.backoff \in [Topics -> [Peers -> Nat]]
    /\ \A u \in Topics, p \in Peers : u # t \/ p \notin ps => k.backoff[u][p] = h.backoff[u][p]

LEMMA AlikeIsBut == ASSUME NEW h, Shape(h), NEW k, Alike(h, k), NEW t, NEW ps PROVE AlikeBut(h, k, t, ps)
BY DEF Shape, Alike, AlikeBut

LEMMA ButThen ==
  ASSUME NEW h, NEW k, NEW z, NEW t, NEW ps, NEW qs, AlikeBut(h, k, t, ps), AlikeBut(k, z, t, qs)
  PROVE  AlikeBut(h, z, t, ps \union qs)
BY DEF AlikeBut

LEMMA ButShape ==
  ASSUME NEW h, NEW k, NEW t, NEW ps, Shape(h), AlikeBut(h, k, t, ps) PROVE Shape(k)
BY DEF AlikeBut, Shape

LEMMA RecordBackoffBut ==
  ASSUME NEW h, Shape(h), NEW t, NEW ps, NEW x \in Nat
  PROVE  AlikeBut(h, RecordBackoffAll(h, t, ps, x), t, ps)
<1> DEFINE f == [p \in Peers |-> IF p \in ps THEN Max({h.backoff[t][p], x}) ELSE h.backoff[t][p]]
           k == [h EXCEPT !.backoff[t] = f]
<1>1. RecordBackoffAll(h, t, ps, x) = k BY DEF RecordBackoffAll
<1>2. ASSUME t \in Topics PROVE f \in [Peers -> Nat]
  <2>1. h.backoff[t] \in [Peers -> Nat] BY <1>2 DEF Shape
  <2> QED BY <2>1, TwoMax
<1>3. \A p \in Peers : p \notin ps => f[p] = h.backoff[t][p] OBVIOUS
<1> HIDE DEF f
<1>4. AlikeBut(h, k, t, ps) BY <1>2, <1>3 DEF AlikeBut, Shape, Fields
<1> QED BY <1>1, <1>4

LEMMA PruneAllBut ==
  ASSUME NEW h, Shape(h), NEW t, NEW ps
  PROVE  AlikeBut(h, PruneAll(h, t, ps), t, ps)
<1> DEFINE pruned == {p \in ps : Queued(h, p, Prune(t))}
           k == QueueControlAll(h, pruned, <<Prune(t)>>)
           z == RecordBackoffAll(k, t, pruned, prune_backoff)
<1>1. PruneAll(h, t, ps) = z BY DEF PruneAll
<1>2. Alike(h, k) BY QueueControlAllAlike
<1>3. prune_backoff \in Nat BY ConfigAssumption
<1>4. pruned \subseteq ps OBVIOUS
<1> HIDE DEF k, pruned
<1>5. Shape(k) /\ AlikeBut(h, k, t, {}) BY <1>2, AlikeShape, AlikeIsBut
<1>6. AlikeBut(k, z, t, pruned) BY <1>3, <1>5, RecordBackoffBut
<1>7. AlikeBut(h, z, t, {} \union pruned) BY <1>5, <1>6, ButThen
<1>8. AlikeBut(h, z, t, ps) BY <1>4, <1>7 DEF AlikeBut
<1> QED BY <1>1, <1>8

\* A new mesh for topic t, of peers that fit and were not backed off on the way.
LEMMA NewMesh ==
  ASSUME NEW h, NEW P, Sound(h, P), NEW k, NEW t \in Topics, NEW ps, AlikeBut(h, k, t, ps),
         NEW M, M \subseteq Peers, M \cap ps = {}, \A p \in M : Fit(h, t, p),
         Cardinality(M) <= d_high
  PROVE  Sound([k EXCEPT !.mesh[t] = M], P)
<1> DEFINE z == [k EXCEPT !.mesh[t] = M]
<1>1. /\ DOMAIN z = Fields /\ z.topics = h.topics /\ z.fanout = h.fanout /\ z.backoff = k.backoff
      /\ z.peers = k.peers /\ z.mesh = [h.mesh EXCEPT ![t] = M]
    BY DEF AlikeBut, Fields
<1> HIDE DEF z
<1>2. h.mesh \in [Topics -> SUBSET Peers] BY DEF Sound, Shape
<1>3. z.mesh \in [Topics -> SUBSET Peers] BY <1>1, <1>2
<1>4. Shape(z) BY <1>1, <1>3 DEF Sound, Shape, AlikeBut
<1>5. ASSUME NEW u \in Topics, NEW p \in z.mesh[u] PROVE Fit(z, u, p)
  <2>1. p \in Peers /\ Fit(h, u, p) /\ (u # t \/ p \notin ps) BY <1>1, <1>2, <1>3 DEF Sound, TopicSound
  <2>2. k.backoff[u][p] = h.backoff[u][p] BY <2>1 DEF AlikeBut
  <2> QED BY <1>1, <2>1, <2>2 DEF Fit, AlikeBut
<1>6. ASSUME NEW u \in Topics PROVE TopicSound(z, u)
  <2>1. Cardinality(z.mesh[u]) <= d_high BY <1>1, <1>2 DEF Sound, TopicSound
  <2>2. u \in z.topics => z.fanout[u] = None BY <1>1 DEF Sound, TopicSound
  <2> QED BY <1>5, <2>1, <2>2 DEF TopicSound
<1>7. P \subseteq DOMAIN z.peers BY <1>1 DEF Sound, AlikeBut
<1> QED BY <1>4, <1>6, <1>7 DEF Sound, z

\* The backoff of peers that are not in the mesh.
LEMMA BackedOff ==
  ASSUME NEW h, NEW P, Sound(h, P), NEW t, NEW ps, NEW x \in Nat,
         t \in Topics => h.mesh[t] \cap ps = {}
  PROVE  Sound(RecordBackoffAll(h, t, ps, x), P)
<1> DEFINE k == RecordBackoffAll(h, t, ps, x)
<1>1. Shape(h) BY DEF Sound
<1>2. AlikeBut(h, k, t, ps) BY <1>1, RecordBackoffBut
<1> HIDE DEF k
<1>3. Shape(k) BY <1>1, <1>2, ButShape
<1>4. ASSUME NEW u \in Topics PROVE TopicSound(k, u)
  <2>1. TopicSound(h, u) /\ h.mesh[u] \subseteq Peers BY DEF Sound, Shape
  <2> QED BY <1>2, <2>1 DEF AlikeBut, TopicSound, Fit
<1>5. P \subseteq DOMAIN k.peers BY <1>2 DEF AlikeBut, Sound
<1> QED BY <1>3, <1>4, <1>5 DEF Sound, k

\* Members leave.
LEMMA FewerMembers ==
  ASSUME NEW h, NEW P, Sound(h, P), NEW t, NEW S PROVE Sound([h EXCEPT !.mesh[t] = @ \ S], P)
<1>1. CASE t \notin Topics
  <2>1. Shape(h) /\ [h.mesh EXCEPT ![t] = @ \ S] = h.mesh BY <1>1 DEF Sound, Shape
  <2>2. Alike(h, [h EXCEPT !.mesh[t] = @ \ S]) BY <2>1 DEF Alike, Shape, Fields
  <2> QED BY <2>2, AlikeSound
<1>2. CASE t \in Topics
  <2> DEFINE M == h.mesh[t] \ S
  <2>1. Shape(h) /\ TopicSound(h, t) /\ h.mesh[t] \subseteq Peers BY <1>2 DEF Sound, Shape
  <2>2. AlikeBut(h, h, t, {}) BY <2>1, AlikeSelf, AlikeIsBut
  <2>3. M \subseteq Peers /\ M \cap {} = {} /\ \A p \in M : Fit(h, t, p) BY <2>1 DEF TopicSound
  <2>4. Cardinality(M) <= Cardinality(h.mesh[t]) /\ Cardinality(M) \in Nat /\ Cardinality(h.mesh[t]) \in Nat
      BY <2>1, SmallerSet, MeshFinite
  <2>5. Cardinality(M) <= d_high BY <2>1, <2>4, ConfigAssumption DEF TopicSound
  <2> HIDE DEF M
  <2>6. Sound([h EXCEPT !.mesh[t] = M], P) BY <1>2, <2>2, <2>3, <2>5, NewMesh
  <2> QED BY <2>6 DEF M
<1> QED BY <1>1, <1>2
-----------------------------------------------------------------------------
(* The router's operations keep the mesh right. *)

LEMMA Reads ==
  ASSUME NEW h, NEW P, Sound(h, P), NEW t \in Topics
  PROVE  /\ h.mesh[t] \subseteq Peers /\ Cardinality(h.mesh[t]) \in Nat /\ Cardinality(h.mesh[t]) <= d_high
         /\ \A p \in h.mesh[t] : Fit(h, t, p)
         /\ EligibleTopicPeers(h, t) \subseteq Peers
         /\ t \in h.topics => \A p \in EligibleTopicPeers(h, t) : Fit(h, t, p)
<1>1. Shape(h) /\ TopicSound(h, t) /\ h.mesh[t] \subseteq Peers BY DEF Sound, Shape
<1>2. Cardinality(h.mesh[t]) \in Nat BY <1>1, MeshFinite
<1>3. ASSUME t \in h.topics, NEW p \in EligibleTopicPeers(h, t) PROVE Fit(h, t, p)
  <2>1. p \in Peers /\ p \in DOMAIN h.peers /\ t \in h.peers[p].remote_topics /\ ~(h.backoff[t][p] > 0)
      BY DEF EligibleTopicPeers, PeerIsEligible, Known, IsBackedOff
  <2>2. h.backoff[t][p] \in Nat BY <1>1, <2>1 DEF Shape
  <2> QED BY <1>3, <2>1, <2>2 DEF Fit
<1>4. EligibleTopicPeers(h, t) \subseteq Peers BY DEF EligibleTopicPeers
<1> QED BY <1>1, <1>2, <1>3, <1>4 DEF TopicSound

LEMMA PeersInOrder == IsSeq(PeerSeq) /\ IsSeq(TopicSeq) /\ \A i \in 1..Len(TopicSeq) : TopicSeq[i] \in Topics
BY OrderAssumption DEF IsSeq, Topics, ToSet

LEMMA DriveAllSound == ASSUME NEW h, NEW P, Sound(h, P) PROVE Sound(DriveAllSenders(h), P)
<1>1. ASSUME NEW k, NEW i \in 1..Len(PeerSeq), Sound(k, P)
      PROVE  Sound(Step("drive", k, PeerSeq[i], None, None), P)
  <2>1. Step("drive", k, PeerSeq[i], None, None) = DriveSender(k, PeerSeq[i]) BY DEF Step
  <2> QED BY <1>1, <2>1, SoundShape, DriveSenderAlike, AlikeSound
<1>2. IsFold("drive", PeerSeq, h, None, None, DriveAllSenders(h)) BY DriveFold, PeersInOrder DEF DriveAllSenders
<1> QED BY <1>1, <1>2, PeersInOrder, FoldKeeps

LEMMA SubscribeSound ==
  ASSUME NEW h, NEW P, Sound(h, P), NEW t \in Topics, NEW pick, pick[t] \in Seq(Peers)
  PROVE  Sound(Subscribe(h, t, pick), P)
<1> DEFINE eligible == EligibleTopicPeers(h, t)
           reused == IF h.fanout[t] = None THEN {} ELSE h.fanout[t] \intersect eligible
           kept == SelectPeers(reused, d, pick[t])
           selected == FillUp(kept, eligible, d, pick[t])
           joined == {p \in selected : Queued(h, p, Graft(t))}
           told == QueueControlAll(h, selected, <<Graft(t)>>)
           k == [told EXCEPT !.topics = @ \union {t}, !.mesh[t] = joined,
                             !.fanout[t] = None, !.fanout_left[t] = 0]
<1>1. Subscribe(h, t, pick) = IF t \in h.topics THEN h ELSE DriveAllSenders(k) BY DEF Subscribe
<1>2. d \in Nat /\ d <= d_high /\ d_high \in Nat BY ConfigAssumption
<1>3. Shape(h) /\ eligible \subseteq Peers BY Reads, SoundShape
<1>4. reused \subseteq eligible OBVIOUS
<1> HIDE DEF reused, eligible
<1>5. kept \subseteq reused /\ kept \subseteq Peers /\ Cardinality(kept) <= d BY <1>2, Selected
<1> HIDE DEF kept
<1>6. selected \subseteq kept \union eligible /\ selected \subseteq Peers /\ Cardinality(selected) <= d
    BY <1>2, <1>5, Filled
<1> HIDE DEF selected
<1>7. joined \subseteq eligible /\ joined \subseteq Peers /\ Cardinality(joined) <= d_high
  <2>1. joined \subseteq selected OBVIOUS
  <2> HIDE DEF joined
  <2>2. Cardinality(joined) <= Cardinality(selected) /\ Cardinality(joined) \in Nat /\ Cardinality(selected) \in Nat
      BY <1>6, <2>1, SmallerSet, MeshFinite
  <2> QED BY <1>2, <1>4, <1>5, <1>6, <2>1, <2>2
<1>8. Alike(h, told) BY <1>3, QueueControlAllAlike
<1> HIDE DEF told, joined
<1>9. \A p \in joined : /\ p \in DOMAIN h.peers /\ t \in h.peers[p].remote_topics
                        /\ h.backoff[t][p] = 0
  <2> TAKE p \in joined
  <2>1. p \in Peers /\ p \in DOMAIN h.peers /\ t \in h.peers[p].remote_topics /\ ~(h.backoff[t][p] > 0)
      BY <1>7 DEF eligible, EligibleTopicPeers, PeerIsEligible, Known, IsBackedOff
  <2>2. h.backoff[t][p] \in Nat BY <1>3, <2>1 DEF Shape
  <2> QED BY <2>1, <2>2
<1>10. /\ DOMAIN k = Fields /\ k.topics = h.topics \union {t} /\ k.mesh = [h.mesh EXCEPT ![t] = joined]
       /\ k.fanout = [h.fanout EXCEPT ![t] = None] /\ k.backoff = h.backoff /\ k.peers = told.peers
    BY <1>8 DEF Alike, Fields
<1> HIDE DEF k
<1>11. Shape(k) BY <1>3, <1>7, <1>8, <1>10 DEF Shape, Alike
<1>12. ASSUME NEW u \in Topics PROVE TopicSound(k, u)
  <2>1. TopicSound(h, u) /\ h.mesh \in [Topics -> SUBSET Peers] /\ DOMAIN h.fanout = Topics BY DEF Sound, Shape
  <2>2. CASE u = t
    <3>1. k.mesh[t] = joined /\ k.fanout[t] = None BY <1>10, <2>1
    <3>2. ASSUME NEW p \in joined PROVE Fit(k, t, p) BY <1>8, <1>9, <1>10 DEF Fit, Alike
    <3> QED BY <1>7, <2>2, <3>1, <3>2 DEF TopicSound
  <2>3. CASE u # t
    <3>1. k.mesh[u] = h.mesh[u] /\ k.fanout[u] = h.fanout[u] /\ (u \in k.topics <=> u \in h.topics)
        BY <1>10, <2>1, <2>3
    <3>2. ASSUME NEW p \in h.mesh[u] PROVE Fit(k, u, p) BY <1>8, <1>10, <2>1 DEF TopicSound, Fit, Alike
    <3> QED BY <2>1, <3>1, <3>2 DEF TopicSound
  <2> QED BY <2>2, <2>3
<1>13. Sound(k, P) BY <1>8, <1>10, <1>11, <1>12 DEF Sound, Alike
<1> QED BY <1>1, <1>13, DriveAllSound

LEMMA UnsubscribeSound ==
  ASSUME NEW h, NEW P, Sound(h, P), NEW t \in Topics
  PROVE  Sound(Unsubscribe(h, t), P)
<1> DEFINE k == [h EXCEPT !.topics = @ \ {t}, !.mesh[t] = {}]
           left == RecordBackoffAll(k, t, h.mesh[t], unsubscribe_backoff)
           told == QueueControlAll(left, h.mesh[t], <<Prune(t)>>)
<1>1. Unsubscribe(h, t) = IF t \notin h.topics THEN h ELSE DriveAllSenders(told) BY DEF Unsubscribe
<1>2. /\ DOMAIN k = Fields /\ k.topics = h.topics \ {t} /\ k.mesh = [h.mesh EXCEPT ![t] = {}]
      /\ k.fanout = h.fanout /\ k.backoff = h.backoff /\ k.peers = h.peers
    BY DEF Sound, Shape, Fields
<1> HIDE DEF k
<1>3. Shape(k) BY <1>2 DEF Sound, Shape
<1>4. ASSUME NEW u \in Topics PROVE TopicSound(k, u)
  <2>1. TopicSound(h, u) /\ h.mesh \in [Topics -> SUBSET Peers] BY DEF Sound, Shape
  <2>2. CASE u = t
    <3>1. k.mesh[t] = {} /\ t \notin k.topics BY <1>2, <2>1
    <3>2. Cardinality(k.mesh[t]) <= d_high
      <4>1. Cardinality(k.mesh[t]) = 0 BY <3>1, NoMembers, Zenon
      <4> QED BY <4>1, ConfigAssumption
    <3> QED BY <2>2, <3>1, <3>2 DEF TopicSound
  <2>3. CASE u # t BY <1>2, <2>1, <2>3 DEF TopicSound, Fit
  <2> QED BY <2>2, <2>3
<1>5. Sound(k, P) BY <1>2, <1>3, <1>4 DEF Sound
<1>6. k.mesh[t] \cap h.mesh[t] = {} BY <1>2 DEF Sound, Shape
<1>7. Sound(left, P) BY <1>5, <1>6, BackedOff, ConfigAssumption
<1> HIDE DEF left
<1>8. Sound(told, P) BY <1>7, SoundShape, QueueControlAllAlike, AlikeSound
<1> QED BY <1>1, <1>8, DriveAllSound

LEMMA PublishToSound ==
  ASSUME NEW h, NEW P, Sound(h, P), NEW t, NEW rs PROVE Sound(PublishTo(h, t, rs), P)
<1> DEFINE m == BuildSigned(h.next_seqno, t)
           k == [h EXCEPT !.next_seqno = @ + 1]
           z == McachePut(SeenInsert(k, SeenKey(m.id, TRUE)), m, {t})
           v == SendAll(z, PeerSeq, rs, m)
<1>1. PublishTo(h, t, rs) = h \/ PublishTo(h, t, rs) = v BY DEF PublishTo, SendAll
<1>2. Shape(h) /\ Alike(h, k) BY SoundShape DEF Alike, Shape, Fields
<1>3. Sound(k, P) BY <1>2, AlikeSound
<1> HIDE DEF k, m
<1>4. Alike(k, SeenInsert(k, SeenKey(m.id, TRUE))) BY <1>3, SoundShape, SeenInsertAlike
<1>5. Sound(z, P) BY <1>3, <1>4, SoundShape, AlikeShape, McachePutAlike, AlikeSound
<1> HIDE DEF z
<1>6. ASSUME NEW x, NEW i \in 1..Len(PeerSeq), Sound(x, P)
      PROVE  Sound(Step("send", x, PeerSeq[i], rs, m), P)
  <2>1. Step("send", x, PeerSeq[i], rs, m) = SendTo(x, PeerSeq[i], rs, m) BY DEF Step
  <2> QED BY <1>6, <2>1, SoundShape, SendToAlike, AlikeSound
<1>7. IsFold("send", PeerSeq, z, rs, m, v) BY SendFold, PeersInOrder
<1> HIDE DEF v
<1>8. Sound(v, P) BY <1>5, <1>6, <1>7, PeersInOrder, FoldKeeps
<1> QED BY <1>1, <1>8

LEMMA ArmSound == ASSUME NEW h, NEW P, Sound(h, P) PROVE Sound(ArmHeartbeat(h), P)
BY SoundShape, ArmHeartbeatAlike, AlikeSound

LEMMA PublishSound ==
  ASSUME NEW h, NEW P, Sound(h, P), NEW t \in Topics, NEW pick PROVE Sound(Publish(h, t, pick), P)
<1> DEFINE k == ArmHeartbeat(h)
           z == SelectFanout(k, t, pick)
<1>1. Sound(k, P) /\ k.topics = h.topics BY ArmSound, SoundShape, ArmHeartbeatAlike DEF Alike
<1>2. CASE t \in h.topics
  <2>1. \E rs : Publish(h, t, pick) = PublishTo(k, t, rs) BY <1>2, Zenon DEF Publish
  <2> HIDE DEF k
  <2> QED BY <1>1, <2>1, PublishToSound
<1>3. CASE t \notin h.topics
  <2>1. Publish(h, t, pick) = PublishTo(z, t, z.fanout[t]) BY <1>3 DEF Publish
  <2> HIDE DEF k
  <2>2. \E v : z = [k EXCEPT !.fanout[t] = v, !.fanout_left[t] = fanout_ttl] BY Zenon DEF SelectFanout
  <2>3. PICK v : z = [k EXCEPT !.fanout[t] = v, !.fanout_left[t] = fanout_ttl] BY <2>2
  <2> HIDE DEF z
  <2>4. /\ DOMAIN z = Fields /\ z.topics = k.topics /\ z.mesh = k.mesh /\ z.backoff = k.backoff
        /\ z.peers = k.peers /\ z.fanout = [k.fanout EXCEPT ![t] = v]
      BY <1>1, <2>3 DEF Sound, Shape, Fields
  <2>5. Shape(z) BY <1>1, <2>4 DEF Sound, Shape
  <2>6. ASSUME NEW u \in Topics PROVE TopicSound(z, u)
    <3>1. TopicSound(k, u) BY <1>1 DEF Sound
    <3> QED BY <1>1, <1>3, <2>4, <3>1 DEF TopicSound, Fit
  <2>7. Sound(z, P) BY <1>1, <2>4, <2>5, <2>6 DEF Sound
  <2> QED BY <2>1, <2>7, PublishToSound
<1> QED BY <1>2, <1>3

LEMMA ApplySubscriptionsSound ==
  ASSUME NEW h, NEW P, Sound(h, P), NEW p \in DOMAIN h.peers, NEW s, NEW subs
  PROVE  Sound(ApplySubscriptions(h, p, s, subs), P)
<1> DEFINE old == h.peers[p].remote_topics
           new == Candidate(old, subs)
           gone == [t \in Topics |-> IF t \in old \ new THEN {p} ELSE {}]
           k == [h EXCEPT !.peers[p].remote_topics = new,
                          !.mesh = [t \in Topics |-> @[t] \ gone[t]],
                          !.fanout = [t \in Topics |-> IF @[t] = None THEN None ELSE @[t] \ gone[t]],
                          !.events = @ \o TopicEvents(p, new \ old, old \ new)]
<1>1. ApplySubscriptions(h, p, s, subs) \in {ViolationReset(h, p, s), k} BY DEF ApplySubscriptions
<1> HIDE DEF new
<1>2. /\ DOMAIN k = Fields /\ k.topics = h.topics /\ k.backoff = h.backoff
      /\ k.mesh = [t \in Topics |-> h.mesh[t] \ gone[t]]
      /\ k.fanout = [t \in Topics |-> IF h.fanout[t] = None THEN None ELSE h.fanout[t] \ gone[t]]
      /\ k.peers = [h.peers EXCEPT ![p].remote_topics = new]
    BY DEF Sound, Shape, Fields
<1> HIDE DEF k
<1>3. /\ DOMAIN k.peers = DOMAIN h.peers /\ k.peers[p].remote_topics = new
      /\ \A q \in DOMAIN h.peers : q # p => k.peers[q] = h.peers[q]
      /\ \A q \in DOMAIN h.peers : DOMAIN k.peers[q] = StateFields
    BY <1>2 DEF Sound, Shape, StateFields
<1>4. Shape(k) BY <1>2, <1>3 DEF Sound, Shape
<1>5. ASSUME NEW t \in Topics PROVE TopicSound(k, t)
  <2>1. TopicSound(h, t) /\ h.mesh[t] \subseteq Peers BY DEF Sound, Shape
  <2>2. k.mesh[t] = h.mesh[t] \ gone[t] /\ (h.fanout[t] = None => k.fanout[t] = None) BY <1>2
  <2>3. ASSUME NEW q \in k.mesh[t] PROVE Fit(k, t, q)
    <3>1. Fit(h, t, q) BY <2>1, <2>2, <2>3 DEF TopicSound
    <3>2. CASE q = p
      <4>1. t \notin old \ new BY <2>2, <2>3, <3>2
      <4> QED BY <1>2, <1>3, <3>1, <3>2, <4>1 DEF Fit
    <3>3. CASE q # p BY <1>2, <1>3, <3>1, <3>3 DEF Fit
    <3> QED BY <3>2, <3>3
  <2>4. Cardinality(k.mesh[t]) <= d_high
    <3>1. k.mesh[t] \subseteq h.mesh[t] BY <2>2
    <3>2. Cardinality(k.mesh[t]) <= Cardinality(h.mesh[t]) /\ Cardinality(k.mesh[t]) \in Nat
              /\ Cardinality(h.mesh[t]) \in Nat
        BY <2>1, <3>1, SmallerSet, MeshFinite
    <3> QED BY <2>1, <3>2, ConfigAssumption DEF TopicSound
  <2> QED BY <1>2, <2>1, <2>2, <2>3, <2>4 DEF TopicSound
<1>6. Sound(k, P) BY <1>3, <1>4, <1>5 DEF Sound
<1>7. Sound(ViolationReset(h, p, s), P) BY SoundShape, ViolationResetAlike, AlikeSound
<1> QED BY <1>1, <1>6, <1>7

\* One more member.
LEMMA OneMore ==
  ASSUME NEW h, NEW P, Sound(h, P), NEW k, Alike(h, k), NEW t \in Topics, NEW p, Fit(h, t, p),
         Cardinality(h.mesh[t]) < d_high
  PROVE  Sound([k EXCEPT !.mesh[t] = @ \union {p}], P)
<1> DEFINE M == h.mesh[t] \union {p}
<1>1. h.mesh[t] \subseteq Peers /\ Cardinality(h.mesh[t]) \in Nat /\ \A q \in h.mesh[t] : Fit(h, t, q) BY Reads
<1>2. Shape(h) /\ p \in Peers BY SoundShape DEF Shape, Fit
<1>3. AlikeBut(h, k, t, {}) BY <1>2, AlikeIsBut
<1>4. M \subseteq Peers /\ M \cap {} = {} /\ \A q \in M : Fit(h, t, q) BY <1>1, <1>2
<1>5. Cardinality(M) <= d_high
  <2>1. IsFiniteSet(h.mesh[t]) BY <1>1, MeshFinite
  <2>2. Cardinality(M) = IF p \in h.mesh[t] THEN Cardinality(h.mesh[t]) ELSE Cardinality(h.mesh[t]) + 1
      BY <2>1, FS_AddElement
  <2> QED BY <1>1, <2>2, ConfigAssumption
<1> HIDE DEF M
<1>6. Sound([k EXCEPT !.mesh[t] = M], P) BY <1>3, <1>4, <1>5, NewMesh
<1>7. k.mesh[t] = h.mesh[t] BY DEF Alike
<1> QED BY <1>6, <1>7 DEF M

LEMMA GraftNewSound ==
  ASSUME NEW h, NEW P, Sound(h, P), NEW p, NEW t \in Topics PROVE Sound(GraftNew(h, p, t), P)
<1> DEFINE k == QueueControl(h, p, Graft(t))
<1>1. SUFFICES ASSUME t \in h.topics, Cardinality(h.mesh[t]) < d_low, PeerIsEligible(h, p, t)
               PROVE  Sound([k EXCEPT !.mesh[t] = @ \union {p}], P)
    BY DEF GraftNew
<1>2. Alike(h, k) /\ DOMAIN h.peers \subseteq Peers BY SoundShape, QueueControlAlike DEF Shape
<1>3. p \in EligibleTopicPeers(h, t) BY <1>1, <1>2 DEF EligibleTopicPeers, PeerIsEligible, Known
<1>4. Fit(h, t, p) BY <1>1, <1>3, Reads
<1>5. Cardinality(h.mesh[t]) < d_high BY <1>1, Reads, ConfigAssumption
<1> HIDE DEF k
<1> QED BY <1>2, <1>4, <1>5, OneMore

LEMMA OnGraftSound ==
  ASSUME NEW h, NEW P, NEW p \in P, Sound(h, P), NEW t PROVE Sound(OnGraft(h, p, t), P)
<1>1. CASE t \notin h.topics \/ p \in h.mesh[t] BY <1>1 DEF OnGraft
<1>2. CASE t \in h.topics /\ p \notin h.mesh[t]
  <2> DEFINE k == RecordBackoff(h, t, p, prune_backoff)
             no == t \notin h.peers[p].remote_topics \/ IsBackedOff(h, t, p) \/ Cardinality(h.mesh[t]) >= d_high
  <2>1. OnGraft(h, p, t) = IF no THEN QueueControl(k, p, Prune(t)) ELSE [h EXCEPT !.mesh[t] = @ \union {p}]
      BY <1>2 DEF OnGraft
  <2>2. Sound(k, P)
    <3>1. h.mesh[t] \cap {p} = {} BY <1>2
    <3> QED BY <3>1, BackedOff, ConfigAssumption DEF RecordBackoff
  <2> HIDE DEF k
  <2>3. Sound(QueueControl(k, p, Prune(t)), P) BY <2>2, SoundShape, QueueControlAlike, AlikeSound
  <2>4. Shape(h) /\ p \in DOMAIN h.peers /\ p \in Peers BY DEF Sound, Shape
  <2>5. ASSUME ~no PROVE Sound([h EXCEPT !.mesh[t] = @ \union {p}], P)
    <3>1. CASE t \in Topics
      <4>1. h.backoff[t][p] \in Nat /\ Cardinality(h.mesh[t]) \in Nat BY <2>4, <3>1, Reads DEF Shape
      <4>2. Fit(h, t, p) BY <1>2, <2>4, <2>5, <4>1 DEF Fit, IsBackedOff
      <4>3. Cardinality(h.mesh[t]) < d_high BY <2>5, <4>1, ConfigAssumption
      <4> QED BY <2>4, <3>1, <4>2, <4>3, AlikeSelf, OneMore
    <3>2. CASE t \notin Topics
      <4>1. [h.mesh EXCEPT ![t] = @ \union {p}] = h.mesh BY <2>4, <3>2 DEF Shape
      <4>2. Alike(h, [h EXCEPT !.mesh[t] = @ \union {p}]) BY <2>4, <4>1 DEF Alike, Shape, Fields
      <4> QED BY <4>2, AlikeSound
    <3> QED BY <3>1, <3>2
  <2> QED BY <2>1, <2>3, <2>5
<1> QED BY <1>1, <1>2

LEMMA OnPruneSound ==
  ASSUME NEW h, NEW P, Sound(h, P), NEW p, NEW t, NEW x \in Nat PROVE Sound(OnPrune(h, p, t, x), P)
<1> DEFINE k == [h EXCEPT !.mesh[t] = @ \ {p}]
           w == IF x = 0 THEN prune_backoff ELSE Min({x, max_backoff})
<1>1. OnPrune(h, p, t, x) = RecordBackoffAll(k, t, {p}, w) BY DEF OnPrune, RecordBackoff
<1>2. Sound(k, P) BY FewerMembers
<1>3. w \in Nat BY TwoMin, ConfigAssumption
<1>4. t \in Topics => k.mesh[t] \cap {p} = {} BY DEF Sound, Shape, Fields
<1> HIDE DEF k, w
<1> QED BY <1>1, <1>2, <1>3, <1>4, BackedOff

LEMMA GraftNewAllSound ==
  ASSUME NEW h, NEW P, Sound(h, P), NEW p, NEW ts PROVE Sound(GraftNewSubscriptions(h, p, ts), P)
<1> DEFINE v == OfferAll(h, TopicSeq, p, ts)
<1>1. GraftNewSubscriptions(h, p, ts) = v BY DEF GraftNewSubscriptions, OfferAll
<1>2. ASSUME NEW x, NEW i \in 1..Len(TopicSeq), Sound(x, P)
      PROVE  Sound(Step("offer", x, TopicSeq[i], p, ts), P)
  <2>1. Step("offer", x, TopicSeq[i], p, ts)
          = IF TopicSeq[i] \in ts THEN GraftNew(x, p, TopicSeq[i]) ELSE x
      BY DEF Step
  <2> QED BY <1>2, <2>1, PeersInOrder, GraftNewSound
<1>3. IsFold("offer", TopicSeq, h, p, ts, v) BY OfferFold, PeersInOrder
<1> HIDE DEF v
<1> QED BY <1>1, <1>2, <1>3, PeersInOrder, FoldKeeps

LEMMA FirstOf == ASSUME NEW s, IsSeq(s), NEW m \in Nat, m <= Len(s) PROVE IsSeq(SubSeq(s, 1, m))
<1>1. SubSeq(s, 1, m) = [i \in 1..m |-> s[i]] BY DEF IsSeq
<1>2. IsSeq([i \in 1..m |-> s[i]]) BY DEF IsSeq
<1> QED BY <1>1, <1>2

LEMMA TwoMinBelow == ASSUME NEW x \in Nat, NEW y \in Nat PROVE Min({x, y}) \in Nat /\ Min({x, y}) <= x
<1>1. \E z \in {x, y} : \A w \in {x, y} : z =< w OBVIOUS
<1> QED BY <1>1 DEF Min

LEMMA OnIHaveSound ==
  ASSUME NEW h, NEW P, Sound(h, P), NEW p, NEW t, NEW ids, IsSeq(ids) PROVE Sound(OnIHave(h, p, t, ids), P)
<1> DEFINE k == [h EXCEPT !.ihave_budget[p] = @ + 1]
           s == SubSeq(ids, 1, Min({Len(ids), max_ihave_length}))
           v == AskAll(k, s, p)
<1>1. OnIHave(h, p, t, ids) \in {h, v} BY DEF OnIHave, AskAll
<1>2. Alike(h, k) BY SoundShape DEF Alike, Shape, Fields
<1>3. Sound(k, P) BY <1>2, AlikeSound
<1>4. IsSeq(s)
  <2>1. Len(ids) \in Nat /\ max_ihave_length \in Nat BY ConfigAssumption DEF IsSeq
  <2> QED BY <2>1, TwoMinBelow, FirstOf
<1> HIDE DEF k, s
<1>5. ASSUME NEW x, NEW i \in 1..Len(s), Sound(x, P) PROVE Sound(Step("ask", x, s[i], p, None), P)
  <2>1. Step("ask", x, s[i], p, None) = Ask(x, p, s[i]) BY DEF Step
  <2> QED BY <1>5, <2>1, SoundShape, AskAlike, AlikeSound
<1>6. IsFold("ask", s, k, p, None, v) BY <1>4, AskFold
<1> HIDE DEF v
<1>7. Sound(v, P) BY <1>3, <1>4, <1>5, <1>6, FoldKeeps
<1> QED BY <1>1, <1>7

LEMMA OnIWantSound ==
  ASSUME NEW h, NEW P, Sound(h, P), NEW p, NEW ids, IsSeq(ids) PROVE Sound(OnIWant(h, p, ids), P)
<1> DEFINE v == ServeAll(h, ids, p)
<1>1. OnIWant(h, p, ids) = v BY DEF OnIWant, ServeAll
<1>2. ASSUME NEW x, NEW i \in 1..Len(ids), Sound(x, P) PROVE Sound(Step("serve", x, ids[i], p, None), P)
  <2>1. Step("serve", x, ids[i], p, None) = Serve(x, p, ids[i]) BY DEF Step
  <2> QED BY <1>2, <2>1, SoundShape, ServeAlike, AlikeSound
<1>3. IsFold("serve", ids, h, p, None, v) BY ServeFold
<1> HIDE DEF v
<1> QED BY <1>1, <1>2, <1>3, FoldKeeps

LEMMA ProcessControlSound ==
  ASSUME NEW h, NEW P, NEW p \in P, Sound(h, P), NEW rpc, Decoded(rpc)
  PROVE  Sound(ProcessControl(h, p, rpc.control), P)
<1> DEFINE c == rpc.control
           v1 == GraftAll(h, c.graft, p)
           v2 == PruneEach(v1, c.prune, p)
           v3 == IHaveAll(v2, c.ihave, p)
<1>1. ProcessControl(h, p, c) = OnIWant(v3, p, c.iwant)
    BY DEF ProcessControl, GraftAll, PruneEach, IHaveAll
<1>2. /\ IsSeq(c.graft) /\ IsSeq(c.prune) /\ IsSeq(c.ihave) /\ IsSeq(c.iwant)
      /\ \A i \in 1..Len(c.prune) : c.prune[i].backoff \in Nat
      /\ \A i \in 1..Len(c.ihave) : IsSeq(c.ihave[i].ids)
    BY DEF Decoded
<1> HIDE DEF c
<1>3. Sound(v1, P)
  <2>1. ASSUME NEW x, NEW i \in 1..Len(c.graft), Sound(x, P)
        PROVE  Sound(Step("graft", x, c.graft[i], p, None), P)
    <3>1. Step("graft", x, c.graft[i], p, None) = OnGraft(x, p, c.graft[i]) BY DEF Step
    <3> QED BY <2>1, <3>1, OnGraftSound
  <2>2. IsFold("graft", c.graft, h, p, None, v1) BY <1>2, GraftFold
  <2> HIDE DEF v1
  <2> QED BY <1>2, <2>1, <2>2, FoldKeeps
<1> HIDE DEF v1
<1>4. Sound(v2, P)
  <2>1. ASSUME NEW x, NEW i \in 1..Len(c.prune), Sound(x, P)
        PROVE  Sound(Step("prune", x, c.prune[i], p, None), P)
    <3>1. Step("prune", x, c.prune[i], p, None) = OnPrune(x, p, c.prune[i].t, c.prune[i].backoff) BY DEF Step
    <3> QED BY <1>2, <2>1, <3>1, OnPruneSound
  <2>2. IsFold("prune", c.prune, v1, p, None, v2) BY <1>2, PruneFold
  <2> HIDE DEF v2
  <2> QED BY <1>2, <1>3, <2>1, <2>2, FoldKeeps
<1> HIDE DEF v2
<1>5. Sound(v3, P)
  <2>1. ASSUME NEW x, NEW i \in 1..Len(c.ihave), Sound(x, P)
        PROVE  Sound(Step("ihave", x, c.ihave[i], p, None), P)
    <3>1. Step("ihave", x, c.ihave[i], p, None) = OnIHave(x, p, c.ihave[i].t, c.ihave[i].ids) BY DEF Step
    <3> QED BY <1>2, <2>1, <3>1, OnIHaveSound
  <2>2. IsFold("ihave", c.ihave, v2, p, None, v3) BY <1>2, IHaveFold
  <2> HIDE DEF v3
  <2> QED BY <1>2, <1>4, <2>1, <2>2, FoldKeeps
<1> HIDE DEF v3
<1>6. Sound(OnIWant(v3, p, c.iwant), P) BY <1>2, <1>5, OnIWantSound
<1> QED BY <1>1, <1>6 DEF c

LEMMA ProcessMessageSound ==
  ASSUME NEW h, NEW P, Sound(h, P), NEW p, NEW m PROVE Sound(ProcessMessage(h, p, m), P)
<1> DEFINE interested == m.topics \intersect h.topics
           key == SeenKey(m.id, Signed(m))
           rs == UNION {h.mesh[t] : t \in interested} \ {p, m.from}
           told == Raise(SeenInsert(h, key), Message(p, key))
           v == ForwardAll(told, PeerSeq, rs, m)
<1>1. ProcessMessage(h, p, m) \in {h, Raise(h, ProtocolViolation(p)), McachePut(v, m, interested)}
    BY DEF ProcessMessage, ForwardAll
<1> HIDE DEF key, rs, interested
<1>2. Sound(told, P) BY SoundShape, SeenInsertAlike, RaiseAlike, AlikeSound
<1> HIDE DEF told
<1>3. ASSUME NEW x, NEW i \in 1..Len(PeerSeq), Sound(x, P)
      PROVE  Sound(Step("forward", x, PeerSeq[i], rs, m), P)
  <2>1. Step("forward", x, PeerSeq[i], rs, m) = Forward(x, PeerSeq[i], rs, m) BY DEF Step
  <2> QED BY <1>3, <2>1, SoundShape, ForwardAlike, AlikeSound
<1>4. IsFold("forward", PeerSeq, told, rs, m, v) BY ForwardFold, PeersInOrder
<1> HIDE DEF v
<1>5. Sound(v, P) BY <1>2, <1>3, <1>4, PeersInOrder, FoldKeeps
<1>6. Sound(McachePut(v, m, interested), P) BY <1>5, SoundShape, McachePutAlike, AlikeSound
<1>7. Sound(Raise(h, ProtocolViolation(p)), P) BY SoundShape, RaiseAlike, AlikeSound
<1> QED BY <1>1, <1>6, <1>7

LEMMA ProcessRpcSound ==
  ASSUME NEW h, NEW P, NEW p \in P, Sound(h, P), NEW s, NEW rpc, Decoded(rpc)
  PROVE  Sound(ProcessRpc(h, p, s, rpc), P)
<1> DEFINE k == ApplySubscriptions(h, p, s, rpc.subs)
           v == MessageAll(k, rpc.publish, p)
           c == ProcessControl(v, p, rpc.control)
           ts == k.peers[p].remote_topics \ h.peers[p].remote_topics
           z == GraftNewSubscriptions(c, p, ts)
<1>1. ProcessRpc(h, p, s, rpc) \in {k, DriveSender(z, p)} BY DEF ProcessRpc, MessageAll
<1>2. p \in DOMAIN h.peers /\ IsSeq(rpc.publish) BY DEF Sound, Decoded
<1>3. Sound(k, P) BY <1>2, ApplySubscriptionsSound
<1> HIDE DEF k, ts
<1>4. Sound(v, P)
  <2>1. ASSUME NEW x, NEW i \in 1..Len(rpc.publish), Sound(x, P)
        PROVE  Sound(Step("message", x, rpc.publish[i], p, None), P)
    <3>1. Step("message", x, rpc.publish[i], p, None) = ProcessMessage(x, p, rpc.publish[i]) BY DEF Step
    <3> QED BY <2>1, <3>1, ProcessMessageSound
  <2>2. IsFold("message", rpc.publish, k, p, None, v) BY <1>2, MessageFold
  <2> HIDE DEF v
  <2> QED BY <1>2, <1>3, <2>1, <2>2, FoldKeeps
<1> HIDE DEF v
<1>5. Sound(c, P) BY <1>4, ProcessControlSound
<1> HIDE DEF c
<1>6. Sound(z, P) BY <1>5, GraftNewAllSound
<1> HIDE DEF z
<1>7. Sound(DriveSender(z, p), P) BY <1>6, SoundShape, DriveSenderAlike, AlikeSound
<1> QED BY <1>1, <1>3, <1>7

\* An RPC, whether the peer is known or not.
LEMMA OnFrameSound ==
  ASSUME NEW h, Sound(h, {}), NEW p, NEW s, NEW frame,
         frame.kind \in {"Rpc", "Partial", "Malformed"}, frame.kind = "Rpc" => Decoded(frame)
  PROVE  Sound(OnFrame(h, p, s, frame), {})
<1>1. CASE ~Known(h, p) \/ h.peers[p].inbound[s] = None BY <1>1 DEF OnFrame
<1>2. CASE Known(h, p) /\ ~(h.peers[p].inbound[s] = None)
  <2> DEFINE With(x) == [h EXCEPT !.peers[p].inbound[s] = x]
  <2>1. Shape(h) /\ Sound(h, {p}) BY <1>2 DEF Sound, Known
  <2>2. \A x : Sound(With(x), {p})
    <3> TAKE x
    <3>1. Alike(h, With(x)) BY <2>1 DEF Alike, Shape, Fields, StateFields
    <3> QED BY <2>1, <3>1, AlikeSound
  <2>3. Sound(ViolationReset(h, p, s), {p}) BY <2>1, ViolationResetAlike, AlikeSound
  <2>4. frame.kind = "Rpc" => Sound(ProcessRpc(With("Empty"), p, s, frame), {p})
    <3>1. Sound(With("Empty"), {p}) BY <2>2
    <3> HIDE DEF With
    <3> QED BY <3>1, ProcessRpcSound
  <2>5. CASE frame.kind = "Malformed" BY <1>2, <2>3, <2>5 DEF OnFrame, Sound
  <2>6. CASE frame.kind = "Partial" BY <1>2, <2>2, <2>6 DEF OnFrame, Sound
  <2>7. CASE frame.kind = "Rpc" BY <1>2, <2>4, <2>7 DEF OnFrame, Sound
  <2> QED BY <2>5, <2>6, <2>7
<1> QED BY <1>1, <1>2

LEMMA OnStreamDataSound ==
  ASSUME NEW h, Sound(h, {}), NEW p, NEW s, NEW chunk, IsSeq(chunk),
         \A n \in 1..Len(chunk) : /\ chunk[n].kind \in {"Rpc", "Partial", "Malformed"}
                                  /\ chunk[n].kind = "Rpc" => Decoded(chunk[n])
  PROVE  Sound(OnStreamData(h, p, s, chunk), {})
<1> DEFINE v == FrameAll(h, chunk, p, s)
<1>1. OnStreamData(h, p, s, chunk) \in {h, v} BY DEF OnStreamData, FrameAll
<1>2. ASSUME NEW x, NEW i \in 1..Len(chunk), Sound(x, {})
      PROVE  Sound(Step("frame", x, chunk[i], p, s), {})
  <2>1. Step("frame", x, chunk[i], p, s) = OnFrame(x, p, s, chunk[i]) BY DEF Step
  <2> QED BY <1>2, <2>1, OnFrameSound
<1>3. IsFold("frame", chunk, h, p, s, v) BY FrameFold
<1> HIDE DEF v
<1>4. Sound(v, {}) BY <1>2, <1>3, FoldKeeps
<1> QED BY <1>1, <1>4

\* A peer that is not known yet.
LEMMA EnsureSound ==
  ASSUME NEW h, Sound(h, {}), NEW p \in Peers
  PROVE  Sound(Ensure(h, p, PeerStateDefault), {})
<1> DEFINE k == Put(h, p, PeerStateDefault)
<1>1. SUFFICES ASSUME ~Known(h, p) PROVE Sound(k, {}) BY DEF Ensure
<1>2. /\ DOMAIN k = Fields /\ k.topics = h.topics /\ k.mesh = h.mesh
      /\ k.fanout = h.fanout /\ k.backoff = h.backoff
      /\ k.peers = [q \in DOMAIN h.peers \union {p} |-> IF q = p THEN PeerStateDefault ELSE h.peers[q]]
    BY DEF Sound, Shape, Fields, Put
<1> HIDE DEF k
<1>3. DOMAIN PeerStateDefault = StateFields BY DEF PeerStateDefault, StateFields
<1>4. Shape(k) BY <1>2, <1>3 DEF Sound, Shape
<1>5. ASSUME NEW t \in Topics PROVE TopicSound(k, t)
  <2>1. TopicSound(h, t) BY DEF Sound
  <2> QED BY <1>1, <1>2, <2>1 DEF TopicSound, Fit, Known
<1> QED BY <1>4, <1>5 DEF Sound

LEMMA RemovePeerSound == ASSUME NEW h, Sound(h, {}), NEW p PROVE Sound(RemovePeer(h, p), {})
<1> DEFINE told == IF Known(h, p) /\ QueuedWork(h.peers[p]) > 0 THEN Raise(h, OutboundFailure(p)) ELSE h
           k == RemovePeer(h, p)
<1>1. Sound(told, {}) BY SoundShape, RaiseAlike, AlikeSound
<1>2. k = [Drop(told, p) EXCEPT !.roles[p] = [s \in Streams |-> None],
                    !.ihave_budget[p] = 0, !.iwant_served[p] = 0,
                    !.mesh = [t \in Topics |-> @[t] \ {p}],
                    !.fanout = [t \in Topics |-> IF @[t] = None THEN None ELSE @[t] \ {p}]]
    BY DEF RemovePeer
<1> HIDE DEF told, k
<1>3. /\ DOMAIN k = Fields /\ k.topics = told.topics /\ k.backoff = told.backoff
      /\ k.mesh = [t \in Topics |-> told.mesh[t] \ {p}]
      /\ k.fanout = [t \in Topics |-> IF told.fanout[t] = None THEN None ELSE told.fanout[t] \ {p}]
      /\ k.peers = [q \in DOMAIN told.peers \ {p} |-> told.peers[q]]
    BY <1>1, <1>2 DEF Sound, Shape, Fields, Drop
<1>4. Shape(k) BY <1>1, <1>3 DEF Sound, Shape
<1>5. ASSUME NEW t \in Topics PROVE TopicSound(k, t)
  <2>1. TopicSound(told, t) /\ told.mesh[t] \subseteq Peers BY <1>1 DEF Sound, Shape
  <2>2. k.mesh[t] = told.mesh[t] \ {p} /\ (told.fanout[t] = None => k.fanout[t] = None) BY <1>3
  <2>3. ASSUME NEW q \in k.mesh[t] PROVE Fit(k, t, q) BY <1>3, <2>1, <2>2 DEF TopicSound, Fit
  <2>4. Cardinality(k.mesh[t]) <= d_high
    <3>1. k.mesh[t] \subseteq told.mesh[t] BY <2>2
    <3>2. Cardinality(k.mesh[t]) <= Cardinality(told.mesh[t]) /\ Cardinality(k.mesh[t]) \in Nat
              /\ Cardinality(told.mesh[t]) \in Nat
        BY <2>1, <3>1, SmallerSet, MeshFinite
    <3> QED BY <2>1, <3>2, ConfigAssumption DEF TopicSound
  <2> QED BY <1>3, <2>1, <2>2, <2>3, <2>4 DEF TopicSound
<1> QED BY <1>4, <1>5 DEF Sound, k

LEMMA RemoveForgets == ASSUME NEW h, Sound(h, {}), NEW p PROVE ~Known(RemovePeer(h, p), p)
<1> DEFINE told == IF Known(h, p) /\ QueuedWork(h.peers[p]) > 0 THEN Raise(h, OutboundFailure(p)) ELSE h
<1>1. DOMAIN told = Fields
  <2>1. Sound(told, {}) BY SoundShape, RaiseAlike, AlikeSound
  <2> HIDE DEF told
  <2> QED BY <2>1 DEF Sound, Shape
<1>2. RemovePeer(h, p).peers = [q \in DOMAIN told.peers \ {p} |-> told.peers[q]]
  <2> HIDE DEF told
  <2>1. RemovePeer(h, p) = [Drop(told, p) EXCEPT !.roles[p] = [s \in Streams |-> None],
                    !.ihave_budget[p] = 0, !.iwant_served[p] = 0,
                    !.mesh = [t \in Topics |-> @[t] \ {p}],
                    !.fanout = [t \in Topics |-> IF @[t] = None THEN None ELSE @[t] \ {p}]]
      BY DEF RemovePeer, told
  <2> QED BY <1>1, <2>1 DEF Drop, Fields
<1> HIDE DEF told
<1> QED BY <1>2 DEF Known

LEMMA ConnectionSound ==
  ASSUME NEW h, Sound(h, {}), NEW p \in Peers
  PROVE  Sound(OnConnectionEstablished(h, p), {}) /\ Sound(OnConnectionClosed(h, p), {})
<1> DEFINE k == ArmHeartbeat(h)
           z == RemovePeer(k, p)
<1>1. Sound(k, {}) BY ArmSound
<1>2. OnConnectionEstablished(h, p) \in {k, Put(z, p, PeerStateDefault)} /\ OnConnectionClosed(h, p) = z
    BY DEF OnConnectionEstablished, OnConnectionClosed
<1> HIDE DEF k
<1>3. Sound(z, {}) /\ ~Known(z, p) BY <1>1, RemovePeerSound, RemoveForgets
<1> HIDE DEF z
<1>4. Put(z, p, PeerStateDefault) = Ensure(z, p, PeerStateDefault) BY <1>3 DEF Ensure
<1>5. Sound(Put(z, p, PeerStateDefault), {}) BY <1>3, <1>4, EnsureSound
<1> QED BY <1>1, <1>2, <1>3, <1>5

LEMMA OnPeerReadySound ==
  ASSUME NEW h, Sound(h, {}), NEW p \in Peers, NEW yes PROVE Sound(OnPeerReady(h, p, yes), {})
<1> DEFINE k == Ensure(ArmHeartbeat(h), p, PeerStateDefault)
           z == [k EXCEPT !.peers[p].advertised_version = TRUE]
<1>1. OnPeerReady(h, p, yes) \in {ArmHeartbeat(h), DriveSender(z, p)} BY DEF OnPeerReady
<1>2. Sound(k, {}) /\ Sound(ArmHeartbeat(h), {}) BY ArmSound, EnsureSound
<1> HIDE DEF k
<1>3. Alike(k, z) BY <1>2, SoundShape DEF Alike, Shape, Fields, StateFields
<1> HIDE DEF z
<1>4. Sound(z, {}) BY <1>2, <1>3, AlikeSound
<1>5. Sound(DriveSender(z, p), {}) BY <1>4, SoundShape, DriveSenderAlike, AlikeSound
<1> QED BY <1>1, <1>2, <1>5

LEMMA OnStreamReadySound ==
  ASSUME NEW h, Sound(h, {}), NEW p \in Peers, NEW s, NEW mine PROVE Sound(OnStreamReady(h, p, s, mine), {})
<1> DEFINE k == ArmHeartbeat(h)
           e == Ensure(k, p, PeerStateDefault)
           resync == SubOpts(TRUE, h.topics) \o SubOpts(FALSE, h.peers[p].unsubscribe_tombstones \ h.topics)
           z == [k EXCEPT !.peers[p].outbound_version = TRUE,
                          !.peers[p].subscription_queue = resync,
                          !.peers[p].sender = Ready(s)]
<1>1. OnStreamReady(h, p, s, mine) \in {OnInboundReady(e, p, s), k, DriveSender(z, p)} BY DEF OnStreamReady
<1> HIDE DEF resync
<1>2. Sound(k, {}) /\ Sound(e, {}) BY ArmSound, EnsureSound
<1> HIDE DEF k, e
<1>3. Alike(k, z) BY <1>2, SoundShape DEF Alike, Shape, Fields, StateFields
<1> HIDE DEF z
<1>4. Sound(z, {}) BY <1>2, <1>3, AlikeSound
<1>5. Sound(DriveSender(z, p), {}) BY <1>4, SoundShape, DriveSenderAlike, AlikeSound
<1>6. Sound(OnInboundReady(e, p, s), {}) BY <1>2, SoundShape, OnInboundReadyAlike, AlikeSound
<1> QED BY <1>1, <1>2, <1>5, <1>6

-----------------------------------------------------------------------------
(* The heartbeat and the passing of time. *)

LEMMA MaintainMeshSound ==
  ASSUME NEW h, NEW P, Sound(h, P), NEW t \in Topics, NEW order \in Seq(Peers)
  PROVE  Sound(MaintainMesh(h, t, order), P)
<1> SUFFICES ASSUME t \in h.topics PROVE Sound(MaintainMesh(h, t, order), P) BY DEF MaintainMesh
<1> DEFINE eligible == EligibleTopicPeers(h, t)
           current == h.mesh[t] \intersect eligible
           out == h.mesh[t] \ eligible
           stripped == PruneAll(h, t, out)
           full == FillUp(current, eligible, d, order)
           grafted == full \ current
           cut == current \ SelectPeers(current, d, order)
           told == QueueControlAll(stripped, grafted, <<Graft(t)>>)
           more == current \union {p \in grafted : Queued(stripped, p, Graft(t))}
           less == current \ {p \in cut : Queued(stripped, p, Prune(t))}
<1>1. MaintainMesh(h, t, order)
        = CASE Cardinality(current) < d_low -> [told EXCEPT !.mesh[t] = more]
            [] Cardinality(current) > d_high -> [PruneAll(stripped, t, cut) EXCEPT !.mesh[t] = less]
            [] OTHER -> [stripped EXCEPT !.mesh[t] = current]
    BY DEF MaintainMesh
<1>2. /\ Shape(h) /\ h.mesh[t] \subseteq Peers /\ eligible \subseteq Peers
      /\ Cardinality(h.mesh[t]) \in Nat /\ Cardinality(h.mesh[t]) <= d_high
      /\ \A p \in eligible : Fit(h, t, p)
    BY Reads, SoundShape
<1>3. d_low \in Nat /\ d \in Nat /\ d_high \in Nat /\ d_low <= d /\ d <= d_high BY ConfigAssumption
<1>4. current \subseteq eligible /\ current \subseteq h.mesh[t] /\ current \subseteq Peers /\ current \cap out = {}
    BY <1>2
<1>5. Cardinality(current) \in Nat /\ Cardinality(current) <= d_high
  <2>1. Cardinality(current) \in Nat /\ Cardinality(current) <= Cardinality(h.mesh[t])
      BY <1>2, <1>4, SmallerSet, MeshFinite
  <2> QED BY <1>2, <1>3, <2>1
<1>6. AlikeBut(h, stripped, t, out) BY <1>2, PruneAllBut
<1>7. eligible \cap out = {} OBVIOUS
<1> HIDE DEF eligible, current, out, stripped
<1>8. CASE Cardinality(current) < d_low
  <2>1. full \subseteq current \union eligible /\ full \subseteq Peers /\ current \subseteq full
        /\ Cardinality(full) <= d
      BY <1>3, <1>4, <1>5, <1>8, Filled
  <2>2. more \subseteq full BY <2>1
  <2>3. Alike(stripped, told) BY <1>2, <1>6, ButShape, QueueControlAllAlike
  <2>4. AlikeBut(stripped, told, t, {}) BY <1>2, <1>6, <2>3, ButShape, AlikeIsBut
  <2> HIDE DEF told, more, full
  <2>5. AlikeBut(h, told, t, out \union {}) BY <1>6, <2>4, ButThen
  <2>6. Cardinality(more) <= d_high
    <3>1. Cardinality(more) \in Nat /\ Cardinality(full) \in Nat /\ Cardinality(more) <= Cardinality(full)
        BY <2>1, <2>2, SmallerSet, MeshFinite
    <3> QED BY <1>3, <2>1, <3>1
  <2>7. more \subseteq Peers /\ more \cap (out \union {}) = {} /\ \A p \in more : Fit(h, t, p)
      BY <1>2, <1>4, <1>7, <2>1, <2>2
  <2>8. Sound([told EXCEPT !.mesh[t] = more], P) BY <2>5, <2>6, <2>7, NewMesh
  <2>9. ~(Cardinality(current) > d_high) BY <1>3, <1>5
  <2> QED BY <1>1, <1>8, <2>8, <2>9
<1>9. CASE ~(Cardinality(current) < d_low)
  <2>1. ~(Cardinality(current) > d_high) BY <1>3, <1>5
  <2>2. \A p \in current : Fit(h, t, p) BY <1>2, <1>4
  <2>3. Sound([stripped EXCEPT !.mesh[t] = current], P) BY <1>4, <1>5, <1>6, <2>2, NewMesh
  <2> QED BY <1>1, <1>9, <2>1, <2>3
<1> QED BY <1>8, <1>9

\* A topic that has no fanout gets none.
LEMMA NoNewFanout ==
  ASSUME NEW h, NEW P, Sound(h, P), NEW f, DOMAIN f = Topics,
         \A t \in Topics : h.fanout[t] = None => f[t] = None
  PROVE  Sound([h EXCEPT !.fanout = f], P)
<1> DEFINE k == [h EXCEPT !.fanout = f]
<1>1. /\ DOMAIN k = Fields /\ k.topics = h.topics /\ k.mesh = h.mesh /\ k.backoff = h.backoff
      /\ k.peers = h.peers /\ k.fanout = f
    BY DEF Sound, Shape, Fields
<1> HIDE DEF k
<1>2. Shape(k) BY <1>1 DEF Sound, Shape
<1>3. ASSUME NEW t \in Topics PROVE TopicSound(k, t)
  <2>1. TopicSound(h, t) BY DEF Sound
  <2> QED BY <1>1, <2>1 DEF TopicSound, Fit
<1> QED BY <1>1, <1>2, <1>3 DEF Sound, k

LEMMA FanoutSound ==
  ASSUME NEW h, NEW P, Sound(h, P), NEW pick
  PROVE  Sound(ExpireFanout(h), P) /\ Sound(MaintainFanout(h, pick), P)
<1> DEFINE Kept(t) == FillUp(h.fanout[t] \intersect EligibleTopicPeers(h, t),
                             EligibleTopicPeers(h, t), d, pick[t])
           e == [t \in Topics |-> IF h.fanout_left[t] = 0 THEN None ELSE h.fanout[t]]
           f == [t \in Topics |-> IF h.fanout[t] = None THEN None ELSE Kept(t)]
<1>1. ExpireFanout(h) = [h EXCEPT !.fanout = e] BY DEF ExpireFanout
<1>2. MaintainFanout(h, pick) = [h EXCEPT !.fanout = f] BY DEF MaintainFanout
<1>3. DOMAIN e = Topics /\ \A t \in Topics : h.fanout[t] = None => e[t] = None OBVIOUS
<1>4. DOMAIN f = Topics /\ \A t \in Topics : h.fanout[t] = None => f[t] = None OBVIOUS
<1> HIDE DEF e, f
<1> QED BY <1>1, <1>2, <1>3, <1>4, NoNewFanout

LEMMA HeartbeatSound ==
  ASSUME NEW h, Sound(h, {}), NEW pick \in [Topics -> Seq(Peers)] PROVE Sound(Heartbeat(h, pick), {})
<1> DEFINE k == [h EXCEPT !.ihave_budget = [p \in Peers |-> 0],
                          !.iwant_served = [p \in Peers |-> 0], !.iwant_requested = {}]
           e == ExpireFanout(k)
           m == MeshAll(e, TopicSeq, pick)
           f == MaintainFanout(m, pick)
           v == GossipAll(f, TopicSeq, pick)
<1>1. Heartbeat(h, pick) = DriveAllSenders(McacheShift(v)) BY DEF Heartbeat, MeshAll, GossipAll
<1>2. Alike(h, k) BY SoundShape DEF Alike, Shape, Fields
<1> HIDE DEF k
<1>3. Sound(e, {}) BY <1>2, AlikeSound, FanoutSound
<1> HIDE DEF e
<1>4. Sound(m, {})
  <2>1. ASSUME NEW x, NEW i \in 1..Len(TopicSeq), Sound(x, {})
        PROVE  Sound(Step("mesh", x, TopicSeq[i], pick, None), {})
    <3>1. Step("mesh", x, TopicSeq[i], pick, None) = MaintainMesh(x, TopicSeq[i], pick[TopicSeq[i]]) BY DEF Step
    <3>2. TopicSeq[i] \in Topics /\ pick[TopicSeq[i]] \in Seq(Peers) BY PeersInOrder
    <3> QED BY <2>1, <3>1, <3>2, MaintainMeshSound
  <2>2. IsFold("mesh", TopicSeq, e, pick, None, m) BY MeshFold, PeersInOrder
  <2> HIDE DEF m
  <2> QED BY <1>3, <2>1, <2>2, PeersInOrder, FoldKeeps
<1> HIDE DEF m
<1>5. Sound(f, {}) BY <1>4, FanoutSound
<1> HIDE DEF f
<1>6. Sound(v, {})
  <2>1. ASSUME NEW x, NEW i \in 1..Len(TopicSeq), Sound(x, {})
        PROVE  Sound(Step("gossip", x, TopicSeq[i], pick, None), {})
    <3>1. Step("gossip", x, TopicSeq[i], pick, None) = EmitGossip(x, TopicSeq[i], pick[TopicSeq[i]]) BY DEF Step
    <3> QED BY <2>1, <3>1, SoundShape, EmitGossipAlike, AlikeSound
  <2>2. IsFold("gossip", TopicSeq, f, pick, None, v) BY GossipFold, PeersInOrder
  <2> HIDE DEF v
  <2> QED BY <1>5, <2>1, <2>2, PeersInOrder, FoldKeeps
<1> HIDE DEF v
<1>7. Sound(McacheShift(v), {}) BY <1>6, SoundShape, McacheShiftAlike, AlikeSound
<1> QED BY <1>1, <1>7, DriveAllSound

LEMMA HandleTickSound ==
  ASSUME NEW h, Sound(h, {}), NEW pick \in [Topics -> Seq(Peers)] PROVE Sound(HandleTick(h, pick), {})
<1> DEFINE k == SeenGc(ArmHeartbeat(h))
           v == FoldLeft(TimeOut, k, PeerSeq)
           b == Heartbeat(v, pick)
           z == [b EXCEPT !.next_heartbeat = heartbeat_interval]
<1>1. HandleTick(h, pick) \in {v, z} BY DEF HandleTick
<1>2. Sound(k, {}) BY ArmSound, SoundShape, SeenGcAlike, AlikeSound
<1> HIDE DEF k
<1>3. ASSUME NEW x, NEW i \in 1..Len(PeerSeq), Sound(x, {})
      PROVE  Sound(Step("expire", x, PeerSeq[i], None, None), {})
  <2>1. Step("expire", x, PeerSeq[i], None, None) = TimeOut(x, PeerSeq[i]) BY DEF Step
  <2> QED BY <1>3, <2>1, SoundShape, TimeOutAlike, AlikeSound
<1>4. IsFold("expire", PeerSeq, k, None, None, v) BY ExpireFold, PeersInOrder
<1> HIDE DEF v
<1>5. Sound(v, {}) BY <1>2, <1>3, <1>4, PeersInOrder, FoldKeeps
<1>6. Sound(b, {}) BY <1>5, HeartbeatSound
<1> HIDE DEF b
<1>7. Alike(b, z) BY <1>6, SoundShape DEF Alike, Shape, Fields
<1> HIDE DEF z
<1>8. Sound(z, {}) BY <1>6, <1>7, AlikeSound
<1> QED BY <1>1, <1>5, <1>8

LEMMA ElapseSound == ASSUME NEW h, Sound(h, {}) PROVE Sound(Elapse(h), {})
<1> DEFINE k == Elapse(h)
           f == [p \in DOMAIN h.peers |-> SenderAged(h.peers[p])]
           w == [t \in Topics |-> [p \in Peers |-> Down(h.backoff[t][p])]]
<1>1. /\ DOMAIN k = Fields /\ k.topics = h.topics /\ k.mesh = h.mesh /\ k.fanout = h.fanout
      /\ k.backoff = w /\ k.peers = f
    BY DEF Sound, Shape, Fields, Elapse
<1> HIDE DEF k
<1>2. \A p \in DOMAIN h.peers : DOMAIN f[p] = StateFields /\ f[p].remote_topics = h.peers[p].remote_topics
    BY DEF Sound, Shape, StateFields, SenderAged
<1>3. DOMAIN f = DOMAIN h.peers OBVIOUS
<1>4. w \in [Topics -> [Peers -> Nat]]
  <2>1. \A x \in Nat : Down(x) \in Nat BY DEF Down
  <2>2. h.backoff \in [Topics -> [Peers -> Nat]] BY DEF Sound, Shape
  <2> QED BY <2>1, <2>2
<1>5. \A t \in Topics, p \in Peers : h.backoff[t][p] = 0 => w[t][p] = 0 BY DEF Down
<1> HIDE DEF f, w
<1>6. Shape(k) BY <1>1, <1>2, <1>3, <1>4 DEF Sound, Shape
<1>7. ASSUME NEW t \in Topics PROVE TopicSound(k, t)
  <2>1. TopicSound(h, t) /\ h.mesh[t] \subseteq Peers BY DEF Sound, Shape
  <2>2. ASSUME NEW p \in h.mesh[t] PROVE Fit(k, t, p) BY <1>1, <1>2, <1>3, <1>5, <2>1 DEF TopicSound, Fit
  <2> QED BY <1>1, <2>1, <2>2 DEF TopicSound
<1> QED BY <1>6, <1>7 DEF Sound, k

-----------------------------------------------------------------------------
(* The invariant. *)

LEMMA NewSound == Sound(New, {})
<1>1. /\ DOMAIN New = Fields /\ DOMAIN New.peers = {} /\ New.topics = {}
      /\ New.mesh = [t \in Topics |-> {}] /\ DOMAIN New.fanout = Topics
      /\ New.backoff = [t \in Topics |-> [p \in Peers |-> 0]]
    BY DEF New, Fields
<1>2. Shape(New) BY <1>1 DEF Shape
<1>3. 0 <= d_high BY ConfigAssumption
<1>4. ASSUME NEW t \in Topics PROVE TopicSound(New, t)
  <2>1. New.mesh[t] = {} /\ t \notin New.topics BY <1>1
  <2>2. Cardinality(New.mesh[t]) = 0 BY <2>1, NoMembers, Zenon
  <2> QED BY <1>3, <2>1, <2>2 DEF TopicSound
<1> QED BY <1>1, <1>2, <1>4 DEF Sound

LEMMA InitMesh == Init => MeshInv
BY NewSound DEF Init, MeshInv

LEMMA PolledSound ==
  ASSUME Sound(g, {}) PROVE Sound(Polled, {}) /\ Sound(Rest, {}) /\ Shape(Polled) /\ Shape(Rest)
<1>1. Alike(g, Polled) BY SoundShape DEF Alike, Shape, Fields, Polled
<1>2. Sound(Polled, {}) BY <1>1, AlikeSound
<1>3. Alike(Polled, Rest) BY <1>2, SoundShape DEF Alike, Shape, Fields, Rest
<1> QED BY <1>2, <1>3, AlikeSound, SoundShape

\* One step of the specification.
LEMMA NextSound ==
  ASSUME Next, Gossip, mode \in Range(Modes), Sound(g, {})
  PROVE  mode' = mode /\ Sound(g', {})
<1> USE PolledSound
<1>1. Picks \subseteq [Topics -> Seq(Peers)] BY WorkloadAssumption
<1>2. CASE \E t \in Topics, pick \in Picks : AppSubscribe(t, pick)
  <2>1. PICK t \in Topics, pick \in Picks : AppSubscribe(t, pick) BY <1>2
  <2>2. pick[t] \in Seq(Peers) BY <1>1
  <2>3. g' = Subscribe(Polled, t, pick) /\ mode' = mode BY <2>1 DEF AppSubscribe, Fed
  <2> QED BY <2>2, <2>3, SubscribeSound
<1>3. CASE \E t \in Topics, pick \in Picks : AppPublish(t, pick)
  <2>1. PICK t \in Topics, pick \in Picks : AppPublish(t, pick) BY <1>3
  <2>2. g' = Publish(Polled, t, pick) /\ mode' = mode BY <2>1 DEF AppPublish, Fed
  <2> QED BY <2>2, PublishSound
<1>4. CASE \E t \in Topics : AppUnsubscribe(t)
  <2>1. PICK t \in Topics : AppUnsubscribe(t) BY <1>4
  <2>2. g' = Unsubscribe(Polled, t) /\ mode' = mode BY <2>1 DEF AppUnsubscribe, Fed
  <2> QED BY <2>2, UnsubscribeSound
<1>5. CASE \E p \in Peers : ConnectionEstablished(p)
  <2>1. PICK p \in Peers : ConnectionEstablished(p) BY <1>5
  <2>2. g' = OnConnectionEstablished(Polled, p) /\ mode' = mode BY <2>1 DEF ConnectionEstablished, Reconnected
  <2> QED BY <2>2, ConnectionSound
<1>6. CASE \E p \in Peers : ConnectionClosed(p)
  <2>1. PICK p \in Peers : ConnectionClosed(p) BY <1>6
  <2>2. g' = OnConnectionClosed(Polled, p) /\ mode' = mode BY <2>1 DEF ConnectionClosed, Reconnected
  <2> QED BY <2>2, ConnectionSound
<1>7. CASE \E p \in Peers : PeerReady(p)
  <2>1. PICK p \in Peers : PeerReady(p) BY <1>7
  <2>2. g' = OnPeerReady(Polled, p, TRUE) /\ mode' = mode BY <2>1 DEF PeerReady, Fed
  <2> QED BY <2>2, OnPeerReadySound
<1>8. CASE \E p \in Peers, s \in OutIds : OutboundReady(p, s)
  <2>1. PICK p \in Peers, s \in OutIds : OutboundReady(p, s) BY <1>8
  <2>2. g' = OnStreamReady(Polled, p, s, TRUE) /\ mode' = mode BY <2>1 DEF OutboundReady, Fed
  <2> QED BY <2>2, OnStreamReadySound
<1>9. CASE \E p \in Peers, s \in InIds : InboundReady(p, s)
  <2>1. PICK p \in Peers, s \in InIds : InboundReady(p, s) BY <1>9
  <2>2. g' = OnStreamReady(Polled, p, s, FALSE) /\ mode' = mode BY <2>1 DEF InboundReady, Fed
  <2> QED BY <2>2, OnStreamReadySound
<1>10. CASE \E p \in Peers, s \in InIds : RemoteWriteClosed(p, s)
  <2>1. PICK p \in Peers, s \in InIds : RemoteWriteClosed(p, s) BY <1>10
  <2>2. g' = OnRemoteWriteClosed(ArmHeartbeat(Polled), p, s) /\ mode' = mode BY <2>1 DEF RemoteWriteClosed, Fed
  <2>3. Sound(ArmHeartbeat(Polled), {}) BY ArmSound
  <2> QED BY <2>2, <2>3, SoundShape, OnRemoteWriteClosedAlike, AlikeSound
<1>11. CASE \E p \in Peers, s \in InIds, chunk \in mode.chunks : StreamData(p, s, chunk)
  <2>1. PICK p \in Peers, s \in InIds, chunk \in mode.chunks : StreamData(p, s, chunk) BY <1>11
  <2>2. g' = OnStreamData(Polled, p, s, chunk) /\ mode' = mode BY <2>1 DEF StreamData, Fed
  <2>3. PICK i \in DOMAIN Modes : mode = Modes[i] BY DEF Range
  <2>4. /\ IsSeq(chunk)
        /\ \A n \in 1..Len(chunk) : /\ chunk[n].kind \in {"Rpc", "Partial", "Malformed"}
                                    /\ chunk[n].kind = "Rpc" => Decoded(chunk[n])
      BY <2>1, <2>3, WorkloadAssumption
  <2> QED BY <2>2, <2>4, OnStreamDataSound
<1>12. ASSUME NEW p, NEW s, NEW direction, Closes(p, s, direction) PROVE mode' = mode /\ Sound(g', {})
  <2>1. g' = OnStreamClosed(Polled, p, s) /\ mode' = mode BY <1>12 DEF Closes, Fed
  <2> QED BY <2>1, OnStreamClosedAlike, AlikeSound
<1>13. CASE \E p \in Peers, s \in OutIds :
                RemoteFinishes(p, s) \/ StreamClosed(p, s, "out") \/ RemoteResets(p, s, "out")
  BY <1>12, <1>13 DEF RemoteFinishes, StreamClosed, RemoteResets
<1>14. CASE \E p \in Peers, s \in InIds : StreamClosed(p, s, "in") \/ RemoteResets(p, s, "in")
  BY <1>12, <1>14 DEF StreamClosed, RemoteResets
<1>15. CASE \E pick \in Picks : Tick(pick)
  <2>1. PICK pick \in Picks : Tick(pick) BY <1>15
  <2> DEFINE k == Elapse(Polled)
  <2>2. mode' = mode /\ g' = Ticked(k, pick) BY <2>1 DEF Tick
  <2>3. Sound(k, {}) BY ElapseSound
  <2> HIDE DEF k
  <2>4. Ticked(k, pick) \in {k, HandleTick(k, pick)} BY DEF Ticked
  <2>5. Sound(HandleTick(k, pick), {}) BY <1>1, <2>3, HandleTickSound
  <2> QED BY <2>2, <2>3, <2>4, <2>5
<1>16. CASE OpenSucceeds \/ OpenFails
  <2>1. mode' = mode /\ \E p, s : g' = StreamOpenResult(Rest, p, s)
      BY <1>16, Zenon DEF OpenSucceeds, OpenFails, Answered
  <2> QED BY <2>1, StreamOpenResultAlike, AlikeSound
<1>17. CASE (\E breaks \in BOOLEAN : SendSucceeds(breaks)) \/ SendFails
  <2>1. mode' = mode /\ \E p, s, ok : g' = SendResult(Rest, p, s, ok)
      BY <1>17, Zenon DEF SendSucceeds, SendFails, Answered
  <2> QED BY <2>1, SendResultAlike, AlikeSound
<1>18. CASE CloseWrite \/ Reset
  <2>1. mode' = mode /\ g' = Rest BY <1>18 DEF CloseWrite, Reset, Answered
  <2> QED BY <2>1
<1> QED
  BY <1>2, <1>3, <1>4, <1>5, <1>6, <1>7, <1>8, <1>9, <1>10, <1>11, <1>13, <1>14, <1>15, <1>16, <1>17, <1>18
  DEF Next

LEMMA StepMesh == MeshInv /\ [Next]_vars => MeshInv'
<1> SUFFICES ASSUME MeshInv, [Next]_vars PROVE MeshInv' OBVIOUS
<1>1. CASE Next /\ Gossip BY <1>1, NextSound DEF MeshInv, Gossip
<1>2. CASE Next /\ ~Gossip
  <2>1. mode' = mode
    BY <1>2 DEF Next, AppSubscribe, AppPublish, AppUnsubscribe, ConnectionEstablished, ConnectionClosed,
        PeerReady, OutboundReady, RemoteFinishes, InboundReady, RemoteWriteClosed, StreamData,
        StreamClosed, RemoteResets, Closes, Tick, OpenSucceeds, OpenFails, SendSucceeds, SendFails,
        CloseWrite, Reset, Fed, Answered, Reconnected
  <2> QED BY <1>2, <2>1 DEF MeshInv, Gossip
<1>3. CASE UNCHANGED vars BY <1>3 DEF vars, MeshInv, Gossip, Sound, Shape, TopicSound, Fit
<1> QED BY <1>1, <1>2, <1>3

(* The router's tables keep their shape and the mesh of every topic is sound, under
   every call of the application, event of the swarm, answer of the driver and tick:
   the inductive invariant behind MeshAgrees. *)
THEOREM MeshInvariant == Spec => []MeshInv
BY InitMesh, StepMesh, PTL DEF Spec

(* fn subscribe, on_graft, on_prune, apply_subscriptions, maintain_mesh and remove_peer
   (gossipsub/agent.rs) keep every member of a mesh a known, subscribed peer that is
   not backed off, the mesh within d_high, and no fanout for a subscribed topic. *)
THEOREM MeshStaysRight == Spec => []MeshAgrees
<1>1. MeshInv => MeshAgrees BY DEF MeshInv, MeshAgrees, Sound, TopicSound, Fit, Known
<1> QED BY <1>1, MeshInvariant, PTL
=============================================================================
