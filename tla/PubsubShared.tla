---------------------------- MODULE PubsubShared ----------------------------
(* What the two pubsub routers of crates/pubsub share: their queues of actions and
   events, stream roles, the seen cache, message verification and the inbound half
   of their streams, as operators on the router's record `g`.

   A timer holds the time that is left.  A correlation token lives from an action
   to the driver's synchronous answer, so answers carry none.  Peers, topics and
   message ids are numbers in the order of the code's BTreeMaps; the limit of one
   frame is a number of entries.  Topic names are valid ones. *)
EXTENDS Integers, Sequences, FiniteSets, FiniteSetsExt, SequencesExt

CONSTANTS
    None,
    PeerSeq, TopicSeq, MsgSeq,       \* peers, topics and message ids in order
    Streams,                         \* stream ids of one connection
    Local,                           \* our own peer id
    allow_unsigned, seen_ttl, max_seen_messages, max_pending_per_peer,
    max_topics_per_peer, max_inbound_streams_per_peer, send_timeout,
    MaxFrameEntries                  \* MAX_RPC_SIZE, in entries

Peers == ToSet(PeerSeq)
Topics == ToSet(TopicSeq)
IsSeq(s) == Len(s) \in Nat /\ DOMAIN s = 1..Len(s)

ASSUME OrderAssumption == IsSeq(PeerSeq) /\ IsSeq(TopicSeq)

Sorted(S, order) == SelectSeq(order, LAMBDA x : x \in S)

Push(g, action) == [g EXCEPT !.actions = Append(@, action)]
Raise(g, event) == [g EXCEPT !.events = Append(@, event)]

OpenStream(p)          == [op |-> "OpenStream", peer |-> p, s |-> None, data |-> None]
SendStream(p, s, data) == [op |-> "SendStream", peer |-> p, s |-> s, data |-> data]
CloseStreamWrite(p, s) == [op |-> "CloseStreamWrite", peer |-> p, s |-> s, data |-> None]
ResetStream(p, s)      == [op |-> "ResetStream", peer |-> p, s |-> s, data |-> None]

Event(e, p, t, key)  == [e |-> e, peer |-> p, topic |-> t, key |-> key]
OutboundFailure(p)   == Event("OutboundFailure", p, None, None)
ProtocolViolation(p) == Event("ProtocolViolation", p, None, None)
PeerSubscribed(p, t) == Event("PeerSubscribed", p, t, None)
PeerUnsubscribed(p, t) == Event("PeerUnsubscribed", p, t, None)
Message(p, key)      == Event("Message", p, None, key)

\* `peers` is a BTreeMap: a function on the peers that it knows
Known(g, p) == p \in DOMAIN g.peers
Put(g, p, state) ==
    [g EXCEPT !.peers = [q \in DOMAIN @ \union {p} |-> IF q = p THEN state ELSE @[q]]]
Drop(g, p) == [g EXCEPT !.peers = [q \in DOMAIN @ \ {p} |-> @[q]]]
Ensure(g, p, fresh) == IF Known(g, p) THEN g ELSE Put(g, p, fresh)

\* fn owns_stream, fn role
OwnsStream(g, p, s) == g.roles[p][s] # None

\* fn reject_stream, fn violation_reset
RejectStream(g, p, s) == Push([g EXCEPT !.roles[p][s] = "Rejected"], ResetStream(p, s))
ViolationReset(g, p, s) ==
    RejectStream(Raise(IF Known(g, p) THEN [g EXCEPT !.peers[p].inbound[s] = None] ELSE g,
                       ProtocolViolation(p)), p, s)

-----------------------------------------------------------------------------
(* SeenCache: [key, left] in the order of expiry.  An unsigned claim has a key of
   its own. *)
SeenKey(id, signed) == <<id, signed>>
SeenContains(g, key) == \E i \in DOMAIN g.seen : g.seen[i].key = key
SeenInsert(g, key) ==
    IF SeenContains(g, key) THEN g
    ELSE [g EXCEPT !.seen =
             LET order == Append(@, [key |-> key, left |-> seen_ttl])
                 excess == Len(order) - max_seen_messages
             IN IF excess > 0 THEN SubSeq(order, excess + 1, Len(order)) ELSE order]
SeenGc(g) == [g EXCEPT !.seen = SelectSeq(@, LAMBDA x : x.left > 0)]

-----------------------------------------------------------------------------
(* A message names its id, publisher and topics, says whether `from` and `seqno`
   are well formed, and what its key and signature fields hold. *)
BuildSigned(id, t) ==
    [id |-> id, from |-> Local, topics |-> {t}, named |-> TRUE, key |-> "None", sig |-> "Good"]

SourceAndSeqno(m) == m.named
Signed(m) == m.sig # "None"
Verify(m) ==
    /\ SourceAndSeqno(m)
    /\ IF ~Signed(m) THEN m.key = "None" /\ allow_unsigned
       ELSE m.key \in {"None", "OfFrom"} /\ m.sig = "Good"

-----------------------------------------------------------------------------
(* The inbound half. *)

\* The inbound arm of fn on_stream_ready.
OnInboundReady(g, p, s) ==
    IF Cardinality({x \in Streams : g.peers[p].inbound[x] # None}) >= max_inbound_streams_per_peer
    THEN RejectStream(Raise(g, ProtocolViolation(p)), p, s)
    ELSE [g EXCEPT !.peers[p].inbound[s] = "Empty", !.roles[p][s] = "Inbound"]

\* fn on_remote_write_closed
OnRemoteWriteClosed(g, p, s) ==
    IF g.roles[p][s] # "Inbound" THEN g
    ELSE IF Known(g, p) /\ g.peers[p].inbound[s] = "Partial" THEN ViolationReset(g, p, s)
    ELSE Push(IF Known(g, p) THEN [g EXCEPT !.peers[p].inbound[s] = None] ELSE g,
              CloseStreamWrite(p, s))

\* The remote's topics after a list of SubOpts.
Candidate(topics, subs) ==
    FoldLeft(LAMBDA acc, sub : IF sub.subscribe THEN acc \union {sub.topic} ELSE acc \ {sub.topic},
             topics, subs)

\* The events of a change of the remote's topics.
TopicEvents(p, added, removed) ==
    [i \in 1..Cardinality(added) |-> PeerSubscribed(p, Sorted(added, TopicSeq)[i])] \o
    [i \in 1..Cardinality(removed) |-> PeerUnsubscribed(p, Sorted(removed, TopicSeq)[i])]

\* A chunk of bytes holds frames: an RPC, "Partial" (the head of one whose rest comes
\* in a later chunk) or "Malformed".
Rpc(subs, publish, control) ==
    [kind |-> "Rpc", subs |-> subs, publish |-> publish, control |-> control]
Partial == [kind |-> "Partial"]
Malformed == [kind |-> "Malformed"]

\* A unit of time.
Down(x) == IF x = 0 THEN 0 ELSE x - 1
SeenAged(entry) == [entry EXCEPT !.left = Down(@)]
SenderAged(state) == [state EXCEPT !.sender.left = Down(@)]

\* fn on_stream_closed: the role goes first
DropRole(g, p, s) == [g EXCEPT !.roles[p][s] = None]
DropInbound(g, p, s) == IF Known(g, p) THEN [g EXCEPT !.peers[p].inbound[s] = None] ELSE g
=============================================================================
