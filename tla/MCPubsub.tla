------------------------------ MODULE MCPubsub ------------------------------
(* Two peers, one topic. *)
EXTENDS Pubsub

MCPeerSeq == <<1, 2>>
MCTopicSeq == <<1>>
MCMsgSeq == <<1, 2>>
MCPicks == {[t \in Topics |-> PeerSeq], [t \in Topics |-> Reverse(PeerSeq)]}

Fuel(calls, publishes, connections, streams, chunks, faults, ticks) ==
    [calls |-> calls, publishes |-> publishes, connections |-> connections,
     streams |-> streams, chunks |-> chunks, faults |-> faults, ticks |-> ticks]

NoControl == [graft |-> <<>>, prune |-> <<>>, ihave |-> <<>>, iwant |-> <<>>]
Sub(t) == [subscribe |-> TRUE, topic |-> t]
Unsub(t) == [subscribe |-> FALSE, topic |-> t]
Subs(subs) == Rpc(subs, <<>>, NoControl)
Grafts(t) == Rpc(<<>>, <<>>, [NoControl EXCEPT !.graft = <<t>>])
Prunes(t) == Rpc(<<>>, <<>>, [NoControl EXCEPT !.prune = <<[t |-> t, backoff |-> 0]>>])
IHaves(t, ids) == Rpc(<<>>, <<>>, [NoControl EXCEPT !.ihave = <<[t |-> t, ids |-> ids]>>])
IWants(ids) == Rpc(<<>>, <<>>, [NoControl EXCEPT !.iwant = ids])
Msg(id) == [id |-> id, from |-> 2, topics |-> {1}, named |-> TRUE, key |-> "None", sig |-> "Good"]
Publishes(m) == Rpc(<<>>, <<m>>, NoControl)

Workload(engine, peers, budget, chunks) ==
    [engine |-> engine, peers |-> peers, fuel |-> budget, chunks |-> chunks]

Announces == <<Subs(<<Sub(1)>>)>>
Withdraws == <<Subs(<<Unsub(1)>>)>>

\* One peer whose IHAVE fills the queue behind which its subscription brings a GRAFT.
MCFullQueue ==
    << Workload("Gossipsub", {1}, Fuel(1, 0, 1, 1, 1, 1, 0),
                {<<IHaves(1, <<1>>), Subs(<<Sub(1)>>)>>}) >>

\* Two peers and the mesh; our subscriptions to one peer, with streams that fail; RPCs
\* that arrive together while a frame is in flight; messages, IHAVE and IWANT between
\* two peers; floodsub between two peers, and with one, where streams fail; and a
\* refused frame behind which the queue is full.
MCModes ==
    << Workload("Gossipsub", {1, 2}, Fuel(1, 0, 2, 2, 3, 0, 2),
                {Announces, Withdraws, <<Grafts(1)>>, <<Prunes(1)>>}),
       Workload("Gossipsub", {1}, Fuel(3, 0, 2, 1, 1, 2, 2), {Announces, <<Partial>>, <<Malformed>>}),
       Workload("Gossipsub", {1}, Fuel(2, 1, 1, 1, 2, 1, 2),
                {<<Subs(<<Sub(1)>>), Prunes(1)>>,
                 <<Subs(<<Sub(1)>>), Rpc(<<Unsub(1)>>, <<>>, [NoControl EXCEPT !.graft = <<1>>])>>,
                 <<Grafts(1), Subs(<<Unsub(1), Sub(1)>>)>>}),
       Workload("Gossipsub", {1, 2}, Fuel(1, 1, 2, 2, 2, 0, 1),
                {Announces, <<Subs(<<Sub(1)>>), Publishes(Msg(2))>>, <<Publishes(Msg(2))>>,
                 <<IHaves(1, <<2>>)>>, <<IWants(<<1>>)>>}),
       Workload("Floodsub", {1, 2}, Fuel(1, 1, 2, 2, 2, 0, 1),
                {<<Subs(<<Sub(1)>>), Publishes(Msg(2))>>, <<Publishes(Msg(2))>>}),
       Workload("Floodsub", {1}, Fuel(2, 1, 2, 1, 2, 1, 1), {Announces, <<Publishes(Msg(2))>>}) >>
    \o MCFullQueue
=============================================================================
