------------------------------ MODULE MCSwarm ------------------------------
(* Instances of SwarmRuntime: up to two connections to one peer. *)
EXTENDS SwarmRuntime

CONSTANT p1

MCRemotePeer == [c \in Conns |-> p1]
MCPayload    == <<"x">>

\* A second connection replaces the first while the remote uses its streams: with
\* one event per poll, and with two where one side only opens streams.
Supersede ==
    [ conns |-> {1, 2}, late |-> FALSE, local |-> {1}, remote |-> {2},
      protocols |-> {"user"}, chunks |-> {<<"x">>}, drivers |-> {"poll_next"}, calls |-> {},
      MaxBatch |-> 1, MaxCalls |-> 0, MaxNow |-> 0 ]
Batched == [Supersede EXCEPT !.MaxBatch = 2]

\* The remote negotiates a stream on the first connection in the batch in which the
\* second replaces it.
Overtaken == [Supersede EXCEPT !.local = {}, !.drivers = {"poll"}, !.MaxBatch = 3]

\* The application and the remote open, use and give up streams.
Streams ==
    [Supersede EXCEPT !.conns = {1}, !.remote = {3}, !.protocols = {"user", "identify"},
                      !.calls = {"open", "write", "reset", "abandon", "forget", "disconnect"},
                      !.MaxBatch = 2, !.MaxCalls = 2]

\* Pings that time out, on a connection whose peer may be verified late.
Pings ==
    [ conns |-> {1}, late |-> TRUE, local |-> {1, 2}, remote |-> {3},
      protocols |-> {"ping"}, chunks |-> {<<"x">>}, drivers |-> {"poll"},
      calls |-> {"ping"}, MaxBatch |-> 1, MaxCalls |-> 1, MaxNow |-> 2 ]

MCWorkloads ==
    { Supersede, Overtaken, [Batched EXCEPT !.local = {}], [Batched EXCEPT !.remote = {}],
      Streams, [Streams EXCEPT !.local = {1, 2}, !.remote = {}],
      Pings, [Pings EXCEPT !.local = {1}, !.MaxCalls = 2, !.chunks = @ \cup {<<"x", "x">>}] }
=============================================================================
