------------------------------ MODULE MCRelay ------------------------------
(* Peer "A" is the source, on connection 1.  Peer "B" reserves on connection 2,
   where the relay opens its STOP streams, and may reconnect as 3, which is itself
   a circuit. *)
EXTENDS RelayServer

MCPeers == {"A", "B"}
MCPeerOf == [c \in Conns |-> IF c = 1 THEN "A" ELSE "B"]
MCHopKeys == {<<1, 1>>, <<1, 3>>, <<2, 5>>, <<3, 7>>}
MCStopKeys == {<<2, 2>>, <<2, 4>>}
Rate == [capacity |-> 1, refill_interval |-> 1]

Frame(t) == [type |-> t]
ConnectTo(p) == [type |-> "Connect", dst |-> p]

\* Two HOP streams of "A" compete for one circuit and its rate limit.
Competing ==
    [ requests |-> [k \in HopKeys |->
        CASE k = <<1, 1>> -> {ConnectTo("B"), Frame("Reserve")}
          [] k = <<1, 3>> -> {ConnectTo("B")}
          [] k = <<2, 5>> -> {Frame("Reserve")}
          [] k = <<3, 7>> -> {}],
      bytes      |-> [k \in Keys |-> 0],
      finishing  |-> {},
      MaxFaults  |-> 1,
      PauseTimes |-> {},
      hasty      |-> FALSE ]

\* One stream per connection, malformed requests too: "B" asks over its circuit, or
\* the application pauses.
Alone     == [Competing EXCEPT !.requests[<<1, 1>>] = @ \cup {Frame("Malformed"), Frame("Garbage")},
                               !.requests[<<1, 3>>] = {}]
Reserving == [Alone EXCEPT !.requests[<<3, 7>>] = {ConnectTo("A"), Frame("Reserve")}]
Pausing   == [Alone EXCEPT !.PauseTimes = {0}]

\* One CONNECT, with payload in both directions, more of it without faults and none
\* with two.
Carrying ==
    [ requests |-> [k \in HopKeys |-> CASE k = <<1, 1>> -> {ConnectTo("B")}
                                        [] k = <<2, 5>> -> {Frame("Reserve")}
                                        [] OTHER -> {}],
      bytes      |-> [k \in Keys |-> CASE k = <<1, 1>> -> 3 [] k = <<2, 2>> -> 1 [] OTHER -> 0],
      finishing  |-> {<<1, 1>>, <<2, 2>>},
      MaxFaults  |-> 0,
      PauseTimes |-> {},
      hasty      |-> FALSE ]
Breaking == [Carrying EXCEPT !.bytes[<<1, 1>>] = 1, !.finishing = {<<1, 1>>}, !.MaxFaults = 1]
Failing == [Carrying EXCEPT !.bytes = [k \in Keys |-> 0], !.finishing = {}, !.MaxFaults = 2]

\* The source goes on writing behind the payload of its CONNECT.
Hasty == [Carrying EXCEPT !.hasty = TRUE, !.bytes[<<1, 1>>] = 3]

MCWorkloads == {Competing, Reserving, Pausing, Carrying, Breaking, Failing, Hasty}
=============================================================================
