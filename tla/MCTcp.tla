------------------------------- MODULE MCTcp -------------------------------
(* The workloads of the TCP run. *)
EXTENDS Tcp

Idle == [ dial |-> 0, open |-> 0, send |-> 0, fin |-> 0, reset |-> 0, close |-> 0,
          refuse |-> 0, break |-> 0, time |-> 0 ]
Limits(connections, buffered) == [max_connections |-> connections, max_buffered_send |-> buffered]
Ample == [e \in Ends |-> Limits(2, 4)]
Mode(kind, expected, opens, f) ==
    [kind |-> kind, expected |-> expected, opens |-> opens, limits |-> Ample, tight |-> FALSE, fuel |-> f]
Tight(kind, opens, limits, f) ==
    [Mode(kind, "B", opens, f) EXCEPT !.limits = limits, !.tight = TRUE]

\* A listener with room for one, and a dialler whose buffer holds one message.
Small == [e \in Ends |-> IF e = "A" THEN Limits(2, 1) ELSE Limits(1, 4)]

Flow   == [Idle EXCEPT !.dial = 1, !.open = 1, !.send = 3, !.fin = 2]
Cut    == [Idle EXCEPT !.dial = 1, !.open = 1, !.send = 1, !.reset = 1, !.close = 1, !.break = 1]
Races  == [Idle EXCEPT !.dial = 2, !.close = 1, !.refuse = 1]
Timers == [Idle EXCEPT !.dial = 1, !.open = 1, !.send = 1, !.fin = 1, !.time = 3]

Workloads ==
    << Mode("Std", "B", {"A"}, Flow),   Mode("Smoltcp", "B", {"A"}, Flow),
       Mode("Std", "B", {"B"}, Cut),    Mode("Smoltcp", "B", {"B"}, Cut),
       Mode("Std", "B", {}, Races),     Mode("Smoltcp", "B", {}, Races),
       Mode("Std", "B", {"A"}, Timers), Mode("Smoltcp", "B", {"A"}, Timers),
       Mode("Std", "C", {}, [Races EXCEPT !.dial = 1]),
       Tight("Std", {"A"}, [Small EXCEPT !["A"] = Limits(2, 4)], [Idle EXCEPT !.dial = 2]),
       Tight("Smoltcp", {"A"}, [Small EXCEPT !["A"] = Limits(2, 4)], [Idle EXCEPT !.dial = 2]),
       Tight("Std", {"A"}, Small, [Idle EXCEPT !.dial = 1, !.open = 1, !.send = 2]) >>

Window == [e \in Roles |-> 2]
=============================================================================
