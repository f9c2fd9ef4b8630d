------------------------------- MODULE MCQuic -------------------------------
(* The workloads of the QUIC run. *)
EXTENDS Quic

Idle == [ dial |-> 1, open |-> 0, send |-> 0, fin |-> 0, reset |-> 0, close |-> 0, pto |-> 0, idle |-> 0,
          quiet |-> 0, blocked |-> 0, dead |-> 0, lose |-> 0, expire |-> 0, garbage |-> 0 ]
Mode(fams, peer, cert, validate, sizes, f) ==
    [fams |-> fams, peer |-> peer, cert |-> cert, validate |-> validate, sizes |-> sizes, fuel |-> f]
V4 == <<"v4">>

Workloads ==
    << Mode(V4, "B", "A", FALSE, {1, 3}, [Idle EXCEPT !.open = 1, !.send = 3, !.fin = 2]),
       Mode(V4, "B", "A", FALSE, {3}, [Idle EXCEPT !.open = 2, !.send = 2, !.fin = 1, !.reset = 1]),
       Mode(V4, "B", "A", FALSE, {5}, [Idle EXCEPT !.open = 1, !.send = 2, !.reset = 2, !.close = 1]),
       Mode(V4, "B", "A", TRUE, {1}, [Idle EXCEPT !.dial = 2, !.pto = 2, !.lose = 1, !.expire = 1, !.idle = 1]),
       Mode(V4, "B", "A", FALSE, {1}, [Idle EXCEPT !.dial = 2, !.pto = 1, !.close = 2]),
       Mode(V4, "B", "A", FALSE, {2}, [Idle EXCEPT !.dial = 2, !.blocked = 1, !.dead = 1, !.open = 1, !.send = 2]),
       Mode(<<"v4", "v6">>, "B", "A", FALSE, {5}, [Idle EXCEPT !.open = 1, !.send = 1, !.reset = 1, !.lose = 1, !.pto = 1]),
       Mode(V4, "B", "A", FALSE, {1}, [Idle EXCEPT !.quiet = 2, !.idle = 1, !.garbage = 1, !.open = 1, !.send = 1]),
       Mode(V4, "C", "A", TRUE, {1}, [Idle EXCEPT !.dial = 2]),
       Mode(V4, "B", "bad", FALSE, {1}, [Idle EXCEPT !.dial = 2, !.pto = 1]) >>
=============================================================================
