----------------------------- MODULE MCCircuit -----------------------------
(* The workloads of the circuit run. *)
EXTENDS Circuit

Idle == [ bridge |-> 1, open |-> 0, send |-> 0, fin |-> 0, reset |-> 0, close |-> 0,
          break |-> 0, leave |-> 0, direct |-> 0, gone |-> 0, fail |-> 0, full |-> 0 ]
Mode(peer, closers, f) == [peer |-> peer, closers |-> closers, fuel |-> f]

Workloads ==
    << Mode("B", Ends, [Idle EXCEPT !.open = 1, !.send = 2, !.fin = 1, !.fail = 1]),
       Mode("B", {"A"}, [Idle EXCEPT !.bridge = 2, !.close = 2]),
       Mode("B", Ends, [Idle EXCEPT !.direct = 1, !.gone = 1, !.close = 1]),
       Mode("B", Ends, [Idle EXCEPT !.leave = 1, !.break = 1]),
       Mode("B", Ends, [Idle EXCEPT !.open = 1, !.send = 1, !.reset = 1, !.close = 1]),
       Mode("B", {}, [Idle EXCEPT !.open = 1, !.send = 1, !.full = 1]),
       Mode("C", Ends, Idle) >>

Window == [e \in Roles |-> 2]
=============================================================================
