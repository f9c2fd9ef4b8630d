------------------------------ MODULE MCYamux ------------------------------
(* Instances of Yamux.  The server refuses a second stream, which the client would
   have accepted; a stream's window opens at 1 and grows to 2 by a window update. *)
EXTENDS Yamux

ServerRefuses == [e \in Roles |-> IF e = "Server" THEN 1 ELSE 2]

Of(client, server) == [e \in Roles |-> IF e = "Client" THEN client ELSE server]

\* Both hosts write and half-close one stream; one of them writes more.
Flow ==
    [ calls |-> Of({"open", "send", "close"}, {"send", "close"}), DrainFirst |-> TRUE,
      MaxSend |-> 3, MaxBytes |-> 3, MaxNow |-> 0 ]
OneWay == [Flow EXCEPT !.calls = Of({"open", "send", "close"}, {}), !.MaxBytes = 6]

\* Both open; the client writes, until the buffers of both streams are full or to
\* their ends, and the server resets.
Filling ==
    [Flow EXCEPT !.calls = Of({"open", "send"}, {"open"}), !.MaxBytes = 3]
Closing ==
    [Flow EXCEPT !.calls = Of({"open", "close"}, {"open", "reset"}), !.MaxBytes = 1]

\* The client ends the session while the server's keepalive runs, or calls again
\* before it has drained the last outputs.
Ending ==
    [ calls |-> Of({"open", "send", "close", "goaway"}, {"poll"}), DrainFirst |-> TRUE,
      MaxSend |-> 1, MaxBytes |-> 2, MaxNow |-> 3 ]
Undrained ==
    [Ending EXCEPT !.calls = Of({"open", "send", "close", "goaway"}, {}), !.DrainFirst = FALSE]

MCWorkloads == {Flow, OneWay, Filling, Closing, Ending, Undrained}

(* The two directions of stream 1 as instances of CreditFlow.  The state that the
   refinement mapping gives is kept in a history variable, so that it is computed
   once per step. *)
VARIABLE flow

FlowFrom(e) ==
    [ send_window            |-> Uncut(1, State(e, 1).send_window),
      buffered_send          |-> Uncut(1, State(e, 1).buffered_send),
      data                   |-> Uncut(1, Carried(e, 1, "Data")),
      credit                 |-> Uncut(1, Carried(Other(e), 1, "WindowUpdate")),
      receive_window         |-> Uncut(1, State(Other(e), 1).receive_window),
      delivered_since_update |-> Uncut(1, State(Other(e), 1).delivered_since_update),
      pending_credit         |-> Uncut(1, State(Other(e), 1).pending_credit) ]

Mapped == [from |-> [e \in Roles |-> FlowFrom(e)], status |-> FlowStatus(1)]

MCInit == Init /\ flow = Mapped
MCNext == Next /\ flow' = Mapped'
MCSpec == MCInit /\ [][MCNext]_<<vars, flow>> /\ Fairness

ToServer == INSTANCE CreditFlow WITH
    send_window            <- flow.from["Client"].send_window,
    buffered_send          <- flow.from["Client"].buffered_send,
    data                   <- flow.from["Client"].data,
    credit                 <- flow.from["Client"].credit,
    receive_window         <- flow.from["Client"].receive_window,
    delivered_since_update <- flow.from["Client"].delivered_since_update,
    pending_credit         <- flow.from["Client"].pending_credit,
    status                 <- flow.status

ToClient == INSTANCE CreditFlow WITH
    send_window            <- flow.from["Server"].send_window,
    buffered_send          <- flow.from["Server"].buffered_send,
    data                   <- flow.from["Server"].data,
    credit                 <- flow.from["Server"].credit,
    receive_window         <- flow.from["Server"].receive_window,
    delivered_since_update <- flow.from["Server"].delivered_since_update,
    pending_credit         <- flow.from["Server"].pending_credit,
    status                 <- flow.status

\* Both directions of a stream implement CreditFlow: windows, buffers and the
\* frames in flight add up as promised there, for the opener, and for the
\* acceptor, whose window was opened by the frame that carried the SYN.
BothDirectionsFlow == ToServer!Spec /\ ToClient!Spec
=============================================================================
