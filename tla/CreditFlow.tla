----------------------------- MODULE CreditFlow -----------------------------
(***************************************************************************)
(* What Yamux flow control promises for one direction of one stream:       *)
(* numbers only, no frames.  The sender (crates/yamux/src/session.rs) has  *)
(* a window and a buffer for what does not fit it, the receiver accounts   *)
(* for what it delivered and hands the credit back.  Between them bytes    *)
(* and credit are in flight, in order and without loss.                    *)
(*                                                                         *)
(* Module Yamux refines this one for every stream and both directions.     *)
(***************************************************************************)
EXTENDS Integers, TLAPS

CONSTANTS
    DEFAULT_RECEIVE_WINDOW,  \* the credit a stream starts with
    ReceiveWindow,           \* YamuxConfig::receive_window of the receiver
    MaxBufferedSend,         \* YamuxConfig::max_buffered_send of the sender
    U32_MAX

ASSUME CreditAssumption ==
    /\ DEFAULT_RECEIVE_WINDOW \in Nat \ {0}
    /\ ReceiveWindow \in Nat
    /\ U32_MAX \in Nat
    /\ MaxBufferedSend \in Nat
    /\ DEFAULT_RECEIVE_WINDOW <= ReceiveWindow    \* YamuxSession::with_config
    /\ ReceiveWindow <= U32_MAX

VARIABLES
    send_window, buffered_send,                             \* at the sender
    data, credit,                                           \* in flight
    receive_window, delivered_since_update, pending_credit, \* at the receiver
    status                                                  \* "open", "closed", "failed"

vars == <<send_window, buffered_send, data, credit,
          receive_window, delivered_since_update, pending_credit, status>>

Init ==
    /\ send_window = DEFAULT_RECEIVE_WINDOW
    /\ buffered_send = 0
    /\ data = 0
    /\ credit = 0
    /\ receive_window = DEFAULT_RECEIVE_WINDOW
    /\ delivered_since_update = 0
    /\ pending_credit = ReceiveWindow - DEFAULT_RECEIVE_WINDOW
    /\ status = "open"

Least(a, b) == IF a <= b THEN a ELSE b

\* fn send accepts n bytes: what the window allows leaves at once, the rest is
\* buffered, and a send that does not fit the buffer is refused as a whole.
Send(n) ==
    LET at_once == Least(n, send_window)
    IN  /\ status = "open"
        /\ buffered_send + (n - at_once) <= MaxBufferedSend
        /\ send_window' = send_window - at_once
        /\ buffered_send' = buffered_send + (n - at_once)
        /\ data' = data + at_once
        /\ UNCHANGED <<credit, receive_window, delivered_since_update, pending_credit, status>>

\* A mutant of Delivered: a window update only for a whole window.
DeliveredWhole(n) == delivered_since_update + n > ReceiveWindow

\* Enough was delivered for a window update.
Delivered(n) == delivered_since_update + n > ReceiveWindow \div 2

\* fn on_data receives a frame of n bytes; more than the window fails the session.
OnData(n) ==
    /\ status = "open"
    /\ n <= data
    /\ data' = data - n
    /\ IF n > receive_window
       THEN /\ status' = "failed"
            /\ UNCHANGED <<receive_window, delivered_since_update, pending_credit>>
       ELSE /\ receive_window' = receive_window - n
            /\ IF Delivered(n)
               THEN /\ pending_credit' = pending_credit + delivered_since_update + n
                    /\ delivered_since_update' = 0
               ELSE /\ delivered_since_update' = delivered_since_update + n
                    /\ UNCHANGED pending_credit
            /\ UNCHANGED status
    /\ UNCHANGED <<send_window, buffered_send, credit>>

\* A mutant of MaterializeCredit: the window is announced, not opened.
MaterializeKeepsWindow ==
    /\ status = "open"
    /\ pending_credit > 0
    /\ pending_credit' = 0
    /\ credit' = credit + pending_credit
    /\ UNCHANGED <<send_window, buffered_send, data, receive_window, delivered_since_update,
                   status>>

\* fn materialize_deferred_control: the pending credit becomes a window update;
\* the code panics if the window overflows.
MaterializeCredit ==
    /\ status = "open"
    /\ pending_credit > 0
    /\ LET granted == Least(pending_credit, U32_MAX)
       IN  /\ pending_credit' = pending_credit - granted
           /\ receive_window' = receive_window + granted
           /\ credit' = credit + granted
           /\ status' = IF receive_window + granted > U32_MAX THEN "failed" ELSE status
    /\ UNCHANGED <<send_window, buffered_send, data, delivered_since_update>>

\* fn on_window_update and fn flush_buffered: credit arrives, and buffered bytes
\* leave up to the new window.
OnWindowUpdate(v) ==
    /\ status = "open"
    /\ v <= credit
    /\ credit' = credit - v
    /\ IF send_window + v > U32_MAX
       THEN status' = "failed" /\ UNCHANGED <<send_window, buffered_send, data>>
       ELSE LET out == Least(buffered_send, send_window + v)
            IN  /\ send_window' = send_window + v - out
                /\ buffered_send' = buffered_send - out
                /\ data' = data + out
                /\ UNCHANGED status
    /\ UNCHANGED <<receive_window, delivered_since_update, pending_credit>>

\* The stream is reset, or the session goes away.
Close ==
    /\ status = "open"
    /\ status' = "closed"
    /\ send_window' = 0 /\ buffered_send' = 0
    /\ data' = 0 /\ credit' = 0
    /\ receive_window' = 0 /\ delivered_since_update' = 0 /\ pending_credit' = 0

\* A window update may carry no credit and a data frame no byte: the bounds of n
\* and v start at 1 because those change nothing here.
Next ==
    \/ \E n \in 1..(U32_MAX + MaxBufferedSend) : Send(n)
    \/ \E n \in 1..data : OnData(n)
    \/ MaterializeCredit
    \/ \E v \in 1..credit : OnWindowUpdate(v)
    \/ Close

Spec == Init /\ [][Next]_vars

-----------------------------------------------------------------------------
\* Type invariant: every counter is a natural number.
TypeOK ==
    /\ {send_window, buffered_send, data, credit} \subseteq Nat
    /\ {receive_window, delivered_since_update, pending_credit} \subseteq Nat
    /\ status \in {"open", "closed", "failed"}

\* Two endpoints that both run this code never exceed a window, overflow one, or
\* trip the expect() of materialize_deferred_control, whatever the sizes of
\* sends and frames and however data and credit cross on the wire.
NeverFails == status # "failed"

\* send (session.rs:222) puts the first bytes of a call straight on the wire; it
\* would overtake buffered ones if a stream could have both a buffer and a
\* window.
NoOvertaking == buffered_send > 0 => send_window = 0

\* A sender with buffered bytes is never stuck for good: unless bytes or credit
\* are still in flight, the receiver owes it a window update.
NoStall ==
    status = "open" /\ buffered_send > 0 /\ data = 0 /\ credit = 0 => pending_credit > 0

\* The credit is conserved: what the receiver is ready to take is what the sender
\* may send, plus what is on the wire; and the receiver never gives away more
\* than its configured window.
Conserved ==
    /\ receive_window = send_window + data + credit
    /\ receive_window + delivered_since_update + pending_credit = ReceiveWindow

\* The inductive invariant behind the three.
FlowInv ==
    status = "open" =>
        /\ Conserved
        /\ NoOvertaking
        /\ delivered_since_update <= ReceiveWindow \div 2

-----------------------------------------------------------------------------
(* Flow control of one stream direction is proved for every window, buffer limit
   and word size. *)

IInv == TypeOK /\ FlowInv /\ NeverFails

\* Half a window is less than a window.
LEMMA HalfWindow ==
    /\ ReceiveWindow \div 2 \in Nat
    /\ ReceiveWindow \div 2 < ReceiveWindow
BY CreditAssumption

\* A stream starts with its credit conserved.
LEMMA InitIInv == Init => IInv
BY CreditAssumption, HalfWindow
DEF Init, IInv, TypeOK, FlowInv, NeverFails, Conserved, NoOvertaking

\* fn send
LEMMA SendPreserves ==
    ASSUME IInv, NEW n \in Nat, Send(n)
    PROVE  IInv'
BY CreditAssumption, HalfWindow
DEF Send, Least, IInv, TypeOK, FlowInv, NeverFails, Conserved, NoOvertaking

\* fn on_data
LEMMA OnDataPreserves ==
    ASSUME IInv, NEW n \in Nat, OnData(n)
    PROVE  IInv'
<1>1. n <= receive_window
  BY CreditAssumption DEF OnData, IInv, TypeOK, FlowInv, Conserved
<1>2. CASE Delivered(n)
  BY <1>1, <1>2, CreditAssumption, HalfWindow
  DEF OnData, IInv, TypeOK, FlowInv, NeverFails, Conserved, NoOvertaking
<1>3. CASE ~Delivered(n)
  BY <1>1, <1>3, CreditAssumption, HalfWindow
  DEF OnData, Delivered, IInv, TypeOK, FlowInv, NeverFails, Conserved, NoOvertaking
<1> QED
  BY <1>2, <1>3

\* fn materialize_deferred_control: the expect() holds.
LEMMA MaterializePreserves ==
    ASSUME IInv, MaterializeCredit
    PROVE  IInv'
<1>1. pending_credit <= U32_MAX /\ receive_window + pending_credit <= U32_MAX
  BY CreditAssumption DEF MaterializeCredit, IInv, TypeOK, FlowInv, Conserved
<1> QED
  BY <1>1, CreditAssumption, HalfWindow
  DEF MaterializeCredit, Least, IInv, TypeOK, FlowInv, NeverFails, Conserved, NoOvertaking

\* fn on_window_update and fn flush_buffered
LEMMA OnWindowUpdatePreserves ==
    ASSUME IInv, NEW v \in Nat, OnWindowUpdate(v)
    PROVE  IInv'
<1>1. send_window + v <= U32_MAX
  BY CreditAssumption DEF OnWindowUpdate, IInv, TypeOK, FlowInv, Conserved
<1> QED
  BY <1>1, CreditAssumption, HalfWindow
  DEF OnWindowUpdate, Least, IInv, TypeOK, FlowInv, NeverFails, Conserved, NoOvertaking

LEMMA ClosePreserves ==
    ASSUME IInv, Close
    PROVE  IInv'
BY DEF Close, IInv, TypeOK, FlowInv, NeverFails, Conserved, NoOvertaking

\* Every step keeps the inductive invariant.
LEMMA NextIInv == IInv /\ [Next]_vars => IInv'
<1> SUFFICES ASSUME IInv, [Next]_vars
             PROVE  IInv'
  OBVIOUS
<1>1. CASE \E n \in 1..(U32_MAX + MaxBufferedSend) : Send(n)
  BY <1>1, SendPreserves, CreditAssumption
<1>2. CASE \E n \in 1..data : OnData(n)
  BY <1>2, OnDataPreserves DEF IInv, TypeOK
<1>3. CASE MaterializeCredit
  BY <1>3, MaterializePreserves
<1>4. CASE \E v \in 1..credit : OnWindowUpdate(v)
  BY <1>4, OnWindowUpdatePreserves DEF IInv, TypeOK
<1>5. CASE Close
  BY <1>5, ClosePreserves
<1>6. CASE UNCHANGED vars
  BY <1>6 DEF vars, IInv, TypeOK, FlowInv, NeverFails, Conserved, NoOvertaking
<1> QED
  BY <1>1, <1>2, <1>3, <1>4, <1>5, <1>6 DEF Next

\* The counters of a stream stay natural numbers: no subtraction in
\* session.rs underflows.
THEOREM TypeCorrect == Spec => []TypeOK
<1>1. IInv => TypeOK
  BY DEF IInv
<1> QED
  BY <1>1, InitIInv, NextIInv, PTL DEF Spec

\* A session whose peer runs this code never fails for flow control: no
\* ReceiveWindowExceeded, no WindowOverflow, no panic.
THEOREM FlowControlNeverFails == Spec => []NeverFails
<1>1. IInv => NeverFails
  BY DEF IInv
<1> QED
  BY <1>1, InitIInv, NextIInv, PTL DEF Spec

\* Credit is conserved, and buffered bytes are never overtaken by later ones.
THEOREM FlowInvariant == Spec => []FlowInv
<1>1. IInv => FlowInv
  BY DEF IInv
<1> QED
  BY <1>1, InitIInv, NextIInv, PTL DEF Spec

\* send never overtakes what it buffered, after the close included.
THEOREM SendKeepsOrder == Spec => []NoOvertaking
<1> DEFINE J == IInv /\ (status = "closed" => buffered_send = 0)
<1>1. Init => J
  BY InitIInv DEF Init
<1>2. J /\ [Next]_vars => J'
  <2> SUFFICES ASSUME J, [Next]_vars
               PROVE  status' = "closed" => buffered_send' = 0
    BY NextIInv
  <2> QED
    BY DEF Next, Send, OnData, MaterializeCredit, OnWindowUpdate, Close, vars, IInv, NeverFails,
           TypeOK
<1>3. J => NoOvertaking
  BY DEF IInv, TypeOK, NeverFails, FlowInv, NoOvertaking
<1> QED
  BY <1>1, <1>2, <1>3, PTL DEF Spec

\* A sender with buffered bytes always has a window update to come: the
\* threshold of half a window cannot leave both ends waiting.
THEOREM FlowNeverStalls == Spec => []NoStall
<1>1. IInv => NoStall
  BY HalfWindow, CreditAssumption DEF IInv, TypeOK, FlowInv, Conserved, NoOvertaking, NoStall
<1> QED
  BY <1>1, InitIInv, NextIInv, PTL DEF Spec
=============================================================================
