------------------------------- MODULE TcpNet -------------------------------
(***************************************************************************)
(* What the two byte-stream providers of transports/tcp have in common:    *)
(* TcpEvent (provider.rs), and the links between the endpoints A, which    *)
(* dials, and B, which listens.  The links are external: the kernel's      *)
(* sockets, or the wire between two smoltcp stacks.                        *)
(*                                                                         *)
(* A site x is one endpoint at work: its transport t (with the provider's  *)
(* state t.prov), the links, and the error of the last step.  A link       *)
(* serves one dial; its number is the socket handle at both ends.          *)
(***************************************************************************)
EXTENDS SecureMux

CONSTANTS
    Links,               \* 1..n: one for each dial
    Capacity,            \* tokens a link holds in one direction
    ReadChunk            \* tokens of one read

Ends == {"A", "B"}
Other(e) == IF e = "A" THEN "B" ELSE "A"

FIN == Token("FIN", None, 0, None)
RST == Token("RST", None, 0, None)
IsData(tok) == tok.k \notin {"FIN", "RST"}

\* enum TcpEvent.  Writable is left out: the transport ignores it, and retries every
\* buffered write at the end of a poll.
TcpEvent(ev, l, v) == [ev |-> ev, l |-> l, v |-> v]
Emit(x, ev) == [x EXCEPT !.t.prov.ready = Append(@, ev)]

NewLink == [ st |-> "Free", q |-> [e \in Ends |-> <<>>], held |-> [e \in Ends |-> FALSE],
             watch |-> [e \in Ends |-> FALSE], edge |-> [e \in Ends |-> {}] ]

\* Tokens reach an end: it becomes readable.
Arrive(x, l, e, toks) ==
    [x EXCEPT !.net[l].q[e] = @ \o toks, !.net[l].edge[e] = @ \union {"r"}]
Broken(x, l, e)  == \E i \in DOMAIN x.net[l].q[e] : x.net[l].q[e][i] = RST
Ended(x, l, e)   == \E i \in DOMAIN x.net[l].q[e] : x.net[l].q[e][i] = FIN
Room(x, l, e)    == Capacity - Len(SelectSeq(x.net[l].q[e], IsData))

\* The end lets go of its socket: the other one reads the end of the stream, or an
\* error when something it had sent was not read.
LetGo(x, l, e) ==
    LET unread == SelectSeq(x.net[l].q[e], IsData) # <<>>
        o      == Other(e)
        last   == IF unread THEN <<RST>> ELSE IF Ended(x, l, o) THEN <<>> ELSE <<FIN>>
        gone   == [x EXCEPT !.net[l].held[e] = FALSE, !.net[l].q[e] = <<>>, !.net[l].edge[e] = {}]
    IN  IF ~x.net[l].held[e] THEN x
        ELSE IF ~x.net[l].held[o] \/ Broken(x, l, o) \/ last = <<>> THEN gone ELSE Arrive(gone, l, o, last)

\* The first n tokens are read: a full link has room again.
Take(x, l, e, n) ==
    LET full == Room(x, l, e) = 0
    IN  [x EXCEPT !.net[l].q[e] = SubSeq(@, n + 1, Len(@)),
                  !.net[l].edge[Other(e)] = IF full /\ x.net[l].watch[Other(e)] THEN @ \union {"w"} ELSE @]

\* How many tokens one read returns: data up to the end of the stream.
Readable(x, l, e) ==
    LET q == x.net[l].q[e]
        n == CHOOSE i \in 0..Len(q) :
                /\ \A j \in 1..i : IsData(q[j])
                /\ i = Len(q) \/ ~IsData(q[i + 1])
    IN  Smaller(n, ReadChunk)
=============================================================================
