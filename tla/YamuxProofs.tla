---------------------------- MODULE YamuxProofs ----------------------------
(***************************************************************************)
(* Bytes arrive in order, for any number of streams, any windows, buffers, *)
(* frame lengths and workloads.                                            *)
(***************************************************************************)
EXTENDS Yamux, TLAPS, WellFoundedInduction, NaturalsInduction, FiniteSetTheorems

\* A sequence, of whatever elements.
IsSeq(s) == \E X : s \in Seq(X)

-----------------------------------------------------------------------------
(* Positions. *)

\* The bytes behind the first a, up to the first b.
Run(a, b) == [k \in 1..(b - a) |-> a + k]

\* The cuts c say how the m pieces of q follow each other from a to b.
Cuts(c, q, m, a, b) ==
    /\ c[0] = a /\ c[m] = b
    /\ \A i \in 0..m : c[i] \in Nat /\ c[i] <= b
    /\ \A i \in 1..m : c[i - 1] <= c[i] /\ q[i] = Run(c[i - 1], c[i])

\* The m pieces of q are the bytes from a to b.
Carries(q, m, a, b) == \E c : Cuts(c, q, m, a, b)

\* The same, with no empty piece.
Chunks(q, m, a, b) == Carries(q, m, a, b) /\ \A i \in 1..m : q[i] # <<>>

-----------------------------------------------------------------------------
(* Sequences. *)

LEMMA Joined ==
  ASSUME NEW X, NEW s \in Seq(X), NEW t \in Seq(X)
  PROVE  /\ s \o t \in Seq(X)
         /\ Len(s) \in Nat /\ Len(t) \in Nat
         /\ Len(s \o t) = Len(s) + Len(t)
         /\ \A i \in 1..(Len(s) + Len(t)) : (s \o t)[i] = IF i <= Len(s) THEN s[i] ELSE t[i - Len(s)]
<1>1. s \o t \in Seq(X) OBVIOUS
<1>2. Len(s) \in Nat /\ Len(t) \in Nat OBVIOUS
<1>3. Len(s \o t) = Len(s) + Len(t) OBVIOUS
<1>4. \A i \in 1..(Len(s) + Len(t)) : (s \o t)[i] = IF i <= Len(s) THEN s[i] ELSE t[i - Len(s)] OBVIOUS
<1> QED BY <1>1, <1>2, <1>3, <1>4

-----------------------------------------------------------------------------
(* Lemmas about positions. *)

LEMMA RunFacts ==
  ASSUME NEW a \in Nat, NEW b \in Nat, a <= b
  PROVE  /\ Run(a, b) \in Seq(Nat)
         /\ Len(Run(a, b)) = b - a
         /\ \A k \in 1..(b - a) : Run(a, b)[k] = a + k
         /\ DOMAIN Run(a, b) = 1..(b - a)
<1>1. b - a \in Nat OBVIOUS
<1>2. Run(a, b) \in [1..(b - a) -> Nat] BY DEF Run
<1>3. Run(a, b) \in Seq(Nat) BY <1>1, <1>2
<1>4. Len(Run(a, b)) = b - a BY <1>1, <1>2, <1>3
<1> QED BY <1>3, <1>4 DEF Run

LEMMA EmptyRun ==
  ASSUME NEW a \in Nat, NEW b \in Nat, a <= b
  PROVE  Run(a, b) = <<>> <=> a = b
<1>1. Len(Run(a, b)) = b - a /\ Run(a, b) \in Seq(Nat) BY RunFacts
<1>2. ASSUME a = b PROVE Run(a, b) = <<>> BY <1>1, <1>2
<1>3. ASSUME Run(a, b) = <<>> PROVE a = b
  <2>1. Len(Run(a, b)) = 0 BY <1>3
  <2> QED BY <1>1, <2>1
<1> QED BY <1>2, <1>3

\* The head and the rest of a run.
LEMMA RunCut ==
  ASSUME NEW a \in Nat, NEW b \in Nat, NEW k \in Nat, a + k <= b
  PROVE  /\ SubSeq(Run(a, b), 1, k) = Run(a, a + k)
         /\ SubSeq(Run(a, b), k + 1, Len(Run(a, b))) = Run(a + k, b)
<1>1. Len(Run(a, b)) = b - a /\ \A x \in 1..(b - a) : Run(a, b)[x] = a + x BY RunFacts
<1>2. SubSeq(Run(a, b), 1, k) = Run(a, a + k)
  <2>1. SubSeq(Run(a, b), 1, k) = [x \in 1..k |-> Run(a, b)[x]] OBVIOUS
  <2>2. Run(a, a + k) = [x \in 1..k |-> a + x] BY DEF Run
  <2> QED BY <1>1, <2>1, <2>2
<1>3. SubSeq(Run(a, b), k + 1, b - a) = Run(a + k, b)
  <2>1. SubSeq(Run(a, b), k + 1, b - a) = [x \in 1..((b - a) - k) |-> Run(a, b)[x + k]] OBVIOUS
  <2>2. Run(a + k, b) = [x \in 1..((b - a) - k) |-> (a + k) + x] BY DEF Run
  <2>3. \A x \in 1..((b - a) - k) : Run(a, b)[x + k] = (a + k) + x BY <1>1
  <2> QED BY <2>1, <2>2, <2>3
<1> QED BY <1>1, <1>2, <1>3

LEMMA RunJoin ==
  ASSUME NEW a \in Nat, NEW b \in Nat, NEW d \in Nat, a <= b, b <= d
  PROVE  Run(a, b) \o Run(b, d) = Run(a, d)
<1> DEFINE r == Run(a, b) \o Run(b, d)
<1>1. /\ Len(Run(a, b)) = b - a /\ \A x \in 1..(b - a) : Run(a, b)[x] = a + x
      /\ Run(a, b) \in Seq(Nat) BY RunFacts
<1>2. /\ Len(Run(b, d)) = d - b /\ \A x \in 1..(d - b) : Run(b, d)[x] = b + x
      /\ Run(b, d) \in Seq(Nat) BY RunFacts
<1>3. r \in Seq(Nat) /\ Len(r) = d - a
  <2>1. r \in Seq(Nat) /\ Len(r) = Len(Run(a, b)) + Len(Run(b, d)) BY <1>1, <1>2, Joined
  <2>2. (b - a) + (d - b) = d - a OBVIOUS
  <2> QED BY <1>1, <1>2, <2>1, <2>2
<1>4. \A x \in 1..(d - a) : r[x] = IF x <= b - a THEN Run(a, b)[x] ELSE Run(b, d)[x - (b - a)]
    BY <1>1, <1>2, Joined
<1>5. \A x \in 1..(d - a) : r[x] = a + x BY <1>1, <1>2, <1>4
<1> HIDE DEF r
<1>6. DOMAIN r = 1..(d - a) /\ r = [x \in 1..(d - a) |-> r[x]] BY <1>3
<1>7. r = [x \in 1..(d - a) |-> a + x] BY <1>5, <1>6
<1> QED BY <1>7 DEF r, Run

\* Pieces that carry nothing.
LEMMA CarriesNothing ==
  ASSUME NEW q, NEW m \in Nat, NEW a \in Nat, \A i \in 1..m : q[i] = <<>>
  PROVE  Carries(q, m, a, a)
<1> DEFINE c == [i \in 0..m |-> a]
<1>1. Run(a, a) = <<>> BY EmptyRun
<1>2. Cuts(c, q, m, a, a) BY <1>1 DEF Cuts
<1> QED BY <1>2 DEF Carries

LEMMA CarriesBounds ==
  ASSUME NEW q, NEW m \in Nat, NEW a, NEW b, Carries(q, m, a, b)
  PROVE  a \in Nat /\ b \in Nat /\ a <= b
<1>1. PICK c : Cuts(c, q, m, a, b) BY DEF Carries
<1>2. 0 \in 0..m /\ m \in 0..m OBVIOUS
<1> QED BY <1>1, <1>2 DEF Cuts

\* The first m pieces of u are those of q, and the n behind them those of r.
Follows(u, q, m, r, n) ==
    /\ \A i \in 1..m : u[i] = q[i]
    /\ \A i \in 1..n : u[m + i] = r[i]

\* Pieces that follow on.
LEMMA CarriesJoin ==
  ASSUME NEW q, NEW m \in Nat, NEW a, NEW b, Carries(q, m, a, b),
         NEW r, NEW n \in Nat, NEW d, Carries(r, n, b, d),
         NEW u, Follows(u, q, m, r, n), NEW l, l = m + n
  PROVE  Carries(u, l, a, d)
<1>0. (\A i \in 1..m : u[i] = q[i]) /\ (\A i \in 1..n : u[m + i] = r[i]) BY DEF Follows
<1>1. PICK c : Cuts(c, q, m, a, b) BY DEF Carries
<1>2. PICK f : Cuts(f, r, n, b, d) BY DEF Carries
<1> DEFINE g == [i \in 0..(m + n) |-> IF i <= m THEN c[i] ELSE f[i - m]]
<1>3. /\ c[0] = a /\ c[m] = b /\ f[0] = b /\ f[n] = d
      /\ b \in Nat /\ d \in Nat /\ b <= d
  <2>1. 0 \in 0..m /\ m \in 0..m /\ 0 \in 0..n /\ n \in 0..n OBVIOUS
  <2> QED BY <1>1, <1>2, <2>1 DEF Cuts
<1>4. \A i \in 0..m : g[i] = c[i] OBVIOUS
<1>5. \A i \in 0..n : g[m + i] = f[i]
  <2> TAKE i \in 0..n
  <2>1. CASE i = 0
    <3>1. m + i = m /\ m \in 0..m BY <2>1
    <3>2. g[m + i] = c[m] BY <1>4, <3>1
    <3> QED BY <1>3, <2>1, <3>2
  <2>2. CASE i # 0
    <3>1. m + i \in 0..(m + n) /\ ~(m + i <= m) /\ (m + i) - m = i BY <2>2
    <3>2. g[m + i] = f[(m + i) - m] BY <3>1
    <3> QED BY <3>1, <3>2
  <2> QED BY <2>1, <2>2
<1> HIDE DEF g
<1>6. g[0] = a /\ g[m + n] = d
  <2>1. 0 \in 0..m /\ n \in 0..n OBVIOUS
  <2> QED BY <1>3, <1>4, <1>5, <2>1
<1>7. ASSUME NEW i \in 0..(m + n) PROVE g[i] \in Nat /\ g[i] <= d
  <2>1. CASE i <= m
    <3>1. i \in 0..m BY <2>1
    <3>2. c[i] \in Nat /\ c[i] <= b BY <1>1, <3>1 DEF Cuts
    <3> QED BY <1>3, <1>4, <3>1, <3>2
  <2>2. CASE i > m
    <3>1. i - m \in 0..n /\ m + (i - m) = i BY <2>2
    <3>2. f[i - m] \in Nat /\ f[i - m] <= d BY <1>2, <3>1 DEF Cuts
    <3>3. g[m + (i - m)] = f[i - m] BY <1>5, <3>1
    <3> QED BY <3>1, <3>2, <3>3
  <2> QED BY <2>1, <2>2
<1>8. ASSUME NEW i \in 1..(m + n) PROVE g[i - 1] <= g[i] /\ u[i] = Run(g[i - 1], g[i])
  <2>1. CASE i <= m
    <3>1. i \in 1..m /\ i - 1 \in 0..m /\ i \in 0..m BY <2>1
    <3>2. c[i - 1] <= c[i] /\ q[i] = Run(c[i - 1], c[i]) BY <1>1, <3>1 DEF Cuts
    <3> QED BY <1>0, <1>4, <3>1, <3>2
  <2>2. CASE i > m
    <3> DEFINE j == i - m
    <3>1. j \in 1..n /\ j - 1 \in 0..n /\ j \in 0..n /\ m + j = i /\ m + (j - 1) = i - 1 BY <2>2
    <3> HIDE DEF j
    <3>2. f[j - 1] <= f[j] /\ r[j] = Run(f[j - 1], f[j]) BY <1>2, <3>1 DEF Cuts
    <3>3. g[m + j] = f[j] /\ g[m + (j - 1)] = f[j - 1] /\ u[m + j] = r[j] BY <1>0, <1>5, <3>1
    <3> QED BY <3>1, <3>2, <3>3
  <2> QED BY <2>1, <2>2
<1>9. Cuts(g, u, l, a, d) BY <1>6, <1>7, <1>8 DEF Cuts
<1> QED BY <1>9 DEF Carries

\* One piece.
LEMMA CarriesOne ==
  ASSUME NEW r, NEW b \in Nat, NEW d \in Nat, b <= d, r[1] = Run(b, d)
  PROVE  Carries(r, 1, b, d)
<1> DEFINE c == [i \in 0..1 |-> IF i = 0 THEN b ELSE d]
<1>1. c[0] = b /\ c[1] = d OBVIOUS
<1> HIDE DEF c
<1>2. 0..1 = {0, 1} /\ 1..1 = {1} /\ 1 - 1 = 0 OBVIOUS
<1>3. Cuts(c, r, 1, b, d) BY <1>1, <1>2 DEF Cuts
<1> QED BY <1>3 DEF Carries

\* Only the pieces matter.
LEMMA CarriesSame ==
  ASSUME NEW q, NEW m \in Nat, NEW a, NEW b, Carries(q, m, a, b),
         NEW r, \A i \in 1..m : r[i] = q[i]
  PROVE  Carries(r, m, a, b)
<1>1. PICK c : Cuts(c, q, m, a, b) BY DEF Carries
<1>2. Cuts(c, r, m, a, b) BY <1>1 DEF Cuts
<1> QED BY <1>2 DEF Carries

\* Another piece at the end.
LEMMA CarriesMore ==
  ASSUME NEW q, NEW m \in Nat, NEW a, NEW b, Carries(q, m, a, b),
         NEW r, \A i \in 1..m : r[i] = q[i],
         NEW d \in Nat, b <= d, r[m + 1] = Run(b, d)
  PROVE  Carries(r, m + 1, a, d)
<1> DEFINE o == [i \in 1..1 |-> r[m + 1]]
<1>1. b \in Nat BY CarriesBounds
<1>2. o[1] = Run(b, d) /\ 1 \in Nat OBVIOUS
<1>3. Follows(r, q, m, o, 1) BY DEF Follows
<1> HIDE DEF o
<1>4. Carries(o, 1, b, d) BY <1>1, <1>2, CarriesOne
<1> DEFINE l == m + 1
<1>5. l = m + 1 OBVIOUS
<1> HIDE DEF l
<1>6. Carries(r, l, a, d) BY <1>2, <1>3, <1>4, <1>5, CarriesJoin, Zenon
<1> QED BY <1>6 DEF l

\* A stretch of no bytes.
LEMMA ChunksEmpty ==
  ASSUME NEW q, NEW m \in Nat, NEW a, Chunks(q, m, a, a)
  PROVE  m = 0
<1>1. SUFFICES ASSUME m # 0 PROVE FALSE OBVIOUS
<1>2. PICK c : Cuts(c, q, m, a, a) BY DEF Chunks, Carries
<1>3. 1 \in 1..m /\ 0 \in 0..m /\ 1 \in 0..m /\ 1 - 1 = 0 BY <1>1
<1>4. c[1 - 1] <= c[1] /\ q[1] = Run(c[1 - 1], c[1]) /\ c[0] = a /\ c[1] <= a
      /\ c[0] \in Nat /\ c[1] \in Nat
    BY <1>2, <1>3 DEF Cuts
<1>5. c[1] = a /\ q[1] = Run(a, a) /\ a \in Nat BY <1>3, <1>4
<1>6. q[1] = <<>> BY <1>5, EmptyRun
<1> QED BY <1>3, <1>6 DEF Chunks

\* Without the first piece.
LEMMA CutsTail ==
  ASSUME NEW c, NEW q, NEW m \in Nat, m > 0, NEW a, NEW b, Cuts(c, q, m, a, b),
         NEW r, \A i \in 1..(m - 1) : r[i] = q[i + 1]
  PROVE  /\ c[1] \in Nat /\ a \in Nat /\ b \in Nat /\ a <= c[1] /\ c[1] <= b
         /\ q[1] = Run(a, c[1])
         /\ Cuts([i \in 0..(m - 1) |-> c[i + 1]], r, m - 1, c[1], b)
<1> DEFINE f == [i \in 0..(m - 1) |-> c[i + 1]]
<1>0. m - 1 \in Nat /\ 0 \in 0..(m - 1) /\ m - 1 \in 0..(m - 1) /\ (m - 1) + 1 = m /\ 0 + 1 = 1 OBVIOUS
<1>1. \A i \in 0..(m - 1) : f[i] = c[i + 1] OBVIOUS
<1> HIDE DEF f
<1>2. 1 \in 1..m /\ 1 \in 0..m /\ 0 \in 0..m /\ m \in 0..m /\ 1 - 1 = 0 OBVIOUS
<1>3. c[0] <= c[1] /\ q[1] = Run(c[0], c[1]) /\ c[1] \in Nat /\ c[1] <= b /\ c[0] = a /\ c[m] = b
      /\ c[0] \in Nat /\ c[m] \in Nat
  <2>1. c[1 - 1] <= c[1] /\ q[1] = Run(c[1 - 1], c[1]) BY <1>2 DEF Cuts
  <2> QED BY <1>2, <2>1 DEF Cuts
<1>4. f[0] = c[1] /\ f[m - 1] = b
  <2>1. f[0] = c[0 + 1] /\ f[m - 1] = c[(m - 1) + 1] BY <1>0, <1>1
  <2> QED BY <1>0, <1>3, <2>1
<1>5. \A i \in 0..(m - 1) : f[i] \in Nat /\ f[i] <= b
  <2> TAKE i \in 0..(m - 1)
  <2>1. i + 1 \in 0..m OBVIOUS
  <2> QED BY <1>1, <2>1 DEF Cuts
<1>6. ASSUME NEW i \in 1..(m - 1) PROVE f[i - 1] <= f[i] /\ r[i] = Run(f[i - 1], f[i])
  <2>1. i + 1 \in 1..m /\ (i + 1) - 1 = i /\ i - 1 \in 0..(m - 1) /\ i \in 0..(m - 1) /\ (i - 1) + 1 = i OBVIOUS
  <2>2. c[(i + 1) - 1] <= c[i + 1] /\ q[i + 1] = Run(c[(i + 1) - 1], c[i + 1]) BY <2>1 DEF Cuts
  <2>3. f[i] = c[i + 1] /\ f[i - 1] = c[(i - 1) + 1] /\ r[i] = q[i + 1] BY <1>1, <2>1
  <2> QED BY <2>1, <2>2, <2>3
<1>7. Cuts(f, r, m - 1, c[1], b) BY <1>4, <1>5, <1>6 DEF Cuts
<1> QED BY <1>3, <1>7 DEF f

LEMMA CarriesTail ==
  ASSUME NEW q, NEW m \in Nat, m > 0, NEW a, NEW b, Carries(q, m, a, b),
         NEW r, \A i \in 1..(m - 1) : r[i] = q[i + 1]
  PROVE  \E d \in Nat : /\ a <= d /\ d <= b
                        /\ q[1] = Run(a, d)
                        /\ Carries(r, m - 1, d, b)
<1>1. PICK c : Cuts(c, q, m, a, b) BY DEF Carries
<1>2. /\ c[1] \in Nat /\ a <= c[1] /\ c[1] <= b /\ q[1] = Run(a, c[1])
      /\ Cuts([i \in 0..(m - 1) |-> c[i + 1]], r, m - 1, c[1], b)
    BY <1>1, CutsTail
<1>3. Carries(r, m - 1, c[1], b) BY <1>2 DEF Carries
<1> QED BY <1>2, <1>3


-----------------------------------------------------------------------------
(* Frames and outputs. *)

IsFrame(f) ==
    /\ f.type \in {"Data", "WindowUpdate", "Ping", "GoAway"}
    /\ IF f.type \in {"Data", "WindowUpdate"} THEN f.stream \in Ids ELSE f.stream = 0
    /\ f.value \in Nat
    /\ f.payload \in Seq(Nat)
    /\ f.type # "Data" => f.payload = <<>>

IsItem(o) == IF o.output = "Outbound" THEN IsFrame(o.frame) ELSE o.data \in Seq(Nat)

\* What a frame, an output to send and a notice hold of the bytes of stream s.
FramePart(f, s) == IF f.stream = s THEN f.payload ELSE <<>>
OutPart(o, s)   == IF o.output = "Outbound" THEN FramePart(o.frame, s) ELSE <<>>
InPart(o, s)    == IF o.output # "Outbound" /\ o.stream = s THEN o.data ELSE <<>>

WireParts(q, s) == [x \in 1..Len(q) |-> FramePart(q[x], s)]
OutParts(p, s)  == [x \in 1..Len(p) |-> OutPart(p[x], s)]
InParts(p, s)   == [x \in 1..Len(p) |-> InPart(p[x], s)]

\* A frame that opens stream s, and one that may come before it.
SynFrame(f, s)   == f.stream = s /\ "SYN" \in f.flags
PlainFrame(f, s) == f.stream = s => "SYN" \notin f.flags /\ f.payload = <<>>
SynItem(o, s)    == o.output = "Outbound" /\ SynFrame(o.frame, s)
PlainItem(o, s)  == o.output = "Outbound" => PlainFrame(o.frame, s)

-----------------------------------------------------------------------------
(* One end. *)

IsStream(st) == st \in StreamState

Typed(y) ==
    /\ DOMAIN y = { "role", "streams", "next_stream_id", "pending", "total_buffered_send", "failed",
                    "local_go_away", "remote_go_away", "last_activity", "dirty" }
    /\ y.next_stream_id \in Nat \cup {None}
    /\ DOMAIN y.streams = Ids
    /\ \A s \in Ids : y.streams[s] = None \/ IsStream(y.streams[s])
    /\ IsSeq(y.pending)
    /\ \A x \in 1..Len(y.pending) : IsItem(y.pending[x])

\* A session that is over has no streams.
Over(y) == ~Active(y) => \A s \in Ids : y.streams[s] = None

\* The buffer of a stream holds the bytes from k to t.
Holds(st, k, t) == Chunks(st.send_buffer, Len(st.send_buffer), k, t) /\ st.buffered_send = t - k

\* Of the t bytes that the host wrote, those behind the first j are queued or buffered,
\* as long as there is a stream.
Sends(y, s, j, t) ==
    /\ t \in Nat
    /\ \E k \in Nat :
        /\ Carries(OutParts(y.pending, s), Len(y.pending), j, k) /\ k <= t
        /\ y.streams[s] # None => Holds(y.streams[s], k, t)

\* The notices of stream s bring the bytes from g to h.
Hears(y, s, g, h) == Carries(InParts(y.pending, s), Len(y.pending), g, h)

\* Nothing waits that the window has room for.
Settled(y, s) == y.streams[s] # None => y.streams[s].send_window = 0 \/ y.streams[s].send_buffer = <<>>

AllPlain(y, s) == \A x \in 1..Len(y.pending) : PlainItem(y.pending[x], s)
OpensLater(y, s) == y.streams[s] # None /\ y.streams[s].pending_open = "SYN"

\* The frame that opens s is the first that matters.
SynFirst(y, s) ==
    /\ \A x \in 1..Len(y.pending) :
        SynItem(y.pending[x], s) => \A w \in 1..(x - 1) : PlainItem(y.pending[w], s)
    /\ OpensLater(y, s) => AllPlain(y, s)

HasSyn(y, s) == OpensLater(y, s) \/ \E x \in 1..Len(y.pending) : SynItem(y.pending[x], s)
Quiet(y, s)  == y.streams[s] = None /\ AllPlain(y, s)

-----------------------------------------------------------------------------
(* Both ends. *)

Acceptor(s) == Other(Opener(s))

WirePlain(e, s) == \A x \in 1..Len(wire[e]) : PlainFrame(wire[e][x], s)

\* The stream is still to be announced to its acceptor.
SynLeft(s) ==
    \/ Unopened(s)
    \/ HasSyn(sess[Opener(s)], s)
    \/ \E x \in 1..Len(wire[Opener(s)]) : SynFrame(wire[Opener(s)][x], s)

SynOnce(s) ==
    /\ SynFirst(sess[Opener(s)], s)
    /\ \A x \in 1..Len(wire[Opener(s)]) :
        SynFrame(wire[Opener(s)][x], s) => \A w \in 1..(x - 1) : PlainFrame(wire[Opener(s)][w], s)
    /\ HasSyn(sess[Opener(s)], s) \/ Unopened(s) => WirePlain(Opener(s), s)
    /\ Unopened(s) => Quiet(sess[Opener(s)], s) /\ accepted[Opener(s)][s] = 0
    /\ SynLeft(s) => sess[Acceptor(s)].streams[s] = None /\ accepted[Acceptor(s)][s] = 0

\* The bytes that e writes on s, on their way: the other host has the first g, its session
\* those up to h, the connection carries those from i to j and e's session has the rest.
Flow(e, s) ==
    \E g, h, i, j \in Nat :
        /\ got[Other(e)][s] = Run(0, g)
        /\ Hears(sess[Other(e)], s, g, h)
        /\ h <= accepted[e][s]
        /\ Carries(WireParts(wire[e], s), Len(wire[e]), i, j)
        /\ Sends(sess[e], s, j, accepted[e][s])
        /\ sess[Other(e)].streams[s] # None => h = i
        /\ SynLeft(s) => h = 0 /\ i = 0

EndsTyped ==
    /\ DOMAIN sess = Roles /\ DOMAIN wire = Roles
    /\ accepted \in [Roles -> [Ids -> Nat]]
    /\ DOMAIN got = Roles /\ now \in Nat /\ work \in Workload
    /\ \A e \in Roles :
        /\ Typed(sess[e]) /\ Over(sess[e]) /\ sess[e].role = e
        /\ sess[e].next_stream_id # None => Opener(sess[e].next_stream_id) = e
        /\ DOMAIN got[e] = Ids
        /\ IsSeq(wire[e])
        /\ \A x \in 1..Len(wire[e]) : IsFrame(wire[e][x])

\* The inductive invariant.
BytesInv ==
    /\ EndsTyped
    /\ \A e \in Roles, s \in Ids : Settled(sess[e], s) /\ Flow(e, s)
    /\ \A s \in Ids : SynOnce(s)

-----------------------------------------------------------------------------
(* What a call of a session may do to the bytes on their way. *)

\* One end goes from y to z: nothing is opened, the bytes that p brings on stream s0 are
\* handed to the host or the stream is gone, and everything else stays where it is.
MovesOn(y, z, s, p) ==
    /\ z.streams[s] # None => y.streams[s] # None
    /\ \A j, t : Sends(y, s, j, t) => Sends(z, s, j, t)
    /\ \A g, h : \A d \in Nat :
        Hears(y, s, g, h) /\ h <= d /\ p = Run(h, d) =>
            \E b \in Nat : Hears(z, s, g, b) /\ b <= d /\ (z.streams[s] # None => b = d)
    /\ SynFirst(y, s) => SynFirst(z, s)
    /\ HasSyn(z, s) => HasSyn(y, s)
    /\ Quiet(y, s) => Quiet(z, s)

Moves(y, z, s0, p) ==
    /\ Typed(z) /\ z.role = y.role /\ z.next_stream_id = y.next_stream_id
    /\ \A s \in Ids : MovesOn(y, z, s, IF s = s0 THEN p ELSE <<>>)

Keeps(y, z) == Moves(y, z, 0, <<>>)

LEMMA IdsFacts == 0 \notin Ids /\ Ids \subseteq Nat /\ \A s \in Ids : s \in Nat /\ s > 0
BY YamuxAssumption

LEMMA HearsBounds ==
  ASSUME NEW y, Typed(y), NEW s, NEW g, NEW h, Hears(y, s, g, h)
  PROVE  g \in Nat /\ h \in Nat /\ g <= h
<1>1. Len(y.pending) \in Nat BY DEF Typed, IsSeq
<1> QED BY <1>1, CarriesBounds DEF Hears

\* One call after the other.
LEMMA MovesThenKeeps ==
  ASSUME NEW y, NEW z, NEW w, NEW s0, NEW p, Typed(y), Moves(y, z, s0, p), Keeps(z, w)
  PROVE  Moves(y, w, s0, p)
<1>1. Typed(w) /\ w.role = y.role /\ w.next_stream_id = y.next_stream_id BY DEF Moves, Keeps
<1>2. ASSUME NEW s \in Ids PROVE MovesOn(y, w, s, IF s = s0 THEN p ELSE <<>>)
  <2> DEFINE part == IF s = s0 THEN p ELSE <<>>
  <2>1. MovesOn(y, z, s, part) BY DEF Moves
  <2>2. MovesOn(z, w, s, <<>>)
    <3>1. s # 0 BY IdsFacts
    <3> QED BY <3>1 DEF Keeps, Moves
  <2> HIDE DEF part
  <2>3. ASSUME NEW g, NEW h, NEW d \in Nat, Hears(y, s, g, h), h <= d, part = Run(h, d)
        PROVE  \E b \in Nat : Hears(w, s, g, b) /\ b <= d /\ (w.streams[s] # None => b = d)
    <3>1. PICK c \in Nat : Hears(z, s, g, c) /\ c <= d /\ (z.streams[s] # None => c = d)
        BY <2>1, <2>3 DEF MovesOn
    <3>2. <<>> = Run(c, c) BY EmptyRun
    <3>3. PICK b \in Nat : Hears(w, s, g, b) /\ b <= c /\ (w.streams[s] # None => b = c)
        BY <2>2, <3>1, <3>2 DEF MovesOn
    <3>4. w.streams[s] # None => z.streams[s] # None BY <2>2 DEF MovesOn
    <3> QED BY <3>1, <3>3, <3>4
  <2>4. w.streams[s] # None => y.streams[s] # None BY <2>1, <2>2 DEF MovesOn
  <2>5. \A j, t : Sends(y, s, j, t) => Sends(w, s, j, t) BY <2>1, <2>2 DEF MovesOn
  <2>6. /\ SynFirst(y, s) => SynFirst(w, s)
        /\ HasSyn(w, s) => HasSyn(y, s)
        /\ Quiet(y, s) => Quiet(w, s)
      BY <2>1, <2>2 DEF MovesOn
  <2>7. MovesOn(y, w, s, part) BY <2>3, <2>4, <2>5, <2>6 DEF MovesOn
  <2> QED BY <2>7 DEF part
<1> QED BY <1>1, <1>2 DEF Moves

LEMMA KeepsMore ==
  ASSUME NEW y, NEW z, NEW w, Typed(y), Keeps(y, z), Keeps(z, w)
  PROVE  Keeps(y, w)
BY MovesThenKeeps DEF Keeps

\* The sequence u is p and then r.
Behind(u, p, r) ==
    /\ IsSeq(u)
    /\ Len(p) \in Nat /\ Len(r) \in Nat
    /\ Len(u) = Len(p) + Len(r)
    /\ \A i \in 1..Len(p) : u[i] = p[i]
    /\ \A i \in 1..Len(r) : u[Len(p) + i] = r[i]
    /\ \A i \in 1..(Len(p) + Len(r)) : i \in 1..Len(p) \/ \E k \in 1..Len(r) : i = Len(p) + k

LEMMA Extended ==
  ASSUME NEW p, IsSeq(p), NEW r, IsSeq(r)
  PROVE  Behind(p \o r, p, r)
<1>1. PICK X : p \in Seq(X) BY DEF IsSeq
<1>2. PICK Y : r \in Seq(Y) BY DEF IsSeq
<1> DEFINE Z == X \cup Y
<1>3. p \in Seq(Z) /\ r \in Seq(Z) BY <1>1, <1>2
<1> HIDE DEF Z
<1>4. /\ p \o r \in Seq(Z)
      /\ Len(p) \in Nat /\ Len(r) \in Nat
      /\ Len(p \o r) = Len(p) + Len(r)
      /\ \A i \in 1..(Len(p) + Len(r)) : (p \o r)[i] = IF i <= Len(p) THEN p[i] ELSE r[i - Len(p)]
    BY <1>3, Joined
<1>5. IsSeq(p \o r) BY <1>4 DEF IsSeq
<1>6. \A i \in 1..Len(p) : (p \o r)[i] = p[i] BY <1>4
<1>7. ASSUME NEW i \in 1..Len(r) PROVE (p \o r)[Len(p) + i] = r[i]
  <2>1. Len(p) + i \in 1..(Len(p) + Len(r)) /\ ~(Len(p) + i <= Len(p)) /\ (Len(p) + i) - Len(p) = i
      BY <1>4
  <2> QED BY <1>4, <2>1
<1>8. ASSUME NEW i \in 1..(Len(p) + Len(r)), i \notin 1..Len(p)
      PROVE  \E k \in 1..Len(r) : i = Len(p) + k
  <2>1. i - Len(p) \in 1..Len(r) /\ i = Len(p) + (i - Len(p)) BY <1>4, <1>8
  <2> QED BY <2>1
<1> QED BY <1>4, <1>5, <1>6, <1>7, <1>8 DEF Behind

LEMMA OutJoin ==
  ASSUME NEW p, IsSeq(p), NEW r, IsSeq(r), NEW s, NEW a, NEW b, NEW d,
         Carries(OutParts(p, s), Len(p), a, b), Carries(OutParts(r, s), Len(r), b, d)
  PROVE  Carries(OutParts(p \o r, s), Len(p \o r), a, d)
<1> DEFINE u == OutParts(p \o r, s)
<1>0. Behind(p \o r, p, r) BY Extended
<1>1. /\ Len(p) \in Nat /\ Len(r) \in Nat
      /\ Len(p \o r) = Len(p) + Len(r)
      /\ \A i \in 1..Len(p) : (p \o r)[i] = p[i]
      /\ \A i \in 1..Len(r) : (p \o r)[Len(p) + i] = r[i]
    BY <1>0 DEF Behind
<1>2. \A i \in 1..Len(p) : u[i] = OutParts(p, s)[i] BY <1>1 DEF OutParts
<1>3. \A i \in 1..Len(r) : u[Len(p) + i] = OutParts(r, s)[i]
  <2> TAKE i \in 1..Len(r)
  <2>1. Len(p) + i \in 1..Len(p \o r) BY <1>1
  <2> QED BY <1>1, <2>1 DEF OutParts
<1> DEFINE m == Len(p)
           n == Len(r)
           q == OutParts(p, s)
           v == OutParts(r, s)
<1>4. /\ m \in Nat /\ n \in Nat /\ Carries(q, m, a, b) /\ Carries(v, n, b, d)
      /\ Follows(u, q, m, v, n)
    BY <1>1, <1>2, <1>3 DEF Follows
<1> DEFINE l == Len(p \o r)
<1>5. l = m + n BY <1>1
<1> HIDE DEF u, m, n, q, v, l
<1>6. Carries(u, l, a, d) BY <1>4, <1>5, CarriesJoin, Zenon
<1> QED BY <1>6 DEF u, l

LEMMA InJoin ==
  ASSUME NEW p, IsSeq(p), NEW r, IsSeq(r), NEW s, NEW a, NEW b, NEW d,
         Carries(InParts(p, s), Len(p), a, b), Carries(InParts(r, s), Len(r), b, d)
  PROVE  Carries(InParts(p \o r, s), Len(p \o r), a, d)
<1> DEFINE u == InParts(p \o r, s)
<1>0. Behind(p \o r, p, r) BY Extended
<1>1. /\ Len(p) \in Nat /\ Len(r) \in Nat
      /\ Len(p \o r) = Len(p) + Len(r)
      /\ \A i \in 1..Len(p) : (p \o r)[i] = p[i]
      /\ \A i \in 1..Len(r) : (p \o r)[Len(p) + i] = r[i]
    BY <1>0 DEF Behind
<1>2. \A i \in 1..Len(p) : u[i] = InParts(p, s)[i] BY <1>1 DEF InParts
<1>3. \A i \in 1..Len(r) : u[Len(p) + i] = InParts(r, s)[i]
  <2> TAKE i \in 1..Len(r)
  <2>1. Len(p) + i \in 1..Len(p \o r) BY <1>1
  <2> QED BY <1>1, <2>1 DEF InParts
<1> DEFINE m == Len(p)
           n == Len(r)
           q == InParts(p, s)
           v == InParts(r, s)
<1>4. /\ m \in Nat /\ n \in Nat /\ Carries(q, m, a, b) /\ Carries(v, n, b, d)
      /\ Follows(u, q, m, v, n)
    BY <1>1, <1>2, <1>3 DEF Follows
<1> DEFINE l == Len(p \o r)
<1>5. l = m + n BY <1>1
<1> HIDE DEF u, m, n, q, v, l
<1>6. Carries(u, l, a, d) BY <1>4, <1>5, CarriesJoin, Zenon
<1> QED BY <1>6 DEF u, l

\* Outputs that neither send nor deliver bytes nor open a stream.
Idle(o) ==
    /\ IsItem(o)
    /\ IF o.output = "Outbound" THEN \A s \in Ids : PlainFrame(o.frame, s) ELSE o.data = <<>>

\* The writing side of a stream is the same.
SameSender(st, su) ==
    /\ IsStream(su)
    /\ su.send_buffer = st.send_buffer /\ su.buffered_send = st.buffered_send
    /\ su.pending_open = "SYN" => st.pending_open = "SYN"

LEMMA SynExtended ==
  ASSUME NEW y, Typed(y), NEW z, NEW ext, IsSeq(ext), z.pending = y.pending \o ext, NEW s,
         OpensLater(z, s) => OpensLater(y, s) /\ \A i \in 1..Len(ext) : PlainItem(ext[i], s),
         \A i \in 1..Len(ext) : SynItem(ext[i], s) => i = 1 /\ OpensLater(y, s),
         z.streams[s] # None => y.streams[s] # None
  PROVE  /\ SynFirst(y, s) => SynFirst(z, s)
         /\ HasSyn(z, s) => HasSyn(y, s)
<1> DEFINE p == y.pending
           r == z.pending
<1>0. Behind(r, p, ext)
  <2>1. IsSeq(p) BY DEF Typed
  <2> QED BY <2>1, Extended, Zenon
<1>1. /\ Len(p) \in Nat /\ Len(ext) \in Nat
      /\ Len(r) = Len(p) + Len(ext)
      /\ \A i \in 1..Len(p) : r[i] = p[i]
      /\ \A i \in 1..Len(ext) : r[Len(p) + i] = ext[i]
      /\ \A i \in 1..(Len(p) + Len(ext)) : i \in 1..Len(p) \/ \E k \in 1..Len(ext) : i = Len(p) + k
    BY <1>0 DEF Behind
<1>2. HasSyn(z, s) => HasSyn(y, s)
  <2>1. SUFFICES ASSUME NEW x \in 1..Len(r), SynItem(r[x], s) PROVE HasSyn(y, s)
      BY DEF HasSyn
  <2>2. CASE x \in 1..Len(p) BY <1>1, <2>1, <2>2 DEF HasSyn
  <2>3. CASE \E k \in 1..Len(ext) : x = Len(p) + k BY <1>1, <2>1, <2>3 DEF HasSyn
  <2> QED BY <1>1, <2>2, <2>3
<1>3. ASSUME SynFirst(y, s) PROVE SynFirst(z, s)
  <2>1. ASSUME NEW x \in 1..Len(r), SynItem(r[x], s), NEW w \in 1..(x - 1) PROVE PlainItem(r[w], s)
    <3>1. CASE x \in 1..Len(p)
      <4>1. w \in 1..Len(p) /\ w \in 1..(x - 1) BY <1>1, <3>1
      <4> QED BY <1>1, <1>3, <2>1, <3>1, <4>1 DEF SynFirst
    <3>2. CASE \E k \in 1..Len(ext) : x = Len(p) + k
      <4>1. PICK k \in 1..Len(ext) : x = Len(p) + k BY <3>2
      <4>2. k = 1 /\ OpensLater(y, s) BY <1>1, <2>1, <4>1
      <4>3. w \in 1..Len(p) BY <1>1, <4>1, <4>2
      <4> QED BY <1>1, <1>3, <4>2, <4>3 DEF SynFirst, AllPlain
    <3> QED BY <1>1, <3>1, <3>2
  <2>2. ASSUME OpensLater(z, s) PROVE AllPlain(z, s)
    <3>1. OpensLater(y, s) /\ \A i \in 1..Len(ext) : PlainItem(ext[i], s) BY <2>2
    <3>2. AllPlain(y, s) BY <1>3, <3>1 DEF SynFirst
    <3>3. ASSUME NEW x \in 1..Len(r) PROVE PlainItem(r[x], s)
      <4>1. CASE x \in 1..Len(p) BY <1>1, <3>2, <4>1 DEF AllPlain
      <4>2. CASE \E k \in 1..Len(ext) : x = Len(p) + k BY <1>1, <3>1, <4>2
      <4> QED BY <1>1, <4>1, <4>2
    <3> QED BY <3>3 DEF AllPlain
  <2> QED BY <2>1, <2>2 DEF SynFirst
<1> QED BY <1>2, <1>3

LEMMA TypedExtended ==
  ASSUME NEW y, Typed(y), NEW z, NEW ext, IsSeq(ext), z.pending = y.pending \o ext,
         \A i \in 1..Len(ext) : IsItem(ext[i]),
         DOMAIN z = DOMAIN y, z.next_stream_id = y.next_stream_id, DOMAIN z.streams = Ids,
         \A s \in Ids : z.streams[s] = None \/ IsStream(z.streams[s])
  PROVE  Typed(z)
<1>0. Behind(z.pending, y.pending, ext)
  <2>1. IsSeq(y.pending) BY DEF Typed
  <2> QED BY <2>1, Extended, Zenon
<1>1. /\ IsSeq(z.pending)
      /\ Len(y.pending) \in Nat /\ Len(ext) \in Nat
      /\ Len(z.pending) = Len(y.pending) + Len(ext)
      /\ \A i \in 1..Len(y.pending) : z.pending[i] = y.pending[i]
      /\ \A i \in 1..Len(ext) : z.pending[Len(y.pending) + i] = ext[i]
      /\ \A i \in 1..(Len(y.pending) + Len(ext)) :
            i \in 1..Len(y.pending) \/ \E k \in 1..Len(ext) : i = Len(y.pending) + k
    BY <1>0 DEF Behind
<1>2. \A x \in 1..Len(z.pending) : IsItem(z.pending[x]) BY <1>1 DEF Typed
<1> QED BY <1>1, <1>2 DEF Typed

\* Idle outputs bring no bytes.
LEMMA IdleAdds ==
  ASSUME NEW y, Typed(y), NEW z, NEW ext, IsSeq(ext), z.pending = y.pending \o ext,
         \A i \in 1..Len(ext) : Idle(ext[i]), NEW s \in Ids
  PROVE  /\ \A j : \A k \in Nat : Carries(OutParts(y.pending, s), Len(y.pending), j, k)
                              => Carries(OutParts(z.pending, s), Len(z.pending), j, k)
         /\ \A g, h : Hears(y, s, g, h) => Hears(z, s, g, h)
<1>1. IsSeq(y.pending) /\ Len(ext) \in Nat BY DEF Typed, IsSeq
<1>2. \A i \in 1..Len(ext) : OutParts(ext, s)[i] = <<>> /\ InParts(ext, s)[i] = <<>>
    BY DEF Idle, OutParts, InParts, OutPart, InPart, FramePart, PlainFrame
<1>3. ASSUME NEW j, NEW k \in Nat, Carries(OutParts(y.pending, s), Len(y.pending), j, k)
      PROVE  Carries(OutParts(z.pending, s), Len(z.pending), j, k)
  <2>1. Carries(OutParts(ext, s), Len(ext), k, k) BY <1>1, <1>2, CarriesNothing
  <2> QED BY <1>1, <1>3, <2>1, OutJoin
<1>4. ASSUME NEW g, NEW h, Hears(y, s, g, h) PROVE Hears(z, s, g, h)
  <2>1. h \in Nat BY <1>4, HearsBounds
  <2>2. Carries(InParts(ext, s), Len(ext), h, h) BY <1>1, <1>2, <2>1, CarriesNothing
  <2> QED BY <1>1, <1>4, <2>2, InJoin DEF Hears
<1> QED BY <1>3, <1>4

\* Idle outputs leave a stream alone whose writing side is the same.
LEMMA IdleMovesOn ==
  ASSUME NEW y, Typed(y), NEW z, NEW ext, IsSeq(ext), z.pending = y.pending \o ext,
         \A i \in 1..Len(ext) : Idle(ext[i]), NEW s \in Ids,
         z.streams[s] = None \/ (y.streams[s] # None /\ SameSender(y.streams[s], z.streams[s]))
  PROVE  MovesOn(y, z, s, <<>>)
<1>1. IsSeq(y.pending) /\ Len(ext) \in Nat /\ Behind(z.pending, y.pending, ext)
  <2>1. IsSeq(y.pending) BY DEF Typed
  <2>2. Behind(z.pending, y.pending, ext) BY <2>1, Extended, Zenon
  <2> QED BY <2>1, <2>2 DEF Behind
<1>2. \A i \in 1..Len(ext) : PlainItem(ext[i], s) /\ ~SynItem(ext[i], s)
    BY DEF Idle, PlainItem, SynItem, PlainFrame, SynFrame
<1>3. z.streams[s] # None => y.streams[s] # None /\ SameSender(y.streams[s], z.streams[s]) OBVIOUS
<1>4. ASSUME NEW j, NEW t, Sends(y, s, j, t) PROVE Sends(z, s, j, t)
  <2>1. PICK k \in Nat : /\ Carries(OutParts(y.pending, s), Len(y.pending), j, k) /\ k <= t
                         /\ y.streams[s] # None => Holds(y.streams[s], k, t)
      BY <1>4 DEF Sends
  <2>2. Carries(OutParts(z.pending, s), Len(z.pending), j, k) BY <2>1, IdleAdds
  <2>3. z.streams[s] # None => Holds(z.streams[s], k, t) BY <1>3, <2>1 DEF Holds, SameSender
  <2> QED BY <1>4, <2>1, <2>2, <2>3 DEF Sends
<1>5. ASSUME NEW g, NEW h, NEW d \in Nat, Hears(y, s, g, h), h <= d, <<>> = Run(h, d)
      PROVE  Hears(z, s, g, d)
  <2>1. h \in Nat BY <1>5, HearsBounds
  <2>2. h = d BY <1>5, <2>1, EmptyRun
  <2> QED BY <1>5, <2>2, IdleAdds
<1>6. OpensLater(z, s) => OpensLater(y, s) BY <1>3 DEF OpensLater, SameSender
<1>7. /\ SynFirst(y, s) => SynFirst(z, s)
      /\ HasSyn(z, s) => HasSyn(y, s)
    BY <1>2, <1>3, <1>6, SynExtended
<1>8. ASSUME Quiet(y, s) PROVE Quiet(z, s)
  <2>1. /\ Len(z.pending) = Len(y.pending) + Len(ext)
        /\ \A i \in 1..Len(y.pending) : z.pending[i] = y.pending[i]
        /\ \A i \in 1..Len(ext) : z.pending[Len(y.pending) + i] = ext[i]
        /\ \A i \in 1..(Len(y.pending) + Len(ext)) :
              i \in 1..Len(y.pending) \/ \E k \in 1..Len(ext) : i = Len(y.pending) + k
      BY <1>1 DEF Behind
  <2>2. ASSUME NEW x \in 1..Len(z.pending) PROVE PlainItem(z.pending[x], s)
    <3>1. CASE x \in 1..Len(y.pending) BY <1>8, <2>1, <3>1 DEF Quiet, AllPlain
    <3>2. CASE \E k \in 1..Len(ext) : x = Len(y.pending) + k BY <1>2, <2>1, <3>2
    <3> QED BY <2>1, <3>1, <3>2
  <2> QED BY <1>3, <1>8, <2>2 DEF Quiet, AllPlain
<1>9. \A g, h : \A d \in Nat :
        Hears(y, s, g, h) /\ h <= d /\ <<>> = Run(h, d) =>
          \E b \in Nat : Hears(z, s, g, b) /\ b <= d /\ (z.streams[s] # None => b = d)
    BY <1>5
<1> QED BY <1>3, <1>4, <1>7, <1>8, <1>9 DEF MovesOn

\* Calls that add only idle outputs, and leave the writing sides alone.
LEMMA IdleKeeps ==
  ASSUME NEW y, Typed(y), NEW z, NEW ext, IsSeq(ext), z.pending = y.pending \o ext,
         \A i \in 1..Len(ext) : Idle(ext[i]),
         DOMAIN z = DOMAIN y, z.role = y.role, z.next_stream_id = y.next_stream_id, DOMAIN z.streams = Ids,
         \A s \in Ids : z.streams[s] = None \/ (y.streams[s] # None /\ SameSender(y.streams[s], z.streams[s]))
  PROVE  Keeps(y, z)
<1>1. Typed(z) BY TypedExtended DEF Idle, SameSender
<1>2. \A s \in Ids : MovesOn(y, z, s, <<>>) BY IdleMovesOn
<1> QED BY <1>1, <1>2 DEF Keeps, Moves

\* Frames of stream s0, the first of which may open it.
FramesOf(ext, s0, st) ==
    \A i \in 1..Len(ext) :
        /\ ext[i].output = "Outbound" /\ IsFrame(ext[i].frame) /\ ext[i].frame.stream = s0
        /\ "SYN" \in ext[i].frame.flags => i = 1 /\ st.pending_open = "SYN"

\* They take their bytes from the front of the buffer.
TakesFrom(ext, s0, st, su) ==
    \A k, t \in Nat : Holds(st, k, t) =>
        \E m \in Nat : Carries(OutParts(ext, s0), Len(ext), k, m) /\ m <= t /\ Holds(su, m, t)

\* Calls that send frames of one stream.
LEMMA FramesKeep ==
  ASSUME NEW y, Typed(y), NEW z, NEW ext, IsSeq(ext), z.pending = y.pending \o ext,
         NEW s0 \in Ids, y.streams[s0] # None, NEW su, IsStream(su),
         FramesOf(ext, s0, y.streams[s0]), TakesFrom(ext, s0, y.streams[s0], su),
         su.pending_open = "SYN" => y.streams[s0].pending_open = "SYN" /\ Len(ext) = 0,
         DOMAIN z = DOMAIN y, z.role = y.role, z.next_stream_id = y.next_stream_id,
         z.streams = [y.streams EXCEPT ![s0] = su]
  PROVE  Keeps(y, z)
<1>0. DOMAIN y.streams = Ids BY DEF Typed
<1>1. Typed(z)
  <2>1. \A i \in 1..Len(ext) : IsItem(ext[i]) BY DEF FramesOf, IsItem
  <2>2. DOMAIN z.streams = Ids /\ \A s \in Ids : z.streams[s] = None \/ IsStream(z.streams[s])
      BY DEF Typed
  <2> QED BY <2>1, <2>2, TypedExtended
<1>2. IsSeq(y.pending) /\ Len(ext) \in Nat /\ Behind(z.pending, y.pending, ext)
  <2>1. IsSeq(y.pending) BY DEF Typed
  <2>2. Behind(z.pending, y.pending, ext) BY <2>1, Extended
  <2> QED BY <2>1, <2>2 DEF Behind
<1>3. ASSUME NEW s \in Ids PROVE MovesOn(y, z, s, <<>>)
  <2>1. s # s0 => z.streams[s] = y.streams[s] BY <1>0
  <2>2. z.streams[s0] = su BY <1>0
  <2>3. z.streams[s] # None => y.streams[s] # None BY <2>1
  <2>4. \A i \in 1..Len(ext) : InParts(ext, s)[i] = <<>> BY DEF FramesOf, InParts, InPart
  <2>5. ASSUME NEW j, NEW t, Sends(y, s, j, t) PROVE Sends(z, s, j, t)
    <3>1. PICK k \in Nat : /\ Carries(OutParts(y.pending, s), Len(y.pending), j, k) /\ k <= t
                           /\ y.streams[s] # None => Holds(y.streams[s], k, t)
        BY <2>5 DEF Sends
    <3>2. t \in Nat BY <2>5 DEF Sends
    <3>3. CASE s = s0
      <4>1. PICK m \in Nat : Carries(OutParts(ext, s), Len(ext), k, m) /\ m <= t /\ Holds(su, m, t)
          BY <3>1, <3>2, <3>3 DEF TakesFrom
      <4>2. Carries(OutParts(z.pending, s), Len(z.pending), j, m) BY <1>2, <3>1, <4>1, OutJoin
      <4> QED BY <2>2, <3>2, <3>3, <4>1, <4>2 DEF Sends
    <3>4. CASE s # s0
      <4>1. \A i \in 1..Len(ext) : OutParts(ext, s)[i] = <<>>
          BY <3>4 DEF FramesOf, OutParts, OutPart, FramePart
      <4>2. Carries(OutParts(ext, s), Len(ext), k, k) BY <1>2, <4>1, CarriesNothing
      <4>3. Carries(OutParts(z.pending, s), Len(z.pending), j, k) BY <1>2, <3>1, <4>2, OutJoin
      <4> QED BY <2>1, <3>1, <3>2, <3>4, <4>3 DEF Sends
    <3> QED BY <3>3, <3>4
  <2>6. ASSUME NEW g, NEW h, NEW d \in Nat, Hears(y, s, g, h), h <= d, <<>> = Run(h, d)
        PROVE  Hears(z, s, g, d)
    <3>1. h \in Nat BY <2>6, HearsBounds
    <3>2. h = d BY <2>6, <3>1, EmptyRun
    <3>3. Carries(InParts(ext, s), Len(ext), h, h) BY <1>2, <2>4, <3>1, CarriesNothing
    <3> QED BY <1>2, <2>6, <3>2, <3>3, InJoin DEF Hears
  <2>7. OpensLater(z, s) => OpensLater(y, s) /\ \A i \in 1..Len(ext) : PlainItem(ext[i], s)
    <3>1. CASE s = s0 BY <2>2, <3>1 DEF OpensLater
    <3>2. CASE s # s0 BY <2>1, <3>2 DEF OpensLater, FramesOf, PlainItem, PlainFrame
    <3> QED BY <3>1, <3>2
  <2>8. \A i \in 1..Len(ext) : SynItem(ext[i], s) => i = 1 /\ OpensLater(y, s)
      BY DEF FramesOf, SynItem, SynFrame, OpensLater
  <2>9. /\ SynFirst(y, s) => SynFirst(z, s)
        /\ HasSyn(z, s) => HasSyn(y, s)
      BY <2>3, <2>7, <2>8, SynExtended
  <2>10. ASSUME Quiet(y, s) PROVE Quiet(z, s)
    <3>1. s # s0 /\ y.streams[s] = None BY <2>10 DEF Quiet
    <3>2. /\ Len(z.pending) = Len(y.pending) + Len(ext)
          /\ \A i \in 1..Len(y.pending) : z.pending[i] = y.pending[i]
          /\ \A i \in 1..Len(ext) : z.pending[Len(y.pending) + i] = ext[i]
          /\ \A i \in 1..(Len(y.pending) + Len(ext)) :
                i \in 1..Len(y.pending) \/ \E k \in 1..Len(ext) : i = Len(y.pending) + k
        BY <1>2 DEF Behind
    <3>3. \A i \in 1..Len(ext) : PlainItem(ext[i], s) BY <3>1 DEF FramesOf, PlainItem, PlainFrame
    <3>4. ASSUME NEW x \in 1..Len(z.pending) PROVE PlainItem(z.pending[x], s)
      <4>1. CASE x \in 1..Len(y.pending) BY <2>10, <3>2, <4>1 DEF Quiet, AllPlain
      <4>2. CASE \E k \in 1..Len(ext) : x = Len(y.pending) + k BY <3>2, <3>3, <4>2
      <4> QED BY <3>2, <4>1, <4>2
    <3> QED BY <2>1, <3>1, <3>4 DEF Quiet, AllPlain
  <2>11. \A g, h : \A d \in Nat :
          Hears(y, s, g, h) /\ h <= d /\ <<>> = Run(h, d) =>
            \E b \in Nat : Hears(z, s, g, b) /\ b <= d /\ (z.streams[s] # None => b = d)
      BY <2>6
  <2> QED BY <2>3, <2>5, <2>9, <2>10, <2>11 DEF MovesOn
<1> QED BY <1>1, <1>3 DEF Keeps, Moves

-----------------------------------------------------------------------------
(* The parts the calls are made of. *)

\* What could be sent was sent, and still is.
Calm(y, z) == \A s \in Ids : Settled(y, s) => Settled(z, s)

\* Nothing changes but the outputs.
Outputs(y, z, ext) ==
    /\ IsSeq(ext) /\ z.pending = y.pending \o ext
    /\ DOMAIN z = DOMAIN y /\ z.role = y.role /\ z.next_stream_id = y.next_stream_id
    /\ z.streams = y.streams

LEMMA QueueFramesIs ==
  ASSUME NEW y, Typed(y), NEW frames, IsSeq(frames)
  PROVE  \E ext : /\ Outputs(y, QueueFrames(y, frames), ext)
                  /\ Len(ext) = Len(frames) /\ Len(ext) \in Nat
                  /\ \A i \in 1..Len(ext) : ext[i].output = "Outbound" /\ ext[i].frame = frames[i]
<1> DEFINE ext == [i \in DOMAIN frames |-> Outbound(frames[i])]
           z == QueueFrames(y, frames)
<1>1. DOMAIN frames = 1..Len(frames) /\ Len(frames) \in Nat BY DEF IsSeq
<1>2. ext \in Seq({Outbound(frames[i]) : i \in DOMAIN frames}) /\ Len(ext) = Len(frames) BY <1>1
<1>3. \A i \in 1..Len(ext) : ext[i].output = "Outbound" /\ ext[i].frame = frames[i]
    BY <1>1, <1>2 DEF Outbound
<1>4. IsSeq(ext) BY <1>2 DEF IsSeq
<1>5. z.pending = y.pending \o ext BY DEF QueueFrames, Typed
<1>6. DOMAIN z = DOMAIN y /\ z.role = y.role /\ z.next_stream_id = y.next_stream_id
      /\ z.streams = y.streams
    BY DEF QueueFrames, Typed
<1> HIDE DEF ext, z
<1>7. Outputs(y, z, ext) BY <1>4, <1>5, <1>6 DEF Outputs
<1> QED BY <1>1, <1>2, <1>3, <1>7 DEF z

LEMMA OneIsSeq == ASSUME NEW e PROVE IsSeq(<<e>>) /\ Len(<<e>>) = 1 /\ <<e>>[1] = e
<1>1. <<e>> \in Seq({e}) OBVIOUS
<1> QED BY <1>1 DEF IsSeq

LEMMA NotifyIs ==
  ASSUME NEW y, Typed(y), NEW n
  PROVE  Outputs(y, Notify(y, n), <<n>>)
<1> DEFINE z == Notify(y, n)
<1>1. PICK X : y.pending \in Seq(X) BY DEF Typed, IsSeq
<1> DEFINE p == y.pending
           Z == X \cup {n}
<1>2. p \in Seq(Z) /\ <<n>> \in Seq(Z) /\ Append(p, n) \in Seq(Z) BY <1>1
<1>3. Append(p, n) = p \o <<n>>
  <2>1. Len(p) \in Nat /\ Len(Append(p, n)) = Len(p) + 1 BY <1>2
  <2>2. p \o <<n>> \in Seq(Z) /\ Len(p \o <<n>>) = Len(p) + 1 BY <1>2, OneIsSeq
  <2>3. \A i \in 1..(Len(p) + 1) : Append(p, n)[i] = (p \o <<n>>)[i] BY <1>2, <2>1
  <2> QED BY <1>2, <2>1, <2>2, <2>3
<1>4. z.pending = Append(p, n) BY DEF Notify, Typed
<1>5. DOMAIN z = DOMAIN y /\ z.role = y.role /\ z.next_stream_id = y.next_stream_id
      /\ z.streams = y.streams
    BY DEF Notify, Typed
<1> HIDE DEF z
<1>6. IsSeq(<<n>>) BY OneIsSeq
<1>7. z.pending = y.pending \o <<n>> BY <1>3, <1>4
<1>8. Outputs(y, z, <<n>>) BY <1>5, <1>6, <1>7 DEF Outputs
<1> QED BY <1>8 DEF z

LEMMA OutputsKeep ==
  ASSUME NEW y, Typed(y), NEW z, NEW ext, Outputs(y, z, ext), \A i \in 1..Len(ext) : Idle(ext[i])
  PROVE  Keeps(y, z) /\ Calm(y, z)
<1>1. DOMAIN z.streams = Ids BY DEF Outputs, Typed
<1>2. \A s \in Ids : z.streams[s] = None \/ (y.streams[s] # None /\ SameSender(y.streams[s], z.streams[s]))
    BY DEF Outputs, Typed, SameSender
<1>3. Keeps(y, z) BY <1>1, <1>2, IdleKeeps DEF Outputs
<1>4. Calm(y, z) BY DEF Calm, Settled, Outputs
<1> QED BY <1>3, <1>4

LEMMA NothingAdded ==
  ASSUME NEW y, Typed(y)
  PROVE  IsSeq(<<>>) /\ Len(<<>>) = 0 /\ y.pending = y.pending \o <<>>
<1>1. PICK X : y.pending \in Seq(X) BY DEF Typed, IsSeq
<1>2. <<>> \in Seq({}) OBVIOUS
<1>3. y.pending \o <<>> = y.pending BY <1>1
<1> QED BY <1>2, <1>3 DEF IsSeq

\* Fields that this is not about.
LEMMA FieldsKeep ==
  ASSUME NEW y, Typed(y), NEW z, DOMAIN z = DOMAIN y, z.role = y.role,
         z.next_stream_id = y.next_stream_id, z.streams = y.streams, z.pending = y.pending
  PROVE  Keeps(y, z) /\ Calm(y, z)
<1>1. Outputs(y, z, <<>>) BY NothingAdded DEF Outputs
<1>2. \A i \in 1..Len(<<>>) : Idle(<<>>[i]) BY NothingAdded
<1> QED BY <1>1, <1>2, OutputsKeep

LEMMA QueueFrameKeeps ==
  ASSUME NEW y, Typed(y), NEW f, IsFrame(f), \A s \in Ids : PlainFrame(f, s)
  PROVE  Keeps(y, QueueFrame(y, f)) /\ Calm(y, QueueFrame(y, f))
<1>1. IsSeq(<<f>>) /\ Len(<<f>>) = 1 /\ <<f>>[1] = f BY OneIsSeq
<1>2. PICK ext : /\ Outputs(y, QueueFrames(y, <<f>>), ext)
                 /\ Len(ext) = Len(<<f>>) /\ Len(ext) \in Nat
                 /\ \A i \in 1..Len(ext) : ext[i].output = "Outbound" /\ ext[i].frame = <<f>>[i]
    BY <1>1, QueueFramesIs
<1>3. \A i \in 1..Len(ext) : Idle(ext[i]) BY <1>1, <1>2 DEF Idle, IsItem
<1>4. Keeps(y, QueueFrames(y, <<f>>)) /\ Calm(y, QueueFrames(y, <<f>>)) BY <1>2, <1>3, OutputsKeep
<1> QED BY <1>4 DEF QueueFrame

LEMMA NotifyKeeps ==
  ASSUME NEW y, Typed(y), NEW n, n.output # "Outbound", n.data = <<>>
  PROVE  Keeps(y, Notify(y, n)) /\ Calm(y, Notify(y, n))
<1>1. Len(<<n>>) = 1 /\ <<n>>[1] = n BY OneIsSeq
<1>2. Idle(n) BY DEF Idle, IsItem
<1>3. \A i \in 1..Len(<<n>>) : Idle(<<n>>[i]) BY <1>1, <1>2
<1> QED BY <1>3, NotifyIs, OutputsKeep

LEMMA SetStreamKeeps ==
  ASSUME NEW y, Typed(y), NEW s \in Ids, y.streams[s] # None, NEW su, SameSender(y.streams[s], su)
  PROVE  /\ Keeps(y, SetStream(y, s, su))
         /\ su.send_window = y.streams[s].send_window => Calm(y, SetStream(y, s, su))
         /\ SetStream(y, s, su).streams[s] = su
<1> DEFINE z == SetStream(y, s, su)
<1>1. /\ DOMAIN z = DOMAIN y /\ z.role = y.role /\ z.next_stream_id = y.next_stream_id
      /\ z.pending = y.pending /\ z.streams = [y.streams EXCEPT ![s] = su]
    BY DEF SetStream, Typed
<1> HIDE DEF z
<1>2. DOMAIN z.streams = Ids /\ z.streams[s] = su
      /\ \A x \in Ids : x # s => z.streams[x] = y.streams[x]
    BY <1>1 DEF Typed
<1>3. \A x \in Ids : z.streams[x] = None \/ (y.streams[x] # None /\ SameSender(y.streams[x], z.streams[x]))
    BY <1>2 DEF Typed, SameSender
<1>4. IsSeq(<<>>) /\ z.pending = y.pending \o <<>> /\ \A i \in 1..Len(<<>>) : Idle(<<>>[i])
    BY <1>1, NothingAdded
<1>5. Keeps(y, z) BY <1>1, <1>2, <1>3, <1>4, IdleKeeps
<1>6. su.send_window = y.streams[s].send_window => Calm(y, z) BY <1>2 DEF Calm, Settled, SameSender
<1> QED BY <1>2, <1>5, <1>6 DEF z

LEMMA Then ==
  ASSUME NEW y, Typed(y), NEW z, Keeps(y, z), Calm(y, z), NEW w, Keeps(z, w), Calm(z, w)
  PROVE  Keeps(y, w) /\ Calm(y, w)
BY KeepsMore DEF Calm

LEMMA KeepsTyped ==
  ASSUME NEW y, NEW z, Keeps(y, z)
  PROVE  /\ Typed(z) /\ z.role = y.role /\ z.next_stream_id = y.next_stream_id
         /\ \A s \in Ids : z.streams[s] # None => y.streams[s] # None
BY DEF Keeps, Moves, MovesOn

LEMMA KeepsSelf == ASSUME NEW y, Typed(y) PROVE Keeps(y, y) /\ Calm(y, y)
BY FieldsKeep

LEMMA RemoveStreamKeeps ==
  ASSUME NEW y, Typed(y), NEW s \in Ids, NEW emit \in BOOLEAN
  PROVE  /\ Keeps(y, RemoveStream(y, s, emit)) /\ Calm(y, RemoveStream(y, s, emit))
         /\ RemoveStream(y, s, emit).streams[s] = None
<1>1. CASE y.streams[s] = None BY <1>1, KeepsSelf DEF RemoveStream
<1>2. CASE y.streams[s] # None
  <2> DEFINE gone == [y EXCEPT !.total_buffered_send = @ - y.streams[s].buffered_send,
                               !.streams[s] = None]
             n == Notice("StreamClosed", s)
  <2>1. /\ DOMAIN gone = DOMAIN y /\ gone.role = y.role /\ gone.next_stream_id = y.next_stream_id
        /\ gone.pending = y.pending /\ gone.streams = [y.streams EXCEPT ![s] = None]
      BY DEF Typed
  <2>2. RemoveStream(y, s, emit) = IF emit THEN Notify(gone, n) ELSE gone BY <1>2 DEF RemoveStream
  <2> HIDE DEF gone
  <2>3. DOMAIN gone.streams = Ids /\ gone.streams[s] = None
        /\ \A x \in Ids : x # s => gone.streams[x] = y.streams[x]
      BY <2>1 DEF Typed
  <2>4. \A x \in Ids : gone.streams[x] = None \/ (y.streams[x] # None /\ SameSender(y.streams[x], gone.streams[x]))
      BY <2>3 DEF Typed, SameSender
  <2>5. IsSeq(<<>>) /\ gone.pending = y.pending \o <<>> /\ \A i \in 1..Len(<<>>) : Idle(<<>>[i])
      BY <2>1, NothingAdded
  <2>6. Keeps(y, gone) BY <2>1, <2>3, <2>4, <2>5, IdleKeeps
  <2>7. Calm(y, gone) BY <2>3 DEF Calm, Settled
  <2>8. n.output # "Outbound" /\ n.data = <<>> BY DEF Notice
  <2> HIDE DEF n
  <2>9. Typed(gone) BY <2>6, KeepsTyped
  <2>10. Keeps(gone, Notify(gone, n)) /\ Calm(gone, Notify(gone, n)) BY <2>8, <2>9, NotifyKeeps
  <2>11. Keeps(y, Notify(gone, n)) /\ Calm(y, Notify(gone, n)) BY <2>6, <2>7, <2>10, Then
  <2>12. Notify(gone, n).streams = gone.streams BY <2>9, NotifyIs DEF Outputs
  <2>13. CASE emit BY <2>2, <2>3, <2>11, <2>12, <2>13
  <2>14. CASE ~emit BY <2>2, <2>3, <2>6, <2>7, <2>14
  <2> QED BY <2>13, <2>14
<1> QED BY <1>1, <1>2

LEMMA ClosedNoticesAre ==
  ASSUME NEW y, Typed(y)
  PROVE  /\ IsSeq(ClosedNotices(y))
         /\ \A i \in 1..Len(ClosedNotices(y)) : Idle(ClosedNotices(y)[i])
<1> DEFINE n == Cardinality(Open(y))
           c == ClosedNotices(y)
<1>1. IsFiniteSet(Open(y))
  <2>1. Open(y) \subseteq 1..U32_MAX BY YamuxAssumption DEF Open
  <2>2. IsFiniteSet(1..U32_MAX) BY YamuxAssumption, FS_Interval
  <2> QED BY <2>1, <2>2, FS_Subset
<1>2. n \in Nat BY <1>1, FS_CardinalityType
<1> DEFINE nth(i) == CHOOSE s \in Open(y) : Cardinality({x \in Open(y) : x <= s}) = i
<1>3. c = [i \in 1..n |-> Notice("StreamClosed", nth(i))] BY DEF ClosedNotices
<1> HIDE DEF n, c, nth
<1>4. c \in Seq({c[i] : i \in 1..n}) /\ Len(c) = n BY <1>2, <1>3
<1>5. \A i \in 1..Len(c) : \E s : c[i] = Notice("StreamClosed", s) BY <1>3, <1>4
<1>6. \A i \in 1..Len(c) : Idle(c[i])
  <2> TAKE i \in 1..Len(c)
  <2>1. PICK s : c[i] = Notice("StreamClosed", s) BY <1>5
  <2>2. c[i].output = "StreamClosed" /\ c[i].data = <<>> BY <2>1 DEF Notice
  <2> QED BY <2>2 DEF Idle, IsItem
<1>7. IsSeq(c) BY <1>4 DEF IsSeq
<1> QED BY <1>6, <1>7 DEF c

LEMMA CloseAllStreamsKeeps ==
  ASSUME NEW y, Typed(y)
  PROVE  /\ Keeps(y, CloseAllStreams(y)) /\ Calm(y, CloseAllStreams(y))
         /\ \A s \in Ids : CloseAllStreams(y).streams[s] = None
<1> DEFINE z == CloseAllStreams(y)
           ext == ClosedNotices(y)
<1>1. /\ DOMAIN z = DOMAIN y /\ z.role = y.role /\ z.next_stream_id = y.next_stream_id
      /\ z.pending = y.pending \o ext /\ z.streams = [s \in Ids |-> None]
    BY DEF CloseAllStreams, Typed
<1>2. IsSeq(ext) /\ \A i \in 1..Len(ext) : Idle(ext[i]) BY ClosedNoticesAre
<1> HIDE DEF z, ext
<1>3. DOMAIN z.streams = Ids /\ \A s \in Ids : z.streams[s] = None BY <1>1
<1>4. Keeps(y, z) BY <1>1, <1>2, <1>3, IdleKeeps
<1>5. Calm(y, z) BY <1>3 DEF Calm, Settled
<1> QED BY <1>3, <1>4, <1>5 DEF z

\* What was queued is replaced, and no stream is left.
LEMMA ReplacedKeeps ==
  ASSUME NEW y, Typed(y), NEW z, IsSeq(z.pending), \A i \in 1..Len(z.pending) : Idle(z.pending[i]),
         DOMAIN z = DOMAIN y, z.role = y.role, z.next_stream_id = y.next_stream_id,
         DOMAIN z.streams = Ids, \A s \in Ids : z.streams[s] = None
  PROVE  Keeps(y, z) /\ Calm(y, z)
<1>1. Typed(z) BY DEF Typed, Idle
<1>2. Len(z.pending) \in Nat /\ Len(y.pending) \in Nat BY DEF IsSeq, Typed
<1>3. ASSUME NEW s \in Ids PROVE MovesOn(y, z, s, <<>>)
  <2>1. \A i \in 1..Len(z.pending) : PlainItem(z.pending[i], s) /\ ~SynItem(z.pending[i], s)
      BY DEF Idle, PlainItem, SynItem, PlainFrame, SynFrame
  <2>2. \A i \in 1..Len(z.pending) : OutParts(z.pending, s)[i] = <<>> /\ InParts(z.pending, s)[i] = <<>>
      BY DEF Idle, OutParts, InParts, OutPart, InPart, FramePart, PlainFrame
  <2>3. ASSUME NEW j, NEW t, Sends(y, s, j, t) PROVE Sends(z, s, j, t)
    <3>1. PICK k \in Nat : Carries(OutParts(y.pending, s), Len(y.pending), j, k) /\ k <= t
        BY <2>3 DEF Sends
    <3>2. t \in Nat BY <2>3 DEF Sends
    <3>3. j \in Nat /\ j <= k BY <1>2, <3>1, CarriesBounds
    <3>4. Carries(OutParts(z.pending, s), Len(z.pending), j, j) /\ j <= t
        BY <1>2, <2>2, <3>1, <3>2, <3>3, CarriesNothing
    <3> QED BY <3>2, <3>3, <3>4 DEF Sends
  <2>4. ASSUME NEW g, NEW h, NEW d \in Nat, Hears(y, s, g, h), h <= d
        PROVE  \E b \in Nat : Hears(z, s, g, b) /\ b <= d
    <3>1. g \in Nat /\ h \in Nat /\ g <= h BY <2>4, HearsBounds
    <3>2. Hears(z, s, g, g) BY <1>2, <2>2, <3>1, CarriesNothing DEF Hears
    <3> QED BY <2>4, <3>1, <3>2
  <2>5. SynFirst(z, s) /\ ~HasSyn(z, s) /\ Quiet(z, s)
      BY <2>1 DEF SynFirst, HasSyn, Quiet, AllPlain, OpensLater
  <2> QED BY <2>3, <2>4, <2>5 DEF MovesOn
<1>4. Calm(y, z) BY DEF Calm, Settled
<1> QED BY <1>1, <1>3, <1>4 DEF Keeps, Moves

LEMMA FailProtocolKeeps ==
  ASSUME NEW y, Typed(y)
  PROVE  /\ Keeps(y, FailProtocol(y)) /\ Calm(y, FailProtocol(y))
         /\ \A s \in Ids : FailProtocol(y).streams[s] = None
<1> DEFINE x == [y EXCEPT !.failed = TRUE, !.dirty = TRUE, !.pending = <<Outbound(GoAwayFrame)>>]
           z == CloseAllStreams(x)
           o == Outbound(GoAwayFrame)
<1>1. /\ DOMAIN x = DOMAIN y /\ x.role = y.role /\ x.next_stream_id = y.next_stream_id
      /\ x.streams = y.streams /\ x.pending = <<o>>
    BY DEF Typed
<1>2. IsSeq(<<o>>) /\ Len(<<o>>) = 1 /\ <<o>>[1] = o BY OneIsSeq
<1>3. Idle(o)
  <2>1. o.output = "Outbound" /\ o.frame = GoAwayFrame BY DEF Outbound
  <2>2. IsFrame(GoAwayFrame) BY DEF IsFrame, GoAwayFrame, ControlFrame
  <2>3. \A s \in Ids : PlainFrame(GoAwayFrame, s) BY IdsFacts DEF PlainFrame, GoAwayFrame, ControlFrame
  <2> QED BY <2>1, <2>2, <2>3 DEF Idle, IsItem
<1>4. FailProtocol(y) = z BY DEF FailProtocol
<1> HIDE DEF x, o, z
<1>5. Typed(x) BY <1>1, <1>2, <1>3 DEF Typed, Idle
<1> DEFINE ext == ClosedNotices(x)
<1>6. /\ DOMAIN z = DOMAIN x /\ z.role = x.role /\ z.next_stream_id = x.next_stream_id
      /\ z.pending = x.pending \o ext /\ z.streams = [s \in Ids |-> None]
    BY <1>5 DEF CloseAllStreams, Typed, z
<1>7. IsSeq(ext) /\ \A i \in 1..Len(ext) : Idle(ext[i]) BY <1>5, ClosedNoticesAre
<1> HIDE DEF ext
<1>8. Behind(z.pending, <<o>>, ext) BY <1>1, <1>2, <1>6, <1>7, Extended
<1>9. IsSeq(z.pending) /\ \A i \in 1..Len(z.pending) : Idle(z.pending[i])
  <2>1. IsSeq(z.pending) BY <1>8 DEF Behind
  <2>2. ASSUME NEW i \in 1..Len(z.pending) PROVE Idle(z.pending[i])
    <3>1. CASE i \in 1..Len(<<o>>) BY <1>2, <1>3, <1>8, <3>1 DEF Behind
    <3>2. CASE \E k \in 1..Len(ext) : i = Len(<<o>>) + k BY <1>7, <1>8, <3>2 DEF Behind
    <3> QED BY <1>8, <3>1, <3>2 DEF Behind
  <2> QED BY <2>1, <2>2
<1>10. DOMAIN z.streams = Ids /\ \A s \in Ids : z.streams[s] = None BY <1>6
<1>11. DOMAIN z = DOMAIN y /\ z.role = y.role /\ z.next_stream_id = y.next_stream_id BY <1>1, <1>6
<1>12. Keeps(y, z) /\ Calm(y, z) BY <1>9, <1>10, <1>11, ReplacedKeeps
<1> QED BY <1>4, <1>10, <1>12

LEMMA TakenFacts ==
  ASSUME NEW st, IsStream(st)
  PROVE  /\ IsStream(OpenFlagTaken(st))
         /\ OpenFlagTaken(st).send_buffer = st.send_buffer
         /\ OpenFlagTaken(st).buffered_send = st.buffered_send
         /\ OpenFlagTaken(st).send_window = st.send_window
         /\ OpenFlagTaken(st).pending_credit = st.pending_credit
         /\ OpenFlagTaken(st).receive_window = st.receive_window
         /\ OpenFlagTaken(st).pending_open # "SYN"
         /\ "SYN" \in OpenFlag(st) => st.pending_open = "SYN"
<1>1. None # "SYN" /\ None # "ACK" BY YamuxAssumption
<1> QED BY <1>1 DEF OpenFlagTaken, OpenFlag, IsStream, StreamState

LEMMA HoldsBounds ==
  ASSUME NEW st, IsStream(st), NEW k, NEW t, Holds(st, k, t)
  PROVE  k \in Nat /\ t \in Nat /\ k <= t
<1>1. Len(st.send_buffer) \in Nat BY DEF IsStream, StreamState
<1> QED BY <1>1, CarriesBounds DEF Holds, Chunks

\* A frame without bytes.
LEMMA EmptyFrameKeeps ==
  ASSUME NEW y, Typed(y), NEW s \in Ids, y.streams[s] # None,
         NEW su, SameSender(y.streams[s], su), su.pending_open # "SYN",
         NEW f, IsFrame(f), f.stream = s, f.payload = <<>>,
         "SYN" \in f.flags => y.streams[s].pending_open = "SYN"
  PROVE  /\ Keeps(y, QueueFrame(SetStream(y, s, su), f))
         /\ su.send_window = y.streams[s].send_window => Calm(y, QueueFrame(SetStream(y, s, su), f))
         /\ QueueFrame(SetStream(y, s, su), f).streams[s] = su
<1> DEFINE x == SetStream(y, s, su)
           z == QueueFrame(x, f)
<1>1. /\ Keeps(y, x) /\ x.streams[s] = su
      /\ su.send_window = y.streams[s].send_window => Calm(y, x)
    BY SetStreamKeeps
<1>2. /\ DOMAIN x = DOMAIN y /\ x.role = y.role /\ x.next_stream_id = y.next_stream_id
      /\ x.pending = y.pending /\ x.streams = [y.streams EXCEPT ![s] = su]
    BY DEF SetStream, Typed
<1> HIDE DEF x
<1>3. Typed(x) BY <1>1, KeepsTyped
<1>4. IsSeq(<<f>>) /\ Len(<<f>>) = 1 /\ <<f>>[1] = f BY OneIsSeq
<1>5. PICK ext : /\ Outputs(x, z, ext)
                 /\ Len(ext) = Len(<<f>>) /\ Len(ext) \in Nat
                 /\ \A i \in 1..Len(ext) : ext[i].output = "Outbound" /\ ext[i].frame = <<f>>[i]
    BY <1>3, <1>4, QueueFramesIs DEF QueueFrame
<1> HIDE DEF z
<1>6. FramesOf(ext, s, y.streams[s]) BY <1>4, <1>5 DEF FramesOf
<1>7. TakesFrom(ext, s, y.streams[s], su)
  <2> SUFFICES ASSUME NEW k \in Nat, NEW t \in Nat, Holds(y.streams[s], k, t)
               PROVE  \E m \in Nat : Carries(OutParts(ext, s), Len(ext), k, m) /\ m <= t /\ Holds(su, m, t)
      BY DEF TakesFrom
  <2>1. IsStream(y.streams[s]) BY DEF Typed
  <2>2. k <= t BY <2>1, HoldsBounds
  <2>3. \A i \in 1..Len(ext) : OutParts(ext, s)[i] = <<>>
      BY <1>4, <1>5 DEF OutParts, OutPart, FramePart
  <2>4. Carries(OutParts(ext, s), Len(ext), k, k) BY <1>5, <2>3, CarriesNothing
  <2>5. Holds(su, k, t) BY DEF Holds, SameSender
  <2> QED BY <2>2, <2>4, <2>5
<1>8. /\ DOMAIN z = DOMAIN y /\ z.role = y.role /\ z.next_stream_id = y.next_stream_id
      /\ z.streams = [y.streams EXCEPT ![s] = su] /\ IsSeq(ext) /\ z.pending = y.pending \o ext
    BY <1>2, <1>5 DEF Outputs
<1>9. IsStream(su) BY DEF SameSender
<1>10. Keeps(y, z) BY <1>6, <1>7, <1>8, <1>9, FramesKeep
<1>11. z.streams = x.streams BY <1>5 DEF Outputs
<1>12. su.send_window = y.streams[s].send_window => Calm(y, z) BY <1>1, <1>11 DEF Calm, Settled
<1> QED BY <1>1, <1>10, <1>11, <1>12 DEF z, x

LEMMA CloseWriteKeeps ==
  ASSUME NEW y, Typed(y), NEW s \in Ids, y.streams[s] # None
  PROVE  Keeps(y, CloseWrite(y, s)) /\ Calm(y, CloseWrite(y, s))
<1> DEFINE st   == y.streams[s]
           fin  == DataFrame(s, OpenFlag(st) \cup {"FIN"}, <<>>)
           shut == [OpenFlagTaken(st) EXCEPT !.local_write_closed = TRUE]
           y1   == QueueFrame(SetStream(y, s, shut), fin)
           late == [st EXCEPT !.close_pending = TRUE]
<1>1. IsStream(st) BY DEF Typed
<1>2. CloseWrite(y, s) \in {y, SetStream(y, s, late), RemoveStream(y1, s, TRUE), y1}
    BY DEF CloseWrite
<1>3. /\ SameSender(st, late) /\ late.send_window = st.send_window
    BY <1>1 DEF SameSender, IsStream, StreamState
<1>4. SameSender(st, shut) /\ shut.pending_open # "SYN" /\ shut.send_window = st.send_window
  <2>1. /\ IsStream(OpenFlagTaken(st))
        /\ OpenFlagTaken(st).send_buffer = st.send_buffer
        /\ OpenFlagTaken(st).buffered_send = st.buffered_send
        /\ OpenFlagTaken(st).send_window = st.send_window
        /\ OpenFlagTaken(st).pending_open # "SYN"
      BY <1>1, TakenFacts
  <2> QED BY <2>1 DEF SameSender, IsStream, StreamState
<1>5. /\ IsFrame(fin) /\ fin.stream = s /\ fin.payload = <<>>
      /\ "SYN" \in fin.flags => st.pending_open = "SYN"
  <2>1. "SYN" \in OpenFlag(st) => st.pending_open = "SYN" BY <1>1, TakenFacts
  <2>2. <<>> \in Seq(Nat) /\ Len(<<>>) = 0 OBVIOUS
  <2> QED BY <2>1, <2>2 DEF DataFrame, IsFrame
<1> HIDE DEF late, shut, fin
<1>6. Keeps(y, SetStream(y, s, late)) /\ Calm(y, SetStream(y, s, late)) BY <1>3, SetStreamKeeps
<1>7. Keeps(y, y1) /\ Calm(y, y1) BY <1>4, <1>5, EmptyFrameKeeps
<1> HIDE DEF y1
<1>8. Keeps(y, RemoveStream(y1, s, TRUE)) /\ Calm(y, RemoveStream(y1, s, TRUE))
    BY <1>7, KeepsTyped, RemoveStreamKeeps, Then
<1>9. Keeps(y, y) /\ Calm(y, y) BY KeepsSelf
<1> QED BY <1>2, <1>6, <1>7, <1>8, <1>9

LEMMA ResetFrameIs ==
  ASSUME NEW s \in Ids
  PROVE  IsFrame(DataFrame(s, {"RST"}, <<>>)) /\ \A x \in Ids : PlainFrame(DataFrame(s, {"RST"}, <<>>), x)
<1>1. <<>> \in Seq(Nat) /\ Len(<<>>) = 0 OBVIOUS
<1> QED BY <1>1 DEF DataFrame, IsFrame, PlainFrame

LEMMA ResetUnknownKeeps ==
  ASSUME NEW y, Typed(y), NEW s \in Ids
  PROVE  /\ Keeps(y, ResetUnknown(y, s)) /\ Calm(y, ResetUnknown(y, s))
         /\ ResetUnknown(y, s).streams = y.streams
<1>1. Keeps(y, ResetUnknown(y, s)) /\ Calm(y, ResetUnknown(y, s))
    BY ResetFrameIs, QueueFrameKeeps DEF ResetUnknown
<1>2. ResetUnknown(y, s).streams = y.streams BY DEF ResetUnknown, QueueFrame, QueueFrames, Typed
<1> QED BY <1>1, <1>2

LEMMA ResetKeeps ==
  ASSUME NEW y, Typed(y), NEW s \in Ids
  PROVE  Keeps(y, Reset(y, s)) /\ Calm(y, Reset(y, s))
<1> DEFINE y1 == RemoveStream(y, s, FALSE)
           y2 == QueueFrame(y1, DataFrame(s, {"RST"}, <<>>))
           n  == Notice("StreamClosed", s)
<1>1. Keeps(y, y1) /\ Calm(y, y1) BY RemoveStreamKeeps
<1>2. Typed(y1) BY <1>1, KeepsTyped
<1>3. Keeps(y1, y2) /\ Calm(y1, y2) BY <1>2, ResetFrameIs, QueueFrameKeeps
<1>4. Typed(y2) BY <1>3, KeepsTyped
<1>5. n.output # "Outbound" /\ n.data = <<>> BY DEF Notice
<1>6. Keeps(y2, Notify(y2, n)) /\ Calm(y2, Notify(y2, n)) BY <1>4, <1>5, NotifyKeeps
<1>7. Reset(y, s) = Notify(y2, n) BY DEF Reset
<1> HIDE DEF y1, y2, n
<1>8. Keeps(y, y2) /\ Calm(y, y2) BY <1>1, <1>3, Then
<1> QED BY <1>6, <1>7, <1>8, Then

LEMMA ControlFrameIs ==
  ASSUME NEW type \in {"Ping", "GoAway"}, NEW flags
  PROVE  /\ IsFrame(ControlFrame(type, 0, flags, 0))
         /\ \A x \in Ids : PlainFrame(ControlFrame(type, 0, flags, 0), x)
<1>1. <<>> \in Seq(Nat) /\ Len(<<>>) = 0 OBVIOUS
<1> QED BY <1>1, IdsFacts DEF ControlFrame, IsFrame, PlainFrame

LEMMA GoAwayKeeps ==
  ASSUME NEW y, Typed(y)
  PROVE  Keeps(y, GoAway(y)) /\ Calm(y, GoAway(y))
<1> DEFINE y1 == [y EXCEPT !.local_go_away = TRUE]
           y2 == QueueFrame(y1, GoAwayFrame)
<1>1. Keeps(y, y1) /\ Calm(y, y1)
  <2>1. /\ DOMAIN y1 = DOMAIN y /\ y1.role = y.role /\ y1.next_stream_id = y.next_stream_id
        /\ y1.streams = y.streams /\ y1.pending = y.pending
      BY DEF Typed
  <2> HIDE DEF y1
  <2> QED BY <2>1, FieldsKeep
<1> HIDE DEF y1
<1>2. Typed(y1) BY <1>1, KeepsTyped
<1>3. Keeps(y1, y2) /\ Calm(y1, y2) BY <1>2, ControlFrameIs, QueueFrameKeeps DEF GoAwayFrame
<1>4. Typed(y2) BY <1>3, KeepsTyped
<1>5. Keeps(y, y2) /\ Calm(y, y2) BY <1>1, <1>3, Then
<1>6. GoAway(y) = CloseAllStreams(y2) BY DEF GoAway, y1
<1> HIDE DEF y2
<1> QED BY <1>4, <1>5, <1>6, CloseAllStreamsKeeps, Then

LEMMA PollKeeps ==
  ASSUME NEW y, Typed(y), NEW t
  PROVE  Keeps(y, Poll(y, t)) /\ Calm(y, Poll(y, t))
<1> DEFINE last == IF y.dirty \/ y.last_activity = None THEN t ELSE y.last_activity
           y1 == [y EXCEPT !.last_activity = last, !.dirty = FALSE]
           y2 == QueueFrame(y1, PingFrame("SYN"))
           y3 == [y2 EXCEPT !.last_activity = t, !.dirty = FALSE]
<1>1. Poll(y, t) \in {y1, y3} BY DEF Poll
<1> HIDE DEF last
<1>2. Keeps(y, y1) /\ Calm(y, y1)
  <2>1. /\ DOMAIN y1 = DOMAIN y /\ y1.role = y.role /\ y1.next_stream_id = y.next_stream_id
        /\ y1.streams = y.streams /\ y1.pending = y.pending
      BY DEF Typed
  <2> HIDE DEF y1
  <2> QED BY <2>1, FieldsKeep
<1> HIDE DEF y1
<1>3. Typed(y1) BY <1>2, KeepsTyped
<1>4. Keeps(y1, y2) /\ Calm(y1, y2) BY <1>3, ControlFrameIs, QueueFrameKeeps DEF PingFrame
<1> HIDE DEF y2
<1>5. Typed(y2) BY <1>4, KeepsTyped
<1>6. Keeps(y2, y3) /\ Calm(y2, y3)
  <2>1. /\ DOMAIN y3 = DOMAIN y2 /\ y3.role = y2.role /\ y3.next_stream_id = y2.next_stream_id
        /\ y3.streams = y2.streams /\ y3.pending = y2.pending
      BY <1>5 DEF Typed
  <2> HIDE DEF y3
  <2> QED BY <1>5, <2>1, FieldsKeep
<1> HIDE DEF y3
<1>7. Keeps(y1, y3) /\ Calm(y1, y3) BY <1>3, <1>4, <1>6, Then
<1>8. Keeps(y, y3) /\ Calm(y, y3) BY <1>2, <1>7, Then
<1> QED BY <1>1, <1>2, <1>8

-----------------------------------------------------------------------------
(* The least element, and induction without an operator as a parameter. *)

LEMMA LeastElement == ASSUME NEW S \in SUBSET Nat, S # {} PROVE \E x \in S : \A y \in S : x <= y
<1>1. IsWellFoundedOn(OpToRel(<, Nat), Nat) BY NatLessThanWellFounded
<1>2. \E x \in S : \A y \in S : ~ (<<y, x>> \in OpToRel(<, Nat))
  BY <1>1, WFMin, Zenon
<1>3. PICK x \in S : \A y \in S : ~ (<<y, x>> \in OpToRel(<, Nat)) BY <1>2, Zenon
<1>4. \A y \in S : ~(y < x)
  <2> TAKE y \in S
  <2>1. x \in Nat /\ y \in Nat BY Zenon
  <2>2. ~ (<<y, x>> \in OpToRel(<, Nat)) BY <1>3, Zenon
  <2> QED BY <2>1, <2>2 DEF OpToRel
<1>5. \A y \in S : x <= y
  <2> TAKE y \in S
  <2>1. x \in Nat /\ y \in Nat BY Zenon
  <2>2. ~(y < x) BY <1>4, Zenon
  <2> QED BY <2>1, <2>2
<1> QED BY <1>5, Zenon

LEMMA Induction == ASSUME NEW S \in SUBSET Nat, 0 \in S, \A k \in S : k + 1 \in S PROVE S = Nat
<1>1. SUFFICES ASSUME Nat \ S # {} PROVE FALSE OBVIOUS
<1>2. Nat \ S \in SUBSET Nat OBVIOUS
<1>3. PICK x \in Nat \ S : \A y \in Nat \ S : x <= y BY <1>1, <1>2, LeastElement
<1>4. x # 0 /\ x \in Nat BY <1>3
<1>5. x - 1 \in Nat BY <1>4
<1>6. x - 1 \notin Nat \ S BY <1>3, <1>4, <1>5
<1>7. x - 1 \in S BY <1>5, <1>6
<1>8. (x - 1) + 1 \in S BY <1>7
<1> QED BY <1>3, <1>4, <1>8


LEMMA MaterializeKeeps ==
  ASSUME NEW y, Typed(y)
  PROVE  Keeps(y, MaterializeDeferredControl(y)) /\ Calm(y, MaterializeDeferredControl(y))
<1> DEFINE deferred == {s \in Open(y) : HasDeferredControl(y.streams[s])}
           s  == CHOOSE x \in deferred : \A z \in deferred : x <= z
           st == y.streams[s]
           v  == Smaller(st.pending_credit, U32_MAX)
           su == [OpenFlagTaken(st) EXCEPT !.pending_credit = @ - v, !.receive_window = @ + v]
           f  == WindowUpdate(s, OpenFlag(st), v)
           z  == QueueFrame(SetStream(y, s, su), f)
<1>1. CASE ~Active(y) \/ deferred = {}
  <2>1. MaterializeDeferredControl(y) = y BY <1>1 DEF MaterializeDeferredControl
  <2> QED BY <2>1, KeepsSelf
<1>2. CASE ~(~Active(y) \/ deferred = {})
  <2>1. MaterializeDeferredControl(y) = z BY <1>2 DEF MaterializeDeferredControl
  <2>2. deferred \in SUBSET Nat /\ deferred # {} BY <1>2, IdsFacts DEF Open
  <2>3. \E x \in deferred : \A w \in deferred : x <= w BY <2>2, LeastElement
  <2>4. s \in deferred BY <2>3, Zenon
  <2>5. s \in Ids /\ y.streams[s] # None BY <2>4 DEF Open
  <2> HIDE DEF s, deferred
  <2>6. IsStream(st) BY <2>5 DEF Typed
  <2>7. v \in Nat /\ v <= st.pending_credit BY <2>6, YamuxAssumption, SMTT(60) DEF IsStream, StreamState, Smaller
  <2> HIDE DEF v
  <2>8. SameSender(st, su) /\ su.pending_open # "SYN" /\ su.send_window = st.send_window
    <3>1. /\ IsStream(OpenFlagTaken(st))
          /\ OpenFlagTaken(st).send_buffer = st.send_buffer
          /\ OpenFlagTaken(st).buffered_send = st.buffered_send
          /\ OpenFlagTaken(st).send_window = st.send_window
          /\ OpenFlagTaken(st).pending_credit = st.pending_credit
          /\ OpenFlagTaken(st).pending_open # "SYN"
        BY <2>6, TakenFacts
    <3> DEFINE ot == OpenFlagTaken(st)
    <3> HIDE DEF ot
    <3>2. ot.pending_credit - v \in Nat /\ ot.receive_window + v \in Nat
        BY <2>7, <3>1 DEF ot, IsStream, StreamState
    <3> QED BY <3>1, <3>2 DEF SameSender, IsStream, StreamState, ot
  <2>9. /\ IsFrame(f) /\ f.stream = s /\ f.payload = <<>>
        /\ "SYN" \in f.flags => st.pending_open = "SYN"
    <3>1. "SYN" \in OpenFlag(st) => st.pending_open = "SYN" BY <2>6, TakenFacts
    <3>2. <<>> \in Seq(Nat) OBVIOUS
    <3> QED BY <2>5, <2>7, <3>1, <3>2 DEF WindowUpdate, ControlFrame, IsFrame
  <2> HIDE DEF su, f
  <2>10. Keeps(y, z) /\ Calm(y, z) BY <2>5, <2>8, <2>9, EmptyFrameKeeps
  <2> QED BY <2>1, <2>10
<1> QED BY <1>1, <1>2

LEMMA RefillKeeps ==
  ASSUME NEW y, Typed(y)
  PROVE  Keeps(y, Refill(y)) /\ Calm(y, Refill(y))
BY MaterializeKeeps, KeepsSelf DEF Refill

-----------------------------------------------------------------------------
(* What arrives. *)

LEMMA KeepsDrops ==
  ASSUME NEW y, Typed(y), NEW z, Keeps(y, z), NEW s0 \in Ids, NEW p, z.streams[s0] = None \/ p = <<>>
  PROVE  Moves(y, z, s0, p)
<1>1. Typed(z) /\ z.role = y.role /\ z.next_stream_id = y.next_stream_id BY KeepsTyped
<1>2. ASSUME NEW s \in Ids PROVE MovesOn(y, z, s, <<>>)
  <2>1. s # 0 BY IdsFacts
  <2> QED BY <2>1 DEF Keeps, Moves
<1>3. ASSUME z.streams[s0] = None PROVE MovesOn(y, z, s0, p)
  <2>1. MovesOn(y, z, s0, <<>>) BY <1>2
  <2>2. ASSUME NEW g, NEW h, NEW d \in Nat, Hears(y, s0, g, h), h <= d
        PROVE  \E b \in Nat : Hears(z, s0, g, b) /\ b <= d
    <3>1. h \in Nat BY <2>2, HearsBounds
    <3>2. <<>> = Run(h, h) BY <3>1, EmptyRun
    <3>3. PICK b \in Nat : Hears(z, s0, g, b) /\ b <= h BY <2>1, <2>2, <3>1, <3>2 DEF MovesOn
    <3> QED BY <2>2, <3>1, <3>3
  <2> QED BY <1>3, <2>1, <2>2 DEF MovesOn
<1> QED BY <1>1, <1>2, <1>3 DEF Moves

\* The bytes of a frame become a notice.
LEMMA DeliveryMoves ==
  ASSUME NEW y, Typed(y), NEW z, NEW n, z.pending = y.pending \o <<n>>,
         NEW s0 \in Ids, n.output # "Outbound", n.stream = s0, n.data \in Seq(Nat),
         DOMAIN z = DOMAIN y, z.role = y.role, z.next_stream_id = y.next_stream_id, DOMAIN z.streams = Ids,
         \A s \in Ids : z.streams[s] = None \/ (y.streams[s] # None /\ SameSender(y.streams[s], z.streams[s]))
  PROVE  Moves(y, z, s0, n.data)
<1> DEFINE ext == <<n>>
           p == n.data
<1>0. IsSeq(ext) /\ Len(ext) = 1 /\ ext[1] = n BY OneIsSeq
<1>z. 1 \in 1..1 /\ \A i \in 1..1 : i = 1 OBVIOUS
<1> HIDE DEF ext
<1>1. Typed(z)
  <2>1. \A i \in 1..Len(ext) : IsItem(ext[i]) BY <1>0, <1>z DEF IsItem
  <2>2. \A s \in Ids : z.streams[s] = None \/ IsStream(z.streams[s]) BY DEF SameSender
  <2>3. z.pending = y.pending \o ext BY DEF ext
  <2> QED BY <1>0, <2>1, <2>2, <2>3, TypedExtended
<1>2. IsSeq(y.pending) /\ Behind(z.pending, y.pending, ext) /\ z.pending = y.pending \o ext
  <2>1. IsSeq(y.pending) BY DEF Typed
  <2>2. z.pending = y.pending \o ext BY DEF ext
  <2>3. Behind(z.pending, y.pending, ext) BY <1>0, <2>1, <2>2, Extended
  <2> QED BY <2>1, <2>2, <2>3
<1>3. ASSUME NEW s \in Ids PROVE MovesOn(y, z, s, IF s = s0 THEN p ELSE <<>>)
  <2> DEFINE part == IF s = s0 THEN p ELSE <<>>
  <2>1. \A i \in 1..Len(ext) : PlainItem(ext[i], s) /\ ~SynItem(ext[i], s)
      BY <1>0, <1>z DEF PlainItem, SynItem
  <2>2. \A i \in 1..Len(ext) : OutParts(ext, s)[i] = <<>> BY <1>0, <1>z DEF OutParts, OutPart
  <2>3. InParts(ext, s)[1] = part BY <1>0, <1>z DEF InParts, InPart
  <2> HIDE DEF part
  <2>4. z.streams[s] # None => y.streams[s] # None /\ SameSender(y.streams[s], z.streams[s]) OBVIOUS
  <2>5. ASSUME NEW j, NEW t, Sends(y, s, j, t) PROVE Sends(z, s, j, t)
    <3>1. PICK k \in Nat : /\ Carries(OutParts(y.pending, s), Len(y.pending), j, k) /\ k <= t
                           /\ y.streams[s] # None => Holds(y.streams[s], k, t)
        BY <2>5 DEF Sends
    <3>2. Carries(OutParts(ext, s), Len(ext), k, k) BY <1>0, <2>2, CarriesNothing
    <3>3. Carries(OutParts(z.pending, s), Len(z.pending), j, k) BY <1>0, <1>2, <3>1, <3>2, OutJoin
    <3>4. z.streams[s] # None => Holds(z.streams[s], k, t) BY <2>4, <3>1 DEF Holds, SameSender
    <3> QED BY <2>5, <3>1, <3>3, <3>4 DEF Sends
  <2>6. ASSUME NEW g, NEW h, NEW d \in Nat, Hears(y, s, g, h), h <= d, part = Run(h, d)
        PROVE  Hears(z, s, g, d)
    <3>1. h \in Nat BY <2>6, HearsBounds
    <3>2. Carries(InParts(ext, s), 1, h, d) BY <2>3, <2>6, <3>1, CarriesOne
    <3> QED BY <1>0, <1>2, <2>6, <3>2, InJoin DEF Hears
  <2>7. OpensLater(z, s) => OpensLater(y, s) BY <2>4 DEF OpensLater, SameSender
  <2>8. /\ SynFirst(y, s) => SynFirst(z, s)
        /\ HasSyn(z, s) => HasSyn(y, s)
      BY <1>0, <1>2, <2>1, <2>4, <2>7, SynExtended
  <2>9. ASSUME Quiet(y, s) PROVE Quiet(z, s)
    <3>1. /\ Len(z.pending) = Len(y.pending) + Len(ext)
          /\ \A i \in 1..Len(y.pending) : z.pending[i] = y.pending[i]
          /\ \A i \in 1..Len(ext) : z.pending[Len(y.pending) + i] = ext[i]
          /\ \A i \in 1..(Len(y.pending) + Len(ext)) :
                i \in 1..Len(y.pending) \/ \E k \in 1..Len(ext) : i = Len(y.pending) + k
        BY <1>2 DEF Behind
    <3>2. ASSUME NEW x \in 1..Len(z.pending) PROVE PlainItem(z.pending[x], s)
      <4>1. CASE x \in 1..Len(y.pending) BY <2>9, <3>1, <4>1 DEF Quiet, AllPlain
      <4>2. CASE \E k \in 1..Len(ext) : x = Len(y.pending) + k BY <2>1, <3>1, <4>2
      <4> QED BY <3>1, <4>1, <4>2
    <3> QED BY <2>4, <2>9, <3>2 DEF Quiet, AllPlain
  <2>10. \A g, h : \A d \in Nat :
          Hears(y, s, g, h) /\ h <= d /\ part = Run(h, d) =>
            \E b \in Nat : Hears(z, s, g, b) /\ b <= d /\ (z.streams[s] # None => b = d)
      BY <2>6
  <2>11. MovesOn(y, z, s, part) BY <2>4, <2>5, <2>8, <2>9, <2>10 DEF MovesOn
  <2> QED BY <2>11 DEF part
<1> QED BY <1>1, <1>3 DEF Moves

LEMMA FinishKeeps ==
  ASSUME NEW y, Typed(y), NEW s \in Ids, y.streams[s] # None, NEW f
  PROVE  Keeps(y, Finish(y, s, f)) /\ Calm(y, Finish(y, s, f))
<1> DEFINE st  == y.streams[s]
           fin == "FIN" \in f.flags /\ ~st.remote_write_closed
           st1 == [st EXCEPT !.remote_write_closed = @ \/ fin]
           y1  == SetStream(y, s, st1)
           n   == Notice("RemoteWriteClosed", s)
           y2  == IF fin THEN Notify(y1, n) ELSE y1
<1>1. Finish(y, s, f) \in {y2, RemoveStream(y2, s, TRUE)} BY DEF Finish
<1>2. IsStream(st) BY DEF Typed
<1> HIDE DEF fin
<1>3. SameSender(st, st1) /\ st1.send_window = st.send_window BY <1>2 DEF SameSender, IsStream, StreamState
<1> HIDE DEF st1
<1>4. Keeps(y, y1) /\ Calm(y, y1) BY <1>3, SetStreamKeeps
<1> HIDE DEF y1
<1>5. Typed(y1) BY <1>4, KeepsTyped
<1>6. n.output # "Outbound" /\ n.data = <<>> BY DEF Notice
<1>7. Keeps(y1, Notify(y1, n)) /\ Calm(y1, Notify(y1, n)) BY <1>5, <1>6, NotifyKeeps
<1>8. Keeps(y, Notify(y1, n)) /\ Calm(y, Notify(y1, n)) BY <1>4, <1>7, Then
<1>9. Keeps(y, y2) /\ Calm(y, y2) BY <1>4, <1>8
<1> HIDE DEF y2
<1>10. Typed(y2) BY <1>9, KeepsTyped
<1>11. Keeps(y, RemoveStream(y2, s, TRUE)) /\ Calm(y, RemoveStream(y2, s, TRUE))
    BY <1>9, <1>10, RemoveStreamKeeps, Then
<1> QED BY <1>1, <1>9, <1>11

LEMMA AcknowledgeSame ==
  ASSUME NEW st, IsStream(st), NEW f
  PROVE  /\ SameSender(st, Acknowledge(st, f))
         /\ Acknowledge(st, f).send_window = st.send_window
BY DEF SameSender, IsStream, StreamState, Acknowledge

LEMMA ReceiveMoves ==
  ASSUME NEW y, Typed(y), NEW f, IsFrame(f), f.stream \in Ids, y.streams[f.stream] # None
  PROVE  Moves(y, Receive(y, f), f.stream, f.payload) /\ Calm(y, Receive(y, f))
<1> DEFINE s   == f.stream
           st  == Acknowledge(y.streams[s], f)
           n   == Len(f.payload)
           due == CreditDue(st, n)
           st1 == [st EXCEPT !.receive_window = @ - n,
                             !.delivered_since_update = IF due THEN 0 ELSE @ + n,
                             !.pending_credit = IF due THEN @ + st.delivered_since_update + n ELSE @]
           y1  == SetStream(y, s, st1)
           o   == DataNotice(s, f.payload)
           y2  == IF n = 0 THEN y1 ELSE Notify(y1, o)
<1> DEFINE bad == (st.remote_write_closed /\ n # 0) \/ n > st.receive_window
<1>1. Receive(y, f) = IF bad THEN FailProtocol(y) ELSE Finish(y2, s, f) BY DEF Receive
<1>2. IsStream(y.streams[s]) BY DEF Typed
<1>3. SameSender(y.streams[s], st) /\ st.send_window = y.streams[s].send_window /\ IsStream(st)
    BY <1>2, AcknowledgeSame DEF SameSender
<1>4. n \in Nat /\ f.payload \in Seq(Nat) BY DEF IsFrame
<1> HIDE DEF n
<1>5. CASE bad BY <1>1, <1>5, FailProtocolKeeps, KeepsDrops
<1>6. SUFFICES ASSUME ~bad PROVE Moves(y, Finish(y2, s, f), s, f.payload) /\ Calm(y, Finish(y2, s, f))
    BY <1>1, <1>5
<1>7. SameSender(y.streams[s], st1) /\ st1.send_window = y.streams[s].send_window
  <2> DEFINE d  == IF due THEN 0 ELSE st.delivered_since_update + n
             pc == IF due THEN st.pending_credit + st.delivered_since_update + n ELSE st.pending_credit
             rw == st.receive_window - n
  <2>1. st \in StreamState /\ n \in Nat /\ ~(n > st.receive_window) BY <1>3, <1>4, <1>6 DEF IsStream
  <2> HIDE DEF st, due, bad
  <2>2. d \in Nat /\ pc \in Nat /\ rw \in Nat BY <2>1 DEF StreamState
  <2>3. st1 = [st EXCEPT !.receive_window = rw, !.delivered_since_update = d, !.pending_credit = pc]
      BY <2>1 DEF StreamState
  <2> HIDE DEF d, pc, rw, st1
  <2>4. /\ st1 \in StreamState /\ st1.send_buffer = st.send_buffer /\ st1.buffered_send = st.buffered_send
        /\ st1.pending_open = st.pending_open /\ st1.send_window = st.send_window
      BY <2>1, <2>2, <2>3 DEF StreamState
  <2> QED BY <1>3, <2>4 DEF SameSender, IsStream
<1> HIDE DEF st, st1, bad
<1>8. Keeps(y, y1) /\ Calm(y, y1) /\ y1.streams[s] = st1 BY <1>7, SetStreamKeeps
<1>9. Typed(y1) BY <1>8, KeepsTyped
<1>10. Moves(y, y2, s, f.payload) /\ Calm(y, y2) /\ y2.streams = y1.streams
  <2>1. CASE n = 0
    <3>1. f.payload = <<>> BY <1>4, <2>1 DEF n
    <3> QED BY <1>8, <2>1, <3>1, KeepsDrops
  <2>2. CASE n # 0
    <3>1. Outputs(y1, Notify(y1, o), <<o>>) BY <1>9, NotifyIs
    <3>2. o.output # "Outbound" /\ o.stream = s /\ o.data = f.payload BY DEF DataNotice
    <3> HIDE DEF o
    <3>3. /\ DOMAIN y1 = DOMAIN y /\ y1.role = y.role /\ y1.next_stream_id = y.next_stream_id
          /\ y1.pending = y.pending /\ y1.streams = [y.streams EXCEPT ![s] = st1]
        BY DEF SetStream, Typed
    <3> HIDE DEF y1
    <3> DEFINE z == Notify(y1, o)
    <3>4. /\ DOMAIN z = DOMAIN y /\ z.role = y.role /\ z.next_stream_id = y.next_stream_id
          /\ z.pending = y.pending \o <<o>> /\ z.streams = y1.streams
        BY <3>1, <3>3 DEF Outputs
    <3> HIDE DEF z
    <3>5. DOMAIN z.streams = Ids /\ z.streams[s] = st1
          /\ \A x \in Ids : x # s => z.streams[x] = y.streams[x]
        BY <3>3, <3>4 DEF Typed
    <3>6. \A x \in Ids : z.streams[x] = None \/ (y.streams[x] # None /\ SameSender(y.streams[x], z.streams[x]))
        BY <1>7, <3>5 DEF Typed, SameSender
    <3>7. Moves(y, z, s, o.data) BY <1>4, <3>2, <3>4, <3>5, <3>6, DeliveryMoves
    <3>8. Calm(y, z) BY <1>8, <3>4 DEF Calm, Settled
    <3> QED BY <2>2, <3>2, <3>4, <3>7, <3>8 DEF z
  <2> QED BY <2>1, <2>2
<1> HIDE DEF y1, y2
<1>11. Typed(y2) BY <1>10 DEF Moves
<1>12. y2.streams[s] # None BY <1>7, <1>8, <1>10, YamuxAssumption DEF SameSender, IsStream
<1>13. Keeps(y2, Finish(y2, s, f)) /\ Calm(y2, Finish(y2, s, f)) BY <1>11, <1>12, FinishKeeps
<1>14. Moves(y, Finish(y2, s, f), s, f.payload) BY <1>10, <1>13, MovesThenKeeps
<1>15. Calm(y, Finish(y2, s, f)) BY <1>10, <1>13 DEF Calm
<1> QED BY <1>14, <1>15

-----------------------------------------------------------------------------
(* The loop of flush_buffered, a fold, is a chain of turns. *)

UpTo(n) == [i \in 1..n |-> i]
Flushed(base, n) == FoldLeft(FlushOne, base, [i \in 1..n |-> i])
FlushStep(n, q, s, base) == IF s = {} THEN base ELSE FlushOne(q[s \ {Max(s)}], UpTo(n)[Max(s)])
FlushRuns(m, n, base) == \E q : q = [s \in SUBSET (1..m) |-> FlushStep(n, q, s, base)]

LEMMA MaxOfRange == ASSUME NEW m \in Nat, NEW s \in SUBSET (1..m), m \in s PROVE Max(s) = m
<1>1. \A x \in s : x \in Int /\ m >= x OBVIOUS
<1>2. m \in s /\ \A y \in s : m >= y BY <1>1
<1>3. \A z \in s : (\A y \in s : z >= y) => z = m BY <1>1
<1>4. Max(s) \in s /\ \A y \in s : Max(s) >= y BY <1>2 DEF Max
<1> QED BY <1>3, <1>4

LEMMA FlushRunsLonger ==
  ASSUME NEW m \in Nat, NEW n, NEW base, FlushRuns(m, n, base)
  PROVE  FlushRuns(m + 1, n, base)
<1>1. PICK q : q = [s \in SUBSET (1..m) |-> FlushStep(n, q, s, base)] BY DEF FlushRuns
<1> DEFINE h == [s \in SUBSET (1..(m + 1)) |->
                   IF m + 1 \in s THEN FlushOne(q[s \ {m + 1}], UpTo(n)[m + 1]) ELSE q[s]]
<1>2. ASSUME NEW s \in SUBSET (1..(m + 1)) PROVE h[s] = FlushStep(n, h, s, base)
  <2>1. CASE m + 1 \in s
    <3>1. Max(s) = m + 1 BY <2>1, MaxOfRange
    <3>2. s \ {m + 1} \in SUBSET (1..(m + 1)) /\ m + 1 \notin s \ {m + 1} OBVIOUS
    <3>3. h[s \ {m + 1}] = q[s \ {m + 1}] BY <3>2
    <3>4. h[s] = FlushOne(q[s \ {m + 1}], UpTo(n)[m + 1]) BY <2>1
    <3>5. s # {} BY <2>1
    <3> HIDE DEF h
    <3> QED BY <3>1, <3>3, <3>4, <3>5 DEF FlushStep
  <2>2. CASE m + 1 \notin s
    <3>1. s \in SUBSET (1..m) BY <2>2
    <3>2. h[s] = q[s] BY <2>2
    <3>3. q[s] = FlushStep(n, q, s, base) BY <1>1, <3>1
    <3>4. s \ {Max(s)} \in SUBSET (1..(m + 1)) /\ m + 1 \notin s \ {Max(s)} BY <2>2
    <3>5. h[s \ {Max(s)}] = q[s \ {Max(s)}] BY <3>4
    <3> HIDE DEF h
    <3> QED BY <3>2, <3>3, <3>5 DEF FlushStep
  <2> QED BY <2>1, <2>2
<1>3. h = [s \in SUBSET (1..(m + 1)) |-> h[s]] OBVIOUS
<1> HIDE DEF h
<1>4. h = [s \in SUBSET (1..(m + 1)) |-> FlushStep(n, h, s, base)] BY <1>2, <1>3
<1> QED BY <1>4 DEF FlushRuns

LEMMA FlushRunsAlways == ASSUME NEW n \in Nat, NEW base PROVE FlushRuns(n, n, base)
<1> DEFINE S == {m \in Nat : FlushRuns(m, n, base)}
<1>1. S \in SUBSET Nat OBVIOUS
<1>2. 0 \in S
  <2>1. SUBSET (1..0) = {{}} OBVIOUS
  <2>2. [s \in SUBSET (1..0) |-> base]
          = [s \in SUBSET (1..0) |-> FlushStep(n, [t \in SUBSET (1..0) |-> base], s, base)]
      BY <2>1 DEF FlushStep
  <2>3. FlushRuns(0, n, base) BY <2>2 DEF FlushRuns
  <2> QED BY <2>3
<1>3. \A m \in S : m + 1 \in S BY FlushRunsLonger
<1> HIDE DEF S
<1>4. S = Nat BY <1>1, <1>2, <1>3, Induction
<1> QED BY <1>4 DEF S

LEMMA FlushChain ==
  ASSUME NEW n \in Nat, NEW base
  PROVE  \E f : /\ f[0] = base /\ f[n] = Flushed(base, n)
                /\ \A i \in 1..n : f[i] = FlushOne(f[i - 1], i)
<1> DEFINE Sets == SUBSET (1..n)
           Ran(q) == [s \in Sets |-> IF s = {} THEN base ELSE FlushOne(q[s \ {Max(s)}], UpTo(n)[Max(s)])]
           iter == CHOOSE q : q = Ran(q)
<1>1. \A q : Ran(q) = [s \in Sets |-> FlushStep(n, q, s, base)] BY DEF FlushStep
<1>2. \E q : q = Ran(q)
  <2>1. FlushRuns(n, n, base) BY FlushRunsAlways
  <2>2. PICK q : q = [s \in Sets |-> FlushStep(n, q, s, base)] BY <2>1 DEF FlushRuns
  <2>3. q = Ran(q) BY <1>1, <2>2
  <2> QED BY <2>3
<1>3. iter = Ran(iter) BY <1>2, Zenon
<1>4. Flushed(base, n) = iter[1..n]
  <2> DEFINE ids == [i \in 1..n |-> i]
  <2>1. ids = UpTo(n) /\ DOMAIN ids = 1..n BY DEF UpTo
  <2>2. Flushed(base, n)
          = (CHOOSE q : q = [s \in SUBSET (DOMAIN ids) |->
                              IF s = {} THEN base
                              ELSE FlushOne(q[s \ {Max(s)}], ids[Max(s)])])[DOMAIN ids]
      BY Zenon DEF Flushed, FoldLeft, MapThenFoldSet
  <2> HIDE DEF ids
  <2> QED BY <2>1, <2>2, Zenon
<1>5. iter = [s \in Sets |-> FlushStep(n, iter, s, base)] BY <1>1, <1>3
<1> HIDE DEF iter
<1> DEFINE f == [i \in 0..n |-> iter[1..i]]
<1>6. f[0] = base
  <2>1. 0 \in 0..n /\ 1..0 = {} /\ 1..0 \in SUBSET (1..n) OBVIOUS
  <2>2. f[0] = iter[1..0] BY <2>1
  <2>3. iter[1..0] = FlushStep(n, iter, 1..0, base) BY <1>5, <2>1
  <2> QED BY <2>1, <2>2, <2>3 DEF FlushStep
<1>7. ASSUME NEW i \in 1..n PROVE f[i] = FlushOne(f[i - 1], i)
  <2>1. /\ i \in Nat /\ i \in 0..n /\ i - 1 \in 0..n
        /\ 1..i \in SUBSET (1..n) /\ 1..i \in SUBSET (1..i) /\ i \in 1..i
      OBVIOUS
  <2>2. Max(1..i) = i BY <2>1, MaxOfRange
  <2>3. (1..i) \ {i} = 1..(i - 1) BY <2>1
  <2>4. iter[1..i] = FlushStep(n, iter, 1..i, base) BY <1>5, <2>1
  <2>5. UpTo(n)[i] = i BY DEF UpTo
  <2>6. iter[1..i] = FlushOne(iter[1..(i - 1)], i) BY <2>1, <2>2, <2>3, <2>4, <2>5 DEF FlushStep
  <2> QED BY <2>1, <2>6
<1>8. f[n] = iter[1..n] OBVIOUS
<1> HIDE DEF f
<1> QED BY <1>4, <1>6, <1>7, <1>8, Zenon

\* The oldest chunk gives n of its bytes.
Rest(b, n)    == SubSeq(Head(b), n + 1, Len(Head(b)))
Without(b, n) == IF Rest(b, n) = <<>> THEN Tail(b) ELSE <<Rest(b, n)>> \o Tail(b)

LEMMA ChunkTaken ==
  ASSUME NEW b \in Seq(Seq(Nat)), b # <<>>, NEW m \in Nat, NEW t \in Nat, Chunks(b, Len(b), m, t),
         NEW n \in Nat, n > 0, n <= Len(Head(b))
  PROVE  /\ SubSeq(Head(b), 1, n) = Run(m, m + n)
         /\ m + n <= t
         /\ Without(b, n) \in Seq(Seq(Nat))
         /\ Chunks(Without(b, n), Len(Without(b, n)), m + n, t)
<1> DEFINE rest == Rest(b, n)
           c == Without(b, n)
<1>0. /\ rest = SubSeq(Head(b), n + 1, Len(Head(b)))
      /\ c = IF rest = <<>> THEN Tail(b) ELSE <<rest>> \o Tail(b)
    BY DEF Rest, Without
<1> HIDE DEF rest, c
<1>1. Len(b) \in Nat /\ Len(b) > 0 /\ Head(b) = b[1] OBVIOUS
<1>2. /\ Tail(b) \in Seq(Seq(Nat)) /\ Len(Tail(b)) = Len(b) - 1
      /\ \A i \in 1..(Len(b) - 1) : Tail(b)[i] = b[i + 1]
    BY <1>1
<1>3. Carries(b, Len(b), m, t) /\ \A i \in 1..Len(b) : b[i] # <<>> BY DEF Chunks
<1>4. PICK d \in Nat : /\ m <= d /\ d <= t /\ b[1] = Run(m, d)
                       /\ Carries(Tail(b), Len(b) - 1, d, t)
    BY <1>1, <1>2, <1>3, CarriesTail
<1>5. Len(b[1]) = d - m BY <1>4, RunFacts
<1>6. m + n <= d BY <1>1, <1>4, <1>5
<1>7. SubSeq(Head(b), 1, n) = Run(m, m + n) /\ rest = Run(m + n, d)
  <2>1. /\ SubSeq(Run(m, d), 1, n) = Run(m, m + n)
        /\ SubSeq(Run(m, d), n + 1, Len(Run(m, d))) = Run(m + n, d)
      BY <1>6, RunCut, ZenonT(60)
  <2>2. Head(b) = Run(m, d) BY <1>1, <1>4
  <2> QED BY <1>0, <2>1, <2>2
<1>8. m + n \in Nat /\ m + n <= t BY <1>4, <1>6
<1>9. \A i \in 1..(Len(b) - 1) : Tail(b)[i] # <<>> BY <1>1, <1>2, <1>3
<1>10. rest = <<>> <=> m + n = d BY <1>6, <1>7, <1>8, EmptyRun
<1>11. ASSUME rest = <<>>
       PROVE  /\ SubSeq(Head(b), 1, n) = Run(m, m + n)
              /\ m + n <= t /\ c \in Seq(Seq(Nat)) /\ Chunks(c, Len(c), m + n, t)
  <2>1. c = Tail(b) /\ m + n = d BY <1>0, <1>10, <1>11
  <2> QED BY <1>2, <1>4, <1>7, <1>8, <1>9, <2>1 DEF Chunks
<1>12. ASSUME rest # <<>>
       PROVE  /\ SubSeq(Head(b), 1, n) = Run(m, m + n)
              /\ m + n <= t /\ c \in Seq(Seq(Nat)) /\ Chunks(c, Len(c), m + n, t)
  <2>1. c = <<rest>> \o Tail(b) BY <1>0, <1>12
  <2>2. rest \in Seq(Nat) BY <1>6, <1>7, <1>8, RunFacts
  <2>3. <<rest>> \in Seq(Seq(Nat)) BY <2>2
  <2>4. IsSeq(<<rest>>) /\ Len(<<rest>>) = 1 /\ <<rest>>[1] = rest /\ IsSeq(Tail(b))
    <3>1. IsSeq(Tail(b)) BY <1>2 DEF IsSeq
    <3> QED BY <3>1, OneIsSeq
  <2>5. c \in Seq(Seq(Nat))
    <3> DEFINE X == Seq(Nat)
               u == <<rest>>
               v == Tail(b)
    <3>1. u \in Seq(X) /\ v \in Seq(X) BY <1>2, <2>3
    <3> HIDE DEF X, u, v
    <3>2. u \o v \in Seq(X) BY <3>1, Joined
    <3> QED BY <2>1, <3>2 DEF X, u, v
  <2>6. Behind(c, <<rest>>, Tail(b)) BY <2>1, <2>4, Extended
  <2>7. Len(c) = 1 + Len(Tail(b)) /\ Follows(c, <<rest>>, 1, Tail(b), Len(Tail(b)))
      BY <2>4, <2>6 DEF Behind, Follows
  <2>8. Carries(<<rest>>, 1, m + n, d) BY <1>6, <1>7, <1>8, <2>4, CarriesOne
  <2>9. Carries(Tail(b), Len(Tail(b)), d, t) /\ Len(Tail(b)) \in Nat BY <1>1, <1>2, <1>4
  <2>10. 1 \in Nat OBVIOUS
  <2>11. Carries(c, Len(c), m + n, t) BY <2>7, <2>8, <2>9, <2>10, CarriesJoin, Zenon
  <2>12. ASSUME NEW i \in 1..Len(c) PROVE c[i] # <<>>
    <3>1. CASE i = 1 BY <1>12, <2>4, <2>7, <3>1 DEF Follows
    <3>2. CASE i # 1
      <4>1. i - 1 \in 1..Len(Tail(b)) /\ 1 + (i - 1) = i BY <2>7, <2>9, <3>2
      <4>2. c[1 + (i - 1)] = Tail(b)[i - 1] BY <2>7, <4>1 DEF Follows
      <4> QED BY <1>2, <1>9, <4>1, <4>2
    <3> QED BY <3>1, <3>2
  <2> QED BY <1>7, <1>8, <2>5, <2>11, <2>12 DEF Chunks
<1>13. /\ SubSeq(Head(b), 1, n) = Run(m, m + n)
       /\ m + n <= t /\ c \in Seq(Seq(Nat)) /\ Chunks(c, Len(c), m + n, t)
    BY <1>11, <1>12
<1> QED BY <1>13 DEF c

\* After some turns for stream s, whose state was st: what was sent, from byte k on, and
\* what is left of the t bytes.
FlushesTo(acc, s, st, k, t) ==
    /\ acc.stream = s /\ IsStream(acc.st) /\ IsSeq(acc.frames)
    /\ acc.st.pending_open = "SYN" => st.pending_open = "SYN" /\ Len(acc.frames) = 0
    /\ \A i \in 1..Len(acc.frames) :
        /\ IsFrame(acc.frames[i]) /\ acc.frames[i].stream = s
        /\ "SYN" \in acc.frames[i].flags => i = 1 /\ st.pending_open = "SYN"
    /\ \E m \in Nat : /\ Carries(WireParts(acc.frames, s), Len(acc.frames), k, m) /\ m <= t
                      /\ Holds(acc.st, m, t)

\* A turn leaves things as they are, or sends something.
LEMMA FlushTurn ==
  ASSUME NEW acc, NEW s \in Ids, NEW st, NEW k \in Nat, NEW t \in Nat, NEW x,
         FlushesTo(acc, s, st, k, t)
  PROVE  /\ FlushesTo(FlushOne(acc, x), s, st, k, t)
         /\ IF acc.st.send_window = 0 \/ acc.st.send_buffer = <<>> THEN FlushOne(acc, x) = acc
            ELSE FlushOne(acc, x).st.buffered_send < acc.st.buffered_send
<1> DEFINE cur  == acc.st
           head == Head(cur.send_buffer)
           n    == Smaller(Smaller(Len(head), cur.send_window), MaxFrameLen)
           rest == SubSeq(head, n + 1, Len(head))
           buf  == IF rest = <<>> THEN Tail(cur.send_buffer) ELSE <<rest>> \o Tail(cur.send_buffer)
           f    == DataFrame(acc.stream, OpenFlag(cur), SubSeq(head, 1, n))
           taken == OpenFlagTaken(cur)
           next == [taken EXCEPT !.send_window = @ - n, !.buffered_send = @ - n, !.send_buffer = buf]
           new  == [st |-> next, frames |-> Append(acc.frames, f), stream |-> acc.stream]
<1>1. CASE cur.send_window = 0 \/ cur.send_buffer = <<>>
  <2>1. FlushOne(acc, x) = acc BY <1>1 DEF FlushOne
  <2> QED BY <1>1, <2>1
<1>2. CASE ~(cur.send_window = 0 \/ cur.send_buffer = <<>>)
  <2>1. /\ IsStream(taken) /\ taken.send_buffer = cur.send_buffer /\ taken.buffered_send = cur.buffered_send
        /\ taken.send_window = cur.send_window /\ taken.pending_open # "SYN"
        /\ "SYN" \in OpenFlag(cur) => cur.pending_open = "SYN"
      BY TakenFacts DEF FlushesTo
  <2>2. FlushOne(acc, x) = new
    <3>1. FlushOne(acc, x)
            = [st     |-> [OpenFlagTaken(cur) EXCEPT
                            !.send_window = @ - n,
                            !.buffered_send = @ - n,
                            !.send_buffer = IF rest = <<>> THEN Tail(@) ELSE <<rest>> \o Tail(@)],
               frames |-> Append(acc.frames, f),
               stream |-> acc.stream]
        BY <1>2 DEF FlushOne
    <3> QED BY <2>1, <3>1
  <2>3. PICK m \in Nat : /\ Carries(WireParts(acc.frames, s), Len(acc.frames), k, m) /\ m <= t
                         /\ Holds(cur, m, t)
      BY DEF FlushesTo
  <2>4. /\ cur.send_buffer \in Seq(Seq(Nat)) /\ cur.send_buffer # <<>>
        /\ cur.send_window \in Nat /\ cur.send_window # 0 /\ cur.buffered_send \in Nat
      BY <1>2 DEF FlushesTo, IsStream, StreamState
  <2>5. Len(head) \in Nat /\ Len(head) > 0
    <3>1. cur.send_buffer[1] \in Seq(Nat) /\ head = cur.send_buffer[1] /\ 1 \in 1..Len(cur.send_buffer)
        BY <2>4, SMTT(60)
    <3>2. head # <<>> BY <2>3, <3>1 DEF Holds, Chunks
    <3> QED BY <3>1, <3>2
  <2>6. n \in Nat /\ n > 0 /\ n <= Len(head) /\ n <= cur.send_window
    <3> DEFINE l == Len(head)
               w == cur.send_window
    <3>1. l \in Nat /\ l > 0 /\ w \in Nat /\ w > 0 BY <2>4, <2>5
    <3>2. MaxFrameLen \in Nat /\ MaxFrameLen > 0 BY YamuxAssumption
    <3> HIDE DEF l, w
    <3>3. \A v : v = Smaller(Smaller(l, w), MaxFrameLen) => v \in Nat /\ v > 0 /\ v <= l /\ v <= w
        BY <3>1, <3>2 DEF Smaller
    <3>4. n = Smaller(Smaller(l, w), MaxFrameLen) BY DEF l, w
    <3> QED BY <3>3, <3>4 DEF l, w
  <2> HIDE DEF n
  <2>7. /\ SubSeq(head, 1, n) = Run(m, m + n) /\ m + n <= t
        /\ buf \in Seq(Seq(Nat)) /\ Chunks(buf, Len(buf), m + n, t)
    <3>1. Chunks(cur.send_buffer, Len(cur.send_buffer), m, t) BY <2>3 DEF Holds
    <3> DEFINE b == cur.send_buffer
    <3>2. /\ b \in Seq(Seq(Nat)) /\ b # <<>> /\ Chunks(b, Len(b), m, t)
          /\ n \in Nat /\ n > 0 /\ n <= Len(Head(b))
        BY <2>4, <2>6, <3>1
    <3>3. head = Head(b) /\ buf = Without(b, n) BY DEF Rest, Without
    <3> HIDE DEF buf, b, head
    <3>4. /\ SubSeq(Head(b), 1, n) = Run(m, m + n) /\ m + n <= t
          /\ Without(b, n) \in Seq(Seq(Nat))
          /\ Chunks(Without(b, n), Len(Without(b, n)), m + n, t)
        BY <3>2, ChunkTaken
    <3> QED BY <3>3, <3>4
  <2> HIDE DEF buf
  <2>8. cur.buffered_send = t - m BY <2>3 DEF Holds
  <2>9. cur.buffered_send - n \in Nat /\ cur.send_window - n \in Nat BY <2>4, <2>6, <2>7, <2>8, SMTT(60)
  <2>10. /\ IsStream(next) /\ next.send_buffer = buf /\ next.buffered_send = cur.buffered_send - n
         /\ next.pending_open # "SYN"
    <3> HIDE DEF taken
    <3> QED BY <2>1, <2>7, <2>9 DEF IsStream, StreamState
  <2> HIDE DEF next
  <2>11. Holds(next, m + n, t) BY <2>6, <2>7, <2>8, <2>10 DEF Holds
  <2>12. m + n \in Nat /\ Len(acc.frames) \in Nat BY <2>6 DEF FlushesTo, IsSeq
  <2>13. /\ IsFrame(f) /\ f.stream = s /\ f.payload = Run(m, m + n)
         /\ "SYN" \in f.flags => cur.pending_open = "SYN"
    <3>1. Run(m, m + n) \in Seq(Nat) /\ Len(Run(m, m + n)) \in Nat BY <2>6, <2>12, RunFacts
    <3> QED BY <2>1, <2>7, <3>1 DEF DataFrame, IsFrame, FlushesTo
  <2> HIDE DEF f, taken, head, rest
  <2> DEFINE fr == Append(acc.frames, f)
  <2>14. /\ IsSeq(fr) /\ Len(fr) = Len(acc.frames) + 1 /\ fr[Len(acc.frames) + 1] = f
         /\ \A i \in 1..Len(acc.frames) : fr[i] = acc.frames[i]
    <3>1. PICK X : acc.frames \in Seq(X) BY DEF FlushesTo, IsSeq
    <3> DEFINE Z == X \cup {f}
    <3>2. acc.frames \in Seq(Z) /\ f \in Z BY <3>1
    <3> HIDE DEF Z
    <3>3. fr \in Seq(Z) BY <3>2
    <3> QED BY <3>2, <3>3 DEF IsSeq
  <2>15. new.st = next /\ new.frames = fr /\ new.stream = acc.stream OBVIOUS
  <2> HIDE DEF new, fr
  <2>16. Carries(WireParts(fr, s), Len(fr), k, m + n)
    <3>1. \A i \in 1..Len(acc.frames) : WireParts(fr, s)[i] = WireParts(acc.frames, s)[i]
        BY <2>12, <2>14 DEF WireParts
    <3>2. WireParts(fr, s)[Len(acc.frames) + 1] = Run(m, m + n)
        BY <2>12, <2>13, <2>14 DEF WireParts, FramePart
    <3>3. m <= m + n BY <2>6
    <3>4. Carries(WireParts(fr, s), Len(acc.frames) + 1, k, m + n)
        BY <2>3, <2>12, <3>1, <3>2, <3>3, CarriesMore
    <3> QED BY <2>14, <3>4
  <2>17. ASSUME NEW i \in 1..Len(fr)
         PROVE  /\ IsFrame(fr[i]) /\ fr[i].stream = s
                /\ "SYN" \in fr[i].flags => i = 1 /\ st.pending_open = "SYN"
    <3>1. CASE i \in 1..Len(acc.frames) BY <2>14, <3>1 DEF FlushesTo
    <3>2. CASE i = Len(acc.frames) + 1
      <4>1. cur.pending_open = "SYN" => st.pending_open = "SYN" /\ Len(acc.frames) = 0 BY DEF FlushesTo
      <4> QED BY <2>13, <2>14, <3>2, <4>1
    <3> QED BY <2>12, <2>14, <3>1, <3>2
  <2>18. FlushesTo(new, s, st, k, t)
    <3>1. acc.stream = s BY DEF FlushesTo
    <3> QED BY <2>7, <2>10, <2>11, <2>12, <2>14, <2>15, <2>16, <2>17, <3>1 DEF FlushesTo
  <2>19. new.st.buffered_send < cur.buffered_send BY <2>4, <2>6, <2>10, <2>15
  <2> QED BY <1>2, <2>2, <2>18, <2>19
<1> QED BY <1>1, <1>2

Unflushed(st, s) == [st |-> st, frames |-> <<>>, stream |-> s]

\* All turns: nothing is left that the window has room for.
LEMMA FlushEnds ==
  ASSUME NEW st, IsStream(st), NEW s \in Ids, NEW k \in Nat, NEW t \in Nat, Holds(st, k, t)
  PROVE  LET done == Flushed(Unflushed(st, s), st.buffered_send)
         IN  /\ FlushesTo(done, s, st, k, t)
             /\ done.st.send_window = 0 \/ done.st.send_buffer = <<>>
<1> DEFINE n == st.buffered_send
           base == Unflushed(st, s)
           done == Flushed(base, n)
<1>1. n \in Nat BY DEF IsStream, StreamState
<1>2. PICK f : /\ f[0] = base /\ f[n] = done
               /\ \A i \in 1..n : f[i] = FlushOne(f[i - 1], i)
    BY <1>1, FlushChain
<1> DEFINE Stopped(a) == a.st.send_window = 0 \/ a.st.send_buffer = <<>>
           After(x) == /\ FlushesTo(f[x], s, st, k, t)
                       /\ Stopped(f[x]) \/ f[x].st.buffered_send <= n - x
           S == {x \in Nat : x <= n => After(x)}
<1>3. 0 \in S
  <2>1. base.st = st /\ base.frames = <<>> /\ base.stream = s BY DEF Unflushed
  <2> HIDE DEF base
  <2>2. Len(<<>>) = 0 /\ IsSeq(<<>>)
    <3>1. <<>> \in Seq({}) OBVIOUS
    <3> QED BY <3>1 DEF IsSeq
  <2> DEFINE q == WireParts(<<>>, s)
             m == Len(<<>>)
  <2>31. m = 0 /\ m \in Nat BY <2>2
  <2> HIDE DEF q, m
  <2>32. \A i \in 1..m : q[i] = <<>>
    <3>1. 1..m = {} BY <2>31
    <3> QED BY <3>1
  <2>33. Carries(q, m, k, k) BY <2>31, <2>32, CarriesNothing
  <2>3. Carries(WireParts(<<>>, s), Len(<<>>), k, k) BY <2>33 DEF q, m
  <2>4. k <= t BY HoldsBounds
  <2>5. FlushesTo(base, s, st, k, t) BY <2>1, <2>2, <2>3, <2>4 DEF FlushesTo
  <2>6. n <= n - 0 BY <1>1
  <2> QED BY <1>2, <2>1, <2>5, <2>6
<1>4. ASSUME NEW x \in S PROVE x + 1 \in S
  <2>1. SUFFICES ASSUME x + 1 <= n PROVE After(x + 1) OBVIOUS
  <2>2. x \in Nat /\ x + 1 \in 1..n /\ (x + 1) - 1 = x /\ x <= n BY <1>1, <2>1
  <2>3. After(x) BY <2>2
  <2>4. f[x + 1] = FlushOne(f[x], x + 1) BY <1>2, <2>2
  <2>5. /\ FlushesTo(f[x + 1], s, st, k, t)
        /\ IF Stopped(f[x]) THEN f[x + 1] = f[x] ELSE f[x + 1].st.buffered_send < f[x].st.buffered_send
      BY <2>3, <2>4, FlushTurn, ZenonT(60)
  <2>6. f[x].st.buffered_send \in Nat /\ f[x + 1].st.buffered_send \in Nat
      BY <2>3, <2>5 DEF FlushesTo, IsStream, StreamState
  <2>7. CASE Stopped(f[x]) BY <2>5, <2>7
  <2>8. CASE ~Stopped(f[x])
    <3>1. f[x].st.buffered_send <= n - x BY <2>3, <2>8
    <3>2. f[x + 1].st.buffered_send < f[x].st.buffered_send BY <2>5, <2>8
    <3>3. f[x + 1].st.buffered_send <= n - (x + 1) BY <1>1, <2>2, <2>6, <3>1, <3>2
    <3> QED BY <2>5, <3>3
  <2> QED BY <2>7, <2>8
<1> HIDE DEF After
<1>5. S \in SUBSET Nat /\ \A x \in S : x + 1 \in S BY <1>4
<1> HIDE DEF S
<1>6. S = Nat BY <1>3, <1>5, Induction
<1>7. After(n) BY <1>1, <1>6 DEF S
<1>8. FlushesTo(done, s, st, k, t) BY <1>2, <1>7 DEF After
<1>9. Stopped(done)
  <2>1. SUFFICES ASSUME ~Stopped(done) PROVE FALSE OBVIOUS
  <2>2. done.st.buffered_send <= n - n BY <1>2, <1>7, <2>1 DEF After
  <2> HIDE DEF done
  <2>3. IsStream(done.st) BY <1>8 DEF FlushesTo
  <2>4. done.st.buffered_send = 0 BY <1>1, <2>2, <2>3 DEF IsStream, StreamState
  <2>5. PICK m \in Nat : Holds(done.st, m, t) BY <1>8 DEF FlushesTo
  <2>6. m = t BY <2>4, <2>5 DEF Holds
  <2>7. done.st.send_buffer \in Seq(Seq(Nat)) BY <2>3 DEF IsStream, StreamState
  <2>8. Len(done.st.send_buffer) \in Nat BY <2>7
  <2>9. Len(done.st.send_buffer) = 0 BY <2>5, <2>6, <2>8, ChunksEmpty DEF Holds
  <2>10. done.st.send_buffer = <<>> BY <2>7, <2>9
  <2> QED BY <2>1, <2>10
<1> QED BY <1>8, <1>9

LEMMA FlushBufferedKeeps ==
  ASSUME NEW y, Typed(y), NEW s \in Ids, y.streams[s] # None,
         NEW k0 \in Nat, NEW t0 \in Nat, Holds(y.streams[s], k0, t0)
  PROVE  /\ Keeps(y, FlushBuffered(y, s))
         /\ Settled(FlushBuffered(y, s), s)
         /\ \A x \in Ids : x # s /\ Settled(y, x) => Settled(FlushBuffered(y, s), x)
<1> DEFINE st   == y.streams[s]
           done == Flushed(Unflushed(st, s), st.buffered_send)
           ends == done.st.send_buffer = <<>> /\ done.st.close_pending
           taken == OpenFlagTaken(done.st)
           shut == [taken EXCEPT !.close_pending = FALSE, !.local_write_closed = TRUE]
           st1  == IF ends THEN shut ELSE done.st
           end  == DataFrame(s, OpenFlag(done.st) \cup {"FIN"}, <<>>)
           fin  == IF ends THEN <<end>> ELSE <<>>
           all  == done.frames \o fin
           y0   == [SetStream(y, s, st1) EXCEPT
                        !.total_buffered_send = @ - (st.buffered_send - st1.buffered_send)]
           y1   == QueueFrames(y0, all)
<1>1. IsStream(st) BY DEF Typed
<1>2. FlushBuffered(y, s) = IF ends /\ st.remote_write_closed THEN RemoveStream(y1, s, TRUE) ELSE y1
    BY DEF FlushBuffered, Flushed, Unflushed
<1>3. \A k, t \in Nat : Holds(st, k, t) => FlushesTo(done, s, st, k, t) BY <1>1, FlushEnds
<1>4. done.st.send_window = 0 \/ done.st.send_buffer = <<>> BY <1>1, FlushEnds
<1>5. FlushesTo(done, s, st, k0, t0) BY <1>3
<1> HIDE DEF done
<1>6. /\ IsStream(done.st) /\ IsSeq(done.frames)
      /\ done.st.pending_open = "SYN" => st.pending_open = "SYN" /\ Len(done.frames) = 0
      /\ \A i \in 1..Len(done.frames) :
            /\ IsFrame(done.frames[i]) /\ done.frames[i].stream = s
            /\ "SYN" \in done.frames[i].flags => i = 1 /\ st.pending_open = "SYN"
    BY <1>5 DEF FlushesTo
<1>7. /\ IsStream(taken) /\ taken.send_buffer = done.st.send_buffer
      /\ taken.buffered_send = done.st.buffered_send /\ taken.send_window = done.st.send_window
      /\ taken.pending_open # "SYN"
      /\ "SYN" \in OpenFlag(done.st) => done.st.pending_open = "SYN"
    BY <1>6, TakenFacts
<1> HIDE DEF taken
<1>8. /\ IsStream(shut) /\ shut.send_buffer = done.st.send_buffer
      /\ shut.buffered_send = done.st.buffered_send /\ shut.send_window = done.st.send_window
      /\ shut.pending_open # "SYN"
    BY <1>7 DEF IsStream, StreamState
<1> HIDE DEF shut
<1>9. /\ IsStream(st1) /\ st1.send_buffer = done.st.send_buffer
      /\ st1.buffered_send = done.st.buffered_send /\ st1.send_window = done.st.send_window
      /\ st1.pending_open = "SYN" => st.pending_open = "SYN" /\ Len(done.frames) = 0 /\ ~ends
    BY <1>6, <1>8
<1>10. /\ IsFrame(end) /\ end.stream = s /\ end.payload = <<>>
       /\ "SYN" \in end.flags => done.st.pending_open = "SYN"
  <2>1. <<>> \in Seq(Nat) /\ Len(<<>>) = 0 OBVIOUS
  <2> QED BY <1>7, <2>1 DEF DataFrame, IsFrame
<1> HIDE DEF st1, end
<1>11. /\ IsSeq(fin) /\ Len(fin) = (IF ends THEN 1 ELSE 0) /\ Len(fin) \in Nat
       /\ \A i \in 1..Len(fin) : i = 1 /\ fin[i] = end
  <2>1. IsSeq(<<end>>) /\ Len(<<end>>) = 1 /\ <<end>>[1] = end BY OneIsSeq
  <2>2. IsSeq(<<>>) /\ Len(<<>>) = 0 BY NothingAdded
  <2>3. \A i \in 1..1 : i = 1 OBVIOUS
  <2> QED BY <2>1, <2>2, <2>3
<1> HIDE DEF ends, fin
<1>12. Behind(all, done.frames, fin) BY <1>6, <1>11, Extended
<1>13. IsSeq(all) /\ Len(done.frames) \in Nat /\ Len(all) = Len(done.frames) + Len(fin)
    BY <1>12 DEF Behind
<1>14. ASSUME NEW i \in 1..Len(all)
       PROVE  /\ IsFrame(all[i]) /\ all[i].stream = s
              /\ "SYN" \in all[i].flags => i = 1 /\ st.pending_open = "SYN"
  <2>1. CASE i \in 1..Len(done.frames) BY <1>6, <1>12, <2>1 DEF Behind
  <2>2. CASE \E x \in 1..Len(fin) : i = Len(done.frames) + x
    <3>1. PICK x \in 1..Len(fin) : i = Len(done.frames) + x BY <2>2
    <3>2. all[i] = end /\ x = 1 BY <1>11, <1>12, <3>1 DEF Behind
    <3> QED BY <1>6, <1>10, <3>1, <3>2
  <2> QED BY <1>12, <1>13, <2>1, <2>2 DEF Behind
<1> HIDE DEF all
<1>15. /\ DOMAIN y0 = DOMAIN y /\ y0.role = y.role /\ y0.next_stream_id = y.next_stream_id
       /\ y0.pending = y.pending /\ y0.streams = [y.streams EXCEPT ![s] = st1]
    BY DEF SetStream, Typed
<1> HIDE DEF y0
<1>16. Typed(y0) BY <1>9, <1>15 DEF Typed
<1>17. PICK ext : /\ Outputs(y0, y1, ext)
                  /\ Len(ext) = Len(all) /\ Len(ext) \in Nat
                  /\ \A i \in 1..Len(ext) : ext[i].output = "Outbound" /\ ext[i].frame = all[i]
    BY <1>13, <1>16, QueueFramesIs
<1> HIDE DEF y1
<1>18. FramesOf(ext, s, st) BY <1>14, <1>17 DEF FramesOf
<1>19. TakesFrom(ext, s, st, st1)
  <2> SUFFICES ASSUME NEW k \in Nat, NEW t \in Nat, Holds(st, k, t)
               PROVE  \E m \in Nat : Carries(OutParts(ext, s), Len(ext), k, m) /\ m <= t /\ Holds(st1, m, t)
      BY DEF TakesFrom
  <2>1. PICK m \in Nat : /\ Carries(WireParts(done.frames, s), Len(done.frames), k, m) /\ m <= t
                         /\ Holds(done.st, m, t)
      BY <1>3 DEF FlushesTo
  <2>2. Holds(st1, m, t) BY <1>9, <2>1 DEF Holds
  <2>3. \A i \in 1..Len(fin) : WireParts(fin, s)[i] = <<>> BY <1>10, <1>11 DEF WireParts, FramePart
  <2>4. Carries(WireParts(fin, s), Len(fin), m, m) BY <1>11, <2>3, CarriesNothing
  <2> DEFINE u == OutParts(ext, s)
             q == WireParts(done.frames, s)
             r == WireParts(fin, s)
  <2>5. \A i \in 1..Len(all) : u[i] = FramePart(all[i], s) BY <1>17 DEF OutParts, OutPart
  <2>6. Follows(u, q, Len(done.frames), r, Len(fin))
    <3> HIDE DEF u
    <3>1. ASSUME NEW i \in 1..Len(done.frames) PROVE u[i] = q[i]
      <4>2. i \in 1..Len(all)
        <5> DEFINE a == Len(done.frames)
                   b == Len(fin)
        <5>1. a \in Nat /\ b \in Nat /\ i \in 1..a /\ Len(all) = a + b BY <1>11, <1>13
        <5> HIDE DEF a, b
        <5>2. i \in 1..(a + b) BY <5>1
        <5> QED BY <5>1, <5>2
      <4>3. all[i] = done.frames[i] BY <1>12 DEF Behind
      <4>1. i \in 1..Len(all) /\ all[i] = done.frames[i] BY <4>2, <4>3
      <4> QED BY <2>5, <4>1 DEF WireParts
    <3>2. ASSUME NEW i \in 1..Len(fin) PROVE u[Len(done.frames) + i] = r[i]
      <4>2. Len(done.frames) + i \in 1..Len(all)
        <5> DEFINE a == Len(done.frames)
                   b == Len(fin)
        <5>1. a \in Nat /\ b \in Nat /\ i \in 1..b /\ Len(all) = a + b BY <1>11, <1>13
        <5> HIDE DEF a, b
        <5>2. a + i \in 1..(a + b) BY <5>1
        <5> QED BY <5>1, <5>2 DEF a
      <4>3. all[Len(done.frames) + i] = fin[i] BY <1>12 DEF Behind
      <4>1. Len(done.frames) + i \in 1..Len(all) /\ all[Len(done.frames) + i] = fin[i] BY <4>2, <4>3
      <4> QED BY <2>5, <4>1 DEF WireParts
    <3> QED BY <3>1, <3>2 DEF Follows
  <2>7. Len(ext) = Len(done.frames) + Len(fin) BY <1>13, <1>17
  <2> HIDE DEF u, q, r
  <2>8. Carries(q, Len(done.frames), k, m) /\ Carries(r, Len(fin), m, m) BY <2>1, <2>4 DEF q, r
  <2>9. Carries(u, Len(ext), k, m) BY <1>11, <1>13, <2>6, <2>7, <2>8, CarriesJoin, Zenon
  <2> QED BY <2>1, <2>2, <2>9 DEF u
<1>20. st1.pending_open = "SYN" => st.pending_open = "SYN" /\ Len(ext) = 0
    BY <1>9, <1>11, <1>13, <1>17
<1>21. /\ DOMAIN y1 = DOMAIN y /\ y1.role = y.role /\ y1.next_stream_id = y.next_stream_id
       /\ y1.pending = y.pending \o ext /\ y1.streams = [y.streams EXCEPT ![s] = st1] /\ IsSeq(ext)
    BY <1>15, <1>17 DEF Outputs
<1>22. Keeps(y, y1) BY <1>9, <1>18, <1>19, <1>20, <1>21, FramesKeep
<1>23. y1.streams[s] = st1 /\ \A x \in Ids : x # s => y1.streams[x] = y.streams[x] BY <1>21 DEF Typed
<1>24. Settled(y1, s) BY <1>4, <1>9, <1>23 DEF Settled
<1>25. \A x \in Ids : x # s /\ Settled(y, x) => Settled(y1, x) BY <1>23 DEF Settled
<1>26. Typed(y1) BY <1>22, KeepsTyped
<1> DEFINE z == RemoveStream(y1, s, TRUE)
<1>27. Keeps(y1, z) /\ Calm(y1, z) BY <1>26, RemoveStreamKeeps
<1>28. Keeps(y, z) BY <1>22, <1>27, KeepsMore
<1>29. Settled(z, s) /\ \A x \in Ids : x # s /\ Settled(y, x) => Settled(z, x) BY <1>24, <1>25, <1>27 DEF Calm
<1> HIDE DEF z
<1>30. FlushBuffered(y, s) \in {y1, z} BY <1>2 DEF z
<1> QED BY <1>22, <1>24, <1>25, <1>28, <1>29, <1>30

\* The window grows, or an acknowledgement is noted.
LEMMA CreditedKeeps ==
  ASSUME NEW y, Typed(y), NEW f, NEW s \in Ids, f.stream = s, y.streams[s] # None,
         NEW k \in Nat, NEW t \in Nat, Holds(y.streams[s], k, t)
  PROVE  /\ Keeps(y, Credited(y, f))
         /\ Settled(Credited(y, f), s)
         /\ \A x \in Ids : x # s /\ Settled(y, x) => Settled(Credited(y, f), x)
<1> DEFINE st == y.streams[s]
           su == Acknowledge(st, f)
           y0 == SetStream(y, s, su)
           y1 == FlushBuffered(y0, s)
           z  == Finish(y1, s, f)
<1>1. Credited(y, f) = IF y1.streams[s] = None THEN y1 ELSE z BY DEF Credited
<1>2. IsStream(st) BY DEF Typed
<1>3. SameSender(st, su) /\ su.send_window = st.send_window BY <1>2, AcknowledgeSame
<1> HIDE DEF su
<1>4. Keeps(y, y0) /\ Calm(y, y0) /\ y0.streams[s] = su BY <1>3, SetStreamKeeps
<1> HIDE DEF y0
<1>5. Typed(y0) /\ y0.streams[s] # None BY <1>3, <1>4, KeepsTyped, YamuxAssumption DEF SameSender, IsStream
<1>6. Holds(y0.streams[s], k, t) BY <1>3, <1>4 DEF Holds, SameSender
<1>7. /\ Keeps(y0, y1) /\ Settled(y1, s)
      /\ \A x \in Ids : x # s /\ Settled(y0, x) => Settled(y1, x)
    BY <1>5, <1>6, FlushBufferedKeeps
<1> HIDE DEF y1
<1>8. Keeps(y, y1) /\ Typed(y1) BY <1>4, <1>7, KeepsMore, KeepsTyped
<1>9. \A x \in Ids : x # s /\ Settled(y, x) => Settled(y1, x) BY <1>4, <1>7 DEF Calm
<1>10. CASE y1.streams[s] = None BY <1>1, <1>7, <1>8, <1>9, <1>10
<1>11. CASE y1.streams[s] # None
  <2>1. Keeps(y1, z) /\ Calm(y1, z) BY <1>8, <1>11, FinishKeeps
  <2>2. Keeps(y, z) BY <1>8, <2>1, KeepsMore
  <2> QED BY <1>1, <1>7, <1>9, <1>11, <2>1, <2>2 DEF Calm
<1> QED BY <1>10, <1>11

\* Only stream s0 is concerned: the bytes written on it grow from a to b, and p is heard of it.
Alters(y, z, s0, a, b, p) ==
    /\ Typed(z) /\ z.role = y.role /\ z.next_stream_id = y.next_stream_id
    /\ \A s \in Ids : s # s0 => MovesOn(y, z, s, <<>>)
    /\ \A j : Sends(y, s0, j, a) => Sends(z, s0, j, b)
    /\ \A g, h : \A d \in Nat :
        Hears(y, s0, g, h) /\ h <= d /\ p = Run(h, d) =>
            \E c \in Nat : Hears(z, s0, g, c) /\ c <= d /\ (z.streams[s0] # None => c = d)

LEMMA FreshHolds ==
  ASSUME NEW w \in Nat
  PROVE  /\ IsStream(NewStream(FALSE, w)) /\ Holds(NewStream(FALSE, w), 0, 0)
         /\ IsStream(NewStream(TRUE, w)) /\ Holds(NewStream(TRUE, w), 0, 0)
         /\ NewStream(FALSE, w).send_buffer = <<>> /\ NewStream(TRUE, w).send_buffer = <<>>
<1>0. ReceiveWindow - DEFAULT_RECEIVE_WINDOW \in Nat /\ DEFAULT_RECEIVE_WINDOW \in Nat BY YamuxAssumption
<1>1. <<>> \in Seq(Seq(Nat)) /\ Len(<<>>) = 0 OBVIOUS
<1>2. IsStream(NewStream(FALSE, w)) /\ IsStream(NewStream(TRUE, w))
  <2> DEFINE u == ReceiveWindow - DEFAULT_RECEIVE_WINDOW
  <2>1. u \in Nat BY <1>0
  <2> HIDE DEF u
  <2> QED BY <1>0, <1>1, <2>1 DEF NewStream, IsStream, StreamState, u
<1>3. Chunks(<<>>, Len(<<>>), 0, 0)
  <2> DEFINE m == Len(<<>>)
             q == <<>>
  <2>1. m \in Nat /\ 1..m = {} BY <1>1
  <2> HIDE DEF m, q
  <2>2. \A i \in 1..m : q[i] = <<>> BY <2>1
  <2>3. Carries(q, m, 0, 0) BY <2>1, <2>2, CarriesNothing
  <2>4. Chunks(q, m, 0, 0) BY <2>1, <2>3 DEF Chunks
  <2> QED BY <2>4 DEF m, q
<1>4. ASSUME NEW st, st.send_buffer = <<>>, st.buffered_send = 0 PROVE Holds(st, 0, 0)
  <2>1. 0 = 0 - 0 OBVIOUS
  <2> QED BY <1>3, <1>4, <2>1 DEF Holds
<1>5. \A l \in BOOLEAN : NewStream(l, w).send_buffer = <<>> /\ NewStream(l, w).buffered_send = 0
    BY DEF NewStream
<1> QED BY <1>2, <1>4, <1>5

LEMMA AcceptedAlters ==
  ASSUME NEW y, Typed(y), NEW s \in Ids, y.streams[s] = None, NEW w \in Nat
  PROVE  /\ Alters(y, Accepted(y, s, w), s, 0, 0, <<>>)
         /\ Calm(y, Accepted(y, s, w))
         /\ Accepted(y, s, w).streams[s] = NewStream(FALSE, w)
         /\ NewStream(FALSE, w) # None
<1> DEFINE st == NewStream(FALSE, w)
           y1 == SetStream(y, s, st)
           n  == Notice("IncomingStream", s)
           z  == Notify(y1, n)
<1>1. /\ IsStream(st) /\ Holds(st, 0, 0) /\ st.send_buffer = <<>> BY FreshHolds
<1> HIDE DEF st
<1>2. /\ DOMAIN y1 = DOMAIN y /\ y1.role = y.role /\ y1.next_stream_id = y.next_stream_id
      /\ y1.pending = y.pending /\ y1.streams = [y.streams EXCEPT ![s] = st]
    BY DEF SetStream, Typed
<1> HIDE DEF y1
<1>3. Typed(y1) BY <1>1, <1>2 DEF Typed
<1>4. Outputs(y1, z, <<n>>) BY <1>3, NotifyIs
<1>5. Idle(n) BY DEF Idle, IsItem, Notice
<1> HIDE DEF n
<1>6. IsSeq(<<n>>) /\ \A i \in 1..Len(<<n>>) : Idle(<<n>>[i])
  <2>1. IsSeq(<<n>>) /\ Len(<<n>>) = 1 /\ <<n>>[1] = n BY OneIsSeq
  <2> QED BY <1>5, <2>1
<1> DEFINE ext == <<n>>
<1>7. /\ DOMAIN z = DOMAIN y /\ z.role = y.role /\ z.next_stream_id = y.next_stream_id
      /\ z.pending = y.pending \o ext /\ z.streams = [y.streams EXCEPT ![s] = st]
    BY <1>2, <1>4 DEF Outputs
<1> HIDE DEF ext, z
<1>8. IsSeq(ext) /\ \A i \in 1..Len(ext) : Idle(ext[i]) BY <1>6 DEF ext
<1>9. DOMAIN z.streams = Ids /\ z.streams[s] = st /\ \A x \in Ids : x # s => z.streams[x] = y.streams[x]
    BY <1>7 DEF Typed
<1>10. st # None BY <1>1, YamuxAssumption DEF IsStream
<1>11. Typed(z)
  <2>1. Keeps(y1, z) BY <1>3, <1>4, <1>6, OutputsKeep
  <2> QED BY <2>1, KeepsTyped
<1>12. ASSUME NEW x \in Ids, x # s PROVE MovesOn(y, z, x, <<>>)
  <2>1. z.streams[x] = None \/ (y.streams[x] # None /\ SameSender(y.streams[x], z.streams[x]))
      BY <1>9, <1>12 DEF Typed, SameSender
  <2> QED BY <1>7, <1>8, <2>1, IdleMovesOn
<1>13. ASSUME NEW j, Sends(y, s, j, 0) PROVE Sends(z, s, j, 0)
  <2>1. PICK k \in Nat : Carries(OutParts(y.pending, s), Len(y.pending), j, k) /\ k <= 0
      BY <1>13 DEF Sends
  <2>2. k = 0 BY <2>1
  <2>3. Carries(OutParts(z.pending, s), Len(z.pending), j, k) BY <1>7, <1>8, <2>1, IdleAdds
  <2> QED BY <1>1, <1>9, <2>1, <2>2, <2>3 DEF Sends
<1>14. ASSUME NEW g, NEW h, NEW d \in Nat, Hears(y, s, g, h), h <= d, <<>> = Run(h, d)
       PROVE  Hears(z, s, g, d)
  <2>1. h \in Nat BY <1>14, HearsBounds
  <2>2. h = d BY <1>14, <2>1, EmptyRun
  <2>3. Hears(z, s, g, h) BY <1>7, <1>8, <1>14, IdleAdds
  <2> QED BY <2>2, <2>3
<1>15. Calm(y, z) BY <1>1, <1>9 DEF Calm, Settled
<1>16. Alters(y, z, s, 0, 0, <<>>)
  <2>1. \A g, h : \A d \in Nat :
            Hears(y, s, g, h) /\ h <= d /\ <<>> = Run(h, d) =>
                \E b \in Nat : Hears(z, s, g, b) /\ b <= d /\ (z.streams[s] # None => b = d)
      BY <1>14
  <2> QED BY <1>7, <1>11, <1>12, <1>13, <2>1 DEF Alters
<1> QED BY <1>9, <1>10, <1>15, <1>16 DEF Accepted, z, y1, st, n

LEMMA AltersThenMoves ==
  ASSUME NEW y, Typed(y), NEW x, NEW s \in Ids, NEW a, NEW b, Alters(y, x, s, a, b, <<>>), x.streams[s] # None,
         NEW z, NEW p, Moves(x, z, s, p)
  PROVE  Alters(y, z, s, a, b, p)
<1>1. Typed(z) /\ z.role = y.role /\ z.next_stream_id = y.next_stream_id BY DEF Moves, Alters
<1>2. ASSUME NEW r \in Ids, r # s PROVE MovesOn(y, z, r, <<>>)
  <2>1. MovesOn(y, x, r, <<>>) BY <1>2 DEF Alters
  <2>2. MovesOn(x, z, r, <<>>) BY <1>2 DEF Moves
  <2>3. ASSUME NEW g, NEW h, NEW d \in Nat, Hears(y, r, g, h), h <= d, <<>> = Run(h, d)
        PROVE  \E e \in Nat : Hears(z, r, g, e) /\ e <= d /\ (z.streams[r] # None => e = d)
    <3>1. PICK c \in Nat : Hears(x, r, g, c) /\ c <= d /\ (x.streams[r] # None => c = d)
        BY <2>1, <2>3 DEF MovesOn
    <3>2. <<>> = Run(c, c) BY EmptyRun
    <3>3. PICK e \in Nat : Hears(z, r, g, e) /\ e <= c /\ (z.streams[r] # None => e = c)
        BY <2>2, <3>1, <3>2 DEF MovesOn
    <3>4. z.streams[r] # None => x.streams[r] # None BY <2>2 DEF MovesOn
    <3> QED BY <3>1, <3>3, <3>4
  <2>4. /\ z.streams[r] # None => y.streams[r] # None
        /\ \A j, t : Sends(y, r, j, t) => Sends(z, r, j, t)
        /\ SynFirst(y, r) => SynFirst(z, r)
        /\ HasSyn(z, r) => HasSyn(y, r)
        /\ Quiet(y, r) => Quiet(z, r)
      BY <2>1, <2>2 DEF MovesOn
  <2> QED BY <2>3, <2>4 DEF MovesOn
<1>3. MovesOn(x, z, s, p) BY DEF Moves
<1>4. \A j : Sends(y, s, j, a) => Sends(z, s, j, b) BY <1>3 DEF Alters, MovesOn
<1>5. ASSUME NEW g, NEW h, NEW d \in Nat, Hears(y, s, g, h), h <= d, p = Run(h, d)
      PROVE  \E e \in Nat : Hears(z, s, g, e) /\ e <= d /\ (z.streams[s] # None => e = d)
  <2>1. h \in Nat BY <1>5, HearsBounds
  <2>2. <<>> = Run(h, h) BY <2>1, EmptyRun
  <2>3. PICK c \in Nat : Hears(x, s, g, c) /\ c <= h /\ (x.streams[s] # None => c = h)
      BY <1>5, <2>1, <2>2 DEF Alters
  <2> QED BY <1>3, <1>5, <2>3 DEF MovesOn
<1> QED BY <1>1, <1>2, <1>4, <1>5 DEF Alters

\* What a frame may do to the end that takes it.
Takes(y, z, f) ==
    \/ Keeps(y, z) /\ (f.stream \in Ids => z.streams[f.stream] = None \/ f.payload = <<>>)
    \/ f.stream \in Ids /\ y.streams[f.stream] # None /\ Moves(y, z, f.stream, f.payload)
    \/ /\ f.stream \in Ids /\ y.streams[f.stream] = None
       /\ "SYN" \in f.flags /\ ValidRemoteStreamId(y, f.stream)
       /\ Alters(y, z, f.stream, 0, 0, f.payload)

LEMMA OnDataTakes ==
  ASSUME NEW y, Typed(y), NEW f, IsFrame(f), f.stream \in Ids
  PROVE  Takes(y, OnData(y, f), f) /\ Calm(y, OnData(y, f))
<1> DEFINE s == f.stream
           z == OnData(y, f)
<1>1. CASE "RST" \in f.flags
  <2>1. z = RemoveStream(y, s, TRUE) BY <1>1 DEF OnData
  <2> QED BY <2>1, RemoveStreamKeeps DEF Takes
<1>2. CASE "RST" \notin f.flags /\ "SYN" \in f.flags
  <2> DEFINE x == Accepted(y, s, DEFAULT_RECEIVE_WINDOW)
  <2>1. z = IF SynIsError(y, s) THEN FailProtocol(y)
            ELSE IF Cardinality(Open(y)) >= MaxStreams[y.role] THEN ResetUnknown(y, s)
            ELSE Receive(x, f)
      BY <1>2 DEF OnData
  <2>2. CASE z = FailProtocol(y) BY <2>2, FailProtocolKeeps DEF Takes
  <2>3. CASE z = ResetUnknown(y, s) /\ ~SynIsError(y, s)
      BY <2>3, ResetUnknownKeeps DEF Takes, SynIsError
  <2>4. CASE z = Receive(x, f) /\ ~SynIsError(y, s)
    <3>1. y.streams[s] = None /\ ValidRemoteStreamId(y, s) BY <2>4 DEF SynIsError
    <3>2. Alters(y, x, s, 0, 0, <<>>) /\ Calm(y, x) /\ x.streams[s] # None
      <4>1. s \in Ids /\ DEFAULT_RECEIVE_WINDOW \in Nat BY YamuxAssumption
      <4> HIDE DEF s
      <4> QED BY <3>1, <4>1, AcceptedAlters
    <3> HIDE DEF x
    <3>3. Typed(x) BY <3>2 DEF Alters
    <3>4. Moves(x, Receive(x, f), s, f.payload) /\ Calm(x, Receive(x, f)) BY <3>2, <3>3, ReceiveMoves
    <3>5. Alters(y, z, s, 0, 0, f.payload) BY <2>4, <3>2, <3>4, AltersThenMoves
    <3>6. Calm(y, z) BY <2>4, <3>2, <3>4 DEF Calm
    <3> QED BY <1>2, <3>1, <3>5, <3>6 DEF Takes
  <2> QED BY <2>1, <2>2, <2>3, <2>4
<1>3. CASE ~("RST" \in f.flags) /\ ~("RST" \notin f.flags /\ "SYN" \in f.flags)
  <2>1. z = IF y.streams[s] = None THEN ResetUnknown(y, s) ELSE Receive(y, f) BY <1>3 DEF OnData
  <2>2. CASE y.streams[s] = None BY <2>1, <2>2, ResetUnknownKeeps DEF Takes
  <2>3. CASE y.streams[s] # None BY <2>1, <2>3, ReceiveMoves DEF Takes
  <2> QED BY <2>2, <2>3
<1> QED BY <1>1, <1>2, <1>3

LEMMA OnWindowUpdateTakes ==
  ASSUME NEW y, Typed(y), NEW f, IsFrame(f), f.type = "WindowUpdate", f.stream \in Ids,
         NEW j, NEW t, Sends(y, f.stream, j, t), \A x \in Ids : Settled(y, x)
  PROVE  Takes(y, OnWindowUpdate(y, f), f) /\ \A x \in Ids : Settled(OnWindowUpdate(y, f), x)
<1> DEFINE s == f.stream
           z == OnWindowUpdate(y, f)
<1>0. f.payload = <<>> /\ f.value \in Nat BY DEF IsFrame
<1>1. CASE "RST" \in f.flags
  <2>1. z = RemoveStream(y, s, TRUE) BY <1>1 DEF OnWindowUpdate
  <2> QED BY <2>1, RemoveStreamKeeps, ZenonT(60) DEF Takes, Calm
<1>2. CASE "RST" \notin f.flags /\ "SYN" \in f.flags
  <2> DEFINE w == DEFAULT_RECEIVE_WINDOW + f.value
             x == Accepted(y, s, w)
  <2>1. z = IF SynIsError(y, s) THEN FailProtocol(y)
            ELSE IF Cardinality(Open(y)) >= MaxStreams[y.role] THEN ResetUnknown(y, s)
            ELSE IF w > U32_MAX THEN FailProtocol(y)
            ELSE Credited(x, f)
      BY <1>2 DEF OnWindowUpdate
  <2>2. CASE z = FailProtocol(y) BY <2>2, FailProtocolKeeps DEF Takes, Calm
  <2>3. CASE z = ResetUnknown(y, s) /\ ~SynIsError(y, s)
      BY <2>3, ResetUnknownKeeps DEF Takes, SynIsError, Calm
  <2>4. CASE z = Credited(x, f) /\ ~SynIsError(y, s)
    <3>1. y.streams[s] = None /\ ValidRemoteStreamId(y, s) BY <2>4 DEF SynIsError
    <3>2. w \in Nat BY <1>0, YamuxAssumption
    <3> HIDE DEF w
    <3>3. Alters(y, x, s, 0, 0, <<>>) /\ Calm(y, x) /\ x.streams[s] = NewStream(FALSE, w) /\ x.streams[s] # None
      <4>1. s \in Ids OBVIOUS
      <4> HIDE DEF s
      <4> QED BY <3>1, <3>2, <4>1, AcceptedAlters
    <3> HIDE DEF x
    <3>4. Typed(x) BY <3>3 DEF Alters
    <3>5. 0 \in Nat /\ Holds(x.streams[s], 0, 0) BY <3>2, <3>3, FreshHolds
    <3>6. Keeps(x, z) /\ Settled(z, s) /\ \A r \in Ids : r # s /\ Settled(x, r) => Settled(z, r)
      <4>1. s \in Ids /\ f.stream = s OBVIOUS
      <4> HIDE DEF s, z
      <4> QED BY <2>4, <3>3, <3>4, <3>5, <4>1, CreditedKeeps
    <3>7. Moves(x, z, s, <<>>) BY <3>4, <3>6, KeepsDrops
    <3>8. Alters(y, z, s, 0, 0, f.payload) BY <1>0, <3>3, <3>7, AltersThenMoves
    <3>9. \A r \in Ids : Settled(z, r) BY <3>3, <3>6 DEF Calm
    <3> QED BY <1>2, <3>1, <3>8, <3>9 DEF Takes
  <2> QED BY <2>1, <2>2, <2>3, <2>4
<1>3. CASE ~("RST" \in f.flags) /\ ~("RST" \notin f.flags /\ "SYN" \in f.flags)
  <2> DEFINE st == y.streams[s]
             x  == [y EXCEPT !.streams[s].send_window = @ + f.value]
             su == [st EXCEPT !.send_window = @ + f.value]
  <2>1. z = IF st = None THEN ResetUnknown(y, s)
            ELSE IF st.send_window + f.value > U32_MAX THEN FailProtocol(y)
            ELSE Credited(x, f)
      BY <1>3 DEF OnWindowUpdate
  <2>2. CASE z = ResetUnknown(y, s) BY <1>0, <2>2, ResetUnknownKeeps DEF Takes, Calm
  <2>3. CASE z = FailProtocol(y) BY <2>3, FailProtocolKeeps DEF Takes, Calm
  <2>4. CASE z = Credited(x, f) /\ st # None
    <3>1. IsStream(st) BY <2>4 DEF Typed
    <3>2. SameSender(st, su)
      <4> HIDE DEF st
      <4>1. st.send_window + f.value \in Nat BY <1>0, <3>1 DEF IsStream, StreamState
      <4> DEFINE w == st.send_window + f.value
      <4>2. su = [st EXCEPT !.send_window = w] BY <3>1 DEF IsStream, StreamState
      <4>3. w \in Nat BY <4>1
      <4> HIDE DEF w, su
      <4> QED BY <3>1, <4>2, <4>3 DEF SameSender, IsStream, StreamState
    <3>3. x = SetStream(y, s, su) BY <3>1 DEF SetStream, Typed
    <3> HIDE DEF x, su
    <3>4. Keeps(y, x) /\ x.streams[s] = su BY <2>4, <3>2, <3>3, SetStreamKeeps
    <3>5. Typed(x) /\ x.streams[s] # None
        BY <3>2, <3>4, KeepsTyped, YamuxAssumption DEF SameSender, IsStream
    <3>6. PICK k \in Nat : Holds(st, k, t) BY <2>4 DEF Sends
    <3>7. t \in Nat /\ Holds(x.streams[s], k, t) BY <3>2, <3>4, <3>6 DEF Sends, Holds, SameSender
    <3>8. Keeps(x, z) /\ Settled(z, s) /\ \A r \in Ids : r # s /\ Settled(x, r) => Settled(z, r)
        BY <2>4, <3>5, <3>7, CreditedKeeps
    <3>9. \A r \in Ids : r # s => Settled(x, r)
      <4>1. \A r \in Ids : r # s => x.streams[r] = y.streams[r] BY <3>3 DEF SetStream, Typed
      <4> QED BY <4>1 DEF Settled
    <3>10. Keeps(y, z) BY <3>4, <3>8, KeepsMore
    <3> QED BY <1>0, <3>8, <3>9, <3>10 DEF Takes
  <2> QED BY <2>1, <2>2, <2>3, <2>4
<1> QED BY <1>1, <1>2, <1>3


-----------------------------------------------------------------------------
(* A session that is over has no streams. *)

SameStatus(y, z) ==
    /\ DOMAIN z = DOMAIN y
    /\ z.failed = y.failed /\ z.local_go_away = y.local_go_away /\ z.remote_go_away = y.remote_go_away

\* A record with the fields of a session.
IsSession(y) == {"failed", "local_go_away", "remote_go_away"} \subseteq DOMAIN y

LEMMA StatusThen ==
  ASSUME NEW y, NEW z, NEW w, SameStatus(y, z), SameStatus(z, w) PROVE SameStatus(y, w)
BY DEF SameStatus

LEMMA PartsStatus ==
  ASSUME NEW y, IsSession(y)
  PROVE  /\ \A frames : SameStatus(y, QueueFrames(y, frames)) /\ IsSession(QueueFrames(y, frames))
         /\ \A n : SameStatus(y, Notify(y, n)) /\ IsSession(Notify(y, n))
         /\ \A s, st : SameStatus(y, SetStream(y, s, st)) /\ IsSession(SetStream(y, s, st))
BY DEF SameStatus, IsSession, QueueFrames, Notify, SetStream

LEMMA RemoveStreamStatus ==
  ASSUME NEW y, IsSession(y), NEW s, NEW emit
  PROVE  SameStatus(y, RemoveStream(y, s, emit)) /\ IsSession(RemoveStream(y, s, emit))
<1> DEFINE gone == [y EXCEPT !.total_buffered_send = @ - y.streams[s].buffered_send,
                             !.streams[s] = None]
<1>1. RemoveStream(y, s, emit) \in {y, gone, Notify(gone, Notice("StreamClosed", s))} BY DEF RemoveStream
<1>2. SameStatus(y, gone) /\ IsSession(gone) BY DEF SameStatus, IsSession
<1> HIDE DEF gone
<1>3. SameStatus(gone, Notify(gone, Notice("StreamClosed", s))) /\ IsSession(Notify(gone, Notice("StreamClosed", s)))
    BY <1>2, PartsStatus
<1>4. SameStatus(y, y) BY DEF SameStatus
<1> QED BY <1>1, <1>2, <1>3, <1>4, StatusThen

LEMMA FinishStatus ==
  ASSUME NEW y, IsSession(y), NEW s, NEW f
  PROVE  SameStatus(y, Finish(y, s, f))
<1> DEFINE st   == y.streams[s]
           fin  == "FIN" \in f.flags /\ ~st.remote_write_closed
           st1  == [st EXCEPT !.remote_write_closed = @ \/ fin]
           y1   == SetStream(y, s, st1)
           y2   == IF fin THEN Notify(y1, Notice("RemoteWriteClosed", s)) ELSE y1
<1>1. Finish(y, s, f) \in {y2, RemoveStream(y2, s, TRUE)} BY DEF Finish
<1> HIDE DEF st1, fin
<1>2. SameStatus(y, y1) /\ IsSession(y1) BY PartsStatus
<1> HIDE DEF y1
<1>3. SameStatus(y1, y2) /\ IsSession(y2)
  <2>1. SameStatus(y1, y1) BY DEF SameStatus
  <2> QED BY <1>2, <2>1, PartsStatus
<1> HIDE DEF y2
<1>4. SameStatus(y, y2) BY <1>2, <1>3, StatusThen
<1>5. SameStatus(y, RemoveStream(y2, s, TRUE)) BY <1>3, <1>4, RemoveStreamStatus, StatusThen
<1> QED BY <1>1, <1>4, <1>5

LEMMA FlushBufferedStatus ==
  ASSUME NEW y, IsSession(y), NEW s
  PROVE  SameStatus(y, FlushBuffered(y, s)) /\ IsSession(FlushBuffered(y, s))
<1> DEFINE st   == y.streams[s]
           done == FoldLeft(FlushOne, [st |-> st, frames |-> <<>>, stream |-> s],
                            [i \in 1..st.buffered_send |-> i])
           ends == done.st.send_buffer = <<>> /\ done.st.close_pending
           st1  == IF ends THEN [OpenFlagTaken(done.st) EXCEPT !.close_pending = FALSE,
                                                               !.local_write_closed = TRUE]
                   ELSE done.st
           fin  == IF ends THEN <<DataFrame(s, OpenFlag(done.st) \cup {"FIN"}, <<>>)>> ELSE <<>>
           y0   == [SetStream(y, s, st1) EXCEPT
                        !.total_buffered_send = @ - (st.buffered_send - st1.buffered_send)]
           y1   == QueueFrames(y0, done.frames \o fin)
<1>1. FlushBuffered(y, s) \in {y1, RemoveStream(y1, s, TRUE)} BY DEF FlushBuffered
<1> HIDE DEF done, ends, st1, fin
<1>2. SameStatus(y, SetStream(y, s, st1)) /\ IsSession(SetStream(y, s, st1)) BY PartsStatus
<1>3. SameStatus(SetStream(y, s, st1), y0) /\ IsSession(y0) BY <1>2 DEF SameStatus, IsSession
<1> HIDE DEF y0
<1>4. SameStatus(y0, y1) /\ IsSession(y1) BY <1>3, PartsStatus
<1> HIDE DEF y1
<1>5. SameStatus(y, y1) BY <1>2, <1>3, <1>4, StatusThen
<1>6. SameStatus(y, RemoveStream(y1, s, TRUE)) /\ IsSession(RemoveStream(y1, s, TRUE))
    BY <1>4, <1>5, RemoveStreamStatus, StatusThen
<1> QED BY <1>1, <1>4, <1>5, <1>6

LEMMA CreditedStatus ==
  ASSUME NEW y, IsSession(y), NEW f
  PROVE  SameStatus(y, Credited(y, f))
<1> DEFINE s  == f.stream
           y0 == SetStream(y, s, Acknowledge(y.streams[s], f))
           y1 == FlushBuffered(y0, s)
<1>1. Credited(y, f) \in {y1, Finish(y1, s, f)} BY DEF Credited
<1>2. SameStatus(y, y0) /\ IsSession(y0) BY PartsStatus
<1> HIDE DEF y0
<1>3. SameStatus(y0, y1) /\ IsSession(y1) BY <1>2, FlushBufferedStatus
<1> HIDE DEF y1
<1>4. SameStatus(y, y1) BY <1>2, <1>3, StatusThen
<1>5. SameStatus(y, Finish(y1, s, f)) BY <1>3, <1>4, FinishStatus, StatusThen
<1> QED BY <1>1, <1>4, <1>5

LEMMA ReceiveStatus ==
  ASSUME NEW y, IsSession(y), NEW f, Receive(y, f) # FailProtocol(y)
  PROVE  SameStatus(y, Receive(y, f))
<1> DEFINE s   == f.stream
           st  == Acknowledge(y.streams[s], f)
           n   == Len(f.payload)
           due == CreditDue(st, n)
           st1 == [st EXCEPT !.receive_window = @ - n,
                             !.delivered_since_update = IF due THEN 0 ELSE @ + n,
                             !.pending_credit = IF due THEN @ + st.delivered_since_update + n ELSE @]
           y1  == SetStream(y, s, st1)
           y2  == IF n = 0 THEN y1 ELSE Notify(y1, DataNotice(s, f.payload))
<1>1. Receive(y, f) = Finish(y2, s, f) BY DEF Receive
<1> HIDE DEF st1
<1>2. SameStatus(y, y1) /\ IsSession(y1) BY PartsStatus
<1> HIDE DEF y1
<1>3. SameStatus(y1, y2) /\ IsSession(y2)
  <2>1. SameStatus(y1, y1) BY DEF SameStatus
  <2> QED BY <1>2, <2>1, PartsStatus
<1> HIDE DEF y2
<1>4. SameStatus(y, Finish(y2, s, f)) BY <1>2, <1>3, FinishStatus, StatusThen
<1> QED BY <1>1, <1>4

LEMMA AcceptedStatus ==
  ASSUME NEW y, IsSession(y), NEW s, NEW w
  PROVE  SameStatus(y, Accepted(y, s, w)) /\ IsSession(Accepted(y, s, w))
<1> DEFINE x == SetStream(y, s, NewStream(FALSE, w))
<1>1. SameStatus(y, x) /\ IsSession(x) BY PartsStatus
<1> HIDE DEF x
<1>2. SameStatus(x, Notify(x, Notice("IncomingStream", s))) /\ IsSession(Notify(x, Notice("IncomingStream", s)))
    BY <1>1, PartsStatus
<1> QED BY <1>1, <1>2, StatusThen DEF Accepted, x

\* Fields that this is not about.
LEMMA TakesFields ==
  ASSUME NEW y, NEW x, NEW f, Takes(y, x, f), NEW z, DOMAIN z = DOMAIN x, z.role = x.role,
         z.next_stream_id = x.next_stream_id, z.streams = x.streams, z.pending = x.pending
  PROVE  Takes(y, z, f)
<1>1. /\ \A s, j, t : Sends(x, s, j, t) => Sends(z, s, j, t)
      /\ \A s, g, h : Hears(x, s, g, h) => Hears(z, s, g, h)
    BY DEF Sends, Hears
<1>2. /\ \A s : SynFirst(x, s) => SynFirst(z, s)
      /\ \A s : HasSyn(z, s) => HasSyn(x, s)
      /\ \A s : Quiet(x, s) => Quiet(z, s)
    BY DEF SynFirst, HasSyn, Quiet, OpensLater, AllPlain
<1>3. Typed(x) => Typed(z) BY DEF Typed
<1>4. ASSUME NEW s, NEW p, MovesOn(y, x, s, p) PROVE MovesOn(y, z, s, p)
    BY <1>1, <1>2, <1>4 DEF MovesOn
<1>5. \A s, p : Moves(y, x, s, p) => Moves(y, z, s, p) BY <1>3, <1>4 DEF Moves
<1>6. Keeps(y, x) => Keeps(y, z) BY <1>5 DEF Keeps
<1>7. ASSUME NEW s, NEW p, Alters(y, x, s, 0, 0, p) PROVE Alters(y, z, s, 0, 0, p)
  <2>1. Typed(z) /\ z.role = y.role /\ z.next_stream_id = y.next_stream_id BY <1>3, <1>7 DEF Alters
  <2>2. \A r \in Ids : r # s => MovesOn(y, z, r, <<>>) BY <1>4, <1>7 DEF Alters
  <2>3. \A j : Sends(y, s, j, 0) => Sends(z, s, j, 0) BY <1>1, <1>7 DEF Alters
  <2>4. \A g, h : \A d \in Nat :
          Hears(y, s, g, h) /\ h <= d /\ p = Run(h, d) =>
            \E b \in Nat : Hears(z, s, g, b) /\ b <= d /\ (z.streams[s] # None => b = d)
      BY <1>1, <1>7 DEF Alters
  <2> QED BY <2>1, <2>2, <2>3, <2>4 DEF Alters
<1> QED BY <1>5, <1>6, <1>7 DEF Takes

\* What has no effect on any stream.
LEMMA ControlTakes ==
  ASSUME NEW y, Typed(y), NEW f, IsFrame(f), NEW z, Keeps(y, z), Calm(y, z), f.stream \notin Ids,
         \A x \in Ids : Settled(y, x)
  PROVE  Takes(y, z, f) /\ \A x \in Ids : Settled(z, x)
BY DEF Takes, Calm

LEMMA StillActive ==
  ASSUME NEW y, Active(y), NEW z, SameStatus(y, z) PROVE Over(z)
BY DEF Active, SameStatus, Over

LEMMA GoneIsOver ==
  ASSUME NEW z, \A s \in Ids : z.streams[s] = None PROVE Over(z)
BY DEF Over

LEMMA OnDataOver ==
  ASSUME NEW y, Typed(y), Active(y), NEW f, f.stream \in Ids
  PROVE  Over(OnData(y, f))
<1> DEFINE s == f.stream
           z == OnData(y, f)
           x == Accepted(y, s, DEFAULT_RECEIVE_WINDOW)
<1>1. \/ z = RemoveStream(y, s, TRUE)
      \/ z = FailProtocol(y)
      \/ z = ResetUnknown(y, s)
      \/ z = Receive(x, f) /\ y.streams[s] = None
      \/ z = Receive(y, f)
  <2>1. CASE "RST" \in f.flags BY <2>1 DEF OnData
  <2>2. CASE "RST" \notin f.flags /\ "SYN" \in f.flags BY <2>2 DEF OnData, SynIsError
  <2>3. CASE ~("RST" \in f.flags) /\ ~("RST" \notin f.flags /\ "SYN" \in f.flags) BY <2>3 DEF OnData
  <2> QED BY <2>1, <2>2, <2>3
<1>0. SUFFICES Over(z) OBVIOUS
<1>2. IsSession(y) BY DEF IsSession, Typed
<1>3. s \in Ids /\ DEFAULT_RECEIVE_WINDOW \in Nat BY YamuxAssumption
<1> HIDE DEF s, z
<1>4. CASE z = RemoveStream(y, s, TRUE) BY <1>2, <1>4, RemoveStreamStatus, StillActive
<1>5. CASE z = FailProtocol(y) BY <1>5, FailProtocolKeeps, GoneIsOver
<1>6. CASE z = ResetUnknown(y, s) BY <1>2, <1>6, PartsStatus, StillActive DEF ResetUnknown, QueueFrame
<1>7. CASE z = Receive(x, f) /\ y.streams[s] = None
  <2>1. SameStatus(y, x) /\ IsSession(x) BY <1>2, AcceptedStatus
  <2>2. Typed(x)
    <3>1. Alters(y, x, s, 0, 0, <<>>) BY <1>3, <1>7, AcceptedAlters
    <3> QED BY <3>1 DEF Alters
  <2> HIDE DEF x
  <2>3. CASE Receive(x, f) = FailProtocol(x) BY <1>7, <2>2, <2>3, FailProtocolKeeps, GoneIsOver
  <2>4. CASE Receive(x, f) # FailProtocol(x)
    <3>1. SameStatus(x, z) BY <1>7, <2>1, <2>4, ReceiveStatus
    <3> QED BY <2>1, <3>1, StatusThen, StillActive
  <2> QED BY <2>3, <2>4
<1>8. CASE z = Receive(y, f)
  <2>1. CASE Receive(y, f) = FailProtocol(y) BY <1>8, <2>1, FailProtocolKeeps, GoneIsOver
  <2>2. CASE Receive(y, f) # FailProtocol(y) BY <1>2, <1>8, <2>2, ReceiveStatus, StillActive
  <2> QED BY <2>1, <2>2
<1> QED BY <1>1, <1>4, <1>5, <1>6, <1>7, <1>8

LEMMA OnWindowUpdateOver ==
  ASSUME NEW y, Typed(y), Active(y), NEW f, f.stream \in Ids
  PROVE  Over(OnWindowUpdate(y, f))
<1> DEFINE s == f.stream
           z == OnWindowUpdate(y, f)
           x == Accepted(y, s, DEFAULT_RECEIVE_WINDOW + f.value)
           w == [y EXCEPT !.streams[s].send_window = @ + f.value]
<1>1. \/ z = RemoveStream(y, s, TRUE)
      \/ z = FailProtocol(y)
      \/ z = ResetUnknown(y, s)
      \/ z = Credited(x, f)
      \/ z = Credited(w, f)
  <2>1. CASE "RST" \in f.flags BY <2>1 DEF OnWindowUpdate
  <2>2. CASE "RST" \notin f.flags /\ "SYN" \in f.flags BY <2>2 DEF OnWindowUpdate
  <2>3. CASE ~("RST" \in f.flags) /\ ~("RST" \notin f.flags /\ "SYN" \in f.flags)
      BY <2>3 DEF OnWindowUpdate
  <2> QED BY <2>1, <2>2, <2>3
<1>0. SUFFICES Over(z) OBVIOUS
<1>2. IsSession(y) BY DEF IsSession, Typed
<1> HIDE DEF s, z
<1>4. CASE z = RemoveStream(y, s, TRUE) BY <1>2, <1>4, RemoveStreamStatus, StillActive
<1>5. CASE z = FailProtocol(y) BY <1>5, FailProtocolKeeps, GoneIsOver
<1>6. CASE z = ResetUnknown(y, s) BY <1>2, <1>6, PartsStatus, StillActive DEF ResetUnknown, QueueFrame
<1>7. CASE z = Credited(x, f)
  <2>1. SameStatus(y, x) /\ IsSession(x) BY <1>2, AcceptedStatus
  <2> HIDE DEF x
  <2> QED BY <1>7, <2>1, CreditedStatus, StatusThen, StillActive
<1>8. CASE z = Credited(w, f)
  <2>1. SameStatus(y, w) /\ IsSession(w)
    <3> DEFINE str == [y.streams EXCEPT ![s].send_window = @ + f.value]
    <3>1. w = [y EXCEPT !.streams = str] OBVIOUS
    <3> HIDE DEF str, w
    <3> QED BY <1>2, <3>1 DEF SameStatus, IsSession
  <2> HIDE DEF w
  <2> QED BY <1>8, <2>1, CreditedStatus, StatusThen, StillActive
<1> QED BY <1>1, <1>4, <1>5, <1>6, <1>7, <1>8

LEMMA ProcessFrameTakes ==
  ASSUME NEW y, Typed(y), Active(y), NEW f, IsFrame(f), \A x \in Ids : Settled(y, x),
         f.stream \in Ids => \E j, t : Sends(y, f.stream, j, t)
  PROVE  /\ Takes(y, ProcessFrame(y, f), f) /\ Over(ProcessFrame(y, f))
         /\ \A x \in Ids : Settled(ProcessFrame(y, f), x)
<1> DEFINE z == ProcessFrame(y, f)
<1>0. f.type \in {"Data", "WindowUpdate", "Ping", "GoAway"} BY DEF IsFrame
<1>1. CASE f.type = "Data"
  <2>1. z = OnData(y, f) BY <1>1 DEF ProcessFrame
  <2>2. f.stream \in Ids BY <1>1 DEF IsFrame
  <2> QED BY <2>1, <2>2, OnDataTakes, OnDataOver DEF Calm
<1>2. CASE f.type = "WindowUpdate"
  <2>1. z = OnWindowUpdate(y, f) BY <1>2 DEF ProcessFrame
  <2>2. f.stream \in Ids BY <1>2 DEF IsFrame
  <2>3. PICK j, t : Sends(y, f.stream, j, t) BY <2>2
  <2>4. Takes(y, z, f) /\ \A x \in Ids : Settled(z, x) BY <1>2, <2>1, <2>2, <2>3, OnWindowUpdateTakes
  <2>5. Over(z) BY <2>1, <2>2, OnWindowUpdateOver
  <2> QED BY <2>4, <2>5
<1>3. CASE f.type = "Ping"
  <2> DEFINE a == PingFrame("ACK")
  <2>1. z = IF f.flags = {"SYN"} THEN QueueFrame(y, a) ELSE y BY <1>3 DEF ProcessFrame
  <2>2. f.stream \notin Ids BY <1>3, IdsFacts DEF IsFrame
  <2>3. IsFrame(a) /\ \A s \in Ids : PlainFrame(a, s) BY ControlFrameIs DEF PingFrame
  <2> HIDE DEF a
  <2>4. Keeps(y, z) /\ Calm(y, z) BY <2>1, <2>3, QueueFrameKeeps, KeepsSelf
  <2>5. SameStatus(y, z)
    <3>1. IsSession(y) /\ SameStatus(y, y) BY DEF IsSession, Typed, SameStatus
    <3> QED BY <2>1, <3>1, PartsStatus DEF QueueFrame
  <2> HIDE DEF z
  <2>6. Over(z) /\ Takes(y, z, f) /\ \A x \in Ids : Settled(z, x)
      BY <2>2, <2>4, <2>5, ControlTakes, StillActive
  <2> QED BY <2>6 DEF z
<1>4. CASE f.type = "GoAway"
  <2> DEFINE n == Notice("GoAwayReceived", 0)
             y1 == [y EXCEPT !.remote_go_away = TRUE]
             y2 == Notify(y1, n)
  <2>1. z = CloseAllStreams(y2) BY <1>4 DEF ProcessFrame
  <2>2. f.stream \notin Ids BY <1>4, IdsFacts DEF IsFrame
  <2>3. Keeps(y, y1) /\ Calm(y, y1)
    <3>1. /\ DOMAIN y1 = DOMAIN y /\ y1.role = y.role /\ y1.next_stream_id = y.next_stream_id
          /\ y1.streams = y.streams /\ y1.pending = y.pending
        BY DEF Typed
    <3> HIDE DEF y1
    <3> QED BY <3>1, FieldsKeep
  <2> HIDE DEF y1
  <2>4. n.output # "Outbound" /\ n.data = <<>> BY DEF Notice
  <2> HIDE DEF n
  <2>5. Keeps(y1, y2) /\ Calm(y1, y2) BY <2>3, <2>4, KeepsTyped, NotifyKeeps
  <2>6. Keeps(y, y2) /\ Calm(y, y2) BY <2>3, <2>5, Then
  <2> HIDE DEF y2
  <2>7. Typed(y2) BY <2>6, KeepsTyped
  <2>8. Keeps(y2, z) /\ Calm(y2, z) /\ \A s \in Ids : z.streams[s] = None
      BY <2>1, <2>7, CloseAllStreamsKeeps
  <2> HIDE DEF z
  <2>9. Keeps(y, z) /\ Calm(y, z) BY <2>6, <2>8, Then
  <2>10. Over(z) BY <2>8, GoneIsOver
  <2>11. Takes(y, z, f) /\ \A x \in Ids : Settled(z, x) BY <2>2, <2>9, ControlTakes
  <2> QED BY <2>10, <2>11 DEF z
<1> QED BY <1>0, <1>1, <1>2, <1>3, <1>4

LEMMA HandleFrameTakes ==
  ASSUME NEW y, Typed(y), Over(y), NEW f, IsFrame(f), \A x \in Ids : Settled(y, x),
         f.stream \in Ids => \E j, t : Sends(y, f.stream, j, t)
  PROVE  /\ Takes(y, HandleFrame(y, f), f) /\ Over(HandleFrame(y, f))
         /\ \A x \in Ids : Settled(HandleFrame(y, f), x)
<1>1. CASE ~Active(y)
  <2>1. HandleFrame(y, f) = y BY <1>1 DEF HandleFrame
  <2>2. \A s \in Ids : y.streams[s] = None BY <1>1 DEF Over
  <2>3. Keeps(y, y) BY KeepsSelf
  <2> QED BY <2>1, <2>2, <2>3 DEF Takes
<1>2. CASE Active(y)
  <2> DEFINE x == ProcessFrame(y, f)
             z == [x EXCEPT !.dirty = TRUE]
  <2>1. HandleFrame(y, f) = z BY <1>2 DEF HandleFrame
  <2>2. Takes(y, x, f) /\ Over(x) /\ \A s \in Ids : Settled(x, s) BY <1>2, ProcessFrameTakes
  <2> HIDE DEF x
  <2>3. Typed(x) BY <2>2 DEF Takes, Keeps, Moves, Alters
  <2>4. /\ DOMAIN z = DOMAIN x /\ z.role = x.role /\ z.next_stream_id = x.next_stream_id
        /\ z.streams = x.streams /\ z.pending = x.pending /\ SameStatus(x, z)
      BY <2>3 DEF Typed, SameStatus
  <2> HIDE DEF z
  <2>5. Takes(y, z, f) BY <2>2, <2>4, TakesFields
  <2>6. Over(z) /\ \A s \in Ids : Settled(z, s) BY <2>2, <2>4 DEF Over, Active, SameStatus, Settled
  <2> QED BY <2>1, <2>5, <2>6
<1> QED BY <1>1, <1>2

-----------------------------------------------------------------------------
(* A write. *)

LEMMA RunPart ==
  ASSUME NEW a \in Nat, NEW b \in Nat, NEW p \in Nat, NEW q \in Nat, p <= q, a + q <= b
  PROVE  SubSeq(Run(a, b), p + 1, q) = Run(a + p, a + q)
<1>1. Len(Run(a, b)) = b - a /\ \A x \in 1..(b - a) : Run(a, b)[x] = a + x BY RunFacts
<1>2. SubSeq(Run(a, b), p + 1, q) = [x \in 1..(q - p) |-> Run(a, b)[x + p]] OBVIOUS
<1>3. Run(a + p, a + q) = [x \in 1..(q - p) |-> (a + p) + x] BY DEF Run
<1>4. \A x \in 1..(q - p) : Run(a, b)[x + p] = (a + p) + x BY <1>1
<1> QED BY <1>2, <1>3, <1>4

LEMMA Times ==
  ASSUME NEW M \in Nat, NEW a \in Nat, NEW b \in Nat, a <= b
  PROVE  a * M <= b * M /\ a * M \in Nat /\ b * M \in Nat
OBVIOUS

\* How many pieces of M it takes for n bytes.
LEMMA PiecesNeeded ==
  ASSUME NEW M \in Nat, M # 0, NEW n \in Nat
  PROVE  LET P == (n + M - 1) \div M
         IN  P \in Nat /\ n <= P * M /\ (P = 0 \/ (P - 1) * M < n) /\ (P = 0 => n = 0)
OBVIOUS

LEMMA PiecesCarry ==
  ASSUME NEW a \in Nat, NEW b \in Nat, a <= b
  PROVE  LET q == Pieces(Run(a, b))
         IN  /\ IsSeq(q) /\ Len(q) \in Nat /\ Carries(q, Len(q), a, b)
             /\ \A i \in 1..Len(q) : q[i] \in Seq(Nat)
<1> DEFINE M == MaxFrameLen
           n == b - a
           P == (n + M - 1) \div M
           q == Pieces(Run(a, b))
           c == [i \in 0..P |-> a + Smaller(i * M, n)]
<1>1. M \in Nat /\ M # 0 /\ n \in Nat BY YamuxAssumption
<1>2. Len(Run(a, b)) = n BY RunFacts
<1>3. q = [i \in 1..P |-> SubSeq(Run(a, b), (i - 1) * M + 1, Smaller(i * M, n))] BY <1>2 DEF Pieces
<1> HIDE DEF M, n
<1>4. P \in Nat /\ n <= P * M /\ (P = 0 \/ (P - 1) * M < n) /\ (P = 0 => n = 0) BY <1>1, PiecesNeeded
<1> HIDE DEF P, q
<1>5. Len(q) = P /\ IsSeq(q) /\ \A i \in 1..P : q[i] = SubSeq(Run(a, b), (i - 1) * M + 1, Smaller(i * M, n))
  <2> DEFINE piece(i) == SubSeq(Run(a, b), (i - 1) * M + 1, Smaller(i * M, n))
  <2>1. q = [i \in 1..P |-> piece(i)] BY <1>3
  <2> HIDE DEF piece
  <2>2. q \in Seq({piece(i) : i \in 1..P}) /\ Len(q) = P BY <1>4, <2>1
  <2>3. \A i \in 1..P : q[i] = piece(i) BY <2>1
  <2> QED BY <2>2, <2>3 DEF IsSeq, piece
<1>6. ASSUME NEW i \in 0..P
      PROVE  i * M \in Nat /\ Smaller(i * M, n) \in Nat /\ Smaller(i * M, n) <= n
             /\ c[i] \in Nat /\ c[i] <= b /\ c[i] = a + Smaller(i * M, n)
  <2>1. i \in Nat /\ i * M \in Nat BY <1>1, <1>4
  <2>2. Smaller(i * M, n) \in Nat /\ Smaller(i * M, n) <= n BY <1>1, <2>1 DEF Smaller
  <2>3. c[i] = a + Smaller(i * M, n) OBVIOUS
  <2> QED BY <2>1, <2>2, <2>3 DEF n
<1>7. c[0] = a /\ c[P] = b
  <2>1. 0 \in 0..P /\ P \in 0..P BY <1>4
  <2>2. Smaller(0 * M, n) = 0 BY <1>1 DEF Smaller
  <2>3. Smaller(P * M, n) = n BY <1>1, <1>4 DEF Smaller
  <2>4. c[0] = a + 0 /\ c[P] = a + n BY <1>6, <2>1, <2>2, <2>3
  <2> QED BY <2>4 DEF n
<1>8. ASSUME NEW i \in 1..P PROVE c[i - 1] <= c[i] /\ q[i] = Run(c[i - 1], c[i])
  <2> DEFINE lo == (i - 1) * M
             hi == Smaller(i * M, n)
  <2>1. i \in 0..P /\ i - 1 \in 0..P /\ i \in Nat /\ i - 1 \in Nat /\ P - 1 \in Nat /\ i - 1 <= P - 1 BY <1>4
  <2>2. lo \in Nat /\ lo <= (P - 1) * M /\ lo < n
    <3>1. lo \in Nat /\ (P - 1) * M \in Nat /\ lo <= (P - 1) * M BY <1>1, <2>1, Times
    <3>2. (P - 1) * M < n BY <1>4, <2>1
    <3> HIDE DEF lo
    <3> DEFINE v == (P - 1) * M
    <3> HIDE DEF v
    <3>3. lo \in Nat /\ v \in Nat /\ lo <= v /\ v < n BY <3>1, <3>2 DEF v
    <3> QED BY <1>1, <3>3 DEF v
  <2>3. lo <= i * M BY <1>1, <2>1, Times
  <2>4. hi \in Nat /\ hi <= n /\ c[i] = a + hi BY <1>6, <2>1
  <2>5. Smaller(lo, n) = lo /\ c[i - 1] = a + lo
    <3>1. Smaller(lo, n) = lo BY <1>1, <2>2 DEF Smaller
    <3> QED BY <1>6, <2>1, <3>1
  <2>6. lo <= hi BY <1>1, <2>2, <2>3 DEF Smaller
  <2>7. q[i] = SubSeq(Run(a, b), lo + 1, hi) BY <1>5
  <2> HIDE DEF lo, hi, c
  <2>8. a + hi <= b BY <2>4 DEF n
  <2>10. lo \in Nat /\ hi \in Nat /\ lo <= hi BY <2>2, <2>4, <2>6
  <2>11. SubSeq(Run(a, b), lo + 1, hi) = Run(a + lo, a + hi) BY <2>8, <2>10, RunPart, ZenonT(60)
  <2>9. q[i] = Run(a + lo, a + hi) BY <2>7, <2>11
  <2> QED BY <2>2, <2>4, <2>5, <2>6, <2>9
<1> HIDE DEF c, q
<1>9. Cuts(c, q, P, a, b) BY <1>6, <1>7, <1>8 DEF Cuts
<1>10. Carries(q, Len(q), a, b) BY <1>5, <1>9 DEF Carries
<1>11. \A i \in 1..P : q[i] \in Seq(Nat)
  <2> TAKE i \in 1..P
  <2>1. i \in 0..P /\ i - 1 \in 0..P BY <1>4
  <2>2. c[i - 1] \in Nat /\ c[i] \in Nat /\ c[i - 1] <= c[i] /\ q[i] = Run(c[i - 1], c[i]) BY <1>6, <1>8, <2>1
  <2>3. Run(c[i - 1], c[i]) \in Seq(Nat) BY <2>2, RunFacts
  <2> QED BY <2>2, <2>3
<1> QED BY <1>4, <1>5, <1>10, <1>11 DEF q

\* The frames of a write.
LEMMA DataFramesCarry ==
  ASSUME NEW st, IsStream(st), NEW s \in Ids, NEW a \in Nat, NEW b \in Nat, a <= b
  PROVE  LET fr == DataFrames(s, st, Run(a, b))
         IN  /\ IsSeq(fr) /\ Len(fr) \in Nat /\ Len(fr) > 0
             /\ \A i \in 1..Len(fr) :
                    /\ IsFrame(fr[i]) /\ fr[i].stream = s
                    /\ "SYN" \in fr[i].flags => i = 1 /\ st.pending_open = "SYN"
             /\ Carries(WireParts(fr, s), Len(fr), a, b)
<1> DEFINE bytes  == Run(a, b)
           pieces == IF bytes = <<>> THEN <<<<>>>> ELSE Pieces(bytes)
           fl(i)  == IF i = 1 THEN OpenFlag(st) ELSE {}
           fr     == [i \in DOMAIN pieces |-> DataFrame(s, fl(i), pieces[i])]
<1>1. DataFrames(s, st, bytes) = fr BY DEF DataFrames
<1>2. /\ IsSeq(pieces) /\ Len(pieces) \in Nat /\ Carries(pieces, Len(pieces), a, b)
      /\ \A i \in 1..Len(pieces) : pieces[i] \in Seq(Nat)
      /\ Len(pieces) > 0
  <2>1. CASE bytes = <<>>
    <3>1. a = b BY <2>1, EmptyRun
    <3>2. IsSeq(<<<<>>>>) /\ Len(<<<<>>>>) = 1 /\ <<<<>>>>[1] = <<>> BY OneIsSeq
    <3>3. pieces = <<<<>>>> BY <2>1
    <3> HIDE DEF pieces
    <3>4. 1 \in Nat /\ \A i \in 1..1 : i = 1 OBVIOUS
    <3>5. Len(pieces) = 1 /\ \A i \in 1..1 : pieces[i] = <<>> BY <3>2, <3>3, <3>4
    <3>6. Carries(pieces, 1, a, a) BY <3>4, <3>5, CarriesNothing
    <3>7. <<>> \in Seq(Nat) OBVIOUS
    <3>8. IsSeq(pieces) BY <3>2, <3>3, Zenon
    <3>9. Carries(pieces, Len(pieces), a, b) BY <3>1, <3>5, <3>6, Zenon
    <3>10. \A i \in 1..Len(pieces) : pieces[i] \in Seq(Nat) BY <3>5, <3>7, Zenon
    <3>11. Len(pieces) \in Nat /\ Len(pieces) > 0 BY <3>5
    <3> QED BY <3>8, <3>9, <3>10, <3>11
  <2>2. CASE bytes # <<>>
    <3>1. pieces = Pieces(Run(a, b)) BY <2>2
    <3>2. /\ IsSeq(pieces) /\ Len(pieces) \in Nat /\ Carries(pieces, Len(pieces), a, b)
          /\ \A i \in 1..Len(pieces) : pieces[i] \in Seq(Nat)
        BY <3>1, PiecesCarry
    <3> HIDE DEF pieces
    <3>3. ASSUME Len(pieces) = 0 PROVE FALSE
      <4>1. PICK c : Cuts(c, pieces, 0, a, b) BY <3>2, <3>3 DEF Carries
      <4>2. a = b BY <4>1 DEF Cuts
      <4> QED BY <2>2, <4>2, EmptyRun
    <3> QED BY <3>2, <3>3
  <2> QED BY <2>1, <2>2
<1> HIDE DEF pieces
<1>3. DOMAIN pieces = 1..Len(pieces) BY <1>2 DEF IsSeq
<1> DEFINE n == Len(pieces)
<1>4. IsSeq(fr) /\ Len(fr) = n /\ \A i \in 1..n : fr[i] = DataFrame(s, fl(i), pieces[i])
  <2> DEFINE item(i) == DataFrame(s, fl(i), pieces[i])
  <2>1. fr = [i \in 1..n |-> item(i)] /\ n \in Nat BY <1>2, <1>3
  <2> HIDE DEF item, fr, n
  <2>2. fr \in Seq({item(i) : i \in 1..n}) /\ Len(fr) = n BY <2>1
  <2>3. \A i \in 1..n : fr[i] = item(i) BY <2>1
  <2> QED BY <2>2, <2>3 DEF IsSeq, item
<1> HIDE DEF fr
<1>5. "SYN" \in OpenFlag(st) => st.pending_open = "SYN" BY TakenFacts
<1>6. ASSUME NEW i \in 1..n
      PROVE  /\ IsFrame(fr[i]) /\ fr[i].stream = s /\ fr[i].payload = pieces[i]
             /\ "SYN" \in fr[i].flags => i = 1 /\ st.pending_open = "SYN"
  <2>1. fr[i] = DataFrame(s, fl(i), pieces[i]) /\ pieces[i] \in Seq(Nat) BY <1>2, <1>4
  <2>2. Len(pieces[i]) \in Nat BY <2>1
  <2>3. "SYN" \in fl(i) => i = 1 /\ st.pending_open = "SYN" BY <1>5
  <2> HIDE DEF fl
  <2> QED BY <2>1, <2>2, <2>3 DEF DataFrame, IsFrame
<1>7. \A i \in 1..n : WireParts(fr, s)[i] = pieces[i] BY <1>4, <1>6 DEF WireParts, FramePart
<1>8. Carries(WireParts(fr, s), n, a, b) BY <1>2, <1>7, CarriesSame
<1> QED BY <1>1, <1>2, <1>4, <1>6, <1>8

\* A buffer with a chunk more, unless there is nothing in it.
Longer(b, rest) == IF rest = <<>> THEN b ELSE Append(b, rest)

LEMMA ChunkAdded ==
  ASSUME NEW b \in Seq(Seq(Nat)), NEW m, NEW t \in Nat, Chunks(b, Len(b), m, t), NEW u \in Nat, t <= u
  PROVE  /\ Longer(b, Run(t, u)) \in Seq(Seq(Nat))
         /\ Chunks(Longer(b, Run(t, u)), Len(Longer(b, Run(t, u))), m, u)
<1> DEFINE rest == Run(t, u)
           l == Longer(b, rest)
<1>1. rest \in Seq(Nat) BY RunFacts
<1>2. CASE rest = <<>>
  <2>1. t = u BY <1>2, EmptyRun
  <2> QED BY <1>2, <2>1 DEF Longer
<1>3. CASE rest # <<>>
  <2>1. l = Append(b, rest) BY <1>3 DEF Longer
  <2> HIDE DEF l
  <2>2. rest = Run(t, u) OBVIOUS
  <2> HIDE DEF rest
  <2>3. l \in Seq(Seq(Nat)) /\ Len(l) = Len(b) + 1 /\ Len(b) \in Nat BY <1>1, <2>1
  <2>4. l[Len(b) + 1] = rest BY <1>1, <2>1
  <2>5. \A i \in 1..Len(b) : l[i] = b[i] BY <1>1, <2>1
  <2> DEFINE n == Len(b)
  <2> HIDE DEF n
  <2>6. n \in Nat /\ Carries(b, n, m, t) /\ (\A i \in 1..n : l[i] = b[i]) /\ l[n + 1] = Run(t, u)
        /\ \A i \in 1..n : b[i] # <<>>
      BY <2>2, <2>3, <2>4, <2>5 DEF n, Chunks
  <2>7. Carries(l, n + 1, m, u) BY <2>6, CarriesMore
  <2>8. \A i \in 1..(n + 1) : l[i] # <<>>
    <3>1. \A i \in 1..(n + 1) : i \in 1..n \/ i = n + 1 BY <2>6
    <3> QED BY <1>3, <2>2, <2>6, <3>1
  <2>9. Chunks(l, n + 1, m, u) BY <2>7, <2>8 DEF Chunks
  <2> QED BY <2>3, <2>9 DEF n, l, rest
<1> QED BY <1>2, <1>3

\* More bytes in a buffer.
LEMMA BufferAlters ==
  ASSUME NEW y, Typed(y), NEW s \in Ids, y.streams[s] # None, NEW su, IsStream(su),
         su.pending_open = y.streams[s].pending_open,
         NEW a \in Nat, NEW b \in Nat, a <= b, \A k \in Nat : Holds(y.streams[s], k, a) => Holds(su, k, b)
  PROVE  LET x == SetStream(y, s, su)
         IN  /\ Alters(y, x, s, a, b, <<>>)
             /\ x.streams[s] = su /\ su # None
             /\ SynFirst(y, s) => SynFirst(x, s)
             /\ HasSyn(x, s) => HasSyn(y, s)
<1> DEFINE x == SetStream(y, s, su)
<1>1. /\ DOMAIN x = DOMAIN y /\ x.role = y.role /\ x.next_stream_id = y.next_stream_id
      /\ x.pending = y.pending /\ x.streams = [y.streams EXCEPT ![s] = su]
    BY DEF SetStream, Typed
<1> HIDE DEF x
<1>2. DOMAIN x.streams = Ids /\ x.streams[s] = su /\ \A r \in Ids : r # s => x.streams[r] = y.streams[r]
    BY <1>1 DEF Typed
<1>3. su # None BY YamuxAssumption DEF IsStream
<1>4. Typed(x) BY <1>1, <1>2 DEF Typed
<1>5. ASSUME NEW r \in Ids, r # s PROVE MovesOn(y, x, r, <<>>)
  <2>1. IsSeq(<<>>) /\ x.pending = y.pending \o <<>> /\ \A i \in 1..Len(<<>>) : Idle(<<>>[i])
      BY <1>1, NothingAdded
  <2>2. x.streams[r] = None \/ (y.streams[r] # None /\ SameSender(y.streams[r], x.streams[r]))
      BY <1>2, <1>5 DEF Typed, SameSender
  <2> QED BY <2>1, <2>2, IdleMovesOn
<1>6. ASSUME NEW j, Sends(y, s, j, a) PROVE Sends(x, s, j, b)
  <2>1. PICK k \in Nat : /\ Carries(OutParts(y.pending, s), Len(y.pending), j, k) /\ k <= a
                         /\ Holds(y.streams[s], k, a)
      BY <1>6 DEF Sends
  <2>2. Holds(su, k, b) /\ k <= b BY <2>1
  <2> QED BY <1>1, <1>2, <2>1, <2>2 DEF Sends
<1>7. \A g, h : Hears(y, s, g, h) => Hears(x, s, g, h) BY <1>1 DEF Hears
<1>8. ASSUME NEW g, NEW h, NEW d \in Nat, Hears(y, s, g, h), h <= d, <<>> = Run(h, d) PROVE Hears(x, s, g, d)
  <2>1. h \in Nat BY <1>8, HearsBounds
  <2>2. h = d BY <1>8, <2>1, EmptyRun
  <2> QED BY <1>7, <1>8, <2>2
<1>9. Alters(y, x, s, a, b, <<>>) BY <1>1, <1>4, <1>5, <1>6, <1>8 DEF Alters
<1>10. OpensLater(x, s) <=> OpensLater(y, s) BY <1>2, <1>3 DEF OpensLater
<1>11. /\ SynFirst(y, s) => SynFirst(x, s)
       /\ HasSyn(x, s) => HasSyn(y, s)
    BY <1>1, <1>10 DEF SynFirst, HasSyn, AllPlain
<1> QED BY <1>2, <1>3, <1>9, <1>11 DEF x

\* What a write puts into a stream, were nothing to leave at once.
Stored(st, bytes) ==
    [st EXCEPT !.send_buffer = Longer(@, bytes), !.buffered_send = @ + Len(bytes)]

LEMMA StoredHolds ==
  ASSUME NEW st, IsStream(st), NEW a \in Nat, NEW n \in Nat
  PROVE  LET su == Stored(st, Run(a, a + n))
         IN  /\ \A k \in Nat : Holds(st, k, a) => Holds(su, k, a + n)
             /\ su.send_buffer = Longer(st.send_buffer, Run(a, a + n))
             /\ su.buffered_send = st.buffered_send + n
             /\ su.pending_open = st.pending_open
             /\ (\E k \in Nat : Holds(st, k, a)) => IsStream(su)
<1> DEFINE bytes == Run(a, a + n)
           su == Stored(st, bytes)
<1>1. a + n \in Nat /\ a <= a + n /\ Len(bytes) = n BY RunFacts
<1> HIDE DEF bytes
<1>2. /\ su.send_buffer = Longer(st.send_buffer, bytes)
      /\ su.buffered_send = st.buffered_send + n /\ su.pending_open = st.pending_open
    BY <1>1 DEF Stored, IsStream, StreamState
<1>3. st.send_buffer \in Seq(Seq(Nat)) /\ st.buffered_send \in Nat BY DEF IsStream, StreamState
<1>4. ASSUME NEW k \in Nat, Holds(st, k, a)
      PROVE  Holds(su, k, a + n) /\ su.send_buffer \in Seq(Seq(Nat))
  <2> DEFINE b == st.send_buffer
             u == a + n
             l == Longer(b, bytes)
  <2>1. Chunks(b, Len(b), k, a) /\ st.buffered_send = a - k BY <1>4 DEF Holds
  <2>2. l \in Seq(Seq(Nat)) /\ Chunks(l, Len(l), k, u) BY <1>1, <1>3, <2>1, ChunkAdded DEF bytes
  <2>3. (a - k) + n = (a + n) - k OBVIOUS
  <2> QED BY <1>2, <2>1, <2>2, <2>3 DEF Holds
<1>5. ASSUME NEW k \in Nat, Holds(st, k, a) PROVE IsStream(su)
  <2>1. su.send_buffer \in Seq(Seq(Nat)) BY <1>4, <1>5
  <2>2. su.buffered_send \in Nat BY <1>2, <1>3
  <2> DEFINE l == Longer(st.send_buffer, bytes)
             v == st.buffered_send + n
  <2>3. su = [st EXCEPT !.send_buffer = l, !.buffered_send = v]
      BY <1>1 DEF Stored, IsStream, StreamState
  <2>4. l \in Seq(Seq(Nat)) /\ v \in Nat BY <1>2, <2>1, <2>2
  <2> HIDE DEF l, v, su
  <2> QED BY <2>3, <2>4 DEF IsStream, StreamState
<1> QED BY <1>2, <1>4, <1>5 DEF bytes

\* Only one stretch of bytes is Run(a, b).
LEMMA RunOnce ==
  ASSUME NEW a \in Nat, NEW b \in Nat, a < b, NEW c \in Nat, NEW d \in Nat, c <= d, Run(a, b) = Run(c, d)
  PROVE  a = c /\ b = d
<1>0. a <= b OBVIOUS
<1>1. Len(Run(a, b)) = b - a /\ Len(Run(c, d)) = d - c BY <1>0, RunFacts
<1>2. b - a = d - c /\ 1 \in 1..(b - a) /\ 1 \in 1..(d - c) BY <1>1
<1>3. Run(a, b)[1] = a + 1 /\ Run(c, d)[1] = c + 1 BY <1>0, <1>2, RunFacts
<1> QED BY <1>2, <1>3

\* The buffer is what a write just put there.
LEMMA StoredAlone ==
  ASSUME NEW st, IsStream(st), st.send_buffer = <<>>, NEW a \in Nat, NEW v \in Nat, a < v,
         NEW k \in Nat, NEW t \in Nat, Holds(Stored(st, Run(a, v)), k, t)
  PROVE  k = a /\ t = v
<1> DEFINE bytes == Run(a, v)
           l == <<bytes>>
<1>1. bytes # <<>>
  <2>1. a <= v /\ a # v OBVIOUS
  <2> QED BY <2>1, EmptyRun
<1>2. Longer(<<>>, bytes) = l
  <2>1. Append(<<>>, bytes) = <<bytes>> OBVIOUS
  <2> QED BY <1>1, <2>1 DEF Longer
<1>3. Stored(st, bytes).send_buffer = l
  <2>1. Stored(st, Run(a, v)).send_buffer = Longer(st.send_buffer, Run(a, v))
      BY DEF Stored, IsStream, StreamState
  <2> HIDE DEF l
  <2> QED BY <1>2, <2>1
<1>4. Len(l) = 1 /\ l[1] = bytes BY OneIsSeq
<1> HIDE DEF l
<1>5. Carries(l, 1, k, t) BY <1>3, <1>4 DEF Holds, Chunks
<1>6. PICK c : Cuts(c, l, 1, k, t) BY <1>5 DEF Carries
<1>7. 1 \in 1..1 /\ 1 - 1 = 0 OBVIOUS
<1>8. k <= t /\ l[1] = Run(k, t)
  <2>1. c[1 - 1] <= c[1] /\ l[1] = Run(c[1 - 1], c[1]) /\ c[0] = k /\ c[1] = t BY <1>6, <1>7 DEF Cuts
  <2> QED BY <1>7, <2>1
<1>9. Run(a, v) = Run(k, t) BY <1>4, <1>8
<1> QED BY <1>8, <1>9, RunOnce

LEMMA SendBytesAlters ==
  ASSUME NEW y, Typed(y), NEW s \in Ids, y.streams[s] # None, Settled(y, s),
         NEW a \in Nat, NEW n \in Nat, NEW j0, Sends(y, s, j0, a)
  PROVE  LET z == SendBytes(y, s, Run(a, a + n))
         IN  /\ Alters(y, z, s, a, a + n, <<>>)
             /\ SynFirst(y, s) => SynFirst(z, s)
             /\ HasSyn(z, s) => HasSyn(y, s)
             /\ \A x \in Ids : Settled(y, x) => Settled(z, x)
<1> DEFINE bytes == Run(a, a + n)
           st    == y.streams[s]
           i     == Immediate(st, bytes)
           rest  == SubSeq(bytes, i + 1, Len(bytes))
           st1   == [st EXCEPT !.send_window = @ - i,
                               !.send_buffer = IF rest = <<>> THEN @ ELSE Append(@, rest),
                               !.buffered_send = @ + Len(rest)]
           y1    == [SetStream(y, s, st1) EXCEPT !.total_buffered_send = @ + Len(rest)]
           fr    == DataFrames(s, st, SubSeq(bytes, 1, i))
           none  == i = 0 /\ ~(bytes = <<>> /\ st.pending_open # None)
           z     == IF none THEN y1 ELSE QueueFrames(SetStream(y1, s, OpenFlagTaken(st1)), fr)
           stored == Stored(st, bytes)
           x     == SetStream(y, s, stored)
<1>1. SendBytes(y, s, bytes) = z BY DEF SendBytes
<1>2. IsStream(st) BY DEF Typed
<1>3. PICK k0 \in Nat : Holds(st, k0, a) BY DEF Sends
<1>4. /\ st.send_window \in Nat /\ st.send_buffer \in Seq(Seq(Nat)) /\ st.buffered_send \in Nat
    BY <1>2 DEF IsStream, StreamState
<1>5. Len(bytes) = n /\ a + n \in Nat /\ a <= a + n BY RunFacts
<1>6. i \in Nat /\ i <= n /\ i <= st.send_window /\ a + i <= a + n /\ a + i \in Nat /\ (i = 0 \/ st.send_window > 0)
    BY <1>4, <1>5 DEF Immediate, Smaller
<1>61. i < n => i = st.send_window BY <1>4, <1>5 DEF Immediate, Smaller
<1> HIDE DEF i
<1>7. SubSeq(bytes, 1, i) = Run(a, a + i) /\ rest = Run(a + i, a + n) BY <1>5, <1>6, RunCut
<1>8. Len(rest) = n - i
  <2>1. Len(Run(a + i, a + n)) = (a + n) - (a + i) BY <1>5, <1>6, RunFacts
  <2> QED BY <1>5, <1>6, <1>7, <2>1
<1> HIDE DEF rest
<1>9. ASSUME NEW k \in Nat, i > 0 => k = a
      PROVE  /\ IsSeq(fr) /\ Len(fr) \in Nat /\ Len(fr) > 0
             /\ \A r \in 1..Len(fr) :
                    /\ IsFrame(fr[r]) /\ fr[r].stream = s
                    /\ "SYN" \in fr[r].flags => r = 1 /\ st.pending_open = "SYN"
             /\ Carries(WireParts(fr, s), Len(fr), k, k + i)
  <2> DEFINE u == k + i
  <2>1. u \in Nat /\ k <= u BY <1>6
  <2>2. SubSeq(bytes, 1, i) = Run(k, u)
    <3>1. CASE i > 0 BY <1>7, <1>9, <3>1
    <3>2. CASE i = 0
      <4>1. a + i = a /\ u = k BY <3>2
      <4>2. Run(a, a) = <<>> /\ Run(k, k) = <<>> BY EmptyRun
      <4> QED BY <1>7, <4>1, <4>2
    <3> QED BY <1>6, <3>1, <3>2
  <2>3. fr = DataFrames(s, st, Run(k, u)) BY <2>2
  <2> HIDE DEF u, fr, st
  <2>4. /\ IsSeq(fr) /\ Len(fr) \in Nat /\ Len(fr) > 0
        /\ \A r \in 1..Len(fr) :
              /\ IsFrame(fr[r]) /\ fr[r].stream = s
              /\ "SYN" \in fr[r].flags => r = 1 /\ st.pending_open = "SYN"
        /\ Carries(WireParts(fr, s), Len(fr), k, u)
    <3>1. LET f == DataFrames(s, st, Run(k, u))
          IN  /\ IsSeq(f) /\ Len(f) \in Nat /\ Len(f) > 0
              /\ \A r \in 1..Len(f) :
                    /\ IsFrame(f[r]) /\ f[r].stream = s
                    /\ "SYN" \in f[r].flags => r = 1 /\ st.pending_open = "SYN"
              /\ Carries(WireParts(f, s), Len(f), k, u)
        BY <1>2, <2>1, DataFramesCarry
    <3> QED BY <2>3, <3>1
  <2> QED BY <2>4 DEF u
<1> HIDE DEF fr
<1>10. i > 0 => st.send_buffer = <<>> BY <1>6 DEF Settled
<1>11. /\ st1.send_buffer = Longer(st.send_buffer, rest) /\ st1.buffered_send = st.buffered_send + (n - i)
       /\ st1.pending_open = st.pending_open /\ st1.send_window = st.send_window - i
       /\ st1 = [st EXCEPT !.send_window = st.send_window - i,
                           !.send_buffer = Longer(st.send_buffer, rest),
                           !.buffered_send = st.buffered_send + (n - i)]
  <2> HIDE DEF st
  <2> QED BY <1>2, <1>8 DEF Longer, IsStream, StreamState
<1> HIDE DEF st1
<1>12. /\ IsStream(stored) /\ stored.send_buffer = Longer(st.send_buffer, bytes)
       /\ stored.buffered_send = st.buffered_send + n /\ stored.pending_open = st.pending_open
       /\ \A k \in Nat : Holds(st, k, a) => Holds(stored, k, a + n)
  <2> HIDE DEF st
  <2> QED BY <1>2, <1>3, StoredHolds
<1> HIDE DEF stored
<1>13. i > 0 => st.buffered_send = 0
  <2>1. SUFFICES ASSUME i > 0 PROVE st.buffered_send = 0 OBVIOUS
  <2>2. st.send_buffer = <<>> /\ Len(<<>>) = 0 BY <1>10, <2>1
  <2>3. Carries(<<>>, 0, k0, a) BY <1>3, <2>2 DEF Holds, Chunks
  <2>4. PICK c : Cuts(c, <<>>, 0, k0, a) BY <2>3 DEF Carries
  <2>5. k0 = a BY <2>4 DEF Cuts
  <2> QED BY <1>3, <2>5 DEF Holds
<1>14. ASSUME NEW k \in Nat, NEW t \in Nat, Holds(stored, k, t)
       PROVE  /\ i > 0 => k = a
              /\ k + i \in Nat /\ k + i <= t
              /\ Holds(st1, k + i, t)
              /\ st1.send_buffer \in Seq(Seq(Nat))
  <2>1. CASE i = 0
    <3>1. a + i = a /\ k + i = k /\ n - i = n BY <1>6, <2>1
    <3>2. rest = bytes BY <1>7, <3>1
    <3>3. st1.send_buffer = stored.send_buffer /\ st1.buffered_send = stored.buffered_send
        BY <1>11, <1>12, <3>1, <3>2
    <3>4. k <= t BY <1>12, <1>14, HoldsBounds
    <3>5. stored.send_buffer \in Seq(Seq(Nat)) BY <1>12 DEF IsStream, StreamState
    <3>6. Holds(st1, k, t) BY <1>14, <3>3 DEF Holds
    <3> QED BY <2>1, <3>1, <3>3, <3>4, <3>5, <3>6
  <2>2. CASE i > 0
    <3>1. n > 0 BY <1>6, <2>2
    <3>2. k = a /\ t = a + n
      <4> HIDE DEF st
      <4>1. st.send_buffer = <<>> BY <1>10, <2>2
      <4>2. Holds(Stored(st, Run(a, a + n)), k, t) BY <1>14 DEF stored
      <4> DEFINE u == a + n
      <4>3. u \in Nat /\ a < u BY <3>1
      <4>4. Holds(Stored(st, Run(a, u)), k, t) BY <4>2
      <4> HIDE DEF u
      <4>5. k = a /\ t = u BY <1>2, <4>1, <4>3, <4>4, StoredAlone
      <4> QED BY <4>5 DEF u
    <3> DEFINE m == a + i
               u == a + n
               b == <<>>
    <3>3. m \in Nat /\ u \in Nat /\ m <= u BY <1>6
    <3>4. b \in Seq(Seq(Nat)) /\ Len(b) = 0 OBVIOUS
    <3>5. rest = Run(m, u) /\ st1.send_buffer = Longer(b, rest) BY <1>7, <1>10, <1>11, <2>2
    <3> HIDE DEF m, u, b
    <3>6. Chunks(b, Len(b), m, m)
      <4>1. 1..Len(b) = {} /\ Len(b) \in Nat BY <3>4
      <4>2. Carries(b, Len(b), m, m) BY <3>3, <4>1, CarriesNothing
      <4> QED BY <4>1, <4>2 DEF Chunks
    <3>7. st1.send_buffer \in Seq(Seq(Nat)) /\ Chunks(st1.send_buffer, Len(st1.send_buffer), m, u)
        BY <3>3, <3>4, <3>5, <3>6, ChunkAdded
    <3>8. st1.buffered_send = u - m BY <1>6, <1>11, <1>13, <2>2 DEF u, m
    <3>9. Holds(st1, m, u) BY <3>7, <3>8 DEF Holds
    <3> QED BY <3>2, <3>3, <3>7, <3>9 DEF m, u
  <2> QED BY <1>6, <2>1, <2>2
<1>15. IsStream(st1)
  <2>1. Holds(stored, k0, a + n) BY <1>3, <1>12
  <2>2. st1.send_buffer \in Seq(Seq(Nat)) BY <1>5, <1>14, <2>1
  <2> DEFINE w == st.send_window - i
             b == Longer(st.send_buffer, rest)
             v == st.buffered_send + (n - i)
  <2>3. w \in Nat /\ v \in Nat BY <1>4, <1>6
  <2>4. b \in Seq(Seq(Nat)) /\ st1 = [st EXCEPT !.send_window = w, !.send_buffer = b, !.buffered_send = v]
      BY <1>11, <2>2
  <2> HIDE DEF w, b, v, st
  <2> QED BY <1>2, <2>3, <2>4 DEF IsStream, StreamState
<1>16. /\ DOMAIN y1 = DOMAIN y /\ y1.role = y.role /\ y1.next_stream_id = y.next_stream_id
       /\ y1.pending = y.pending /\ y1.streams = [y.streams EXCEPT ![s] = st1]
    BY DEF SetStream, Typed
<1> HIDE DEF y1
<1>17. Typed(y1) BY <1>15, <1>16 DEF Typed
<1> DEFINE taken == OpenFlagTaken(st1)
           y2 == SetStream(y1, s, taken)
<1>18. /\ IsStream(taken) /\ taken.send_buffer = st1.send_buffer
       /\ taken.buffered_send = st1.buffered_send /\ taken.send_window = st1.send_window
       /\ taken.pending_open # "SYN"
    BY <1>15, TakenFacts
<1> HIDE DEF taken
<1>19. /\ DOMAIN y2 = DOMAIN y /\ y2.role = y.role /\ y2.next_stream_id = y.next_stream_id
       /\ y2.pending = y.pending /\ y2.streams = [y.streams EXCEPT ![s] = taken]
    BY <1>16, <1>17 DEF SetStream, Typed
<1> HIDE DEF y2
<1>20. Typed(y2) BY <1>18, <1>19 DEF Typed
<1>21. z = IF none THEN y1 ELSE QueueFrames(y2, fr) BY DEF y2, taken
<1> HIDE DEF z
<1> DEFINE su == IF none THEN st1 ELSE taken
<1>22. \E ext : /\ IsSeq(ext) /\ z.pending = y.pending \o ext /\ Len(ext) \in Nat
                /\ IF none THEN Len(ext) = 0
                   ELSE Len(ext) = Len(fr)
                        /\ \A r \in 1..Len(ext) : ext[r].output = "Outbound" /\ ext[r].frame = fr[r]
                /\ DOMAIN z = DOMAIN y /\ z.role = y.role /\ z.next_stream_id = y.next_stream_id
                /\ z.streams = [y.streams EXCEPT ![s] = su]
  <2>1. CASE none
    <3>1. z = y1 /\ su = st1 BY <1>21, <2>1
    <3>2. IsSeq(<<>>) /\ Len(<<>>) = 0 /\ y.pending = y.pending \o <<>> BY NothingAdded
    <3> HIDE DEF none
    <3> QED BY <1>16, <2>1, <3>1, <3>2
  <2>2. CASE ~none
    <3>1. z = QueueFrames(y2, fr) /\ su = taken BY <1>21, <2>2
    <3>2. IsSeq(fr) BY <1>9
    <3>3. PICK ext : /\ Outputs(y2, z, ext)
                     /\ Len(ext) = Len(fr) /\ Len(ext) \in Nat
                     /\ \A r \in 1..Len(ext) : ext[r].output = "Outbound" /\ ext[r].frame = fr[r]
        BY <1>20, <3>1, <3>2, QueueFramesIs
    <3> HIDE DEF none
    <3> QED BY <1>19, <2>2, <3>1, <3>3 DEF Outputs
  <2> QED BY <2>1, <2>2
<1>23. PICK ext : /\ IsSeq(ext) /\ z.pending = y.pending \o ext /\ Len(ext) \in Nat
                  /\ IF none THEN Len(ext) = 0
                     ELSE Len(ext) = Len(fr)
                          /\ \A r \in 1..Len(ext) : ext[r].output = "Outbound" /\ ext[r].frame = fr[r]
                  /\ DOMAIN z = DOMAIN y /\ z.role = y.role /\ z.next_stream_id = y.next_stream_id
                  /\ z.streams = [y.streams EXCEPT ![s] = su]
    BY <1>22, Zenon
<1>24. /\ IsStream(su) /\ su.send_buffer = st1.send_buffer /\ su.buffered_send = st1.buffered_send
       /\ su.send_window = st1.send_window
       /\ su.pending_open = "SYN" => none /\ st.pending_open = "SYN"
  <2> HIDE DEF none, st
  <2> QED BY <1>11, <1>15, <1>18
<1>25. none => i = 0 OBVIOUS
<1> HIDE DEF su, none
\* First everything is stored ...
<1>26. /\ Alters(y, x, s, a, a + n, <<>>) /\ x.streams[s] = stored /\ stored # None
       /\ SynFirst(y, s) => SynFirst(x, s)
       /\ HasSyn(x, s) => HasSyn(y, s)
    BY <1>5, <1>12, BufferAlters
<1>27. Typed(x) BY <1>26 DEF Alters
<1>28. /\ DOMAIN x = DOMAIN y /\ x.role = y.role /\ x.next_stream_id = y.next_stream_id
       /\ x.pending = y.pending /\ [x.streams EXCEPT ![s] = su] = [y.streams EXCEPT ![s] = su]
    BY DEF SetStream, Typed
<1> HIDE DEF x
\* ... and then the first i bytes leave.
<1>29. FramesOf(ext, s, x.streams[s])
  <2>1. CASE none
    <3>1. 1..Len(ext) = {} BY <1>23, <2>1
    <3> QED BY <3>1 DEF FramesOf
  <2>2. CASE ~none
    <3>1. \A r \in 1..Len(fr) :
              /\ IsFrame(fr[r]) /\ fr[r].stream = s
              /\ "SYN" \in fr[r].flags => r = 1 /\ st.pending_open = "SYN"
        BY <1>9
    <3>2. x.streams[s].pending_open = st.pending_open BY <1>12, <1>26
    <3> HIDE DEF st
    <3> QED BY <1>23, <2>2, <3>1, <3>2 DEF FramesOf
  <2> QED BY <2>1, <2>2
<1>30. TakesFrom(ext, s, stored, su)
  <2> SUFFICES ASSUME NEW k \in Nat, NEW t \in Nat, Holds(stored, k, t)
               PROVE  \E m \in Nat : Carries(OutParts(ext, s), Len(ext), k, m) /\ m <= t /\ Holds(su, m, t)
      BY DEF TakesFrom
  <2> DEFINE m == k + i
  <2>1. (i > 0 => k = a) /\ m \in Nat /\ m <= t /\ Holds(st1, m, t) BY <1>14
  <2>2. Holds(su, m, t) BY <1>24, <2>1 DEF Holds
  <2>3. Carries(OutParts(ext, s), Len(ext), k, m)
    <3>1. CASE none
      <4>1. 1..Len(ext) = {} /\ Len(ext) \in Nat /\ m = k BY <1>23, <1>25, <3>1
      <4> QED BY <4>1, CarriesNothing
    <3>2. CASE ~none
      <4>1. Carries(WireParts(fr, s), Len(fr), k, m) BY <1>9, <2>1
      <4>2. Len(ext) = Len(fr) /\ \A r \in 1..Len(fr) : OutParts(ext, s)[r] = WireParts(fr, s)[r]
          BY <1>23, <3>2 DEF OutParts, OutPart, WireParts
      <4>3. Len(fr) \in Nat BY <1>23, <3>2
      <4> QED BY <4>1, <4>2, <4>3, CarriesSame
    <3> QED BY <3>1, <3>2
  <2> HIDE DEF m
  <2> QED BY <2>1, <2>2, <2>3
<1>31. su.pending_open = "SYN" => x.streams[s].pending_open = "SYN" /\ Len(ext) = 0
    BY <1>12, <1>23, <1>24, <1>26
<1>32. Keeps(x, z)
  <2>1. z.pending = x.pending \o ext /\ z.streams = [x.streams EXCEPT ![s] = su] BY <1>23, <1>28
  <2>2. TakesFrom(ext, s, x.streams[s], su) BY <1>26, <1>30
  <2>3. DOMAIN z = DOMAIN x /\ z.role = x.role /\ z.next_stream_id = x.next_stream_id BY <1>23, <1>28
  <2> QED BY <1>23, <1>24, <1>26, <1>27, <1>29, <1>31, <2>1, <2>2, <2>3, FramesKeep
<1>33. Moves(x, z, s, <<>>) BY <1>27, <1>32, KeepsDrops
<1> DEFINE u == a + n
<1>34. Alters(y, x, s, a, u, <<>>) BY <1>26
<1> HIDE DEF u
<1>35. Alters(y, z, s, a, u, <<>>) BY <1>26, <1>33, <1>34, AltersThenMoves
<1>36. MovesOn(x, z, s, <<>>) BY <1>33 DEF Moves
<1>37. /\ SynFirst(y, s) => SynFirst(z, s)
       /\ HasSyn(z, s) => HasSyn(y, s)
    BY <1>26, <1>36 DEF MovesOn
<1>38. z.streams[s] = su /\ \A r \in Ids : r # s => z.streams[r] = y.streams[r] BY <1>23 DEF Typed
<1>39. su.send_window = 0 \/ su.send_buffer = <<>>
  <2>1. CASE i < n
    <3>1. su.send_window = 0 BY <1>4, <1>6, <1>61, <1>11, <1>24, <2>1
    <3> QED BY <3>1
  <2>2. CASE i = n
    <3>1. rest = <<>> BY <1>5, <1>7, <2>2, EmptyRun
    <3>2. su.send_buffer = st.send_buffer BY <1>11, <1>24, <3>1 DEF Longer
    <3>3. CASE st.send_buffer = <<>> BY <3>2, <3>3
    <3>4. CASE st.send_buffer # <<>>
      <4>1. st.send_window = 0 BY <3>4 DEF Settled
      <4> QED BY <1>6, <1>11, <1>24, <4>1
    <3> QED BY <3>3, <3>4
  <2> QED BY <1>6, <2>1, <2>2
<1>40. \A r \in Ids : Settled(y, r) => Settled(z, r) BY <1>38, <1>39 DEF Settled
<1>41. /\ Alters(y, z, s, a, a + n, <<>>)
       /\ SynFirst(y, s) => SynFirst(z, s)
       /\ HasSyn(z, s) => HasSyn(y, s)
       /\ \A r \in Ids : Settled(y, r) => Settled(z, r)
    BY <1>35, <1>37, <1>40 DEF u
<1> QED BY <1>1, <1>41

-----------------------------------------------------------------------------
(* The calls of a host, as far as the bytes of stream s are concerned. *)

HostMoves(y, z, s, a, b) ==
    /\ a <= b /\ (y.streams[s] = None => a = b)
    /\ z.streams[s] # None => y.streams[s] # None
    /\ \A j : Sends(y, s, j, a) => Sends(z, s, j, b)
    /\ \A g, h : Hears(y, s, g, h) =>
            \E c \in Nat : Hears(z, s, g, c) /\ c <= h /\ (z.streams[s] # None => c = h)
    /\ SynFirst(y, s) => SynFirst(z, s)
    /\ HasSyn(z, s) => HasSyn(y, s)
    /\ Quiet(y, s) => Quiet(z, s)

LEMMA MovesOnHost ==
  ASSUME NEW y, Typed(y), NEW z, NEW s, MovesOn(y, z, s, <<>>), NEW a \in Nat
  PROVE  HostMoves(y, z, s, a, a)
<1>1. ASSUME NEW g, NEW h, Hears(y, s, g, h)
      PROVE  \E c \in Nat : Hears(z, s, g, c) /\ c <= h /\ (z.streams[s] # None => c = h)
  <2>1. h \in Nat BY <1>1, HearsBounds
  <2>2. <<>> = Run(h, h) BY <2>1, EmptyRun
  <2> QED BY <1>1, <2>1, <2>2 DEF MovesOn
<1> QED BY <1>1 DEF MovesOn, HostMoves

LEMMA KeepsHost ==
  ASSUME NEW y, Typed(y), NEW z, Keeps(y, z), NEW s \in Ids, NEW a \in Nat
  PROVE  HostMoves(y, z, s, a, a)
<1>1. MovesOn(y, z, s, <<>>)
  <2>1. s # 0 BY IdsFacts
  <2> QED BY <2>1 DEF Keeps, Moves
<1> QED BY <1>1, MovesOnHost

LEMMA AltersHost ==
  ASSUME NEW y, Typed(y), NEW z, NEW s \in Ids, NEW a \in Nat, NEW b \in Nat, a <= b, y.streams[s] # None,
         Alters(y, z, s, a, b, <<>>), SynFirst(y, s) => SynFirst(z, s), HasSyn(z, s) => HasSyn(y, s)
  PROVE  HostMoves(y, z, s, a, b)
<1>1. ASSUME NEW g, NEW h, Hears(y, s, g, h)
      PROVE  \E c \in Nat : Hears(z, s, g, c) /\ c <= h /\ (z.streams[s] # None => c = h)
  <2>1. h \in Nat BY <1>1, HearsBounds
  <2>2. <<>> = Run(h, h) BY <2>1, EmptyRun
  <2> QED BY <1>1, <2>1, <2>2 DEF Alters
<1>2. \A j : Sends(y, s, j, a) => Sends(z, s, j, b) BY DEF Alters
<1>3. ~Quiet(y, s) BY DEF Quiet
<1> QED BY <1>1, <1>2, <1>3 DEF HostMoves

LEMMA CloseWriteStatus ==
  ASSUME NEW y, IsSession(y), NEW s PROVE SameStatus(y, CloseWrite(y, s))
<1> DEFINE st   == y.streams[s]
           fin  == DataFrame(s, OpenFlag(st) \cup {"FIN"}, <<>>)
           shut == [OpenFlagTaken(st) EXCEPT !.local_write_closed = TRUE]
           y0   == SetStream(y, s, shut)
           y1   == QueueFrames(y0, <<fin>>)
           y2   == SetStream(y, s, [st EXCEPT !.close_pending = TRUE])
<1>1. CloseWrite(y, s) \in {y, y2, y1, RemoveStream(y1, s, TRUE)} BY DEF CloseWrite, QueueFrame
<1> HIDE DEF shut, fin
<1>2. SameStatus(y, y) BY DEF SameStatus
<1>3. SameStatus(y, y2) BY PartsStatus
<1>4. SameStatus(y, y0) /\ IsSession(y0) BY PartsStatus
<1> HIDE DEF y0, y2
<1>5. SameStatus(y0, y1) /\ IsSession(y1) BY <1>4, PartsStatus
<1> HIDE DEF y1
<1>6. SameStatus(y, y1) BY <1>4, <1>5, StatusThen
<1>7. SameStatus(y, RemoveStream(y1, s, TRUE)) BY <1>5, <1>6, RemoveStreamStatus, StatusThen
<1> QED BY <1>1, <1>2, <1>3, <1>6, <1>7

LEMMA ResetStatus ==
  ASSUME NEW y, IsSession(y), NEW s PROVE SameStatus(y, Reset(y, s))
<1> DEFINE y1 == RemoveStream(y, s, FALSE)
           y2 == QueueFrames(y1, <<DataFrame(s, {"RST"}, <<>>)>>)
           y3 == Notify(y2, Notice("StreamClosed", s))
<1>1. Reset(y, s) = y3 BY DEF Reset, QueueFrame
<1>2. SameStatus(y, y1) /\ IsSession(y1) BY RemoveStreamStatus
<1> HIDE DEF y1
<1>3. SameStatus(y1, y2) /\ IsSession(y2) BY <1>2, PartsStatus
<1> HIDE DEF y2
<1>4. SameStatus(y2, y3) BY <1>3, PartsStatus
<1> HIDE DEF y3
<1> QED BY <1>1, <1>2, <1>3, <1>4, StatusThen

LEMMA PollStatus ==
  ASSUME NEW y, IsSession(y), NEW t PROVE SameStatus(y, Poll(y, t))
<1> DEFINE last == IF y.dirty \/ y.last_activity = None THEN t ELSE y.last_activity
           y1 == [y EXCEPT !.last_activity = last, !.dirty = FALSE]
           y2 == QueueFrames(y1, <<PingFrame("SYN")>>)
           y3 == [y2 EXCEPT !.last_activity = t, !.dirty = FALSE]
<1>1. Poll(y, t) \in {y1, y3} BY DEF Poll, QueueFrame
<1> HIDE DEF last
<1>2. SameStatus(y, y1) /\ IsSession(y1) BY DEF SameStatus, IsSession
<1> HIDE DEF y1
<1>3. SameStatus(y1, y2) /\ IsSession(y2) BY <1>2, PartsStatus
<1> HIDE DEF y2
<1>4. SameStatus(y2, y3) BY <1>3 DEF SameStatus, IsSession
<1> HIDE DEF y3
<1> QED BY <1>1, <1>2, <1>3, <1>4, StatusThen

LEMMA SendBytesStatus ==
  ASSUME NEW y, IsSession(y), NEW s, NEW bytes PROVE SameStatus(y, SendBytes(y, s, bytes))
<1> DEFINE st   == y.streams[s]
           n    == Immediate(st, bytes)
           rest == SubSeq(bytes, n + 1, Len(bytes))
           st1  == [st EXCEPT !.send_window = @ - n,
                              !.send_buffer = IF rest = <<>> THEN @ ELSE Append(@, rest),
                              !.buffered_send = @ + Len(rest)]
           y0   == SetStream(y, s, st1)
           y1   == [y0 EXCEPT !.total_buffered_send = @ + Len(rest)]
           y2   == SetStream(y1, s, OpenFlagTaken(st1))
           y3   == QueueFrames(y2, DataFrames(s, st, SubSeq(bytes, 1, n)))
<1>1. SendBytes(y, s, bytes) \in {y1, y3} BY DEF SendBytes
<1> HIDE DEF n, rest, st1
<1>2. SameStatus(y, y0) /\ IsSession(y0) BY PartsStatus
<1> HIDE DEF y0
<1>3. SameStatus(y0, y1) /\ IsSession(y1) BY <1>2 DEF SameStatus, IsSession
<1> HIDE DEF y1
<1>4. SameStatus(y1, y2) /\ IsSession(y2) BY <1>3, PartsStatus
<1> HIDE DEF y2
<1>5. SameStatus(y2, y3) BY <1>4, PartsStatus
<1> HIDE DEF y3
<1> QED BY <1>1, <1>2, <1>3, <1>4, <1>5, StatusThen

LEMMA RefillStatus ==
  ASSUME NEW y, IsSession(y) PROVE SameStatus(y, Refill(y))
<1> DEFINE deferred == {s \in Open(y) : HasDeferredControl(y.streams[s])}
           s  == CHOOSE x \in deferred : \A z \in deferred : x <= z
           st == y.streams[s]
           v  == Smaller(st.pending_credit, U32_MAX)
           su == [OpenFlagTaken(st) EXCEPT !.pending_credit = @ - v, !.receive_window = @ + v]
           y1 == SetStream(y, s, su)
           y2 == QueueFrames(y1, <<WindowUpdate(s, OpenFlag(st), v)>>)
<1>1. Refill(y) \in {y, y2} BY DEF Refill, MaterializeDeferredControl, QueueFrame
<1> HIDE DEF deferred, s, v, su
<1>2. SameStatus(y, y) BY DEF SameStatus
<1>3. SameStatus(y, y1) /\ IsSession(y1) BY PartsStatus
<1> HIDE DEF y1
<1>4. SameStatus(y1, y2) BY <1>3, PartsStatus
<1> HIDE DEF y2
<1> QED BY <1>1, <1>2, <1>3, <1>4, StatusThen

LEMMA StillOver ==
  ASSUME NEW y, Over(y), NEW z, SameStatus(y, z), \A s \in Ids : z.streams[s] # None => y.streams[s] # None
  PROVE  Over(z)
BY DEF Over, Active, SameStatus

-----------------------------------------------------------------------------
(* The steps of the two ends. *)

LEMMA RolesFacts ==
  /\ \A e \in Roles : Other(e) \in Roles /\ Other(e) # e /\ Other(Other(e)) = e
  /\ \A e, r \in Roles : r = e \/ r = Other(e)
  /\ \A s : Opener(s) \in Roles /\ Acceptor(s) \in Roles /\ Acceptor(s) = Other(Opener(s))
BY DEF Roles, Other, Opener, Acceptor

LEMMA RolesCross ==
  ASSUME NEW e \in Roles, NEW s
  PROVE  /\ Opener(s) \in Roles /\ Acceptor(s) \in Roles
         /\ \/ Opener(s) = e /\ Acceptor(s) = Other(e)
            \/ Opener(s) = Other(e) /\ Acceptor(s) = e
BY DEF Roles, Other, Opener, Acceptor

\* A step of which the other end, the connection and what arrived know nothing.
LEMMA HostStep ==
  ASSUME BytesInv, NEW e \in Roles, NEW z, sess' = [sess EXCEPT ![e] = z],
         wire' = wire, got' = got, now' \in Nat, work' = work,
         accepted' \in [Roles -> [Ids -> Nat]], accepted'[Other(e)] = accepted[Other(e)],
         Typed(z), Over(z), z.role = sess[e].role, z.next_stream_id = sess[e].next_stream_id,
         \A s \in Ids : Settled(z, s) /\ HostMoves(sess[e], z, s, accepted[e][s], accepted'[e][s])
  PROVE  BytesInv'
<1> DEFINE o == Other(e)
           y == sess[e]
<1>1. o \in Roles /\ o # e /\ Other(o) = e /\ \A r \in Roles : r = e \/ r = o BY RolesFacts
<1> HIDE DEF o
<1>2. Other(e) = o BY DEF o
<1>3. EndsTyped BY DEF BytesInv
<1>4. sess'[e] = z /\ sess'[o] = sess[o] /\ DOMAIN sess' = Roles BY <1>1, <1>3 DEF EndsTyped
<1>5. Typed(y) BY <1>3 DEF EndsTyped
<1>6. EndsTyped'
  <2>1. ASSUME NEW r \in Roles
        PROVE  /\ Typed(sess'[r]) /\ Over(sess'[r]) /\ sess'[r].role = r
               /\ sess'[r].next_stream_id # None => Opener(sess'[r].next_stream_id) = r
      BY <1>1, <1>3, <1>4 DEF EndsTyped
  <2> QED BY <1>3, <1>4, <2>1 DEF EndsTyped
<1>7. ASSUME NEW s \in Ids, SynLeft(s)' PROVE SynLeft(s)
  <2>1. Opener(s) \in Roles BY RolesFacts
  <2>2. sess'[Opener(s)].next_stream_id = sess[Opener(s)].next_stream_id BY <1>1, <1>4, <2>1
  <2>3. HasSyn(sess'[Opener(s)], s) => HasSyn(sess[Opener(s)], s) BY <1>1, <1>4, <2>1 DEF HostMoves
  <2> QED BY <1>7, <2>2, <2>3 DEF SynLeft, Unopened
<1>8. ASSUME NEW r \in Roles, NEW s \in Ids PROVE Settled(sess'[r], s)
  <2>1. Settled(sess[r], s) BY DEF BytesInv
  <2> QED BY <1>1, <1>4, <2>1
<1>9. ASSUME NEW s \in Ids PROVE Flow(e, s)'
  <2>1. Flow(e, s) BY DEF BytesInv
  <2>2. PICK g, h, i, j \in Nat :
            /\ got[o][s] = Run(0, g) /\ Hears(sess[o], s, g, h) /\ h <= accepted[e][s]
            /\ Carries(WireParts(wire[e], s), Len(wire[e]), i, j)
            /\ Sends(y, s, j, accepted[e][s])
            /\ sess[o].streams[s] # None => h = i
            /\ SynLeft(s) => h = 0 /\ i = 0
      BY <1>2, <2>1 DEF Flow
  <2>3. HostMoves(y, z, s, accepted[e][s], accepted'[e][s]) OBVIOUS
  <2>4. accepted[e][s] \in Nat /\ accepted'[e][s] \in Nat BY <1>3 DEF EndsTyped
  <2>5. accepted[e][s] <= accepted'[e][s] /\ Sends(z, s, j, accepted'[e][s]) BY <2>2, <2>3 DEF HostMoves
  <2>6. h <= accepted'[e][s] BY <2>2, <2>4, <2>5
  <2>7. /\ got'[o][s] = Run(0, g) /\ Hears(sess'[o], s, g, h)
        /\ Carries(WireParts(wire'[e], s), Len(wire'[e]), i, j)
        /\ Sends(sess'[e], s, j, accepted'[e][s])
        /\ sess'[o].streams[s] # None => h = i
      BY <1>4, <2>2, <2>5
  <2>8. SynLeft(s)' => h = 0 /\ i = 0 BY <1>7, <2>2
  <2> QED BY <1>2, <2>6, <2>7, <2>8 DEF Flow
<1>10. ASSUME NEW s \in Ids PROVE Flow(o, s)'
  <2>1. Flow(o, s) BY <1>1 DEF BytesInv
  <2>2. PICK g, h, i, j \in Nat :
            /\ got[e][s] = Run(0, g) /\ Hears(y, s, g, h) /\ h <= accepted[o][s]
            /\ Carries(WireParts(wire[o], s), Len(wire[o]), i, j)
            /\ Sends(sess[o], s, j, accepted[o][s])
            /\ y.streams[s] # None => h = i
            /\ SynLeft(s) => h = 0 /\ i = 0
      BY <1>1, <2>1 DEF Flow
  <2>3. HostMoves(y, z, s, accepted[e][s], accepted'[e][s]) OBVIOUS
  <2>4. PICK c \in Nat : Hears(z, s, g, c) /\ c <= h /\ (z.streams[s] # None => c = h)
      BY <2>2, <2>3 DEF HostMoves
  <2>5. accepted'[o] = accepted[o] BY <1>2
  <2>6. accepted[o][s] \in Nat BY <1>1, <1>3 DEF EndsTyped
  <2>7. c <= accepted'[o][s] BY <2>2, <2>4, <2>5, <2>6
  <2>8. z.streams[s] # None => c = i BY <2>2, <2>3, <2>4 DEF HostMoves
  <2>9. SynLeft(s)' => c = 0 /\ i = 0 BY <1>7, <2>2, <2>4
  <2>10. /\ got'[e][s] = Run(0, g) /\ Hears(sess'[e], s, g, c)
         /\ Carries(WireParts(wire'[o], s), Len(wire'[o]), i, j)
         /\ Sends(sess'[o], s, j, accepted'[o][s])
         /\ sess'[e].streams[s] # None => c = i
      BY <1>4, <2>2, <2>4, <2>5, <2>8
  <2> QED BY <1>1, <2>7, <2>9, <2>10 DEF Flow
<1>11. ASSUME NEW s \in Ids PROVE SynOnce(s)'
  <2>1. SynOnce(s) BY DEF BytesInv
  <2>2. HostMoves(y, z, s, accepted[e][s], accepted'[e][s]) OBVIOUS
  <2> DEFINE r == Opener(s)
             q == Acceptor(s)
  <2>3. r \in Roles /\ q \in Roles /\ ((r = e /\ q = o) \/ (r = o /\ q = e)) BY <1>2, RolesCross
  <2> HIDE DEF r, q
  <2>4. /\ SynFirst(sess[r], s) => SynFirst(sess'[r], s)
        /\ HasSyn(sess'[r], s) => HasSyn(sess[r], s)
        /\ Quiet(sess[r], s) => Quiet(sess'[r], s)
        /\ sess'[q].streams[s] # None => sess[q].streams[s] # None
        /\ sess'[r].next_stream_id = sess[r].next_stream_id
      BY <1>4, <2>2, <2>3 DEF HostMoves
  <2>5. /\ sess[r].streams[s] = None => accepted'[r][s] = accepted[r][s]
        /\ sess[q].streams[s] = None => accepted'[q][s] = accepted[q][s]
      BY <1>2, <2>2, <2>3 DEF HostMoves
  <2>6. Unopened(s)' => Unopened(s) BY <2>4 DEF Unopened, r
  <2>7. SynFirst(sess'[r], s) BY <2>1, <2>4 DEF SynOnce, r
  <2>8. \A x \in 1..Len(wire'[r]) :
            SynFrame(wire'[r][x], s) => \A w \in 1..(x - 1) : PlainFrame(wire'[r][w], s)
      BY <2>1 DEF SynOnce, r
  <2>9. HasSyn(sess'[r], s) \/ Unopened(s)' => WirePlain(r, s)'
      BY <2>1, <2>4, <2>6 DEF SynOnce, WirePlain, r
  <2>10. Unopened(s)' => Quiet(sess'[r], s) /\ accepted'[r][s] = 0
    <3>1. Unopened(s) => Quiet(sess[r], s) /\ accepted[r][s] = 0 BY <2>1 DEF SynOnce, r
    <3>2. Quiet(sess[r], s) => sess[r].streams[s] = None BY DEF Quiet
    <3> QED BY <2>4, <2>5, <2>6, <3>1, <3>2
  <2>11. SynLeft(s)' => sess'[q].streams[s] = None /\ accepted'[q][s] = 0
    <3>1. SynLeft(s) => sess[q].streams[s] = None /\ accepted[q][s] = 0 BY <2>1 DEF SynOnce, q
    <3> QED BY <1>7, <2>4, <2>5, <3>1
  <2> QED BY <2>7, <2>8, <2>9, <2>10, <2>11 DEF SynOnce, r, q
<1>12. ASSUME NEW r \in Roles, NEW s \in Ids PROVE Flow(r, s)' BY <1>1, <1>9, <1>10
<1> QED BY <1>6, <1>8, <1>11, <1>12 DEF BytesInv

\* A call that moves no bytes.
LEMMA CallStep ==
  ASSUME BytesInv, NEW e \in Roles, NEW z, Becomes(e, z), Keeps(sess[e], z), Calm(sess[e], z), Over(z),
         UNCHANGED <<wire, accepted, got, work>>, now' \in Nat
  PROVE  BytesInv'
<1>1. EndsTyped BY DEF BytesInv
<1>2. Typed(sess[e]) /\ accepted \in [Roles -> [Ids -> Nat]] BY <1>1 DEF EndsTyped
<1>3. Typed(z) /\ z.role = sess[e].role /\ z.next_stream_id = sess[e].next_stream_id BY KeepsTyped
<1>4. \A s \in Ids : Settled(z, s) BY DEF BytesInv, Calm
<1>5. ASSUME NEW s \in Ids PROVE HostMoves(sess[e], z, s, accepted[e][s], accepted'[e][s])
  <2>1. accepted[e][s] \in Nat /\ accepted' = accepted BY <1>2
  <2> QED BY <1>2, <2>1, KeepsHost
<1>6. /\ sess' = [sess EXCEPT ![e] = z] /\ wire' = wire /\ got' = got /\ work' = work
      /\ accepted' \in [Roles -> [Ids -> Nat]] /\ accepted'[Other(e)] = accepted[Other(e)]
    BY <1>2 DEF Becomes
<1> QED BY <1>3, <1>4, <1>5, <1>6, HostStep

LEMMA SessionOf ==
  ASSUME BytesInv, NEW e \in Roles
  PROVE  /\ Typed(sess[e]) /\ Over(sess[e]) /\ IsSession(sess[e])
         /\ accepted \in [Roles -> [Ids -> Nat]] /\ now \in Nat
         /\ \A s \in Ids : Settled(sess[e], s) /\ \E j : Sends(sess[e], s, j, accepted[e][s])
<1>1. EndsTyped BY DEF BytesInv
<1>2. Typed(sess[e]) /\ Over(sess[e]) /\ accepted \in [Roles -> [Ids -> Nat]] /\ now \in Nat BY <1>1 DEF EndsTyped
<1>3. IsSession(sess[e]) BY <1>2 DEF Typed, IsSession
<1>4. \A s \in Ids : Settled(sess[e], s) BY DEF BytesInv
<1>5. ASSUME NEW s \in Ids PROVE \E j : Sends(sess[e], s, j, accepted[e][s])
  <2>1. Flow(e, s) BY DEF BytesInv
  <2> QED BY <2>1 DEF Flow
<1> QED BY <1>2, <1>3, <1>4, <1>5

LEMMA HostClosesStep ==
  ASSUME BytesInv, NEW e \in Roles, NEW s \in Ids, HostCloses(e, s) PROVE BytesInv'
<1> DEFINE y == sess[e]
           z == CloseWrite(y, s)
<1>1. Typed(y) /\ IsSession(y) /\ now \in Nat BY SessionOf
<1>2. Active(y) /\ y.streams[s] # None /\ Becomes(e, z) /\ UNCHANGED <<wire, accepted, got, now, work>>
    BY DEF HostCloses, OnOpenStream
<1>3. Keeps(y, z) /\ Calm(y, z) BY <1>1, <1>2, CloseWriteKeeps
<1>4. Over(z) BY <1>1, <1>2, CloseWriteStatus, StillActive
<1> QED BY <1>1, <1>2, <1>3, <1>4, CallStep

LEMMA HostResetsStep ==
  ASSUME BytesInv, NEW e \in Roles, NEW s \in Ids, HostResets(e, s) PROVE BytesInv'
<1> DEFINE y == sess[e]
           z == Reset(y, s)
<1>1. Typed(y) /\ IsSession(y) /\ now \in Nat BY SessionOf
<1>2. Active(y) /\ Becomes(e, z) /\ UNCHANGED <<wire, accepted, got, now, work>>
    BY DEF HostResets, OnOpenStream
<1>3. Keeps(y, z) /\ Calm(y, z) BY <1>1, ResetKeeps
<1>4. Over(z) BY <1>1, <1>2, ResetStatus, StillActive
<1> QED BY <1>1, <1>2, <1>3, <1>4, CallStep

LEMMA HostGoesAwayStep ==
  ASSUME BytesInv, NEW e \in Roles, HostGoesAway(e) PROVE BytesInv'
<1> DEFINE y == sess[e]
           z == GoAway(y)
<1>1. Typed(y) /\ now \in Nat BY SessionOf
<1>2. Becomes(e, z) /\ UNCHANGED <<wire, accepted, got, now, work>> BY DEF HostGoesAway
<1>3. Keeps(y, z) /\ Calm(y, z) BY <1>1, GoAwayKeeps
<1>4. Over(z) BY DEF Over, GoAway, CloseAllStreams
<1> QED BY <1>1, <1>2, <1>3, <1>4, CallStep

LEMMA HostPollsStep ==
  ASSUME BytesInv, NEW e \in Roles, NEW t \in now..work.MaxNow, HostPolls(e, t) PROVE BytesInv'
<1> DEFINE y == sess[e]
           z == Poll(y, t)
<1>1. Typed(y) /\ IsSession(y) /\ now \in Nat BY SessionOf
<1>2. Active(y) /\ Becomes(e, z) /\ UNCHANGED <<wire, accepted, got, work>> /\ now' = t BY DEF HostPolls
<1>3. Keeps(y, z) /\ Calm(y, z) BY <1>1, PollKeeps
<1>4. Over(z) BY <1>1, <1>2, PollStatus, StillActive
<1>5. now' \in Nat
  <2>1. work \in Workload BY DEF BytesInv, EndsTyped
  <2>2. work.MaxNow \in Nat BY <2>1 DEF Workload
  <2> QED BY <1>1, <1>2, <2>2
<1> QED BY <1>2, <1>3, <1>4, <1>5, CallStep

LEMMA HostSendsStep ==
  ASSUME BytesInv, NEW e \in Roles, NEW s \in Ids, NEW n \in 0..work.MaxSend, HostSends(e, s, n)
  PROVE  BytesInv'
<1> DEFINE y == sess[e]
           a == accepted[e][s]
           b == a + n
           z == SendBytes(y, s, Run(a, b))
<1>1. /\ Typed(y) /\ IsSession(y) /\ now \in Nat /\ accepted \in [Roles -> [Ids -> Nat]]
      /\ Settled(y, s) /\ \E j : Sends(y, s, j, a) /\ \A x \in Ids : Settled(y, x)
    BY SessionOf
<1>2. a \in Nat /\ n \in Nat /\ b \in Nat /\ a <= b
  <2>1. work \in Workload BY DEF BytesInv, EndsTyped
  <2>2. work.MaxSend \in Nat BY <2>1 DEF Workload
  <2> QED BY <1>1, <2>2
<1>3. [i \in 1..n |-> a + i] = Run(a, b)
  <2>1. b - a = n BY <1>2
  <2> QED BY <2>1 DEF Run
<1>4. /\ Active(y) /\ y.streams[s] # None /\ Becomes(e, z) /\ UNCHANGED <<wire, got, now, work>>
      /\ accepted' = [accepted EXCEPT ![e][s] = b]
  <2>1. /\ SendAccepted(y, s, [i \in 1..n |-> a + i]) /\ Becomes(e, SendBytes(y, s, [i \in 1..n |-> a + i]))
        /\ UNCHANGED <<wire, got, now, work>> /\ accepted' = [accepted EXCEPT ![e][s] = @ + n]
      BY DEF HostSends
  <2> QED BY <1>1, <1>3, <2>1 DEF SendAccepted
<1>5. /\ Alters(y, z, s, a, b, <<>>)
      /\ SynFirst(y, s) => SynFirst(z, s)
      /\ HasSyn(z, s) => HasSyn(y, s)
      /\ \A x \in Ids : Settled(y, x) => Settled(z, x)
  <2>1. PICK j : Sends(y, s, j, a) BY <1>1
  <2> HIDE DEF a, y
  <2> QED BY <1>1, <1>2, <1>4, <2>1, SendBytesAlters
<1>6. Over(z) BY <1>1, <1>4, SendBytesStatus, StillActive
<1> HIDE DEF z, b
<1>7. accepted' \in [Roles -> [Ids -> Nat]] /\ accepted'[e][s] = b /\ accepted'[Other(e)] = accepted[Other(e)]
      /\ \A x \in Ids : x # s => accepted'[e][x] = accepted[e][x]
    BY <1>1, <1>2, <1>4, RolesFacts
<1>8. ASSUME NEW x \in Ids PROVE HostMoves(y, z, x, accepted[e][x], accepted'[e][x])
  <2>1. CASE x = s BY <1>1, <1>2, <1>4, <1>5, <1>7, <2>1, AltersHost
  <2>2. CASE x # s
    <3>1. MovesOn(y, z, x, <<>>) BY <1>5, <2>2 DEF Alters
    <3>2. accepted[e][x] \in Nat BY <1>1
    <3> QED BY <1>1, <1>7, <2>2, <3>1, <3>2, MovesOnHost
  <2> QED BY <2>1, <2>2
<1>9. Typed(z) /\ z.role = y.role /\ z.next_stream_id = y.next_stream_id BY <1>5 DEF Alters
<1>10. \A x \in Ids : Settled(z, x) BY <1>1, <1>5
<1>11. sess' = [sess EXCEPT ![e] = z] /\ wire' = wire /\ got' = got /\ work' = work /\ now' \in Nat
    BY <1>1, <1>4 DEF Becomes
<1> QED BY <1>6, <1>7, <1>8, <1>9, <1>10, <1>11, HostStep

\* What is said of a stream is said of its state and of the outputs.
LEMMA SamePart ==
  ASSUME NEW y, NEW z, NEW s, z.pending = y.pending, z.streams[s] = y.streams[s]
  PROVE  /\ \A j, t : Sends(z, s, j, t) <=> Sends(y, s, j, t)
         /\ \A g, h : Hears(z, s, g, h) <=> Hears(y, s, g, h)
         /\ SynFirst(z, s) <=> SynFirst(y, s)
         /\ HasSyn(z, s) <=> HasSyn(y, s)
         /\ Quiet(z, s) <=> Quiet(y, s)
         /\ Settled(z, s) <=> Settled(y, s)
BY DEF Sends, Hears, SynFirst, HasSyn, Quiet, Settled, OpensLater, AllPlain

LEMMA OpenStreamIs ==
  ASSUME NEW y, Typed(y), OpenStreamAccepted(y)
  PROVE  LET z  == OpenStream(y)
             s0 == y.next_stream_id
         IN  /\ s0 \in Ids /\ s0 \in Nat /\ Typed(z) /\ Over(z) /\ z.role = y.role /\ z.pending = y.pending
             /\ z.streams[s0] = NewStream(TRUE, DEFAULT_RECEIVE_WINDOW) /\ z.streams[s0] # None
             /\ \A s \in Ids : s # s0 => z.streams[s] = y.streams[s]
             /\ z.next_stream_id # None => z.next_stream_id = s0 + 2
<1> DEFINE z  == OpenStream(y)
           s0 == y.next_stream_id
           st == NewStream(TRUE, DEFAULT_RECEIVE_WINDOW)
           nx == IF s0 + 2 > U32_MAX THEN None ELSE s0 + 2
<1>1. s0 \in Ids /\ s0 \in Nat /\ Active(y) BY IdsFacts DEF OpenStreamAccepted
<1>2. IsStream(st) BY FreshHolds, YamuxAssumption
<1>3. st # None BY <1>2, YamuxAssumption DEF IsStream
<1> HIDE DEF st
<1>4. z = [y EXCEPT !.streams = [y.streams EXCEPT ![s0] = st], !.next_stream_id = nx]
  <2>1. z = [y EXCEPT !.streams[s0] = st, !.next_stream_id = nx] BY DEF OpenStream, st
  <2> HIDE DEF nx
  <2> QED BY <2>1
<1>5. nx \in Nat \cup {None} /\ (nx # None => nx = s0 + 2) BY <1>1
<1> HIDE DEF nx, z
<1>6. /\ DOMAIN z = DOMAIN y /\ z.role = y.role /\ z.pending = y.pending /\ z.next_stream_id = nx
      /\ z.streams = [y.streams EXCEPT ![s0] = st]
      /\ z.failed = y.failed /\ z.local_go_away = y.local_go_away /\ z.remote_go_away = y.remote_go_away
    BY <1>4 DEF Typed
<1>7. /\ DOMAIN z.streams = Ids /\ z.streams[s0] = st
      /\ \A s \in Ids : s # s0 => z.streams[s] = y.streams[s]
    BY <1>1, <1>6 DEF Typed
<1>8. Typed(z) BY <1>2, <1>5, <1>6, <1>7 DEF Typed
<1>9. Over(z) BY <1>1, <1>6 DEF Over, Active
<1> QED BY <1>1, <1>3, <1>5, <1>6, <1>7, <1>8, <1>9 DEF z, st

LEMMA OpensNext ==
  ASSUME NEW a \in Nat PROVE Opener(a + 2) = Opener(a)
<1>1. (a + 2) % 2 = a % 2 OBVIOUS
<1> QED BY <1>1 DEF Opener

LEMMA HostOpensStep ==
  ASSUME BytesInv, NEW e \in Roles, HostOpens(e) PROVE BytesInv'
<1> DEFINE o == Other(e)
           y == sess[e]
           z == OpenStream(y)
           s0 == y.next_stream_id
<1>1. o \in Roles /\ o # e /\ Other(o) = e /\ \A r \in Roles : r = e \/ r = o BY RolesFacts
<1> HIDE DEF o
<1>2. Other(e) = o BY DEF o
<1>3. EndsTyped BY DEF BytesInv
<1>4. Typed(y) /\ OpenStreamAccepted(y) /\ UNCHANGED <<wire, accepted, got, now, work>>
    BY <1>3 DEF EndsTyped, HostOpens
<1>5. sess' = [sess EXCEPT ![e] = z] BY DEF HostOpens, Becomes
<1>6. /\ s0 \in Ids /\ s0 \in Nat /\ Typed(z) /\ Over(z) /\ z.role = y.role /\ z.pending = y.pending
      /\ z.streams[s0] = NewStream(TRUE, DEFAULT_RECEIVE_WINDOW) /\ z.streams[s0] # None
      /\ \A s \in Ids : s # s0 => z.streams[s] = y.streams[s]
      /\ z.next_stream_id # None => z.next_stream_id = s0 + 2
    BY <1>4, OpenStreamIs
<1> HIDE DEF z
<1>7. sess'[e] = z /\ sess'[o] = sess[o] /\ DOMAIN sess' = Roles BY <1>1, <1>3, <1>5 DEF EndsTyped
<1>8. Opener(s0) = e /\ Acceptor(s0) = o
  <2>1. s0 # None BY <1>6, YamuxAssumption
  <2> QED BY <1>2, <1>3, <2>1 DEF EndsTyped, Acceptor
<1>9. EndsTyped'
  <2>1. z.next_stream_id # None => Opener(z.next_stream_id) = e BY <1>6, <1>8, OpensNext
  <2>2. ASSUME NEW r \in Roles
        PROVE  /\ Typed(sess'[r]) /\ Over(sess'[r]) /\ sess'[r].role = r
               /\ sess'[r].next_stream_id # None => Opener(sess'[r].next_stream_id) = r
    <3>1. CASE r = e
      <4>1. z.role = e BY <1>3, <1>6 DEF EndsTyped
      <4> QED BY <1>6, <1>7, <2>1, <3>1, <4>1
    <3>2. CASE r = o BY <1>1, <1>3, <1>7, <3>2 DEF EndsTyped
    <3> QED BY <1>1, <3>1, <3>2
  <2> QED BY <1>3, <1>4, <1>7, <2>2 DEF EndsTyped
<1>10. /\ Unopened(s0) /\ Quiet(y, s0) /\ accepted[e][s0] = 0 /\ WirePlain(e, s0) /\ SynLeft(s0)
       /\ sess[o].streams[s0] = None /\ accepted[o][s0] = 0
  <2>1. s0 # None /\ s0 <= s0 BY <1>6, YamuxAssumption
  <2>2. Unopened(s0) BY <1>8, <2>1 DEF Unopened
  <2>3. SynLeft(s0) BY <2>2 DEF SynLeft
  <2>4. SynOnce(s0) BY <1>6 DEF BytesInv
  <2> QED BY <1>8, <2>2, <2>3, <2>4 DEF SynOnce
<1> HIDE DEF y, s0
<1>11. y = sess[e] BY DEF y
<1>12. ASSUME NEW s \in Ids, s # s0, NEW r \in Roles
       PROVE  /\ \A j, t : Sends(sess'[r], s, j, t) <=> Sends(sess[r], s, j, t)
              /\ \A g, h : Hears(sess'[r], s, g, h) <=> Hears(sess[r], s, g, h)
              /\ SynFirst(sess'[r], s) <=> SynFirst(sess[r], s)
              /\ HasSyn(sess'[r], s) <=> HasSyn(sess[r], s)
              /\ Quiet(sess'[r], s) <=> Quiet(sess[r], s)
              /\ Settled(sess'[r], s) <=> Settled(sess[r], s)
              /\ sess'[r].streams[s] = sess[r].streams[s]
  <2>1. sess'[r].pending = sess[r].pending /\ sess'[r].streams[s] = sess[r].streams[s]
      BY <1>1, <1>6, <1>7, <1>11, <1>12
  <2> QED BY <2>1, SamePart
<1>13. ASSUME NEW s \in Ids, Unopened(s)' PROVE Unopened(s) /\ s # s0
  <2>1. CASE Opener(s) = e
    <3>1. z.next_stream_id # None /\ z.next_stream_id <= s BY <1>7, <1>13, <2>1 DEF Unopened
    <3>2. s0 + 2 <= s /\ s \in Nat BY <1>6, <3>1, IdsFacts
    <3>3. s0 <= s /\ s # s0 BY <1>6, <3>2
    <3>4. sess[e].next_stream_id # None /\ sess[e].next_stream_id <= s
        BY <1>6, <1>11, <3>3, YamuxAssumption DEF s0
    <3> QED BY <2>1, <3>3, <3>4 DEF Unopened
  <2>2. CASE Opener(s) # e
    <3>1. Opener(s) = o BY <1>1, <2>2, RolesFacts
    <3> QED BY <1>1, <1>7, <1>8, <1>13, <3>1 DEF Unopened
  <2> QED BY <2>1, <2>2
<1>14. ASSUME NEW s \in Ids, SynLeft(s)' PROVE SynLeft(s)
  <2>1. CASE s = s0 BY <1>10, <2>1
  <2>2. CASE s # s0
    <3>1. HasSyn(sess'[Opener(s)], s) <=> HasSyn(sess[Opener(s)], s) BY <1>12, <2>2, RolesFacts
    <3> QED BY <1>4, <1>13, <1>14, <3>1 DEF SynLeft
  <2> QED BY <2>1, <2>2
<1> DEFINE st == NewStream(TRUE, DEFAULT_RECEIVE_WINDOW)
<1>15. Holds(st, 0, 0) /\ st.send_buffer = <<>> BY FreshHolds, YamuxAssumption
<1> HIDE DEF st
<1>16. ASSUME NEW j, Sends(y, s0, j, 0) PROVE Sends(z, s0, j, 0)
  <2>1. PICK k \in Nat : Carries(OutParts(y.pending, s0), Len(y.pending), j, k) /\ k <= 0
      BY <1>16 DEF Sends
  <2>2. k = 0 BY <2>1
  <2>3. Carries(OutParts(z.pending, s0), Len(z.pending), j, k) BY <1>6, <2>1
  <2>4. Holds(z.streams[s0], 0, 0) BY <1>6, <1>15 DEF st
  <2> QED BY <2>1, <2>2, <2>3, <2>4 DEF Sends
<1>17. \A g, h : Hears(z, s0, g, h) <=> Hears(y, s0, g, h) BY <1>6 DEF Hears
<1>18. Settled(z, s0) BY <1>6, <1>15 DEF Settled, st
<1>19. SynFirst(z, s0)
  <2>1. AllPlain(y, s0) BY <1>10 DEF Quiet
  <2>2. AllPlain(z, s0) BY <1>6, <2>1 DEF AllPlain
  <2>3. ASSUME NEW x \in 1..Len(z.pending) PROVE ~SynItem(z.pending[x], s0)
      BY <2>2 DEF AllPlain, PlainItem, SynItem, PlainFrame, SynFrame
  <2> QED BY <2>2, <2>3 DEF SynFirst
<1>20. ASSUME NEW r \in Roles, NEW s \in Ids PROVE Settled(sess'[r], s)
  <2>1. Settled(sess[r], s) BY DEF BytesInv
  <2>2. CASE s = s0 BY <1>1, <1>7, <1>18, <2>1, <2>2
  <2>3. CASE s # s0 BY <1>12, <2>1, <2>3
  <2> QED BY <2>2, <2>3
<1>21. ASSUME NEW r \in Roles, NEW s \in Ids PROVE Flow(r, s)'
  <2> DEFINE q == Other(r)
  <2>1. q \in Roles BY RolesFacts
  <2>2. Flow(r, s) BY DEF BytesInv
  <2>3. PICK g, h, i, j \in Nat :
            /\ got[q][s] = Run(0, g) /\ Hears(sess[q], s, g, h) /\ h <= accepted[r][s]
            /\ Carries(WireParts(wire[r], s), Len(wire[r]), i, j)
            /\ Sends(sess[r], s, j, accepted[r][s])
            /\ sess[q].streams[s] # None => h = i
            /\ SynLeft(s) => h = 0 /\ i = 0
      BY <2>2 DEF Flow
  <2>4. SynLeft(s)' => h = 0 /\ i = 0 BY <1>14, <2>3
  <2>5. Hears(sess'[q], s, g, h)
    <3>1. CASE s # s0 BY <1>12, <2>1, <2>3, <3>1
    <3>2. CASE s = s0 BY <1>1, <1>7, <1>11, <1>17, <2>1, <2>3, <3>2
    <3> QED BY <3>1, <3>2
  <2>6. Sends(sess'[r], s, j, accepted[r][s])
    <3>1. CASE s # s0 BY <1>12, <2>3, <3>1
    <3>2. CASE s = s0 BY <1>1, <1>7, <1>10, <1>11, <1>16, <2>3, <3>2
    <3> QED BY <3>1, <3>2
  <2>7. sess'[q].streams[s] # None => h = i
    <3>1. CASE s # s0 BY <1>12, <2>1, <2>3, <3>1
    <3>2. CASE s = s0 BY <1>10, <2>3, <3>2
    <3> QED BY <3>1, <3>2
  <2>8. /\ got'[q][s] = Run(0, g) /\ h <= accepted'[r][s]
        /\ Carries(WireParts(wire'[r], s), Len(wire'[r]), i, j)
        /\ Sends(sess'[r], s, j, accepted'[r][s])
      BY <1>4, <2>3, <2>6
  <2> QED BY <2>4, <2>5, <2>7, <2>8 DEF Flow
<1>22. ASSUME NEW s \in Ids PROVE SynOnce(s)'
  <2>1. SynOnce(s) BY DEF BytesInv
  <2>2. Opener(s) \in Roles /\ Acceptor(s) \in Roles BY RolesFacts
  <2>3. SynFirst(sess'[Opener(s)], s)
    <3>1. CASE s = s0 BY <1>7, <1>8, <1>19, <3>1
    <3>2. CASE s # s0 BY <1>12, <2>1, <2>2, <3>2 DEF SynOnce
    <3> QED BY <3>1, <3>2
  <2>4. HasSyn(sess'[Opener(s)], s) \/ Unopened(s)' => WirePlain(Opener(s), s)
    <3>1. CASE s = s0 BY <1>8, <1>10, <3>1
    <3>2. CASE s # s0 BY <1>12, <1>13, <2>1, <2>2, <3>2 DEF SynOnce
    <3> QED BY <3>1, <3>2
  <2>5. Unopened(s)' => Quiet(sess'[Opener(s)], s) /\ accepted[Opener(s)][s] = 0
      BY <1>12, <1>13, <2>1, <2>2 DEF SynOnce
  <2>6. SynLeft(s)' => sess'[Acceptor(s)].streams[s] = None /\ accepted[Acceptor(s)][s] = 0
    <3>1. SynLeft(s) => sess[Acceptor(s)].streams[s] = None /\ accepted[Acceptor(s)][s] = 0
        BY <2>1 DEF SynOnce
    <3>2. CASE s = s0 BY <1>7, <1>8, <1>10, <3>2
    <3>3. CASE s # s0 BY <1>12, <1>14, <2>2, <3>1, <3>3
    <3> QED BY <3>2, <3>3
  <2>7. WirePlain(Opener(s), s)' <=> WirePlain(Opener(s), s) BY <1>4 DEF WirePlain
  <2> QED BY <1>4, <2>1, <2>3, <2>4, <2>5, <2>6, <2>7 DEF SynOnce
<1> QED BY <1>9, <1>20, <1>21, <1>22 DEF BytesInv

-----------------------------------------------------------------------------
(* The outputs are taken one by one. *)

LEMMA TailFacts ==
  ASSUME NEW p, IsSeq(p), p # <<>>
  PROVE  /\ IsSeq(Tail(p)) /\ Len(p) \in Nat /\ Len(p) > 0 /\ Len(Tail(p)) = Len(p) - 1 /\ Head(p) = p[1]
         /\ \A x \in 1..(Len(p) - 1) : Tail(p)[x] = p[x + 1]
<1>1. PICK X : p \in Seq(X) BY DEF IsSeq
<1>2. Tail(p) \in Seq(X) BY <1>1
<1> QED BY <1>1, <1>2 DEF IsSeq

LEMMA LastAdded ==
  ASSUME NEW p, IsSeq(p), NEW f
  PROVE  /\ IsSeq(Append(p, f)) /\ Len(p) \in Nat /\ Len(Append(p, f)) = Len(p) + 1
         /\ Append(p, f)[Len(p) + 1] = f
         /\ \A x \in 1..Len(p) : Append(p, f)[x] = p[x]
<1>1. PICK X : p \in Seq(X) BY DEF IsSeq
<1> DEFINE Y == X \cup {f}
<1>2. p \in Seq(Y) /\ f \in Y BY <1>1
<1> HIDE DEF Y
<1>3. Append(p, f) \in Seq(Y) BY <1>2
<1> QED BY <1>2, <1>3 DEF IsSeq

\* The first output of y is taken, and z is left.
Popped(y, z, head, s) ==
    /\ \A j, t : Sends(y, s, j, t) =>
            \E d \in Nat : j <= d /\ OutPart(head, s) = Run(j, d) /\ Sends(z, s, d, t)
    /\ \A g, h : Hears(y, s, g, h) =>
            \E d \in Nat : g <= d /\ d <= h /\ InPart(head, s) = Run(g, d) /\ Hears(z, s, d, h)
    /\ SynFirst(y, s) => SynFirst(z, s)
    /\ SynFirst(y, s) /\ HasSyn(z, s) => PlainItem(head, s)
    /\ HasSyn(z, s) => HasSyn(y, s)
    /\ SynItem(head, s) => HasSyn(y, s)
    /\ Quiet(y, s) => Quiet(z, s) /\ PlainItem(head, s)

LEMMA PopIs ==
  ASSUME NEW y, Typed(y), NEW z, z.streams = y.streams, y.pending # <<>>, z.pending = Tail(y.pending), NEW s
  PROVE  Popped(y, z, Head(y.pending), s)
<1> DEFINE p == y.pending
           t0 == z.pending
           n == Len(p)
           m == n - 1
           head == Head(p)
<1>1. IsSeq(p) BY DEF Typed
<1>2. /\ n \in Nat /\ n > 0 /\ m \in Nat /\ Len(t0) = m /\ head = p[1]
      /\ \A x \in 1..m : t0[x] = p[x + 1]
    BY <1>1, TailFacts
<1>3. 1 \in 1..n /\ \A x \in 1..m : x \in 1..n /\ x + 1 \in 1..n BY <1>2
<1>4. ASSUME NEW j, NEW t, Sends(y, s, j, t)
      PROVE  \E d \in Nat : j <= d /\ OutPart(head, s) = Run(j, d) /\ Sends(z, s, d, t)
  <2> DEFINE q == OutParts(p, s)
             r == OutParts(t0, s)
  <2>1. t \in Nat BY <1>4 DEF Sends
  <2>2. PICK k \in Nat : /\ Carries(q, n, j, k) /\ k <= t
                         /\ y.streams[s] # None => Holds(y.streams[s], k, t)
      BY <1>4 DEF Sends
  <2>3. q[1] = OutPart(head, s) /\ \A x \in 1..m : r[x] = q[x + 1] BY <1>2, <1>3 DEF OutParts
  <2> HIDE DEF q, r, n, p, t0, head
  <2>4. \A i \in 1..(n - 1) : r[i] = q[i + 1] BY <2>3
  <2>5. PICK d \in Nat : j <= d /\ q[1] = Run(j, d) /\ Carries(r, n - 1, d, k)
      BY <1>2, <2>2, <2>4, CarriesTail
  <2>6. Carries(OutParts(z.pending, s), Len(z.pending), d, k) BY <1>2, <2>5 DEF r, t0
  <2>7. Sends(z, s, d, t) BY <2>1, <2>2, <2>6 DEF Sends
  <2> QED BY <2>3, <2>5, <2>7
<1>5. ASSUME NEW g, NEW h, Hears(y, s, g, h)
      PROVE  \E d \in Nat : g <= d /\ d <= h /\ InPart(head, s) = Run(g, d) /\ Hears(z, s, d, h)
  <2> DEFINE q == InParts(p, s)
             r == InParts(t0, s)
  <2>2. Carries(q, n, g, h) BY <1>5 DEF Hears
  <2>3. q[1] = InPart(head, s) /\ \A x \in 1..m : r[x] = q[x + 1] BY <1>2, <1>3 DEF InParts
  <2> HIDE DEF q, r, n, p, t0, head
  <2>4. \A i \in 1..(n - 1) : r[i] = q[i + 1] BY <2>3
  <2>5. PICK d \in Nat : g <= d /\ d <= h /\ q[1] = Run(g, d) /\ Carries(r, n - 1, d, h)
      BY <1>2, <2>2, <2>4, CarriesTail
  <2>6. Hears(z, s, d, h) BY <1>2, <2>5 DEF r, t0, Hears
  <2> QED BY <2>3, <2>5, <2>6
<1>6. OpensLater(z, s) <=> OpensLater(y, s) BY DEF OpensLater
<1>7. AllPlain(y, s) => AllPlain(z, s) /\ PlainItem(head, s) BY <1>2, <1>3 DEF AllPlain
<1>8. \A x \in 1..m : SynItem(t0[x], s) => SynItem(p[x + 1], s) BY <1>2
<1>9. SynItem(head, s) => HasSyn(y, s) BY <1>2, <1>3 DEF HasSyn
<1>10. HasSyn(z, s) => HasSyn(y, s) BY <1>2, <1>3, <1>6, <1>8 DEF HasSyn
<1>11. ASSUME SynFirst(y, s) PROVE SynFirst(z, s)
  <2>1. ASSUME NEW x \in 1..Len(z.pending), SynItem(z.pending[x], s), NEW w \in 1..(x - 1)
        PROVE  PlainItem(z.pending[w], s)
    <3>1. x \in 1..m /\ w \in 1..m /\ x + 1 \in 1..n /\ w + 1 \in 1..((x + 1) - 1) BY <1>2, <2>1
    <3>2. SynItem(p[x + 1], s) BY <1>8, <2>1, <3>1
    <3>3. PlainItem(p[w + 1], s) BY <1>11, <3>1, <3>2 DEF SynFirst
    <3> QED BY <1>2, <3>1, <3>3
  <2> QED BY <1>6, <1>7, <1>11, <2>1 DEF SynFirst
<1>12. ASSUME SynFirst(y, s), HasSyn(z, s) PROVE PlainItem(head, s)
  <2>1. CASE OpensLater(z, s) BY <1>6, <1>7, <1>12, <2>1 DEF SynFirst
  <2>2. CASE ~OpensLater(z, s)
    <3>1. PICK x \in 1..m : SynItem(t0[x], s) BY <1>2, <1>12, <2>2 DEF HasSyn
    <3>2. x + 1 \in 1..n /\ 1 \in 1..((x + 1) - 1) /\ SynItem(p[x + 1], s) BY <1>2, <1>8, <3>1
    <3>3. PlainItem(p[1], s) BY <1>12, <3>2 DEF SynFirst
    <3> QED BY <1>2, <3>3
  <2> QED BY <2>1, <2>2
<1>13. Quiet(y, s) => Quiet(z, s) /\ PlainItem(head, s) BY <1>7 DEF Quiet
<1> HIDE DEF head
<1>14. Popped(y, z, head, s) BY <1>4, <1>5, <1>9, <1>10, <1>11, <1>12, <1>13 DEF Popped
<1> QED BY <1>14 DEF head

\* The same after a control frame was made up.
Polls(y, z, head, s, a) ==
    /\ z.streams[s] # None => y.streams[s] # None
    /\ \A j : Sends(y, s, j, a) =>
            \E d \in Nat : j <= d /\ OutPart(head, s) = Run(j, d) /\ Sends(z, s, d, a)
    /\ \A g, h : Hears(y, s, g, h) =>
            \E d, c \in Nat : /\ g <= d /\ c <= h /\ InPart(head, s) = Run(g, d) /\ Hears(z, s, d, c)
                              /\ z.streams[s] # None => c = h
    /\ SynFirst(y, s) => SynFirst(z, s)
    /\ SynFirst(y, s) /\ HasSyn(z, s) => PlainItem(head, s)
    /\ HasSyn(z, s) => HasSyn(y, s)
    /\ SynItem(head, s) => HasSyn(y, s)
    /\ Quiet(y, s) => Quiet(z, s) /\ PlainItem(head, s)

LEMMA HostThenPop ==
  ASSUME NEW y, NEW x, NEW z, NEW head, NEW s, NEW a,
         HostMoves(y, x, s, a, a), Popped(x, z, head, s), z.streams = x.streams
  PROVE  Polls(y, z, head, s, a)
<1>1. ASSUME NEW j, Sends(y, s, j, a)
      PROVE  \E d \in Nat : j <= d /\ OutPart(head, s) = Run(j, d) /\ Sends(z, s, d, a)
  <2>1. Sends(x, s, j, a) BY <1>1 DEF HostMoves
  <2> QED BY <2>1 DEF Popped
<1>2. ASSUME NEW g, NEW h, Hears(y, s, g, h)
      PROVE  \E d, c \in Nat : /\ g <= d /\ c <= h /\ InPart(head, s) = Run(g, d) /\ Hears(z, s, d, c)
                               /\ z.streams[s] # None => c = h
  <2>1. PICK c \in Nat : Hears(x, s, g, c) /\ c <= h /\ (x.streams[s] # None => c = h)
      BY <1>2 DEF HostMoves
  <2>2. PICK d \in Nat : g <= d /\ InPart(head, s) = Run(g, d) /\ Hears(z, s, d, c) BY <2>1 DEF Popped
  <2> QED BY <2>1, <2>2
<1>3. /\ SynFirst(y, s) => SynFirst(z, s)
      /\ SynFirst(y, s) /\ HasSyn(z, s) => PlainItem(head, s)
      /\ HasSyn(z, s) => HasSyn(y, s)
      /\ SynItem(head, s) => HasSyn(y, s)
      /\ Quiet(y, s) => Quiet(z, s) /\ PlainItem(head, s)
      /\ z.streams[s] # None => y.streams[s] # None
    BY DEF HostMoves, Popped
<1> QED BY <1>1, <1>2, <1>3 DEF Polls

\* The connection takes the frame that was polled, if it is one.
Sent(w, v, head) ==
    \/ head.output # "Outbound" /\ v = w
    \/ head.output = "Outbound" /\ v = Append(w, head.frame)

LEMMA SentCarries ==
  ASSUME NEW w, IsSeq(w), NEW v, NEW head, Sent(w, v, head), NEW s, NEW i, NEW j \in Nat, NEW d \in Nat,
         j <= d, Carries(WireParts(w, s), Len(w), i, j), OutPart(head, s) = Run(j, d)
  PROVE  Carries(WireParts(v, s), Len(v), i, d)
<1>1. CASE head.output # "Outbound"
  <2>1. v = w /\ Run(j, d) = <<>> BY <1>1 DEF Sent, OutPart
  <2>2. j = d BY <2>1, EmptyRun
  <2> QED BY <2>1, <2>2
<1>2. CASE head.output = "Outbound"
  <2> DEFINE f == head.frame
             n == Len(w)
             q == WireParts(w, s)
             r == WireParts(v, s)
  <2>1. v = Append(w, f) /\ FramePart(f, s) = Run(j, d) BY <1>2 DEF Sent, OutPart
  <2>2. /\ n \in Nat /\ Len(v) = n + 1 /\ v[n + 1] = f
        /\ \A x \in 1..n : v[x] = w[x]
      BY <2>1, LastAdded
  <2>3. \A x \in 1..n : x \in 1..(n + 1) BY <2>2
  <2>4. (\A x \in 1..n : r[x] = q[x]) /\ r[n + 1] = Run(j, d)
    <3>1. n + 1 \in 1..(n + 1) BY <2>2
    <3> QED BY <2>1, <2>2, <2>3, <3>1 DEF WireParts
  <2>5. Carries(q, n, i, j) OBVIOUS
  <2> HIDE DEF q, r, n
  <2>6. Carries(r, n + 1, i, d) BY <2>2, <2>4, <2>5, CarriesMore
  <2> QED BY <2>2, <2>6 DEF r
<1> QED BY <1>1, <1>2

LEMMA SentFacts ==
  ASSUME NEW w, IsSeq(w), NEW v, NEW head, Sent(w, v, head), IsItem(head), \A x \in 1..Len(w) : IsFrame(w[x])
  PROVE  /\ IsSeq(v) /\ \A x \in 1..Len(v) : IsFrame(v[x])
         /\ \A s : (\E x \in 1..Len(v) : SynFrame(v[x], s)) =>
                      SynItem(head, s) \/ \E x \in 1..Len(w) : SynFrame(w[x], s)
         /\ \A s : (\A x \in 1..Len(w) : PlainFrame(w[x], s)) /\ PlainItem(head, s) =>
                      \A x \in 1..Len(v) : PlainFrame(v[x], s)
         /\ \A s : /\ \A x \in 1..Len(w) : SynFrame(w[x], s) => \A k \in 1..(x - 1) : PlainFrame(w[k], s)
                   /\ SynItem(head, s) => \A x \in 1..Len(w) : PlainFrame(w[x], s)
                   => \A x \in 1..Len(v) : SynFrame(v[x], s) => \A k \in 1..(x - 1) : PlainFrame(v[k], s)
<1>1. CASE head.output # "Outbound" BY <1>1 DEF Sent
<1>2. CASE head.output = "Outbound"
  <2> DEFINE f == head.frame
             n == Len(w)
  <2>1. v = Append(w, f) /\ IsFrame(f) BY <1>2 DEF Sent, IsItem
  <2>2. /\ IsSeq(v) /\ n \in Nat /\ Len(v) = n + 1 /\ v[n + 1] = f
        /\ \A x \in 1..n : v[x] = w[x]
      BY <2>1, LastAdded
  <2>3. \A s : (SynItem(head, s) <=> SynFrame(f, s)) /\ (PlainItem(head, s) <=> PlainFrame(f, s))
      BY <1>2 DEF SynItem, PlainItem
  <2> HIDE DEF f, n
  <2>4. \A x \in 1..Len(v) : x \in 1..n \/ x = n + 1 BY <2>2
  <2>5. \A x \in 1..Len(v) : IsFrame(v[x]) BY <2>1, <2>2, <2>4 DEF n
  <2>6. ASSUME NEW s, NEW x \in 1..Len(v), SynFrame(v[x], s)
        PROVE  SynItem(head, s) \/ \E k \in 1..Len(w) : SynFrame(w[k], s)
      BY <2>2, <2>3, <2>4, <2>6 DEF n
  <2>7. ASSUME NEW s, \A x \in 1..n : PlainFrame(w[x], s), PlainItem(head, s), NEW x \in 1..Len(v)
        PROVE  PlainFrame(v[x], s)
      BY <2>2, <2>3, <2>4, <2>7
  <2>8. ASSUME NEW s, \A x \in 1..n : SynFrame(w[x], s) => \A k \in 1..(x - 1) : PlainFrame(w[k], s),
               SynItem(head, s) => \A x \in 1..n : PlainFrame(w[x], s),
               NEW x \in 1..Len(v), SynFrame(v[x], s), NEW k \in 1..(x - 1)
        PROVE  PlainFrame(v[k], s)
    <3>1. k \in 1..n BY <2>2
    <3>2. CASE x \in 1..n BY <2>2, <2>8, <3>1, <3>2
    <3>3. CASE x = n + 1 BY <2>2, <2>3, <2>8, <3>1, <3>3
    <3> QED BY <2>4, <3>2, <3>3
  <2> QED BY <2>2, <2>5, <2>6, <2>7, <2>8 DEF n
<1> QED BY <1>1, <1>2

LEMMA PollOutputStep ==
  ASSUME BytesInv, NEW e \in Roles, PollOutput(e) PROVE BytesInv'
<1> DEFINE o == Other(e)
           y == sess[e]
           y0 == Refill(y)
           head == Head(y0.pending)
           z == [y0 EXCEPT !.pending = Tail(@)]
<1>1. o \in Roles /\ o # e /\ Other(o) = e /\ \A r \in Roles : r = e \/ r = o BY RolesFacts
<1> HIDE DEF o
<1>2. Other(e) = o BY DEF o
<1>3. EndsTyped BY DEF BytesInv
<1>4. Typed(y) /\ Over(y) /\ IsSession(y) BY SessionOf
<1>5. /\ y0.pending # <<>> /\ sess' = [sess EXCEPT ![e] = z] /\ UNCHANGED <<accepted, now, work>>
      /\ IF head.output = "Outbound"
         THEN wire' = [wire EXCEPT ![e] = Append(@, head.frame)] /\ UNCHANGED got
         ELSE wire' = wire /\ IF head.stream = 0 THEN UNCHANGED got
                              ELSE got' = [got EXCEPT ![e][head.stream] = @ \o head.data]
    BY DEF PollOutput, Becomes
<1>6. Keeps(y, y0) /\ Calm(y, y0) /\ SameStatus(y, y0) BY <1>4, RefillKeeps, RefillStatus
<1> HIDE DEF y0
<1>7. Typed(y0) /\ y0.role = y.role /\ y0.next_stream_id = y.next_stream_id BY <1>4, <1>6, KeepsTyped
<1>8. /\ DOMAIN z = DOMAIN y0 /\ z.role = y.role /\ z.next_stream_id = y.next_stream_id
      /\ z.streams = y0.streams /\ z.pending = Tail(y0.pending)
      /\ z.failed = y0.failed /\ z.local_go_away = y0.local_go_away /\ z.remote_go_away = y0.remote_go_away
    BY <1>7 DEF Typed
<1> HIDE DEF z
<1>9. /\ IsSeq(z.pending) /\ IsItem(head) /\ \A x \in 1..Len(z.pending) : IsItem(z.pending[x])
  <2> DEFINE p == y0.pending
  <2>1. IsSeq(p) /\ p # <<>> /\ \A x \in 1..Len(p) : IsItem(p[x]) BY <1>5, <1>7 DEF Typed
  <2> HIDE DEF p
  <2>2. /\ IsSeq(Tail(p)) /\ Len(p) \in Nat /\ Len(p) > 0 /\ Len(Tail(p)) = Len(p) - 1 /\ Head(p) = p[1]
        /\ \A x \in 1..(Len(p) - 1) : Tail(p)[x] = p[x + 1]
      BY <2>1, TailFacts
  <2>3. 1 \in 1..Len(p) /\ \A x \in 1..(Len(p) - 1) : x + 1 \in 1..Len(p) BY <2>2
  <2>4. \A x \in 1..Len(Tail(p)) : IsItem(Tail(p)[x]) BY <2>1, <2>2, <2>3
  <2> QED BY <1>8, <2>1, <2>2, <2>3, <2>4 DEF p
<1>10. Typed(z) BY <1>7, <1>8, <1>9 DEF Typed
<1>11. ASSUME NEW s \in Ids PROVE Polls(y, z, head, s, accepted[e][s])
  <2>1. accepted[e][s] \in Nat BY <1>3 DEF EndsTyped
  <2>2. HostMoves(y, y0, s, accepted[e][s], accepted[e][s]) BY <1>4, <1>6, <2>1, KeepsHost
  <2>3. Popped(y0, z, head, s) BY <1>5, <1>7, <1>8, PopIs
  <2> HIDE DEF head
  <2> QED BY <1>8, <2>2, <2>3, HostThenPop
<1>12. Over(z)
  <2>1. SameStatus(y, z) BY <1>6, <1>8 DEF SameStatus
  <2>2. \A s \in Ids : z.streams[s] # None => y.streams[s] # None BY <1>11 DEF Polls
  <2> QED BY <1>4, <2>1, <2>2, StillOver
<1>13. \A s \in Ids : Settled(z, s)
  <2>1. \A s \in Ids : Settled(y, s) BY DEF BytesInv
  <2> QED BY <1>6, <1>8, <2>1 DEF Calm, Settled
<1> HIDE DEF head
<1>14. sess'[e] = z /\ sess'[o] = sess[o] /\ DOMAIN sess' = Roles BY <1>1, <1>3, <1>5 DEF EndsTyped
<1>15. Sent(wire[e], wire'[e], head) /\ wire'[o] = wire[o] /\ DOMAIN wire' = Roles
    BY <1>1, <1>3, <1>5 DEF EndsTyped, Sent
<1>16. /\ got'[o] = got[o] /\ DOMAIN got' = Roles /\ DOMAIN got'[e] = Ids
       /\ \A s \in Ids : \/ got'[e][s] = got[e][s] \o InPart(head, s)
                         \/ got'[e][s] = got[e][s] /\ InPart(head, s) = <<>>
  <2>1. DOMAIN got = Roles /\ DOMAIN got[e] = Ids BY <1>3 DEF EndsTyped
  <2>2. CASE got' = got /\ (head.output = "Outbound" \/ head.stream = 0)
    <3>1. \A s \in Ids : InPart(head, s) = <<>> BY <2>2, IdsFacts DEF InPart
    <3> QED BY <2>1, <2>2, <3>1
  <2>3. CASE head.output # "Outbound" /\ got' = [got EXCEPT ![e][head.stream] = @ \o head.data]
    <3>1. got'[e] = [got[e] EXCEPT ![head.stream] = @ \o head.data] /\ got'[o] = got[o] /\ DOMAIN got' = Roles
        BY <1>1, <2>1, <2>3
    <3>2. ASSUME NEW s \in Ids
          PROVE  \/ got'[e][s] = got[e][s] \o InPart(head, s)
                 \/ got'[e][s] = got[e][s] /\ InPart(head, s) = <<>>
      <4>1. CASE head.stream = s BY <2>1, <2>3, <3>1, <4>1 DEF InPart
      <4>2. CASE head.stream # s BY <2>1, <2>3, <3>1, <4>2 DEF InPart
      <4> QED BY <4>1, <4>2
    <3> QED BY <2>1, <3>1, <3>2
  <2> QED BY <1>5, <2>2, <2>3
<1> HIDE DEF y
<1>17. y = sess[e] BY DEF y
<1>18. IsSeq(wire[e]) /\ \A x \in 1..Len(wire[e]) : IsFrame(wire[e][x]) BY <1>3 DEF EndsTyped
<1>19. EndsTyped'
  <2>1. IsSeq(wire'[e]) /\ \A x \in 1..Len(wire'[e]) : IsFrame(wire'[e][x]) BY <1>9, <1>15, <1>18, SentFacts
  <2>2. ASSUME NEW r \in Roles
        PROVE  /\ Typed(sess'[r]) /\ Over(sess'[r]) /\ sess'[r].role = r
               /\ sess'[r].next_stream_id # None => Opener(sess'[r].next_stream_id) = r
               /\ DOMAIN got'[r] = Ids /\ IsSeq(wire'[r])
               /\ \A x \in 1..Len(wire'[r]) : IsFrame(wire'[r][x])
    <3>1. CASE r = e BY <1>3, <1>8, <1>10, <1>12, <1>14, <1>16, <1>17, <2>1, <3>1 DEF EndsTyped
    <3>2. CASE r = o BY <1>1, <1>3, <1>14, <1>15, <1>16, <3>2 DEF EndsTyped
    <3> QED BY <1>1, <3>1, <3>2
  <2> QED BY <1>3, <1>5, <1>14, <1>15, <1>16, <2>2 DEF EndsTyped
<1>20. ASSUME NEW s \in Ids PROVE (Unopened(s)' <=> Unopened(s)) /\ (SynLeft(s)' => SynLeft(s))
  <2>1. Opener(s) \in Roles BY RolesFacts
  <2>2. Unopened(s)' <=> Unopened(s)
    <3>1. sess'[Opener(s)].next_stream_id = sess[Opener(s)].next_stream_id BY <1>1, <1>8, <1>14, <1>17, <2>1
    <3> QED BY <3>1 DEF Unopened
  <2>3. CASE Opener(s) = e
    <3>1. HasSyn(z, s) => HasSyn(y, s) BY <1>11 DEF Polls
    <3>2. SynItem(head, s) => HasSyn(y, s) BY <1>11 DEF Polls
    <3>3. (\E x \in 1..Len(wire'[e]) : SynFrame(wire'[e][x], s)) =>
              SynItem(head, s) \/ \E x \in 1..Len(wire[e]) : SynFrame(wire[e][x], s)
        BY <1>9, <1>15, <1>18, SentFacts
    <3> QED BY <1>14, <1>17, <2>2, <2>3, <3>1, <3>2, <3>3 DEF SynLeft
  <2>4. CASE Opener(s) = o BY <1>14, <1>15, <2>2, <2>4 DEF SynLeft
  <2> QED BY <1>1, <2>1, <2>2, <2>3, <2>4
<1>21. ASSUME NEW r \in Roles, NEW s \in Ids PROVE Settled(sess'[r], s)
  <2>1. Settled(sess[r], s) BY DEF BytesInv
  <2> QED BY <1>1, <1>13, <1>14, <2>1
<1>22. ASSUME NEW s \in Ids PROVE Flow(e, s)'
  <2>1. Flow(e, s) BY DEF BytesInv
  <2>2. PICK g, h, i, j \in Nat :
            /\ got[o][s] = Run(0, g) /\ Hears(sess[o], s, g, h) /\ h <= accepted[e][s]
            /\ Carries(WireParts(wire[e], s), Len(wire[e]), i, j)
            /\ Sends(y, s, j, accepted[e][s])
            /\ sess[o].streams[s] # None => h = i
            /\ SynLeft(s) => h = 0 /\ i = 0
      BY <1>2, <1>17, <2>1 DEF Flow
  <2>3. PICK d \in Nat : j <= d /\ OutPart(head, s) = Run(j, d) /\ Sends(z, s, d, accepted[e][s])
      BY <1>11, <2>2 DEF Polls
  <2>4. Carries(WireParts(wire'[e], s), Len(wire'[e]), i, d) BY <1>15, <1>18, <2>2, <2>3, SentCarries
  <2>5. /\ got'[o][s] = Run(0, g) /\ Hears(sess'[o], s, g, h) /\ h <= accepted'[e][s]
        /\ Sends(sess'[e], s, d, accepted'[e][s])
        /\ sess'[o].streams[s] # None => h = i
      BY <1>5, <1>14, <1>16, <2>2, <2>3
  <2>6. SynLeft(s)' => h = 0 /\ i = 0 BY <1>20, <2>2
  <2> QED BY <1>2, <2>4, <2>5, <2>6 DEF Flow
<1>23. ASSUME NEW s \in Ids PROVE Flow(o, s)'
  <2>1. Flow(o, s) BY <1>1 DEF BytesInv
  <2>2. PICK g, h, i, j \in Nat :
            /\ got[e][s] = Run(0, g) /\ Hears(y, s, g, h) /\ h <= accepted[o][s]
            /\ Carries(WireParts(wire[o], s), Len(wire[o]), i, j)
            /\ Sends(sess[o], s, j, accepted[o][s])
            /\ y.streams[s] # None => h = i
            /\ SynLeft(s) => h = 0 /\ i = 0
      BY <1>1, <1>17, <2>1 DEF Flow
  <2>3. PICK d, c \in Nat :
            /\ g <= d /\ c <= h /\ InPart(head, s) = Run(g, d) /\ Hears(z, s, d, c)
            /\ z.streams[s] # None => c = h
      BY <1>11, <2>2 DEF Polls
  <2>4. got'[e][s] = Run(0, d)
    <3>1. CASE got'[e][s] = got[e][s] \o InPart(head, s)
      <4>0. 0 \in Nat /\ 0 <= g OBVIOUS
      <4>1. Run(0, g) \o Run(g, d) = Run(0, d) BY <2>3, <4>0, RunJoin
      <4> QED BY <2>2, <2>3, <3>1, <4>1
    <3>2. CASE got'[e][s] = got[e][s] /\ InPart(head, s) = <<>>
      <4>1. g = d BY <2>3, <3>2, EmptyRun
      <4> QED BY <2>2, <3>2, <4>1
    <3> QED BY <1>16, <3>1, <3>2
  <2>5. accepted[o][s] \in Nat BY <1>1, <1>3 DEF EndsTyped
  <2>6. c <= accepted'[o][s] BY <1>5, <2>2, <2>3, <2>5
  <2>7. z.streams[s] # None => c = i
    <3>1. z.streams[s] # None => y.streams[s] # None BY <1>11 DEF Polls
    <3> QED BY <2>2, <2>3, <3>1
  <2>8. SynLeft(s)' => c = 0 /\ i = 0 BY <1>20, <2>2, <2>3
  <2>9. /\ Hears(sess'[e], s, d, c)
        /\ Carries(WireParts(wire'[o], s), Len(wire'[o]), i, j)
        /\ Sends(sess'[o], s, j, accepted'[o][s])
        /\ sess'[e].streams[s] # None => c = i
      BY <1>5, <1>14, <1>15, <2>2, <2>3, <2>7
  <2> QED BY <1>1, <2>4, <2>6, <2>8, <2>9 DEF Flow
<1>24. ASSUME NEW s \in Ids PROVE SynOnce(s)'
  <2>1. SynOnce(s) BY DEF BytesInv
  <2>2. Opener(s) \in Roles BY RolesFacts
  <2>3. CASE Opener(s) = e
    <3>1. Acceptor(s) = o BY <1>2, <2>3 DEF Acceptor
    <3>2. /\ SynFirst(y, s)
          /\ \A x \in 1..Len(wire[e]) : SynFrame(wire[e][x], s) => \A w \in 1..(x - 1) : PlainFrame(wire[e][w], s)
          /\ HasSyn(y, s) \/ Unopened(s) => WirePlain(e, s)
          /\ Unopened(s) => Quiet(y, s) /\ accepted[e][s] = 0
          /\ SynLeft(s) => sess[o].streams[s] = None /\ accepted[o][s] = 0
        BY <1>17, <2>1, <2>3, <3>1 DEF SynOnce
    <3>3. /\ SynFirst(y, s) => SynFirst(z, s)
          /\ SynFirst(y, s) /\ HasSyn(z, s) => PlainItem(head, s)
          /\ HasSyn(z, s) => HasSyn(y, s)
          /\ SynItem(head, s) => HasSyn(y, s)
          /\ Quiet(y, s) => Quiet(z, s) /\ PlainItem(head, s)
        BY <1>11 DEF Polls
    <3>4. SynFirst(sess'[e], s) BY <1>14, <3>2, <3>3
    <3>5. \A x \in 1..Len(wire'[e]) : SynFrame(wire'[e][x], s) => \A w \in 1..(x - 1) : PlainFrame(wire'[e][w], s)
      <4>1. SynItem(head, s) => \A x \in 1..Len(wire[e]) : PlainFrame(wire[e][x], s)
          BY <3>2, <3>3 DEF WirePlain
      <4> QED BY <1>9, <1>15, <1>18, <3>2, <4>1, SentFacts
    <3>6. HasSyn(z, s) \/ Unopened(s)' => WirePlain(e, s)'
      <4>1. SUFFICES ASSUME HasSyn(z, s) \/ Unopened(s) PROVE WirePlain(e, s)' BY <1>20
      <4>2. PlainItem(head, s) /\ WirePlain(e, s) BY <3>2, <3>3, <4>1
      <4>3. \A x \in 1..Len(wire'[e]) : PlainFrame(wire'[e][x], s)
          BY <1>9, <1>15, <1>18, <4>2, SentFacts DEF WirePlain
      <4> QED BY <4>3 DEF WirePlain
    <3>7. Unopened(s)' => Quiet(sess'[e], s) /\ accepted'[e][s] = 0 BY <1>5, <1>14, <1>20, <3>2, <3>3
    <3>8. SynLeft(s)' => sess'[o].streams[s] = None /\ accepted'[o][s] = 0 BY <1>5, <1>14, <1>20, <3>2
    <3>9. HasSyn(sess'[e], s) \/ Unopened(s)' => WirePlain(e, s)' BY <1>14, <3>6
    <3> QED BY <2>3, <3>1, <3>4, <3>5, <3>7, <3>8, <3>9 DEF SynOnce
  <2>4. CASE Opener(s) = o
    <3>1. Acceptor(s) = e BY <1>1, <2>4 DEF Acceptor
    <3>2. z.streams[s] # None => y.streams[s] # None BY <1>11 DEF Polls
    <3>3. SynLeft(s)' => sess'[e].streams[s] = None /\ accepted'[e][s] = 0
      <4>1. SynLeft(s) => sess[e].streams[s] = None /\ accepted[e][s] = 0 BY <2>1, <3>1 DEF SynOnce
      <4> QED BY <1>5, <1>14, <1>17, <1>20, <3>2, <4>1
    <3>4. WirePlain(o, s)' <=> WirePlain(o, s) BY <1>15 DEF WirePlain
    <3> QED BY <1>5, <1>14, <1>15, <1>20, <2>1, <2>4, <3>1, <3>3, <3>4 DEF SynOnce
  <2> QED BY <1>1, <2>2, <2>3, <2>4
<1>25. ASSUME NEW r \in Roles, NEW s \in Ids PROVE Flow(r, s)' BY <1>1, <1>22, <1>23
<1> QED BY <1>19, <1>21, <1>24, <1>25 DEF BytesInv

-----------------------------------------------------------------------------
(* A frame arrives. *)

LEMMA SendsBounds ==
  ASSUME NEW y, Typed(y), NEW s, NEW j, NEW t, Sends(y, s, j, t)
  PROVE  j \in Nat /\ t \in Nat /\ j <= t
<1>1. Len(y.pending) \in Nat BY DEF Typed, IsSeq
<1>2. PICK k \in Nat : Carries(OutParts(y.pending, s), Len(y.pending), j, k) /\ k <= t BY DEF Sends
<1>3. j \in Nat /\ j <= k BY <1>1, <1>2, CarriesBounds
<1> QED BY <1>2, <1>3 DEF Sends

\* What a SYN does to the bytes of its stream.
Opened(y, z, s, p) ==
    /\ \A j : Sends(y, s, j, 0) => Sends(z, s, j, 0)
    /\ \A g, h : \A d \in Nat :
        Hears(y, s, g, h) /\ h <= d /\ p = Run(h, d) =>
            \E c \in Nat : Hears(z, s, g, c) /\ c <= d /\ (z.streams[s] # None => c = d)

\* What a frame does to stream s.
Arrives(y, z, f, s) ==
    \/ MovesOn(y, z, s, <<>>) /\ (f.stream = s => z.streams[s] = None \/ f.payload = <<>>)
    \/ f.stream = s /\ y.streams[s] # None /\ MovesOn(y, z, s, f.payload)
    \/ /\ f.stream = s /\ "SYN" \in f.flags /\ ValidRemoteStreamId(y, s)
       /\ Opened(y, z, s, f.payload)

LEMMA TakesArrives ==
  ASSUME NEW y, NEW z, NEW f, Takes(y, z, f), NEW s \in Ids
  PROVE  Arrives(y, z, f, s)
<1>1. s # 0 BY IdsFacts
<1>2. CASE Keeps(y, z) /\ (f.stream \in Ids => z.streams[f.stream] = None \/ f.payload = <<>>)
  <2>1. MovesOn(y, z, s, <<>>) BY <1>1, <1>2 DEF Keeps, Moves
  <2> QED BY <1>2, <2>1 DEF Arrives
<1>3. CASE f.stream \in Ids /\ y.streams[f.stream] # None /\ Moves(y, z, f.stream, f.payload)
  <2>1. MovesOn(y, z, s, IF s = f.stream THEN f.payload ELSE <<>>) BY <1>3 DEF Moves
  <2>2. CASE s = f.stream BY <1>3, <2>1, <2>2 DEF Arrives
  <2>3. CASE s # f.stream BY <2>1, <2>3 DEF Arrives
  <2> QED BY <2>2, <2>3
<1>4. CASE /\ f.stream \in Ids /\ y.streams[f.stream] = None
           /\ "SYN" \in f.flags /\ ValidRemoteStreamId(y, f.stream)
           /\ Alters(y, z, f.stream, 0, 0, f.payload)
  <2>1. CASE s = f.stream
    <3>1. Opened(y, z, s, f.payload) BY <1>4, <2>1 DEF Alters, Opened
    <3> QED BY <1>4, <2>1, <3>1 DEF Arrives
  <2>2. CASE s # f.stream BY <1>4, <2>2 DEF Alters, Arrives
  <2> QED BY <2>1, <2>2
<1> QED BY <1>2, <1>3, <1>4 DEF Takes

\* The receiver: its host has the first g bytes, it has those up to h itself, and the frame
\* brings those from i to d.
LEMMA ArrivesHears ==
  ASSUME NEW y, Typed(y), NEW z, NEW f, NEW s, Arrives(y, z, f, s),
         NEW g, NEW h \in Nat, NEW i \in Nat, NEW d \in Nat, i <= d,
         Hears(y, s, g, h), FramePart(f, s) = Run(i, d),
         y.streams[s] # None => h = i,
         "SYN" \in f.flags /\ f.stream = s /\ ValidRemoteStreamId(y, s) => h = i
  PROVE  \E b \in Nat : Hears(z, s, g, b) /\ (b <= h \/ b <= d) /\ (z.streams[s] # None => b = d)
<1>1. CASE MovesOn(y, z, s, <<>>) /\ (f.stream = s => z.streams[s] = None \/ f.payload = <<>>)
  <2>1. <<>> = Run(h, h) BY EmptyRun
  <2>2. PICK b \in Nat : Hears(z, s, g, b) /\ b <= h /\ (z.streams[s] # None => b = h)
      BY <1>1, <2>1 DEF MovesOn
  <2>3. ASSUME z.streams[s] # None PROVE b = d
    <3>1. FramePart(f, s) = <<>> BY <1>1, <2>3 DEF FramePart
    <3>2. i = d BY <3>1, EmptyRun
    <3>3. h = i BY <1>1, <2>3 DEF MovesOn
    <3> QED BY <2>2, <2>3, <3>2, <3>3
  <2> QED BY <2>2, <2>3
<1>2. CASE f.stream = s /\ y.streams[s] # None /\ MovesOn(y, z, s, f.payload)
  <2>1. h = i /\ f.payload = Run(h, d) /\ h <= d BY <1>2 DEF FramePart
  <2>2. PICK b \in Nat : Hears(z, s, g, b) /\ b <= d /\ (z.streams[s] # None => b = d)
      BY <1>2, <2>1 DEF MovesOn
  <2> QED BY <2>2
<1>3. CASE f.stream = s /\ "SYN" \in f.flags /\ ValidRemoteStreamId(y, s) /\ Opened(y, z, s, f.payload)
  <2>1. h = i /\ f.payload = Run(h, d) /\ h <= d BY <1>3 DEF FramePart
  <2>2. PICK b \in Nat : Hears(z, s, g, b) /\ b <= d /\ (z.streams[s] # None => b = d)
      BY <1>3, <2>1 DEF Opened
  <2> QED BY <2>2
<1> QED BY <1>1, <1>2, <1>3 DEF Arrives

\* The frames of the connection without the first.
LEMMA WireTail ==
  ASSUME NEW w, IsSeq(w), w # <<>>, \A x \in 1..Len(w) : IsFrame(w[x])
  PROVE  LET v == Tail(w)
             f == Head(w)
         IN  /\ IsSeq(v) /\ IsFrame(f) /\ \A x \in 1..Len(v) : IsFrame(v[x])
             /\ \A s, i, j : Carries(WireParts(w, s), Len(w), i, j) =>
                    \E d \in Nat : i <= d /\ d <= j /\ FramePart(f, s) = Run(i, d)
                                   /\ Carries(WireParts(v, s), Len(v), d, j)
             /\ \A s : SynFrame(f, s) => \E x \in 1..Len(w) : SynFrame(w[x], s)
             /\ \A s : (\E x \in 1..Len(v) : SynFrame(v[x], s)) => \E x \in 1..Len(w) : SynFrame(w[x], s)
             /\ \A s : (\A x \in 1..Len(w) : PlainFrame(w[x], s)) =>
                          PlainFrame(f, s) /\ \A x \in 1..Len(v) : PlainFrame(v[x], s)
             /\ \A s : (\A x \in 1..Len(w) : SynFrame(w[x], s) => \A k \in 1..(x - 1) : PlainFrame(w[k], s)) =>
                          /\ (\E x \in 1..Len(v) : SynFrame(v[x], s)) => PlainFrame(f, s)
                          /\ \A x \in 1..Len(v) : SynFrame(v[x], s) => \A k \in 1..(x - 1) : PlainFrame(v[k], s)
<1> DEFINE v == Tail(w)
           f == Head(w)
           n == Len(w)
           m == n - 1
<1>1. IsSeq(v) /\ n \in Nat /\ n > 0 /\ m \in Nat /\ Len(v) = m /\ f = w[1] /\ \A x \in 1..m : v[x] = w[x + 1]
    BY TailFacts
<1>2. 1 \in 1..n /\ \A x \in 1..m : x + 1 \in 1..n /\ 1 \in 1..((x + 1) - 1) BY <1>1
<1> HIDE DEF v, f
<1>3. IsFrame(f) /\ \A x \in 1..Len(v) : IsFrame(v[x]) BY <1>1, <1>2
<1>4. ASSUME NEW s, NEW i, NEW j, Carries(WireParts(w, s), Len(w), i, j)
      PROVE  \E d \in Nat : i <= d /\ d <= j /\ FramePart(f, s) = Run(i, d)
                            /\ Carries(WireParts(v, s), Len(v), d, j)
  <2> DEFINE q == WireParts(w, s)
             r == WireParts(v, s)
  <2>1. q[1] = FramePart(f, s) /\ \A x \in 1..m : r[x] = q[x + 1] BY <1>1, <1>2 DEF WireParts
  <2>2. Carries(q, n, i, j) BY <1>4
  <2> HIDE DEF q, r, n
  <2>3. \A x \in 1..(n - 1) : r[x] = q[x + 1] BY <2>1
  <2>4. PICK d \in Nat : i <= d /\ d <= j /\ q[1] = Run(i, d) /\ Carries(r, n - 1, d, j)
      BY <1>1, <2>2, <2>3, CarriesTail
  <2>5. Carries(WireParts(v, s), Len(v), d, j) BY <1>1, <2>4 DEF r
  <2> QED BY <2>1, <2>4, <2>5
<1>5. \A s : SynFrame(f, s) => \E x \in 1..n : SynFrame(w[x], s) BY <1>1, <1>2
<1>6. \A s : (\E x \in 1..Len(v) : SynFrame(v[x], s)) => \E x \in 1..n : SynFrame(w[x], s) BY <1>1, <1>2
<1>7. \A s : (\A x \in 1..n : PlainFrame(w[x], s)) =>
                PlainFrame(f, s) /\ \A x \in 1..Len(v) : PlainFrame(v[x], s)
    BY <1>1, <1>2
<1>8. ASSUME NEW s, \A x \in 1..n : SynFrame(w[x], s) => \A k \in 1..(x - 1) : PlainFrame(w[k], s),
             NEW x \in 1..Len(v), SynFrame(v[x], s)
      PROVE  PlainFrame(f, s) /\ \A k \in 1..(x - 1) : PlainFrame(v[k], s)
  <2>1. x \in 1..m /\ x + 1 \in 1..n /\ SynFrame(w[x + 1], s) BY <1>1, <1>2, <1>8
  <2>2. \A k \in 1..((x + 1) - 1) : PlainFrame(w[k], s) BY <1>8, <2>1
  <2>3. PlainFrame(f, s) BY <1>1, <1>2, <2>1, <2>2
  <2>4. ASSUME NEW k \in 1..(x - 1) PROVE PlainFrame(v[k], s)
    <3>1. k \in 1..m /\ k + 1 \in 1..((x + 1) - 1) BY <1>1, <2>1
    <3> QED BY <1>1, <2>2, <3>1
  <2> QED BY <2>3, <2>4
<1> QED BY <1>1, <1>3, <1>4, <1>5, <1>6, <1>7, <1>8 DEF v, f

LEMMA FrameArrivesStep ==
  ASSUME BytesInv, NEW e \in Roles, FrameArrives(e) PROVE BytesInv'
<1> DEFINE o == Other(e)
           y == sess[e]
           w == wire[o]
           f == Head(w)
           z == HandleFrame(y, f)
<1>1. o \in Roles /\ o # e /\ Other(o) = e /\ \A r \in Roles : r = e \/ r = o BY RolesFacts
<1> HIDE DEF o
<1>2. Other(e) = o BY DEF o
<1>3. EndsTyped BY DEF BytesInv
<1>4. /\ Typed(y) /\ Over(y) /\ \A s \in Ids : Settled(y, s) /\ \E j : Sends(y, s, j, accepted[e][s])
    BY SessionOf
<1>5. /\ w # <<>> /\ sess' = [sess EXCEPT ![e] = z] /\ UNCHANGED <<accepted, got, now, work>>
      /\ wire' = [wire EXCEPT ![o] = Tail(w)]
    BY <1>1, <1>2 DEF FrameArrives, Becomes
<1>6. IsSeq(w) /\ \A x \in 1..Len(w) : IsFrame(w[x]) BY <1>1, <1>3 DEF EndsTyped
<1>7. sess'[e] = z /\ sess'[o] = sess[o] /\ DOMAIN sess' = Roles BY <1>1, <1>3, <1>5 DEF EndsTyped
<1>8. wire'[o] = Tail(w) /\ wire'[e] = wire[e] /\ DOMAIN wire' = Roles BY <1>1, <1>3, <1>5 DEF EndsTyped
<1> DEFINE v == wire'[o]
<1> HIDE DEF y, w
<1>y. y = sess[e] /\ w = wire[o] BY DEF y, w
<1>9. /\ IsSeq(v) /\ IsFrame(f) /\ \A x \in 1..Len(v) : IsFrame(v[x])
      /\ \A s, i, j : Carries(WireParts(w, s), Len(w), i, j) =>
             \E d \in Nat : i <= d /\ d <= j /\ FramePart(f, s) = Run(i, d)
                            /\ Carries(WireParts(v, s), Len(v), d, j)
      /\ \A s : SynFrame(f, s) => \E x \in 1..Len(w) : SynFrame(w[x], s)
      /\ \A s : (\E x \in 1..Len(v) : SynFrame(v[x], s)) => \E x \in 1..Len(w) : SynFrame(w[x], s)
      /\ \A s : (\A x \in 1..Len(w) : PlainFrame(w[x], s)) =>
                   PlainFrame(f, s) /\ \A x \in 1..Len(v) : PlainFrame(v[x], s)
      /\ \A s : (\A x \in 1..Len(w) : SynFrame(w[x], s) => \A k \in 1..(x - 1) : PlainFrame(w[k], s)) =>
                   /\ (\E x \in 1..Len(v) : SynFrame(v[x], s)) => PlainFrame(f, s)
                   /\ \A x \in 1..Len(v) : SynFrame(v[x], s) => \A k \in 1..(x - 1) : PlainFrame(v[k], s)
  <2>1. v = Tail(w) BY <1>8
  <2> HIDE DEF v
  <2> QED BY <1>5, <1>6, <2>1, WireTail
<1> HIDE DEF f
<1>10. Takes(y, z, f) /\ Over(z) /\ \A s \in Ids : Settled(z, s)
  <2>1. f.stream \in Ids => \E j, t : Sends(y, f.stream, j, t) BY <1>4
  <2> QED BY <1>4, <1>9, <2>1, HandleFrameTakes
<1> HIDE DEF z
<1>11. Typed(z) /\ z.role = y.role /\ z.next_stream_id = y.next_stream_id
    BY <1>10 DEF Takes, Keeps, Moves, Alters
<1>12. ASSUME NEW s \in Ids PROVE Arrives(y, z, f, s) BY <1>10, TakesArrives
<1>13. y.role = e BY <1>3, <1>y DEF EndsTyped
<1>14. EndsTyped'
  <2>1. ASSUME NEW r \in Roles
        PROVE  /\ Typed(sess'[r]) /\ Over(sess'[r]) /\ sess'[r].role = r
               /\ sess'[r].next_stream_id # None => Opener(sess'[r].next_stream_id) = r
               /\ IsSeq(wire'[r]) /\ \A x \in 1..Len(wire'[r]) : IsFrame(wire'[r][x])
    <3>1. CASE r = e BY <1>3, <1>7, <1>8, <1>10, <1>11, <1>y, <3>1 DEF EndsTyped
    <3>2. CASE r = o BY <1>1, <1>3, <1>7, <1>9, <3>2 DEF EndsTyped
    <3> QED BY <1>1, <3>1, <3>2
  <2> QED BY <1>3, <1>5, <1>7, <1>8, <2>1 DEF EndsTyped
\* A stream that a SYN can open is one that the other end opens.
<1>15. ASSUME NEW s \in Ids, ValidRemoteStreamId(y, s) PROVE Opener(s) = o /\ Acceptor(s) = e
  <2>1. s \in Nat /\ (s % 2 = 0 \/ s % 2 = 1) BY IdsFacts
  <2>2. Opener(s) # e BY <1>13, <1>15, <2>1 DEF ValidRemoteStreamId, Opener, Roles
  <2> QED BY <1>1, <2>2, RolesFacts DEF Acceptor
<1>16. ASSUME NEW s \in Ids PROVE SynOnce(s) BY DEF BytesInv
<1>17. ASSUME NEW s \in Ids, Opener(s) = e
       PROVE  /\ SynFirst(y, s) => SynFirst(z, s)
              /\ HasSyn(z, s) => HasSyn(y, s)
              /\ Quiet(y, s) => Quiet(z, s)
              /\ \A j, t : Sends(y, s, j, t) => Sends(z, s, j, t)
  <2>1. ~ValidRemoteStreamId(y, s) BY <1>1, <1>15, <1>17
  <2>2. \E p : MovesOn(y, z, s, p) BY <1>12, <2>1 DEF Arrives
  <2> QED BY <2>2 DEF MovesOn
<1>18. ASSUME NEW s \in Ids PROVE (Unopened(s)' <=> Unopened(s)) /\ (SynLeft(s)' => SynLeft(s))
  <2>1. Opener(s) \in Roles BY RolesFacts
  <2>2. Unopened(s)' <=> Unopened(s)
    <3>1. sess'[Opener(s)].next_stream_id = sess[Opener(s)].next_stream_id BY <1>1, <1>7, <1>11, <1>y, <2>1
    <3> QED BY <3>1 DEF Unopened
  <2>3. CASE Opener(s) = e BY <1>7, <1>8, <1>17, <1>y, <2>2, <2>3 DEF SynLeft
  <2>4. CASE Opener(s) = o
    <3>1. (\E x \in 1..Len(v) : SynFrame(v[x], s)) => \E x \in 1..Len(w) : SynFrame(w[x], s) BY <1>9
    <3> QED BY <1>7, <1>y, <2>2, <2>4, <3>1 DEF SynLeft
  <2> QED BY <1>1, <2>1, <2>2, <2>3, <2>4
\* As long as the stream is still to be announced, nothing of it arrives.
<1>19. ASSUME NEW s \in Ids, Opener(s) = o, SynLeft(s)' PROVE PlainFrame(f, s)
  <2>1. /\ \A x \in 1..Len(w) : SynFrame(w[x], s) => \A k \in 1..(x - 1) : PlainFrame(w[k], s)
        /\ HasSyn(sess[o], s) \/ Unopened(s) => \A x \in 1..Len(w) : PlainFrame(w[x], s)
      BY <1>16, <1>19, <1>y DEF SynOnce, WirePlain
  <2>2. HasSyn(sess[o], s) \/ Unopened(s) \/ \E x \in 1..Len(v) : SynFrame(v[x], s)
      BY <1>7, <1>18, <1>19 DEF SynLeft
  <2>3. CASE HasSyn(sess[o], s) \/ Unopened(s)
    <3>1. \A x \in 1..Len(w) : PlainFrame(w[x], s) BY <2>1, <2>3
    <3> QED BY <1>9, <3>1
  <2>4. CASE \E x \in 1..Len(v) : SynFrame(v[x], s)
    <3> HIDE DEF v
    <3> QED BY <1>9, <2>1, <2>4
  <2> QED BY <2>2, <2>3, <2>4
\* A SYN that opens a stream.
<1>20. ASSUME NEW s \in Ids, f.stream = s, "SYN" \in f.flags, ValidRemoteStreamId(y, s)
       PROVE  SynLeft(s) /\ y.streams[s] = None /\ accepted[e][s] = 0 /\ ~SynLeft(s)'
  <2>1. Opener(s) = o /\ Acceptor(s) = e BY <1>15, <1>20
  <2>2. SynFrame(f, s) /\ ~PlainFrame(f, s) BY <1>20 DEF SynFrame, PlainFrame
  <2>3. SynLeft(s) BY <1>9, <1>y, <2>1, <2>2 DEF SynLeft
  <2>4. ~SynLeft(s)' BY <1>19, <2>1, <2>2
  <2> QED BY <1>16, <1>y, <2>1, <2>3, <2>4 DEF SynOnce
<1> HIDE DEF v
<1>v. v = wire'[o] BY DEF v
<1>21. ASSUME NEW r \in Roles, NEW s \in Ids PROVE Settled(sess'[r], s)
  <2>1. Settled(sess[r], s) BY DEF BytesInv
  <2> QED BY <1>1, <1>7, <1>10, <2>1
<1>22. ASSUME NEW s \in Ids PROVE Flow(e, s)'
  <2>1. Flow(e, s) BY DEF BytesInv
  <2>2. PICK g, h, i, j \in Nat :
            /\ got[o][s] = Run(0, g) /\ Hears(sess[o], s, g, h) /\ h <= accepted[e][s]
            /\ Carries(WireParts(wire[e], s), Len(wire[e]), i, j)
            /\ Sends(y, s, j, accepted[e][s])
            /\ sess[o].streams[s] # None => h = i
            /\ SynLeft(s) => h = 0 /\ i = 0
      BY <1>2, <1>y, <2>1 DEF Flow
  <2>3. Sends(z, s, j, accepted[e][s])
    <3>1. CASE \E p : MovesOn(y, z, s, p) BY <2>2, <3>1 DEF MovesOn
    <3>2. CASE f.stream = s /\ "SYN" \in f.flags /\ ValidRemoteStreamId(y, s) /\ Opened(y, z, s, f.payload)
      <4>1. accepted[e][s] = 0 BY <1>20, <3>2
      <4> QED BY <2>2, <3>2, <4>1 DEF Opened
    <3> QED BY <1>12, <3>1, <3>2 DEF Arrives
  <2>4. /\ got'[o][s] = Run(0, g) /\ Hears(sess'[o], s, g, h) /\ h <= accepted'[e][s]
        /\ Carries(WireParts(wire'[e], s), Len(wire'[e]), i, j)
        /\ Sends(sess'[e], s, j, accepted'[e][s])
        /\ sess'[o].streams[s] # None => h = i
      BY <1>5, <1>7, <1>8, <2>2, <2>3
  <2>5. SynLeft(s)' => h = 0 /\ i = 0 BY <1>18, <2>2
  <2> QED BY <1>2, <2>4, <2>5 DEF Flow
<1>23. ASSUME NEW s \in Ids PROVE Flow(o, s)'
  <2>1. Flow(o, s) BY <1>1 DEF BytesInv
  <2>2. PICK g, h, i, j \in Nat :
            /\ got[e][s] = Run(0, g) /\ Hears(y, s, g, h) /\ h <= accepted[o][s]
            /\ Carries(WireParts(w, s), Len(w), i, j)
            /\ Sends(sess[o], s, j, accepted[o][s])
            /\ y.streams[s] # None => h = i
            /\ SynLeft(s) => h = 0 /\ i = 0
      BY <1>1, <1>y, <2>1 DEF Flow
  <2>3. PICK d \in Nat : /\ i <= d /\ d <= j /\ FramePart(f, s) = Run(i, d)
                         /\ Carries(WireParts(v, s), Len(v), d, j)
      BY <1>9, <2>2
  <2>4. Typed(sess[o]) BY <1>1, <1>3 DEF EndsTyped
  <2>5. accepted[o][s] \in Nat /\ j <= accepted[o][s] BY <2>2, <2>4, SendsBounds
  <2>6. "SYN" \in f.flags /\ f.stream = s /\ ValidRemoteStreamId(y, s) => h = i BY <1>20, <2>2
  <2>7. PICK b \in Nat : Hears(z, s, g, b) /\ (b <= h \/ b <= d) /\ (z.streams[s] # None => b = d)
      BY <1>4, <1>12, <2>2, <2>3, <2>6, ArrivesHears
  <2>8. b <= accepted[o][s] BY <2>2, <2>3, <2>5, <2>7
  <2>9. ASSUME SynLeft(s)' PROVE b = 0 /\ d = 0
    <3>1. h = 0 /\ i = 0 /\ SynLeft(s) BY <1>18, <2>2, <2>9
    <3>2. d = 0
      <4>1. CASE Opener(s) = o
        <5>1. FramePart(f, s) = <<>> BY <1>19, <2>9, <4>1 DEF PlainFrame, FramePart
        <5> QED BY <2>3, <3>1, <5>1, EmptyRun
      <4>2. CASE Opener(s) = e
        <5>1. Acceptor(s) = o BY <1>2, <4>2 DEF Acceptor
        <5>2. accepted[o][s] = 0 BY <1>16, <3>1, <5>1 DEF SynOnce
        <5> QED BY <2>3, <2>5, <5>2
      <4> QED BY <1>1, <4>1, <4>2, RolesFacts
    <3> QED BY <2>7, <3>1, <3>2
  <2>10. /\ got'[e][s] = Run(0, g) /\ Hears(sess'[e], s, g, b) /\ b <= accepted'[o][s]
         /\ Carries(WireParts(wire'[o], s), Len(wire'[o]), d, j)
         /\ Sends(sess'[o], s, j, accepted'[o][s])
         /\ sess'[e].streams[s] # None => b = d
      BY <1>5, <1>7, <1>v, <2>2, <2>3, <2>7, <2>8
  <2> QED BY <1>1, <2>9, <2>10 DEF Flow
<1>24. ASSUME NEW s \in Ids PROVE SynOnce(s)'
  <2>1. SynOnce(s) BY <1>16
  <2>2. Opener(s) \in Roles BY RolesFacts
  <2>3. CASE Opener(s) = e
    <3>1. Acceptor(s) = o BY <1>2, <2>3 DEF Acceptor
    <3>2. SynFirst(sess'[e], s) BY <1>7, <1>17, <1>y, <2>1, <2>3 DEF SynOnce
    <3>3. HasSyn(sess'[e], s) \/ Unopened(s)' => WirePlain(e, s)'
      <4>1. WirePlain(e, s)' <=> WirePlain(e, s) BY <1>8 DEF WirePlain
      <4>2. HasSyn(sess'[e], s) => HasSyn(sess[e], s) BY <1>7, <1>17, <1>y, <2>3
      <4> QED BY <1>18, <2>1, <2>3, <4>1, <4>2 DEF SynOnce
    <3>4. Unopened(s)' => Quiet(sess'[e], s) /\ accepted'[e][s] = 0
        BY <1>5, <1>7, <1>17, <1>18, <1>y, <2>1, <2>3 DEF SynOnce
    <3>5. SynLeft(s)' => sess'[o].streams[s] = None /\ accepted'[o][s] = 0
        BY <1>5, <1>7, <1>18, <2>1, <3>1 DEF SynOnce
    <3> QED BY <1>8, <2>1, <2>3, <3>1, <3>2, <3>3, <3>4, <3>5 DEF SynOnce
  <2>4. CASE Opener(s) = o
    <3>1. Acceptor(s) = e BY <1>1, <2>4 DEF Acceptor
    <3>2. /\ SynFirst(sess[o], s)
          /\ \A x \in 1..Len(w) : SynFrame(w[x], s) => \A k \in 1..(x - 1) : PlainFrame(w[k], s)
          /\ HasSyn(sess[o], s) \/ Unopened(s) => \A x \in 1..Len(w) : PlainFrame(w[x], s)
          /\ Unopened(s) => Quiet(sess[o], s) /\ accepted[o][s] = 0
          /\ SynLeft(s) => y.streams[s] = None /\ accepted[e][s] = 0
        BY <1>y, <2>1, <2>4, <3>1 DEF SynOnce, WirePlain
    <3>3. \A x \in 1..Len(v) : SynFrame(v[x], s) => \A k \in 1..(x - 1) : PlainFrame(v[k], s) BY <1>9, <3>2
    <3>4. HasSyn(sess[o], s) \/ Unopened(s) => \A x \in 1..Len(v) : PlainFrame(v[x], s) BY <1>9, <3>2
    <3>5. ASSUME SynLeft(s)' PROVE z.streams[s] = None
      <4>1. y.streams[s] = None BY <1>18, <3>2, <3>5
      <4>2. \E p : MovesOn(y, z, s, p) BY <1>12, <1>20, <3>5 DEF Arrives
      <4> QED BY <4>1, <4>2 DEF MovesOn
    <3>6. SynLeft(s)' => sess'[e].streams[s] = None /\ accepted'[e][s] = 0 BY <1>5, <1>7, <1>18, <3>2, <3>5
    <3>7. HasSyn(sess'[o], s) \/ Unopened(s)' => WirePlain(o, s)' BY <1>7, <1>18, <1>v, <3>4 DEF WirePlain
    <3>8. SynFirst(sess'[o], s) /\ (Unopened(s)' => Quiet(sess'[o], s) /\ accepted'[o][s] = 0)
        BY <1>5, <1>7, <1>18, <3>2
    <3>9. \A x \in 1..Len(wire'[o]) : SynFrame(wire'[o][x], s) => \A k \in 1..(x - 1) : PlainFrame(wire'[o][k], s)
        BY <1>v, <3>3
    <3> QED BY <2>4, <3>1, <3>6, <3>7, <3>8, <3>9 DEF SynOnce
  <2> QED BY <1>1, <2>2, <2>3, <2>4
<1>25. ASSUME NEW r \in Roles, NEW s \in Ids PROVE Flow(r, s)' BY <1>1, <1>22, <1>23
<1> QED BY <1>14, <1>21, <1>24, <1>25 DEF BytesInv

-----------------------------------------------------------------------------
(* The specification. *)

LEMMA InitBytes == Init => BytesInv
<1> SUFFICES ASSUME Init PROVE BytesInv OBVIOUS
<1>1. /\ sess = [e \in Roles |-> NewSession(e)] /\ wire = [e \in Roles |-> <<>>]
      /\ accepted = [e \in Roles |-> [s \in Ids |-> 0]]
      /\ got = [e \in Roles |-> [s \in Ids |-> <<>>]] /\ now = 0 /\ work \in Workload
    BY WorkloadAssumption DEF Init
<1>2. IsSeq(<<>>) /\ Len(<<>>) = 0
  <2>1. <<>> \in Seq({}) OBVIOUS
  <2> QED BY <2>1 DEF IsSeq
<1>3. ASSUME NEW e \in Roles
      PROVE  /\ sess[e] = NewSession(e) /\ wire[e] = <<>>
             /\ \A s \in Ids : accepted[e][s] = 0 /\ got[e][s] = <<>> /\ sess[e].streams[s] = None
             /\ sess[e].pending = <<>> /\ sess[e].role = e
             /\ Len(sess[e].pending) = 0 /\ Len(wire[e]) = 0
    BY <1>1, <1>2 DEF NewSession
<1>4. 1..0 = {} OBVIOUS
<1>5. ASSUME NEW e \in Roles PROVE Typed(sess[e]) /\ Over(sess[e])
  <2>1. NewSession(e).next_stream_id \in Nat BY DEF NewSession
  <2>2. DOMAIN NewSession(e).streams = Ids /\ \A s \in Ids : NewSession(e).streams[s] = None BY DEF NewSession
  <2>3. DOMAIN NewSession(e) = { "role", "streams", "next_stream_id", "pending", "total_buffered_send", "failed",
                                 "local_go_away", "remote_go_away", "last_activity", "dirty" }
      BY DEF NewSession
  <2> QED BY <1>2, <1>3, <1>4, <2>1, <2>2, <2>3 DEF Typed, Over
<1>6. ASSUME NEW e \in Roles PROVE Opener(sess[e].next_stream_id) = e
  <2>1. 1 % 2 = 1 /\ 2 % 2 = 0 OBVIOUS
  <2> QED BY <1>3, <2>1 DEF NewSession, Opener, Roles
<1>7. EndsTyped
  <2>1. DOMAIN sess = Roles /\ DOMAIN wire = Roles /\ DOMAIN got = Roles /\ now \in Nat BY <1>1
  <2>2. accepted \in [Roles -> [Ids -> Nat]] /\ \A e \in Roles : DOMAIN got[e] = Ids BY <1>1
  <2> QED BY <1>1, <1>2, <1>3, <1>4, <1>5, <1>6, <2>1, <2>2 DEF EndsTyped
<1>8. ASSUME NEW q, NEW m, m = 0 PROVE Carries(q, m, 0, 0)
  <2>1. m \in Nat /\ 1..m = {} BY <1>8
  <2> QED BY <2>1, CarriesNothing
<1>9. ASSUME NEW e \in Roles, NEW s \in Ids PROVE Settled(sess[e], s) /\ Flow(e, s)
  <2> DEFINE o == Other(e)
  <2>1. o \in Roles BY RolesFacts
  <2>2. Run(0, 0) = <<>> BY EmptyRun
  <2>3. Hears(sess[o], s, 0, 0) BY <1>3, <1>8, <2>1 DEF Hears
  <2>4. Carries(WireParts(wire[e], s), Len(wire[e]), 0, 0) BY <1>3, <1>8
  <2>5. Carries(OutParts(sess[e].pending, s), Len(sess[e].pending), 0, 0) BY <1>3, <1>8
  <2>6. Sends(sess[e], s, 0, 0) BY <1>3, <2>5 DEF Sends
  <2>7. got[o][s] = Run(0, 0) /\ accepted[e][s] = 0 /\ sess[o].streams[s] = None BY <1>3, <2>1, <2>2
  <2>8. Flow(e, s) BY <2>3, <2>4, <2>6, <2>7 DEF Flow
  <2>9. Settled(sess[e], s) BY <1>3 DEF Settled
  <2> QED BY <2>8, <2>9
<1>10. ASSUME NEW s \in Ids PROVE SynOnce(s)
  <2>1. Opener(s) \in Roles /\ Acceptor(s) \in Roles BY RolesFacts
  <2> DEFINE r == Opener(s)
             q == Acceptor(s)
  <2>2. /\ Len(sess[r].pending) = 0 /\ Len(wire[r]) = 0 /\ sess[r].streams[s] = None /\ accepted[r][s] = 0
        /\ sess[q].streams[s] = None /\ accepted[q][s] = 0
      BY <1>3, <2>1
  <2>3. SynFirst(sess[r], s) /\ Quiet(sess[r], s) BY <1>4, <2>2 DEF SynFirst, Quiet, AllPlain, OpensLater
  <2>4. WirePlain(r, s) BY <1>4, <2>2 DEF WirePlain
  <2> QED BY <1>4, <2>2, <2>3, <2>4 DEF SynOnce
<1> QED BY <1>7, <1>9, <1>10 DEF BytesInv

LEMMA StepBytes == BytesInv /\ [Next]_vars => BytesInv'
<1> SUFFICES ASSUME BytesInv, [Next]_vars PROVE BytesInv' OBVIOUS
<1>1. CASE UNCHANGED vars
    BY <1>1 DEF vars, BytesInv, EndsTyped, Flow, SynOnce, SynLeft, Unopened, WirePlain
<1>2. CASE Next
  <2>1. PICK e \in Roles :
            \/ HostOpens(e)
            \/ \E s \in Ids : (\E n \in 0..work.MaxSend : HostSends(e, s, n)) \/ HostCloses(e, s) \/ HostResets(e, s)
            \/ HostGoesAway(e)
            \/ \E t \in now..work.MaxNow : HostPolls(e, t)
            \/ PollOutput(e)
            \/ FrameArrives(e)
      BY <1>2 DEF Next
  <2>2. CASE HostOpens(e) BY <2>2, HostOpensStep
  <2>3. ASSUME NEW s \in Ids, NEW n \in 0..work.MaxSend, HostSends(e, s, n) PROVE BytesInv' BY <2>3, HostSendsStep
  <2>4. ASSUME NEW s \in Ids, HostCloses(e, s) PROVE BytesInv' BY <2>4, HostClosesStep
  <2>5. ASSUME NEW s \in Ids, HostResets(e, s) PROVE BytesInv' BY <2>5, HostResetsStep
  <2>6. CASE HostGoesAway(e) BY <2>6, HostGoesAwayStep
  <2>7. ASSUME NEW t \in now..work.MaxNow, HostPolls(e, t) PROVE BytesInv' BY <2>7, HostPollsStep
  <2>8. CASE PollOutput(e) BY <2>8, PollOutputStep
  <2>9. CASE FrameArrives(e) BY <2>9, FrameArrivesStep
  <2> QED BY <2>1, <2>2, <2>3, <2>4, <2>5, <2>6, <2>7, <2>8, <2>9
<1> QED BY <1>1, <1>2

\* In every behaviour of two ends the bytes of a stream are where BytesInv says: what the
\* host has, the session, the connection and the sender's queue and buffer follow on.
THEOREM BytesInvariant == Spec => []BytesInv
<1>1. Init => BytesInv BY InitBytes
<1>2. BytesInv /\ [Next]_vars => BytesInv' BY StepBytes
<1> QED BY <1>1, <1>2, PTL DEF Spec

LEMMA BytesArrive == BytesInv => InOrder
<1> SUFFICES ASSUME BytesInv, NEW e \in Roles, NEW s \in Ids
             PROVE  /\ \A i \in DOMAIN got[e][s] : got[e][s][i] = i
                    /\ Len(got[e][s]) <= accepted[Other(e)][s]
    BY DEF InOrder
<1> DEFINE o == Other(e)
<1>1. o \in Roles /\ Other(o) = e BY RolesFacts
<1>2. Flow(o, s) BY <1>1 DEF BytesInv
<1> HIDE DEF o
<1>3. PICK g, h \in Nat : got[e][s] = Run(0, g) /\ Hears(sess[e], s, g, h) /\ h <= accepted[o][s]
    BY <1>1, <1>2 DEF Flow
<1>4. Typed(sess[e]) /\ accepted[o][s] \in Nat BY <1>1 DEF BytesInv, EndsTyped
<1>5. g <= h BY <1>3, <1>4, HearsBounds
<1>6. 0 \in Nat /\ 0 <= g /\ g - 0 = g OBVIOUS
<1>7. /\ Len(Run(0, g)) = g /\ DOMAIN Run(0, g) = 1..g
      /\ \A k \in 1..g : Run(0, g)[k] = 0 + k
    BY <1>6, RunFacts
<1> QED BY <1>3, <1>4, <1>5, <1>7 DEF o

\* Whatever the hosts do and however the frames of both ends interleave, the bytes of a
\* stream reach the other host in the order in which they were accepted, without gaps or
\* repetitions (send, flush_buffered and on_data of session.rs).
THEOREM BytesInOrder == Spec => []InOrder
<1>1. BytesInv => InOrder BY BytesArrive
<1> QED BY <1>1, BytesInvariant, PTL
======
