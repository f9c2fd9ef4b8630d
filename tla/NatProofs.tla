----------------------------- MODULE NatProofs -----------------------------
(***************************************************************************)
(* Every connect id has one outcome, in every reachable state of Nat, for  *)
(* any number of connect ids, inbound circuits, peers, connections and     *)
(* streams, any timers and any queue bounds.                               *)
(*                                                                         *)
(* What has been said of a connect id is spread over the log of the events *)
(* that the driver took and the queue of those it has not: Story says that *)
(* the two together are a legal sequence.  An attempt that is not done is  *)
(* tied to it by Kept: without a path nothing was said (Fresh), and no     *)
(* hole punch is under way; with one, the last word was not (Open).        *)
(*                                                                         *)
(* The lemmas follow the code: what may be said next, the operators that   *)
(* say nothing of any attempt (Silent) or only move a leg (Alike), the     *)
(* handlers of an attempt, those of the agent, which go through the        *)
(* attempts in order, and the actions.                                     *)
(***************************************************************************)
EXTENDS Nat, TLAPS, WellFoundedInduction, NaturalsInduction, FiniteSetTheorems

-----------------------------------------------------------------------------
(* Events. *)

\* Event e is about connect id i.
Is(e, i) == "id" \in DOMAIN e /\ e.id = i

\* The event that a connect id begins with, those that may follow it, and those
\* that nothing follows.
Opener(e) == e.event \in {"PathEstablished", "ConnectFailed"}
Follow(e) == e.event \in {"HolePunchFailed", "PathUpgraded", "FellBackToRelay"}
Final(e) ==
    \/ e.event \in {"ConnectFailed", "PathUpgraded", "FellBackToRelay"}
    \/ e.event = "PathEstablished" /\ e.path # "Relayed"

\* The log l of a connect id is legal.
Told(l) ==
    \A k \in 1..Len(l) :
        /\ k = 1 => Opener(l[k])
        /\ k > 1 => Follow(l[k])
        /\ k < Len(l) => ~Final(l[k])

\* Nothing was said of i, neither in its log nor in the queue.
Fresh(ev, l, i) == l = <<>> /\ \A k \in 1..Len(ev) : ~Is(ev[k], i)

\* Something was said of i, and not the last word.
Open(ev, l, i) ==
    /\ ~Fresh(ev, l, i)
    /\ l # <<>> => ~Final(l[Len(l)])
    /\ \A k \in 1..Len(ev) : Is(ev[k], i) => ~Final(ev[k])

\* The log and the queue together are legal.
Story(ev, l, i) ==
    /\ Told(l)
    /\ \A k \in 1..Len(ev) : Is(ev[k], i) =>
        /\ IF l = <<>> /\ \A h \in 1..(k - 1) : ~Is(ev[h], i) THEN Opener(ev[k]) ELSE Follow(ev[k])
        /\ Final(ev[k]) => \A h \in (k + 1)..Len(ev) : ~Is(ev[h], i)
        /\ l # <<>> => ~Final(l[Len(l)])

\* A sequence, of whatever elements.
IsSeq(s) == \E X : s \in Seq(X)

\* What holds of j's story before holds after.
Spares(ev, fv, j) ==
    \A l : /\ Fresh(ev, l, j) => Fresh(fv, l, j)
           /\ Open(ev, l, j) => Open(fv, l, j)
           /\ Story(ev, l, j) => Story(fv, l, j)

-----------------------------------------------------------------------------
(* The agent. *)

\* What the results need to know of an attempt's record.
IsAttempt(a) == {"best", "done", "punch_dl", "dcutr"} \subseteq DOMAIN a

\* What the story of an attempt that is not done must be.
Fits(a, ev, l, i) ==
    IF a.best = None THEN Fresh(ev, l, i) /\ a.punch_dl = None /\ a.dcutr = None
    ELSE a.best = "Relayed" /\ Open(ev, l, i)

\* Connect id j: an id not handed out yet has no attempt and no story.
Kept(g, l, j) ==
    LET a == g.attempts[j]
    IN  /\ Story(g.events, l[j], j)
        /\ a = None \/ IsAttempt(a)
        /\ a # None /\ ~a.done => Fits(a, g.events, l[j], j)
        /\ j >= g.next.connect => a = None /\ Fresh(g.events, l[j], j)

Shape(g) ==
    /\ {"attempts", "events", "next", "actions"} \subseteq DOMAIN g
    /\ DOMAIN g.attempts = ConnectIds
    /\ "connect" \in DOMAIN g.next
    /\ IsSeq(g.events)

Good(g, l) == Shape(g) /\ \A j \in ConnectIds : Kept(g, l, j)

\* No call leaves an attempt that is done behind.
NoneDone(g) == \A j \in ConnectIds : g.attempts[j] = None \/ ~g.attempts[j].done

\* The inductive invariant.
NatInv ==
    /\ Good(n, log)
    /\ NoneDone(n)
    /\ DOMAIN log = ConnectIds
    /\ \A i \in ConnectIds : IsSeq(log[i])

-----------------------------------------------------------------------------
(* What may be said next. *)

\* A sequence stays one when an element is added or its head is taken, and this is
\* what is then where.
LEMMA Appended ==
  ASSUME NEW s, IsSeq(s), NEW e
  PROVE  /\ IsSeq(Append(s, e))
         /\ Len(s) \in Nat
         /\ Len(Append(s, e)) = Len(s) + 1
         /\ Append(s, e)[Len(s) + 1] = e
         /\ \A k \in 1..Len(s) : Append(s, e)[k] = s[k]
         /\ Append(s, e) # <<>>
<1>1. PICK X : s \in Seq(X) BY DEF IsSeq
<1> DEFINE Y == X \cup {e}
<1>2. s \in Seq(Y) /\ e \in Y BY <1>1
<1> HIDE DEF Y
<1>3. Append(s, e) \in Seq(Y) BY <1>2
<1>4. Len(s) \in Nat /\ Len(Append(s, e)) = Len(s) + 1 BY <1>2
<1>5. Append(s, e)[Len(s) + 1] = e BY <1>2
<1>6. \A k \in 1..Len(s) : Append(s, e)[k] = s[k] BY <1>2
<1>7. Append(s, e) # <<>> BY <1>3, <1>4
<1> QED BY <1>3, <1>4, <1>5, <1>6, <1>7 DEF IsSeq

LEMMA Taken ==
  ASSUME NEW s, IsSeq(s), s # <<>>
  PROVE  /\ IsSeq(Tail(s))
         /\ Len(s) \in Nat /\ Len(s) > 0
         /\ Len(Tail(s)) = Len(s) - 1
         /\ \A k \in 1..(Len(s) - 1) : Tail(s)[k] = s[k + 1]
         /\ Head(s) = s[1]
<1>1. PICK X : s \in Seq(X) BY DEF IsSeq
<1>2. Tail(s) \in Seq(X) BY <1>1
<1>3. Len(s) \in Nat /\ Len(s) > 0 /\ Len(Tail(s)) = Len(s) - 1 BY <1>1
<1>4. \A k \in 1..(Len(s) - 1) : Tail(s)[k] = s[k + 1] BY <1>1
<1>5. Head(s) = s[1] BY <1>1
<1> QED BY <1>2, <1>3, <1>4, <1>5 DEF IsSeq

LEMMA SparesItself == \A ev, j : Spares(ev, ev, j)
BY Zenon DEF Spares

LEMMA SparesOn ==
  ASSUME NEW ev, NEW fv, NEW hv, NEW j, Spares(ev, fv, j), Spares(fv, hv, j)
  PROVE  Spares(ev, hv, j)
BY Zenon DEF Spares

\* An event about another id, or about none.
LEMMA SaidOfOthers ==
  ASSUME NEW ev, IsSeq(ev), NEW e, NEW j, ~Is(e, j)
  PROVE  Spares(ev, Append(ev, e), j)
<1> DEFINE fv == Append(ev, e)
<1>1. /\ Len(ev) \in Nat /\ Len(fv) = Len(ev) + 1 /\ fv[Len(ev) + 1] = e
      /\ \A k \in 1..Len(ev) : fv[k] = ev[k]
    BY Appended
<1> HIDE DEF fv
<1>2. \A k \in 1..Len(fv) : Is(fv[k], j) => k \in 1..Len(ev) /\ Is(ev[k], j)
    BY <1>1
<1> SUFFICES ASSUME NEW l
             PROVE  /\ Fresh(ev, l, j) => Fresh(fv, l, j)
                    /\ Open(ev, l, j) => Open(fv, l, j)
                    /\ Story(ev, l, j) => Story(fv, l, j)
    BY DEF Spares, fv
<1>3. Fresh(ev, l, j) <=> Fresh(fv, l, j) BY <1>1, <1>2 DEF Fresh
<1>4. Open(ev, l, j) => Open(fv, l, j) BY <1>1, <1>2, <1>3 DEF Open
<1>5. ASSUME Story(ev, l, j) PROVE Story(fv, l, j)
  <2> SUFFICES ASSUME NEW k \in 1..Len(fv), Is(fv[k], j)
               PROVE  /\ IF l = <<>> /\ \A h \in 1..(k - 1) : ~Is(fv[h], j)
                         THEN Opener(fv[k]) ELSE Follow(fv[k])
                      /\ Final(fv[k]) => \A h \in (k + 1)..Len(fv) : ~Is(fv[h], j)
                      /\ l # <<>> => ~Final(l[Len(l)])
      BY <1>5 DEF Story
  <2>1. k \in 1..Len(ev) /\ Is(ev[k], j) /\ fv[k] = ev[k] BY <1>1, <1>2
  <2>2. /\ IF l = <<>> /\ \A h \in 1..(k - 1) : ~Is(ev[h], j)
           THEN Opener(ev[k]) ELSE Follow(ev[k])
        /\ Final(ev[k]) => \A h \in (k + 1)..Len(ev) : ~Is(ev[h], j)
        /\ l # <<>> => ~Final(l[Len(l)])
      BY <1>5, <2>1 DEF Story
  <2>3. \A h \in 1..(k - 1) : fv[h] = ev[h] BY <1>1, <2>1
  <2>4. Final(ev[k]) => \A h \in (k + 1)..Len(fv) : ~Is(fv[h], j) BY <1>1, <1>2, <2>1, <2>2
  <2> QED BY <2>1, <2>2, <2>3, <2>4
<1> QED BY <1>3, <1>4, <1>5

\* The first event of an id.
LEMMA SaidFirst ==
  ASSUME NEW ev, IsSeq(ev), NEW l, NEW e, NEW i, Is(e, i), Fresh(ev, l, i), Opener(e)
  PROVE  /\ Story(Append(ev, e), l, i)
         /\ ~Final(e) => Open(Append(ev, e), l, i)
<1> DEFINE fv == Append(ev, e)
<1>1. /\ Len(ev) \in Nat /\ Len(fv) = Len(ev) + 1 /\ fv[Len(ev) + 1] = e
      /\ \A k \in 1..Len(ev) : fv[k] = ev[k]
    BY Appended
<1> HIDE DEF fv
<1>2. \A k \in 1..Len(fv) : Is(fv[k], i) => k = Len(ev) + 1 BY <1>1 DEF Fresh
<1>3. Told(l) /\ l = <<>> BY DEF Told, Fresh
<1>4. \A h \in 1..Len(ev) : ~Is(fv[h], i) BY <1>1, <1>2
<1>5. Story(fv, l, i) BY <1>1, <1>2, <1>3, <1>4 DEF Story
<1>6. ~Fresh(fv, l, i) BY <1>1 DEF Fresh
<1>7. ~Final(e) => Open(fv, l, i) BY <1>1, <1>2, <1>3, <1>6 DEF Open
<1> QED BY <1>5, <1>7 DEF fv

\* An event after it.
LEMMA SaidNext ==
  ASSUME NEW ev, IsSeq(ev), NEW l, NEW e, NEW i, Is(e, i),
         Story(ev, l, i), Open(ev, l, i), Follow(e)
  PROVE  /\ Story(Append(ev, e), l, i)
         /\ ~Final(e) => Open(Append(ev, e), l, i)
<1> DEFINE fv == Append(ev, e)
<1>1. /\ Len(ev) \in Nat /\ Len(fv) = Len(ev) + 1 /\ fv[Len(ev) + 1] = e
      /\ \A k \in 1..Len(ev) : fv[k] = ev[k]
    BY Appended
<1> HIDE DEF fv
<1>2. Told(l) BY DEF Story
<1>3. l # <<>> \/ \E h \in 1..Len(ev) : Is(fv[h], i) BY <1>1 DEF Open, Fresh
<1>4. l # <<>> => ~Final(l[Len(l)]) BY DEF Open
<1>5. ASSUME NEW k \in 1..Len(fv), Is(fv[k], i)
      PROVE  /\ IF l = <<>> /\ \A h \in 1..(k - 1) : ~Is(fv[h], i)
                THEN Opener(fv[k]) ELSE Follow(fv[k])
             /\ Final(fv[k]) => \A h \in (k + 1)..Len(fv) : ~Is(fv[h], i)
  <2>1. CASE k = Len(ev) + 1 BY <1>1, <1>3, <2>1
  <2>2. CASE k # Len(ev) + 1
    <3>1. k \in 1..Len(ev) /\ fv[k] = ev[k] BY <1>1, <2>2
    <3>2. ~Final(fv[k]) BY <1>5, <3>1 DEF Open
    <3>3. IF l = <<>> /\ \A h \in 1..(k - 1) : ~Is(ev[h], i) THEN Opener(ev[k]) ELSE Follow(ev[k])
        BY <1>5, <3>1 DEF Story
    <3>4. \A h \in 1..(k - 1) : fv[h] = ev[h] BY <1>1, <3>1
    <3> QED BY <3>1, <3>2, <3>3, <3>4
  <2> QED BY <2>1, <2>2
<1>6. Story(fv, l, i) BY <1>2, <1>4, <1>5 DEF Story
<1>7. ~Fresh(fv, l, i) BY <1>1, <1>3 DEF Fresh
<1>8. ~Final(e) => Open(fv, l, i) BY <1>1, <1>4, <1>7 DEF Open
<1> QED BY <1>6, <1>8 DEF fv

\* An event that the driver takes moves from the queue to the log.
LEMMA SaidTaken ==
  ASSUME NEW ev, IsSeq(ev), ev # <<>>, NEW l, IsSeq(l), NEW i, Is(Head(ev), i), Story(ev, l, i)
  PROVE  /\ Story(Tail(ev), Append(l, Head(ev)), i)
         /\ ~Fresh(ev, l, i)
         /\ Open(ev, l, i) => Open(Tail(ev), Append(l, Head(ev)), i)
<1> DEFINE fv == Tail(ev)
           e  == Head(ev)
           m  == Append(l, e)
<1>1. /\ Len(ev) \in Nat /\ Len(ev) > 0 /\ Len(fv) = Len(ev) - 1 /\ e = ev[1]
      /\ \A k \in 1..(Len(ev) - 1) : fv[k] = ev[k + 1]
    BY Taken
<1>2. /\ Len(l) \in Nat /\ Len(m) = Len(l) + 1 /\ m[Len(l) + 1] = e /\ m # <<>>
      /\ \A k \in 1..Len(l) : m[k] = l[k]
    BY Appended
<1> HIDE DEF fv, e, m
<1>3. Is(ev[1], i) BY <1>1 DEF e
<1>4. 1 \in 1..Len(ev) BY <1>1
<1>5. IF l = <<>> THEN Opener(e) ELSE Follow(e)
  <2>1. IF l = <<>> /\ \A h \in 1..(1 - 1) : ~Is(ev[h], i) THEN Opener(ev[1]) ELSE Follow(ev[1])
      BY <1>3, <1>4 DEF Story
  <2>2. \A h \in 1..(1 - 1) : ~Is(ev[h], i) OBVIOUS
  <2> QED BY <1>1, <2>1, <2>2
<1>6. l # <<>> => ~Final(l[Len(l)]) BY <1>3, <1>4 DEF Story
<1>7. l = <<>> <=> Len(l) = 0
  <2>1. PICK X : l \in Seq(X) BY DEF IsSeq
  <2> QED BY <2>1
<1>8. Told(m)
  <2> SUFFICES ASSUME NEW k \in 1..Len(m)
               PROVE  /\ k = 1 => Opener(m[k])
                      /\ k > 1 => Follow(m[k])
                      /\ k < Len(m) => ~Final(m[k])
      BY DEF Told
  <2>1. CASE k = Len(l) + 1 BY <1>2, <1>5, <1>7, <2>1
  <2>2. CASE k # Len(l) + 1
    <3>1. k \in 1..Len(l) /\ m[k] = l[k] BY <1>2, <2>2
    <3>2. /\ k = 1 => Opener(l[k])
          /\ k > 1 => Follow(l[k])
          /\ k < Len(l) => ~Final(l[k])
        BY <3>1 DEF Story, Told
    <3>3. k = Len(l) => ~Final(l[k]) BY <1>2, <1>6, <1>7, <3>1
    <3> QED BY <1>2, <3>1, <3>2, <3>3
  <2> QED BY <2>1, <2>2
<1>9. ASSUME NEW k \in 1..Len(fv), Is(fv[k], i)
      PROVE  /\ Follow(fv[k])
             /\ Final(fv[k]) => \A h \in (k + 1)..Len(fv) : ~Is(fv[h], i)
             /\ ~Final(e)
  <2>1. k + 1 \in 1..Len(ev) /\ fv[k] = ev[k + 1] /\ 1 \in 1..((k + 1) - 1) BY <1>1
  <2>2. Is(ev[k + 1], i) BY <1>9, <2>1
  <2>3. IF l = <<>> /\ \A h \in 1..((k + 1) - 1) : ~Is(ev[h], i)
        THEN Opener(ev[k + 1]) ELSE Follow(ev[k + 1])
      BY <2>1, <2>2 DEF Story
  <2>4. Follow(fv[k]) BY <1>3, <2>1, <2>3
  <2>5. Final(ev[k + 1]) => \A h \in ((k + 1) + 1)..Len(ev) : ~Is(ev[h], i)
      BY <2>1, <2>2 DEF Story
  <2>6. ASSUME Final(fv[k]), NEW h \in (k + 1)..Len(fv) PROVE ~Is(fv[h], i)
    <3>1. h + 1 \in ((k + 1) + 1)..Len(ev) /\ h \in 1..(Len(ev) - 1) BY <1>1
    <3> QED BY <1>1, <2>1, <2>5, <2>6, <3>1
  <2>7. Final(ev[1]) => \A h \in (1 + 1)..Len(ev) : ~Is(ev[h], i)
      BY <1>3, <1>4 DEF Story
  <2>8. k + 1 \in (1 + 1)..Len(ev) BY <2>1
  <2>9. ~Final(e) BY <1>1, <2>2, <2>7, <2>8
  <2> QED BY <2>4, <2>6, <2>9
<1>10. Story(fv, m, i) BY <1>2, <1>8, <1>9 DEF Story
<1>11. ~Fresh(ev, l, i) BY <1>3, <1>4 DEF Fresh
<1>12. ASSUME Open(ev, l, i) PROVE Open(fv, m, i)
  <2>1. ~Final(e) BY <1>1, <1>3, <1>4, <1>12 DEF Open
  <2>2. \A k \in 1..Len(fv) : k + 1 \in 1..Len(ev) /\ fv[k] = ev[k + 1] BY <1>1
  <2>3. \A k \in 1..Len(fv) : Is(fv[k], i) => ~Final(fv[k]) BY <1>12, <2>2 DEF Open
  <2> QED BY <1>2, <2>1, <2>3 DEF Open, Fresh
<1> QED BY <1>10, <1>11, <1>12 DEF fv, m, e

\* To the other ids this is nothing.
LEMMA TakenOfOthers ==
  ASSUME NEW ev, IsSeq(ev), ev # <<>>, NEW j, ~Is(Head(ev), j)
  PROVE  Spares(ev, Tail(ev), j)
<1> DEFINE fv == Tail(ev)
<1>1. /\ Len(ev) \in Nat /\ Len(ev) > 0 /\ Len(fv) = Len(ev) - 1 /\ ~Is(ev[1], j)
      /\ \A k \in 1..(Len(ev) - 1) : fv[k] = ev[k + 1]
    BY Taken
<1> HIDE DEF fv
<1>2. \A k \in 1..Len(fv) : k + 1 \in 1..Len(ev) /\ fv[k] = ev[k + 1] BY <1>1
<1>3. \A k \in 1..Len(ev) : Is(ev[k], j) => k - 1 \in 1..Len(fv) /\ fv[k - 1] = ev[k]
  <2> TAKE k \in 1..Len(ev)
  <2>1. k # 1 => k - 1 \in 1..(Len(ev) - 1) /\ (k - 1) + 1 = k BY <1>1
  <2> QED BY <1>1, <2>1
<1> SUFFICES ASSUME NEW l
             PROVE  /\ Fresh(ev, l, j) => Fresh(fv, l, j)
                    /\ Open(ev, l, j) => Open(fv, l, j)
                    /\ Story(ev, l, j) => Story(fv, l, j)
    BY DEF Spares, fv
<1>4. Fresh(ev, l, j) <=> Fresh(fv, l, j) BY <1>2, <1>3 DEF Fresh
<1>5. Open(ev, l, j) => Open(fv, l, j) BY <1>2, <1>4 DEF Open
<1>6. ASSUME Story(ev, l, j) PROVE Story(fv, l, j)
  <2>1. Told(l) BY <1>6 DEF Story
  <2> SUFFICES ASSUME NEW k \in 1..Len(fv), Is(fv[k], j)
               PROVE  /\ IF l = <<>> /\ \A h \in 1..(k - 1) : ~Is(fv[h], j)
                         THEN Opener(fv[k]) ELSE Follow(fv[k])
                      /\ Final(fv[k]) => \A h \in (k + 1)..Len(fv) : ~Is(fv[h], j)
                      /\ l # <<>> => ~Final(l[Len(l)])
      BY <2>1 DEF Story
  <2>2. k + 1 \in 1..Len(ev) /\ fv[k] = ev[k + 1] /\ Is(ev[k + 1], j) BY <1>2
  <2>3. /\ IF l = <<>> /\ \A h \in 1..((k + 1) - 1) : ~Is(ev[h], j)
           THEN Opener(ev[k + 1]) ELSE Follow(ev[k + 1])
        /\ Final(ev[k + 1]) => \A h \in ((k + 1) + 1)..Len(ev) : ~Is(ev[h], j)
        /\ l # <<>> => ~Final(l[Len(l)])
      BY <1>6, <2>2 DEF Story
  <2>4. \A h \in 1..(k - 1) : ~Is(fv[h], j) <=> ~Is(ev[h + 1], j) BY <1>1
  <2>5. (\A h \in 1..(k - 1) : ~Is(fv[h], j)) <=> \A h \in 1..((k + 1) - 1) : ~Is(ev[h], j)
    <3>1. ASSUME \A h \in 1..(k - 1) : ~Is(fv[h], j), NEW h \in 1..((k + 1) - 1) PROVE ~Is(ev[h], j)
      <4>1. CASE h = 1 BY <1>1, <4>1
      <4>2. CASE h # 1
        <5>1. h - 1 \in 1..(k - 1) /\ h \in 1..Len(ev) BY <1>1, <4>2
        <5> QED BY <1>3, <3>1, <5>1
      <4> QED BY <4>1, <4>2
    <3>2. ASSUME \A h \in 1..((k + 1) - 1) : ~Is(ev[h], j), NEW h \in 1..(k - 1) PROVE ~Is(fv[h], j)
      <4>1. h + 1 \in 1..((k + 1) - 1) OBVIOUS
      <4> QED BY <2>4, <3>2, <4>1
    <3> QED BY <3>1, <3>2
  <2>6. ASSUME Final(fv[k]), NEW h \in (k + 1)..Len(fv) PROVE ~Is(fv[h], j)
    <3>1. h + 1 \in ((k + 1) + 1)..Len(ev) /\ h \in 1..(Len(ev) - 1) BY <1>1
    <3> QED BY <1>1, <2>2, <2>3, <2>6, <3>1
  <2> QED BY <2>2, <2>3, <2>5, <2>6
<1> QED BY <1>4, <1>5, <1>6

-----------------------------------------------------------------------------
(* Operators that say nothing of any attempt. *)

Still(g, h) ==
    /\ Shape(h)
    /\ h.attempts = g.attempts /\ h.events = g.events /\ h.next = g.next

\* Events may be raised, but none about a connect id.
Silent(g, h) ==
    /\ Shape(h)
    /\ h.attempts = g.attempts /\ h.next.connect = g.next.connect
    /\ \A j \in ConnectIds : Spares(g.events, h.events, j)

LEMMA StillIsSilent == \A g, h : Still(g, h) => Silent(g, h)
BY SparesItself DEF Still, Silent

LEMMA SilentOn ==
  ASSUME NEW g, NEW h, NEW k, Silent(g, h), Silent(h, k)
  PROVE  Silent(g, k)
BY SparesOn DEF Silent

LEMMA SilentKeeps ==
  ASSUME NEW g, NEW h, NEW l, Good(g, l), Silent(g, h)
  PROVE  Good(h, l) /\ (NoneDone(g) => NoneDone(h))
BY DEF Good, Kept, Silent, Spares, Fits, NoneDone

\* The queue of actions and the tables of streams and dials.
LEMMA Pushed ==
  ASSUME NEW g, Shape(g)
  PROVE  /\ \A a : Still(g, Push(g, a))
         /\ \A c, a : Still(g, PushIf(g, c, a))
         /\ \A k : Still(g, ReleaseStream(g, k))
         /\ \A k : Still(g, ResetAndRelease(g, k))
         /\ \A k, r : Still(g, OwnStream(g, k, r))
         /\ \A k, c : Still(g, BindStream(g, k, c))
         /\ \A u, i, p, d : Still(g, PushSessionDial(g, u, i, p, d))
<1>1. ASSUME NEW h, Shape(h) PROVE \A a : Still(h, Push(h, a))
    BY <1>1 DEF Still, Shape, Push
<1>2. \A c, a : Still(g, PushIf(g, c, a)) BY <1>1 DEF PushIf, Still
<1>3. ASSUME NEW h, Shape(h) PROVE \A k : Still(h, ReleaseStream(h, k))
    BY <1>3 DEF Still, Shape, ReleaseStream
<1>4. \A k : Still(g, ResetAndRelease(g, k)) BY <1>1, <1>3 DEF ResetAndRelease, Still
<1>5. \A k, r : Still(g, OwnStream(g, k, r)) BY DEF Still, Shape, OwnStream
<1>6. \A k, c : Still(g, BindStream(g, k, c)) BY DEF Still, Shape, BindStream
<1>7. \A u, i, p, d : Still(g, PushSessionDial(g, u, i, p, d))
  <2> TAKE u, i, p, d
  <2>1. Still(g, [g EXCEPT !.dialing[p] = d]) BY DEF Still, Shape
  <2> QED BY <1>1, <2>1 DEF PushSessionDial, Still
<1> QED BY <1>1, <1>2, <1>3, <1>4, <1>5, <1>6, <1>7

-----------------------------------------------------------------------------
(* Operators that move the leg of an attempt and say nothing. *)

Fit(g, i) == Shape(g) /\ (i \in ConnectIds => IsAttempt(g.attempts[i]))

\* Only attempt i is another, and of what its story must fit only a punch is over.
Alike(g, h, i) ==
    /\ Shape(h)
    /\ h.events = g.events /\ h.next = g.next
    /\ \A j \in ConnectIds : j # i => h.attempts[j] = g.attempts[j]
    /\ i \in ConnectIds =>
        LET a == g.attempts[i]
            b == h.attempts[i]
        IN  /\ IsAttempt(b)
            /\ b.best = a.best /\ (b.done <=> a.done)
            /\ b.punch_dl \in {a.punch_dl, None} /\ b.dcutr \in {a.dcutr, None}

LEMMA AlikeFits == \A g, h, i : Alike(g, h, i) => Fit(h, i)
BY DEF Alike, Fit

LEMMA AlikeOn ==
  ASSUME NEW g, NEW h, NEW k, NEW i, Alike(g, h, i), Alike(h, k, i)
  PROVE  Alike(g, k, i)
BY DEF Alike

LEMMA StillIsAlike ==
  ASSUME NEW g, NEW h, NEW i, Fit(g, i), Still(g, h)
  PROVE  Alike(g, h, i)
BY DEF Alike, Fit, Still

\* A new record for attempt i.
LEMMA Moved ==
  ASSUME NEW g, NEW i, Fit(g, i), NEW b,
         i \in ConnectIds => LET a == g.attempts[i]
                             IN  /\ IsAttempt(b)
                                 /\ b.best = a.best /\ (b.done <=> a.done)
                                 /\ b.punch_dl \in {a.punch_dl, None} /\ b.dcutr \in {a.dcutr, None}
  PROVE  Alike(g, [g EXCEPT !.attempts[i] = b], i)
BY DEF Alike, Fit, Shape

LEMMA TeardownIsSilent ==
  ASSUME NEW g, NEW i, Fit(g, i)
  PROVE  /\ Alike(g, TeardownDcutr(g, i), i)
         /\ Alike(g, DropLegStream(g, i), i)
         /\ Alike(g, Disarmed(g, i), i)
         /\ i \in ConnectIds => Disarmed(g, i).attempts[i].punch_dl = None
<1>1. Alike(g, TeardownDcutr(g, i), i)
  <2>1. CASE At(g, i).dstream = None
      BY <2>1 DEF TeardownDcutr, Alike, Fit, Shape, IsAttempt
  <2>2. CASE At(g, i).dstream # None
    <3> DEFINE h == ResetAndRelease(g, <<At(g, i).peer, At(g, i).dstream>>)
    <3>1. Still(g, h) BY Pushed DEF Fit
    <3>2. TeardownDcutr(g, i) = [h EXCEPT !.attempts[i].dstream = None, !.attempts[i].dcutr = None]
        BY <2>2 DEF TeardownDcutr
    <3> HIDE DEF h
    <3> QED BY <3>1, <3>2 DEF Alike, Fit, Still, Shape, IsAttempt
  <2> QED BY <2>1, <2>2
<1>2. Alike(g, DropLegStream(g, i), i)
  <2>1. Still(g, g) BY DEF Still, Fit
  <2>2. \A c, a, k : Still(g, ReleaseStream(PushIf(g, c, a), k)) BY Pushed DEF Fit, Still
  <2>3. Still(g, DropLegStream(g, i)) BY <2>1, <2>2, Pushed DEF DropLegStream, Fit
  <2> QED BY <2>3, StillIsAlike
<1> DEFINE h == PushIf(g, At(g, i).promoted # None, CloseCircuit(At(g, i).promoted))
           b == [At(g, i) EXCEPT !.leg = "Inactive", !.relay_dl = None, !.punch_dl = None,
                                 !.alive = FALSE, !.promoted = None]
<1>3. Still(g, h) BY Pushed DEF Fit
<1>4. Disarmed(g, i) = [h EXCEPT !.attempts[i] = b] BY DEF Disarmed
<1>5. i \in ConnectIds => /\ IsAttempt(b) /\ b.best = At(g, i).best /\ (b.done <=> At(g, i).done)
                          /\ b.punch_dl = None /\ b.dcutr = At(g, i).dcutr
    BY DEF At, Fit, IsAttempt
<1> HIDE DEF h, b
<1>6. Fit(h, i) /\ h.attempts = g.attempts /\ h.events = g.events /\ h.next = g.next
    BY <1>3 DEF Fit, Still
<1>7. Alike(h, Disarmed(g, i), i) BY <1>4, <1>5, <1>6, Moved DEF At
<1>8. Alike(g, Disarmed(g, i), i) BY <1>6, <1>7 DEF Alike
<1>9. i \in ConnectIds => Disarmed(g, i).attempts[i].punch_dl = None
    BY <1>4, <1>5, <1>6 DEF Fit, Shape
<1> QED BY <1>1, <1>2, <1>8, <1>9

LEMMA TeardownRelayLegIsSilent ==
  ASSUME NEW g, NEW i, Fit(g, i)
  PROVE  /\ Alike(g, TeardownRelayLeg(g, i), i)
         /\ i \in ConnectIds => TeardownRelayLeg(g, i).attempts[i].punch_dl = None
<1> DEFINE h == TeardownDcutr(g, i)
           k == DropLegStream(h, i)
<1>1. Alike(g, h, i) /\ Fit(h, i) BY TeardownIsSilent, AlikeFits
<1> HIDE DEF h
<1>2. Alike(h, k, i) /\ Fit(k, i) BY <1>1, TeardownIsSilent, AlikeFits
<1> HIDE DEF k
<1>3. Alike(k, Disarmed(k, i), i) /\ (i \in ConnectIds => Disarmed(k, i).attempts[i].punch_dl = None)
    BY <1>2, TeardownIsSilent
<1>4. TeardownRelayLeg(g, i) = Disarmed(k, i) BY DEF TeardownRelayLeg, h, k
<1>5. Alike(g, k, i) BY <1>1, <1>2, AlikeOn
<1>6. Alike(g, Disarmed(k, i), i) BY <1>3, <1>5, AlikeOn
<1> QED BY <1>3, <1>4, <1>6

LEMMA LegMoves ==
  ASSUME NEW g, NEW i, Fit(g, i)
  PROVE  /\ Alike(g, LegFailed(g, i), i)
         /\ Alike(g, OpenHop(g, i), i)
         /\ Alike(g, PromoteAttempt(g, i), i)
         /\ Alike(g, RedriveRelayLeg(g, i), i)
         /\ Alike(g, IssuePunchDials(g, i), i)
         /\ Alike(g, OnBridgeLost(g, i), i)
         /\ \A s : Alike(g, ReleaseStream(g, s), i)
<1> DEFINE Moving(h) == Shape(h) /\ h.attempts = g.attempts /\ h.events = g.events /\ h.next = g.next
<1>1. \A h : Still(g, h) => Moving(h) BY DEF Still
<1>2. Still(g, g) BY DEF Still, Fit
<1>3. Alike(g, LegFailed(g, i), i) BY DEF LegFailed, Alike, Fit, Shape, IsAttempt
<1>4. Alike(g, OpenHop(g, i), i)
  <2> DEFINE h == Push(g, OpenStream("OpenHop", i, RelayPeer, HOP))
  <2>1. Moving(h) BY <1>1, Pushed DEF Fit
  <2>2. OpenHop(g, i) = [h EXCEPT !.attempts[i].leg = "OpeningHop"] BY DEF OpenHop
  <2> HIDE DEF h
  <2> QED BY <2>1, <2>2 DEF Alike, Fit, Shape, IsAttempt
<1>5. Alike(g, PromoteAttempt(g, i), i)
  <2> DEFINE a == At(g, i)
             h == Push(ReleaseStream(g, HopKey(g, i)),
                       PromoteBridge("PromoteAttempt", i, a.inner, a.stream, a.data, a.rwc))
  <2>1. \A k, x : Still(g, Push(ReleaseStream(g, k), x)) BY Pushed DEF Fit, Still
  <2>2. Moving(h) BY <1>1, <2>1
  <2>3. PromoteAttempt(g, i) = IF a.released \/ a.leg # "Bridged" \/ a.inner = None THEN g
                               ELSE [h EXCEPT !.attempts[i].released = TRUE,
                                              !.attempts[i].requested = TRUE, !.attempts[i].data = 0]
      BY DEF PromoteAttempt
  <2> HIDE DEF h, a
  <2>4. Alike(g, [h EXCEPT !.attempts[i].released = TRUE,
                           !.attempts[i].requested = TRUE, !.attempts[i].data = 0], i)
      BY <2>2 DEF Alike, Fit, Shape, IsAttempt
  <2> QED BY <1>2, <2>3, <2>4, StillIsAlike
<1>6. Alike(g, RedriveRelayLeg(g, i), i)
  <2>1. Still(g, RedriveRelayLeg(g, i)) BY <1>2, Pushed DEF RedriveRelayLeg, Fit
  <2> QED BY <2>1, StillIsAlike
<1>7. Alike(g, IssuePunchDials(g, i), i)
  <2> DEFINE h == PushIf(g, At(g, i).addrs, Dial("PunchDial", i, At(g, i).peer))
  <2>1. Moving(h) BY <1>1, Pushed DEF Fit
  <2>2. IssuePunchDials(g, i) = [h EXCEPT !.attempts[i].dials = TRUE] BY DEF IssuePunchDials
  <2> HIDE DEF h
  <2> QED BY <2>1, <2>2 DEF Alike, Fit, Shape, IsAttempt
<1>8. Alike(g, OnBridgeLost(g, i), i)
  <2> DEFINE a == At(g, i)
             h == IF a.released THEN g ELSE ReleaseStream(g, HopKey(g, i))
             b == [a EXCEPT !.alive = FALSE, !.released = TRUE, !.leg = "Failed"]
  <2>1. Moving(h) BY <1>1, <1>2, Pushed DEF Fit
  <2>2. i \in ConnectIds => /\ IsAttempt(b) /\ b.best = a.best /\ (b.done <=> a.done)
                            /\ b.punch_dl = a.punch_dl /\ b.dcutr = a.dcutr
      BY DEF At, Fit, IsAttempt
  <2>3. OnBridgeLost(g, i) = IF ~a.alive THEN g ELSE [h EXCEPT !.attempts[i] = b]
      BY DEF OnBridgeLost
  <2> HIDE DEF h, b
  <2>4. Alike(g, [h EXCEPT !.attempts[i] = b], i)
      BY <2>1, <2>2 DEF Alike, Fit, Shape, At
  <2> QED BY <1>2, <2>3, <2>4, StillIsAlike
<1>9. \A s : Alike(g, ReleaseStream(g, s), i) BY Pushed, StillIsAlike DEF Fit
<1> QED BY <1>3, <1>4, <1>5, <1>6, <1>7, <1>8, <1>9

-----------------------------------------------------------------------------
(* Inside a handler of attempt i, which began in the state o. *)

From(o, g, l, i) ==
    /\ Shape(g)
    /\ g.next = o.next
    /\ \A j \in ConnectIds : j # i => g.attempts[j] = o.attempts[j] /\ Kept(g, l, j)
    /\ i \in ConnectIds => /\ IsAttempt(g.attempts[i])
                           /\ ~(i >= g.next.connect)
                           /\ Story(g.events, l[i], i)

\* The attempt goes on, or is done and its punch, if Calm, is no longer timed.
Live(g, l, i) ==
    i \in ConnectIds => ~g.attempts[i].done /\ Fits(g.attempts[i], g.events, l[i], i)
Over(g, i) == i \in ConnectIds => g.attempts[i].done
Pathless(g, i) == i \in ConnectIds => g.attempts[i].best = None
HasPath(g, i) == i \in ConnectIds => g.attempts[i].best # None
Untimed(g, i) == i \in ConnectIds => g.attempts[i].punch_dl = None
Either(g, l, i) == Live(g, l, i) \/ Over(g, i)
Calm(g, l, i) == Live(g, l, i) \/ (Over(g, i) /\ Untimed(g, i))

LEMMA Enters ==
  ASSUME NEW g, NEW l, NEW i, Good(g, l), i \in ConnectIds => g.attempts[i] # None /\ ~g.attempts[i].done
  PROVE  From(g, g, l, i) /\ Live(g, l, i)
BY DEF Good, Kept, From, Live

LEMMA Leaves ==
  ASSUME NEW o, NEW g, NEW l, NEW i, From(o, g, l, i), Either(g, l, i)
  PROVE  Good(g, l) /\ \A j \in ConnectIds : j # i => g.attempts[j] = o.attempts[j]
BY DEF Good, Kept, From, Either, Live, Over

LEMMA FromIsFit == \A o, g, l, i : From(o, g, l, i) => Fit(g, i)
BY DEF From, Fit

LEMMA CalmIsEither == \A g, l, i : Calm(g, l, i) => Either(g, l, i)
BY DEF Calm, Either

LEMMA AlikeKeeps ==
  ASSUME NEW o, NEW g, NEW h, NEW l, NEW i, From(o, g, l, i), Alike(g, h, i)
  PROVE  /\ From(o, h, l, i)
         /\ Live(g, l, i) => Live(h, l, i)
         /\ Over(g, i) => Over(h, i)
         /\ Untimed(g, i) => Untimed(h, i)
         /\ Calm(g, l, i) => Calm(h, l, i)
         /\ Either(g, l, i) => Either(h, l, i)
         /\ Pathless(g, i) => Pathless(h, i)
         /\ HasPath(g, i) => HasPath(h, i)
<1>1. From(o, h, l, i) BY DEF From, Alike, Kept
<1>2. Live(g, l, i) => Live(h, l, i) BY DEF Live, Alike, Fits
<1>3. Over(g, i) => Over(h, i) BY DEF Over, Alike
<1>4. Untimed(g, i) => Untimed(h, i) BY DEF Untimed, Alike
<1>5. /\ Pathless(g, i) => Pathless(h, i)
      /\ HasPath(g, i) => HasPath(h, i)
    BY DEF Pathless, HasPath, Alike
<1> QED BY <1>1, <1>2, <1>3, <1>4, <1>5 DEF Calm, Either

\* The same, where a hole punch may begin: there is a path.
Punched(g, h, i) ==
    /\ Shape(h)
    /\ h.events = g.events /\ h.next = g.next
    /\ \A j \in ConnectIds : j # i => h.attempts[j] = g.attempts[j]
    /\ i \in ConnectIds => LET a == g.attempts[i]
                               b == h.attempts[i]
                           IN  IsAttempt(b) /\ b.best = a.best /\ (b.done <=> a.done)

LEMMA PunchedKeeps ==
  ASSUME NEW o, NEW g, NEW h, NEW l, NEW i,
         From(o, g, l, i), Live(g, l, i), HasPath(g, i), Punched(g, h, i)
  PROVE  From(o, h, l, i) /\ Live(h, l, i) /\ HasPath(h, i)
<1>1. From(o, h, l, i) BY DEF From, Punched, Kept
<1>2. Live(h, l, i) BY DEF Live, HasPath, Punched, Fits
<1>3. HasPath(h, i) BY DEF HasPath, Punched
<1> QED BY <1>1, <1>2, <1>3

LEMMA DoneEnds ==
  ASSUME NEW o, NEW g, NEW l, NEW i, From(o, g, l, i)
  PROVE  /\ From(o, Done(g, i), l, i)
         /\ Over(Done(g, i), i)
         /\ Untimed(g, i) => Untimed(Done(g, i), i)
<1> DEFINE h == Done(g, i)
<1>1. /\ Shape(h) /\ h.events = g.events /\ h.next = g.next
      /\ \A j \in ConnectIds : j # i => h.attempts[j] = g.attempts[j]
      /\ i \in ConnectIds => /\ IsAttempt(h.attempts[i]) /\ h.attempts[i].done
                             /\ h.attempts[i].punch_dl = g.attempts[i].punch_dl
    BY DEF From, Shape, Done, IsAttempt
<1> HIDE DEF h
<1>2. From(o, h, l, i) BY <1>1 DEF From, Kept
<1>3. Over(h, i) /\ (Untimed(g, i) => Untimed(h, i)) BY <1>1 DEF Over, Untimed
<1> QED BY <1>2, <1>3 DEF h

\* The attempt says something of itself, and this is what it may say.
LEMMA Says ==
  ASSUME NEW o, NEW g, NEW l, NEW i, From(o, g, l, i), Live(g, l, i),
         NEW e, "id" \in DOMAIN e, e.id = i,
         i \in ConnectIds => IF g.attempts[i].best = None THEN Opener(e) ELSE Follow(e)
  PROVE  /\ From(o, Raise(g, e), l, i)
         /\ Raise(g, e).attempts = g.attempts
         /\ ~Final(e) /\ i \in ConnectIds => Open(Raise(g, e).events, l[i], i)
         /\ ~Final(e) /\ HasPath(g, i) => Live(Raise(g, e), l, i) /\ HasPath(Raise(g, e), i)
<1> DEFINE h == Raise(g, e)
<1>1. /\ h.attempts = g.attempts /\ h.next = g.next /\ h.events = Append(g.events, e)
      /\ Shape(h) /\ IsSeq(g.events)
  <2>1. h.attempts = g.attempts /\ h.next = g.next /\ h.events = Append(g.events, e) /\ DOMAIN h = DOMAIN g
      BY DEF From, Shape, Raise
  <2>2. IsSeq(g.events) BY DEF From, Shape
  <2>3. IsSeq(h.events) BY <2>1, <2>2, Appended
  <2> HIDE DEF h
  <2> QED BY <2>1, <2>2, <2>3 DEF From, Shape
<1> HIDE DEF h
<1>2. ASSUME NEW j \in ConnectIds, j # i PROVE h.attempts[j] = o.attempts[j] /\ Kept(h, l, j)
  <2>1. ~Is(e, j) BY <1>2 DEF Is
  <2>2. Spares(g.events, h.events, j) BY <1>1, <2>1, SaidOfOthers
  <2>3. g.attempts[j] = o.attempts[j] /\ Kept(g, l, j) BY <1>2 DEF From
  <2> QED BY <1>1, <2>2, <2>3 DEF Kept, Spares, Fits
<1>3. ASSUME i \in ConnectIds
      PROVE  Story(h.events, l[i], i) /\ (~Final(e) => Open(h.events, l[i], i))
  <2>1. Is(e, i) BY DEF Is
  <2>2. Story(g.events, l[i], i) /\ Fits(g.attempts[i], g.events, l[i], i) BY <1>3 DEF From, Live
  <2>3. CASE g.attempts[i].best = None
    <3>1. Fresh(g.events, l[i], i) /\ Opener(e) BY <1>3, <2>2, <2>3 DEF Fits
    <3> QED BY <1>1, <2>1, <3>1, SaidFirst
  <2>4. CASE g.attempts[i].best # None
    <3>1. Open(g.events, l[i], i) /\ Follow(e) BY <1>3, <2>2, <2>4 DEF Fits
    <3> QED BY <1>1, <2>1, <2>2, <3>1, SaidNext
  <2> QED BY <2>3, <2>4
<1>4. From(o, h, l, i) BY <1>1, <1>2, <1>3 DEF From
<1>5. ~Final(e) /\ HasPath(g, i) => Live(h, l, i) /\ HasPath(h, i)
    BY <1>1, <1>3 DEF HasPath, Live, Fits
<1> QED BY <1>1, <1>3, <1>4, <1>5 DEF h

-----------------------------------------------------------------------------
(* The end of an attempt. *)

LEMMA FailEnds ==
  ASSUME NEW o, NEW g, NEW l, NEW i, From(o, g, l, i), Live(g, l, i), Pathless(g, i)
  PROVE  From(o, Fail(g, i), l, i) /\ Over(Fail(g, i), i) /\ Untimed(Fail(g, i), i)
<1> DEFINE h == TeardownRelayLeg(g, i)
           e == [event |-> "ConnectFailed", id |-> i]
           m == Raise(h, e)
<1>1. Alike(g, h, i) /\ Untimed(h, i) BY FromIsFit, TeardownRelayLegIsSilent DEF Untimed
<1>2. From(o, h, l, i) /\ Live(h, l, i) /\ Pathless(h, i) BY <1>1, AlikeKeeps
<1> HIDE DEF h
<1>3. "id" \in DOMAIN e /\ e.id = i /\ Opener(e) BY DEF Opener
<1> HIDE DEF e
<1>4. From(o, m, l, i) /\ m.attempts = h.attempts BY <1>2, <1>3, Says DEF Pathless
<1>5. Untimed(m, i) BY <1>1, <1>4 DEF Untimed
<1> HIDE DEF m
<1>6. From(o, Done(m, i), l, i) /\ Over(Done(m, i), i) /\ Untimed(Done(m, i), i)
    BY <1>4, <1>5, DoneEnds
<1> QED BY <1>6 DEF Fail, m, h, e

LEMMA CancelEnds ==
  ASSUME NEW o, NEW g, NEW l, NEW i, From(o, g, l, i)
  PROVE  From(o, CancelAttempt(g, i), l, i) /\ Over(CancelAttempt(g, i), i)
<1>1. Alike(g, TeardownRelayLeg(g, i), i) BY FromIsFit, TeardownRelayLegIsSilent
<1>2. From(o, TeardownRelayLeg(g, i), l, i) BY <1>1, AlikeKeeps
<1> QED BY <1>2, DoneEnds DEF CancelAttempt

LEMMA FailIfNoLegsRemainKeeps ==
  ASSUME NEW o, NEW g, NEW l, NEW i, From(o, g, l, i), Calm(g, l, i)
  PROVE  From(o, FailIfNoLegsRemain(g, i), l, i) /\ Calm(FailIfNoLegsRemain(g, i), l, i)
<1> DEFINE fails == At(g, i).best = None /\ At(g, i).live = 0
                      /\ At(g, i).leg \in {"Failed", "Inactive"} /\ ~At(g, i).done
<1>1. FailIfNoLegsRemain(g, i) = IF fails THEN Fail(g, i) ELSE g BY DEF FailIfNoLegsRemain
<1>2. ASSUME fails PROVE Live(g, l, i) /\ Pathless(g, i)
    BY <1>2 DEF Calm, Over, Live, Pathless, At
<1>3. fails => From(o, Fail(g, i), l, i) /\ Calm(Fail(g, i), l, i) BY <1>2, FailEnds DEF Calm
<1> HIDE DEF fails
<1> QED BY <1>1, <1>3

LEMMA FailRelayLegKeeps ==
  ASSUME NEW o, NEW g, NEW l, NEW i, From(o, g, l, i), Calm(g, l, i)
  PROVE  From(o, FailRelayLeg(g, i), l, i) /\ Calm(FailRelayLeg(g, i), l, i)
<1> DEFINE h == IF At(g, i).leg \in {"WaitHopReady", "AwaitHopStatus"}
                THEN ResetAndRelease(g, HopKey(g, i)) ELSE g
           k == LegFailed(h, i)
<1>1. Fit(g, i) BY FromIsFit
<1>2. Still(g, h) BY <1>1, Pushed DEF Fit, Still
<1> HIDE DEF h
<1>3. From(o, h, l, i) /\ Calm(h, l, i) BY <1>1, <1>2, StillIsAlike, AlikeKeeps
<1>4. Alike(h, k, i) BY <1>3, FromIsFit, LegMoves
<1> HIDE DEF k
<1>5. From(o, k, l, i) /\ Calm(k, l, i) BY <1>3, <1>4, AlikeKeeps
<1> QED BY <1>5, FailIfNoLegsRemainKeeps DEF FailRelayLeg, k, h

LEMMA BeginRelayLegKeeps ==
  ASSUME NEW o, NEW g, NEW l, NEW i, From(o, g, l, i), Calm(g, l, i)
  PROVE  From(o, BeginRelayLeg(g, i), l, i) /\ Calm(BeginRelayLeg(g, i), l, i)
<1> DEFINE h == [g EXCEPT !.attempts[i].relay_dl = relay_leg_deadline]
<1>1. Alike(g, h, i) BY FromIsFit DEF Alike, Fit, Shape, IsAttempt
<1>2. From(o, h, l, i) /\ Calm(h, l, i) /\ Fit(h, i) BY <1>1, AlikeKeeps, FromIsFit
<1> HIDE DEF h
<1> DEFINE k == IF IsConnected(h, RelayPeer) \/ SessionDialPending(h, RelayPeer) THEN h
                ELSE PushSessionDial(h, "RelayDial", i, RelayPeer, relay_leg_deadline)
           m == [k EXCEPT !.attempts[i].leg = "WaitRelayReady"]
<1>3. Still(h, k) BY <1>2, Pushed DEF Fit, Still
<1>4. BeginRelayLeg(g, i) \in {OpenHop(h, i), FailRelayLeg(h, i), m}
    BY DEF BeginRelayLeg, EnterRelayLeg, h
<1> HIDE DEF k
<1>5. Alike(h, m, i) BY <1>2, <1>3 DEF Alike, Fit, Shape, IsAttempt, Still
<1>6. From(o, m, l, i) /\ Calm(m, l, i) BY <1>2, <1>5, AlikeKeeps
<1>7. From(o, OpenHop(h, i), l, i) /\ Calm(OpenHop(h, i), l, i) BY <1>2, LegMoves, AlikeKeeps
<1>8. From(o, FailRelayLeg(h, i), l, i) /\ Calm(FailRelayLeg(h, i), l, i) BY <1>2, FailRelayLegKeeps
<1> HIDE DEF m
<1> QED BY <1>4, <1>6, <1>7, <1>8

\* A last word, said of an attempt that has a path.
LEMMA LastWord ==
  ASSUME NEW o, NEW g, NEW l, NEW i, From(o, g, l, i), Live(g, l, i), HasPath(g, i),
         NEW name \in {"PathUpgraded", "FellBackToRelay", "HolePunchFailed"}
  PROVE  LET m == Raise(g, [event |-> name, id |-> i])
         IN  /\ From(o, m, l, i) /\ m.attempts = g.attempts
             /\ From(o, Done(m, i), l, i) /\ Over(Done(m, i), i)
             /\ name = "HolePunchFailed" => Live(m, l, i) /\ HasPath(m, i)
<1> DEFINE e == [event |-> name, id |-> i]
<1>1. "id" \in DOMAIN e /\ e.id = i /\ Follow(e) /\ (name = "HolePunchFailed" => ~Final(e))
    BY DEF Follow, Final
<1> HIDE DEF e
<1>2. /\ From(o, Raise(g, e), l, i) /\ Raise(g, e).attempts = g.attempts
      /\ name = "HolePunchFailed" => Live(Raise(g, e), l, i) /\ HasPath(Raise(g, e), i)
    BY <1>1, Says DEF HasPath
<1> QED BY <1>2, DoneEnds DEF e

\* A field that no story depends on.
LEMMA SettledIsAlike ==
  ASSUME NEW g, NEW i, Fit(g, i)
  PROVE  Alike(g, [g EXCEPT !.attempts[i].settled = TRUE], i)
BY DEF Alike, Fit, Shape, IsAttempt

LEMMA SettleKeeps ==
  ASSUME NEW o, NEW g, NEW l, NEW i, From(o, g, l, i), Live(g, l, i)
  PROVE  From(o, Settle(g, i), l, i) /\ Either(Settle(g, i), l, i)
<1> DEFINE h == [g EXCEPT !.attempts[i].settled = TRUE]
           m == PromoteAttempt(h, i)
           said == Done(Raise(m, [event |-> "FellBackToRelay", id |-> i]), i)
<1>1. From(o, h, l, i) /\ Live(h, l, i) /\ (HasPath(g, i) => HasPath(h, i)) /\ Fit(h, i)
  <2>1. Alike(g, h, i) BY FromIsFit, SettledIsAlike
  <2> HIDE DEF h
  <2> QED BY <2>1, AlikeKeeps, FromIsFit
<1>2. Settle(g, i) \in {m, h, g, Done(g, i)} \/ (Settle(g, i) = said /\ HasPath(g, i))
      \/ (Settle(g, i) = Fail(g, i) /\ Pathless(g, i))
    BY DEF Settle, At, HasPath, Pathless
<1> HIDE DEF h
<1>3. From(o, m, l, i) /\ Live(m, l, i) /\ (HasPath(g, i) => HasPath(m, i))
    BY <1>1, LegMoves, AlikeKeeps
<1> HIDE DEF m
<1>4. HasPath(g, i) => From(o, said, l, i) /\ Over(said, i) BY <1>3, LastWord
<1> HIDE DEF said
<1>5. Pathless(g, i) => From(o, Fail(g, i), l, i) /\ Over(Fail(g, i), i) BY FailEnds
<1>6. From(o, Done(g, i), l, i) /\ Over(Done(g, i), i) BY DoneEnds
<1> QED BY <1>1, <1>2, <1>3, <1>4, <1>5, <1>6 DEF Either

LEMMA SettleAfterPunchKeeps ==
  ASSUME NEW o, NEW g, NEW l, NEW i, From(o, g, l, i), Either(g, l, i)
  PROVE  From(o, SettleAfterPunch(g, i), l, i) /\ Either(SettleAfterPunch(g, i), l, i)
<1> DEFINE h == TeardownDcutr(g, i)
<1>1. CASE At(g, i).done BY <1>1 DEF SettleAfterPunch
<1>2. CASE ~At(g, i).done
  <2>1. Live(g, l, i) BY <1>2 DEF Either, Over, Live, At
  <2>2. From(o, h, l, i) /\ Live(h, l, i) BY <2>1, FromIsFit, TeardownIsSilent, AlikeKeeps
  <2>3. SettleAfterPunch(g, i) = Settle(h, i) BY <1>2 DEF SettleAfterPunch
  <2> HIDE DEF h
  <2> QED BY <2>2, <2>3, SettleKeeps
<1> QED BY <1>1, <1>2

-----------------------------------------------------------------------------
(* The hole punch. *)

\* A punch is disarmed.
LEMMA DisarmIsAlike ==
  ASSUME NEW g, NEW i, Fit(g, i)
  PROVE  Alike(g, [g EXCEPT !.attempts[i].punch_dl = None], i)
BY DEF Alike, Fit, Shape, IsAttempt

LEMMA OnPunchWindowElapsedKeeps ==
  ASSUME NEW o, NEW g, NEW l, NEW i, From(o, g, l, i), Live(g, l, i), HasPath(g, i)
  PROVE  From(o, OnPunchWindowElapsed(g, i), l, i) /\ Either(OnPunchWindowElapsed(g, i), l, i)
<1> DEFINE m == Raise(g, [event |-> "HolePunchFailed", id |-> i])
           h == IssuePunchDials(m, i)
           again == [h EXCEPT !.attempts[i].window = @ + 1, !.attempts[i].punch_dl = punch_deadline]
           k == [m EXCEPT !.attempts[i].punch_dl = None]
<1>1. From(o, m, l, i) /\ Live(m, l, i) /\ HasPath(m, i) /\ Fit(m, i) BY LastWord, FromIsFit
<1>2. OnPunchWindowElapsed(g, i) \in {again, SettleAfterPunch(k, i)} BY DEF OnPunchWindowElapsed
<1> HIDE DEF m
<1>3. From(o, h, l, i) /\ Live(h, l, i) /\ HasPath(h, i) /\ Fit(h, i)
    BY <1>1, LegMoves, AlikeKeeps, FromIsFit
<1> HIDE DEF h
<1>4. Punched(h, again, i) BY <1>3 DEF Punched, Fit, Shape, IsAttempt
<1> HIDE DEF again
<1>5. From(o, again, l, i) /\ Live(again, l, i) BY <1>3, <1>4, PunchedKeeps
<1>6. From(o, k, l, i) /\ Live(k, l, i) BY <1>1, DisarmIsAlike, AlikeKeeps
<1> HIDE DEF k
<1>7. From(o, SettleAfterPunch(k, i), l, i) /\ Either(SettleAfterPunch(k, i), l, i)
    BY <1>6, SettleAfterPunchKeeps DEF Either
<1> QED BY <1>2, <1>5, <1>7 DEF Either

LEMMA PunchFailedPermanentlyKeeps ==
  ASSUME NEW o, NEW g, NEW l, NEW i, From(o, g, l, i), Live(g, l, i), HasPath(g, i)
  PROVE  From(o, PunchFailedPermanently(g, i), l, i) /\ Either(PunchFailedPermanently(g, i), l, i)
<1> DEFINE m == Raise(g, [event |-> "HolePunchFailed", id |-> i])
           k == [m EXCEPT !.attempts[i].punch_dl = None]
<1>1. From(o, m, l, i) /\ Live(m, l, i) /\ Fit(m, i) BY LastWord, FromIsFit
<1>2. PunchFailedPermanently(g, i) = SettleAfterPunch(k, i) BY DEF PunchFailedPermanently
<1> HIDE DEF m
<1>3. From(o, k, l, i) /\ Live(k, l, i) BY <1>1, DisarmIsAlike, AlikeKeeps
<1> HIDE DEF k
<1> QED BY <1>2, <1>3, SettleAfterPunchKeeps DEF Either

LEMMA FinishFailedDcutrKeeps ==
  ASSUME NEW o, NEW g, NEW l, NEW i, From(o, g, l, i), Live(g, l, i), HasPath(g, i)
  PROVE  From(o, FinishFailedDcutr(g, i), l, i) /\ Over(FinishFailedDcutr(g, i), i)
<1> DEFINE h == TeardownDcutr(g, i)
           m == Raise(h, [event |-> "HolePunchFailed", id |-> i])
           k == Raise(m, [event |-> "FellBackToRelay", id |-> i])
           s == [k EXCEPT !.attempts[i].settled = TRUE]
<1>1. FinishFailedDcutr(g, i) = Done(s, i) BY DEF FinishFailedDcutr
<1>2. From(o, h, l, i) /\ Live(h, l, i) /\ HasPath(h, i) BY FromIsFit, TeardownIsSilent, AlikeKeeps
<1> HIDE DEF h
<1>3. From(o, m, l, i) /\ Live(m, l, i) /\ HasPath(m, i) BY <1>2, LastWord
<1> HIDE DEF m
<1>4. From(o, k, l, i) BY <1>3, LastWord
<1> HIDE DEF k
<1>5. From(o, s, l, i) BY <1>4, FromIsFit, SettledIsAlike, AlikeKeeps
<1> HIDE DEF s
<1> QED BY <1>1, <1>5, DoneEnds

LEMMA OnDcutrOutputKeeps ==
  ASSUME NEW o, NEW g, NEW l, NEW i, NEW s, NEW frame, NEW next,
         From(o, g, l, i), Live(g, l, i), HasPath(g, i)
  PROVE  LET m == OnDcutrOutput(g, i, s, frame, next)
         IN  From(o, m, l, i) /\ Either(m, l, i)
<1> DEFINE h == Push(g, SendStream(At(g, i).peer, s, "ConnectReply"))
           reply == [h EXCEPT !.attempts[i].addrs = (frame = "Addrs"), !.attempts[i].dcutr = next]
           t == TeardownDcutr(g, i)
           p == IssuePunchDials(t, i)
           punch == [p EXCEPT !.attempts[i].window = 1, !.attempts[i].punch_dl = punch_deadline]
<1>1. OnDcutrOutput(g, i, s, frame, next) \in {reply, PunchFailedPermanently(t, i), punch, g}
    BY DEF OnDcutrOutput
<1>2. Fit(g, i) BY FromIsFit
<1>3. Still(g, h) BY <1>2, Pushed DEF Fit
<1> HIDE DEF h
<1>4. Punched(g, reply, i) BY <1>2, <1>3 DEF Punched, Still, Fit, Shape, IsAttempt
<1> HIDE DEF reply
<1>5. From(o, reply, l, i) /\ Live(reply, l, i) BY <1>4, PunchedKeeps
<1>6. From(o, t, l, i) /\ Live(t, l, i) /\ HasPath(t, i) BY <1>2, TeardownIsSilent, AlikeKeeps
<1> HIDE DEF t
<1>7. From(o, p, l, i) /\ Live(p, l, i) /\ HasPath(p, i) BY <1>6, FromIsFit, LegMoves, AlikeKeeps
<1> HIDE DEF p
<1>8. Punched(p, punch, i) BY <1>7, FromIsFit DEF Punched, Fit, Shape, IsAttempt
<1> HIDE DEF punch
<1>9. From(o, punch, l, i) /\ Live(punch, l, i) BY <1>7, <1>8, PunchedKeeps
<1>10. /\ From(o, PunchFailedPermanently(t, i), l, i)
       /\ Either(PunchFailedPermanently(t, i), l, i)
    BY <1>6, PunchFailedPermanentlyKeeps
<1> QED BY <1>1, <1>5, <1>9, <1>10 DEF Either

LEMMA OnDcutrStreamInputKeeps ==
  ASSUME NEW o, NEW g, NEW l, NEW i, NEW s, NEW input, NEW frame,
         From(o, g, l, i), Live(g, l, i)
  PROVE  LET m == OnDcutrStreamInput(g, i, s, input, frame)
         IN  From(o, m, l, i) /\ Either(m, l, i)
<1> DEFINE next == DcutrResponderNext(At(g, i).dcutr, frame)
           m == OnDcutrStreamInput(g, i, s, input, frame)
<1>1. CASE m = g BY <1>1 DEF Either
<1>2. CASE m # g
  <2>1. /\ At(g, i).dcutr # None
        /\ m = FinishFailedDcutr(g, i) \/ m = OnDcutrOutput(g, i, s, frame, next)
      BY <1>2 DEF OnDcutrStreamInput
  <2> HIDE DEF next, m
  <2>2. HasPath(g, i) BY <2>1 DEF HasPath, Live, Fits, At
  <2>3. From(o, m, l, i) /\ Either(m, l, i)
      BY <2>1, <2>2, FinishFailedDcutrKeeps, OnDcutrOutputKeeps DEF Either
  <2> QED BY <2>3 DEF m
<1> QED BY <1>1, <1>2

-----------------------------------------------------------------------------
(* What the attempt does with an event, as the agent sees it. *)

Handled(g, h, l, i) ==
    Good(h, l) /\ \A j \in ConnectIds : j # i => h.attempts[j] = g.attempts[j]

\* Attempt i may hear of something.
NotDone(g, i) == i \in ConnectIds => g.attempts[i] = None \/ ~g.attempts[i].done

LEMMA NothingHandled == \A g, l, i : Good(g, l) => Handled(g, g, l, i)
BY Zenon DEF Handled

LEMMA Handles ==
  ASSUME NEW g, NEW h, NEW l, NEW i, From(g, h, l, i), Either(h, l, i)
  PROVE  Handled(g, h, l, i)
BY Leaves DEF Handled

LEMMA BestIsSet ==
  ASSUME NEW o, NEW g, NEW l, NEW i, NEW path, From(o, g, l, i)
  PROVE  LET h == [g EXCEPT !.attempts[i].best = path]
         IN  /\ From(o, h, l, i) /\ h.events = g.events
             /\ i \in ConnectIds => /\ h.attempts[i].best = path
                                    /\ h.attempts[i].done <=> g.attempts[i].done
<1> DEFINE h == [g EXCEPT !.attempts[i].best = path]
<1>1. /\ Shape(h) /\ h.events = g.events /\ h.next = g.next
      /\ \A j \in ConnectIds : j # i => h.attempts[j] = g.attempts[j]
      /\ i \in ConnectIds => /\ IsAttempt(h.attempts[i]) /\ h.attempts[i].best = path
                             /\ h.attempts[i].done <=> g.attempts[i].done
    BY DEF From, Shape, IsAttempt
<1> HIDE DEF h
<1>2. From(o, h, l, i) BY <1>1 DEF From, Kept
<1> QED BY <1>1, <1>2 DEF h

LEMMA CircuitEstablishedKeeps ==
  ASSUME NEW o, NEW g, NEW l, NEW i, From(o, g, l, i), Live(g, l, i)
  PROVE  From(o, CircuitEstablished(g, i), l, i) /\ Either(CircuitEstablished(g, i), l, i)
<1> DEFINE e == [event |-> "PathEstablished", id |-> i, path |-> "Relayed"]
           r == Raise(g, e)
           m == IF At(g, i).best # None THEN g ELSE [r EXCEPT !.attempts[i].best = "Relayed"]
           said == Done(Raise(m, [event |-> "FellBackToRelay", id |-> i]), i)
<1>1. CircuitEstablished(g, i) \in {m, Done(m, i), said} BY DEF CircuitEstablished
<1>2. From(o, m, l, i) /\ Live(m, l, i) /\ HasPath(m, i)
  <2>1. CASE At(g, i).best # None BY <2>1 DEF HasPath, At
  <2>2. CASE At(g, i).best = None
    <3>1. "id" \in DOMAIN e /\ e.id = i /\ Opener(e) /\ ~Final(e) BY DEF Opener, Final
    <3> HIDE DEF e
    <3>2. /\ From(o, r, l, i) /\ r.attempts = g.attempts
          /\ i \in ConnectIds => Open(r.events, l[i], i)
        BY <2>2, <3>1, Says DEF At
    <3> HIDE DEF r
    <3> DEFINE h == [r EXCEPT !.attempts[i].best = "Relayed"]
    <3>3. /\ From(o, h, l, i) /\ h.events = r.events
          /\ i \in ConnectIds => /\ h.attempts[i].best = "Relayed"
                                 /\ h.attempts[i].done <=> r.attempts[i].done
        BY <3>2, BestIsSet
    <3>4. m = h BY <2>2
    <3> HIDE DEF h, m
    <3>5. "Relayed" # None BY NatAssumption DEF Paths
    <3>6. Live(h, l, i) /\ HasPath(h, i) BY <3>2, <3>3, <3>5 DEF Live, HasPath, Fits
    <3> QED BY <3>3, <3>4, <3>6
  <2> QED BY <2>1, <2>2
<1> HIDE DEF m
<1>3. From(o, said, l, i) /\ Over(said, i) BY <1>2, LastWord
<1>4. From(o, Done(m, i), l, i) /\ Over(Done(m, i), i) BY <1>2, DoneEnds
<1> HIDE DEF said
<1> QED BY <1>1, <1>2, <1>3, <1>4 DEF Either

LEMMA DirectEstablishedKeeps ==
  ASSUME NEW o, NEW g, NEW l, NEW i, From(o, g, l, i), Live(g, l, i)
  PROVE  From(o, DirectEstablished(g, i), l, i) /\ Either(DirectEstablished(g, i), l, i)
<1> DEFINE path == IF At(g, i).dials /\ At(g, i).live = 0 THEN "DirectPunched" ELSE "DirectDialed"
           name == IF At(g, i).best = None THEN "PathEstablished" ELSE "PathUpgraded"
           e == [event |-> name, id |-> i, path |-> path]
           r == Raise(g, e)
           h == [r EXCEPT !.attempts[i].best = path]
           t == TeardownRelayLeg(h, i)
<1>1. DirectEstablished(g, i) = IF At(g, i).best \notin {None, "Relayed"} THEN g ELSE Done(t, i)
    BY DEF DirectEstablished
<1>2. "id" \in DOMAIN e /\ e.id = i OBVIOUS
<1>3. IF At(g, i).best = None THEN Opener(e) ELSE Follow(e) BY DEF Opener, Follow
<1> HIDE DEF e, path
<1>4. From(o, r, l, i) BY <1>2, <1>3, Says DEF At
<1> HIDE DEF r
<1>5. From(o, h, l, i) BY <1>4, BestIsSet
<1> HIDE DEF h
<1>6. From(o, t, l, i) BY <1>5, FromIsFit, TeardownRelayLegIsSilent, AlikeKeeps
<1> HIDE DEF t
<1>7. From(o, Done(t, i), l, i) /\ Over(Done(t, i), i) BY <1>6, DoneEnds
<1> QED BY <1>1, <1>7 DEF Either

LEMMA AttemptEstablishedKeeps ==
  ASSUME NEW g, NEW l, NEW i, NEW c, Good(g, l), NotDone(g, i)
  PROVE  Handled(g, AttemptEstablished(g, i, c), l, i)
<1> DEFINE h == AttemptEstablished(g, i, c)
<1>1. CASE h = g BY <1>1, NothingHandled
<1>2. CASE h # g
  <2>1. /\ At(g, i) # None /\ ~At(g, i).done
        /\ h \in {DirectEstablished(g, i), CircuitEstablished(g, i)}
      BY <1>2 DEF AttemptEstablished
  <2> HIDE DEF h
  <2>2. From(g, g, l, i) /\ Live(g, l, i) BY <2>1, Enters DEF At
  <2>3. From(g, h, l, i) /\ Either(h, l, i)
      BY <2>1, <2>2, DirectEstablishedKeeps, CircuitEstablishedKeeps
  <2>4. Handled(g, h, l, i) BY <2>3, Handles
  <2> QED BY <2>4 DEF h
<1> QED BY <1>1, <1>2

LEMMA AttemptClosedKeeps ==
  ASSUME NEW g, NEW l, NEW i, NEW c, Good(g, l), NotDone(g, i)
  PROVE  Handled(g, AttemptClosed(g, i, c), l, i)
<1> DEFINE h == AttemptClosed(g, i, c)
           k == [g EXCEPT !.attempts[i].promoted = None, !.attempts[i].alive = FALSE]
           r == ReleaseStream(g, HopKey(g, i))
           f == LegFailed(r, i)
<1>1. CASE h = g BY <1>1, NothingHandled
<1>2. CASE h # g
  <2>1. /\ At(g, i) # None /\ ~At(g, i).done
        /\ h \in {SettleAfterPunch(k, i), FailIfNoLegsRemain(f, i), OnBridgeLost(g, i)}
      BY <1>2 DEF AttemptClosed
  <2> HIDE DEF h
  <2>2. From(g, g, l, i) /\ Live(g, l, i) /\ Fit(g, i) BY <2>1, Enters, FromIsFit DEF At
  <2>3. Alike(g, k, i) BY <2>2 DEF Alike, Fit, Shape, IsAttempt
  <2>4. From(g, k, l, i) /\ Either(k, l, i) BY <2>2, <2>3, AlikeKeeps DEF Either
  <2> HIDE DEF k
  <2>5. From(g, r, l, i) /\ Live(r, l, i) BY <2>2, LegMoves, AlikeKeeps
  <2> HIDE DEF r
  <2>6. From(g, f, l, i) /\ Calm(f, l, i) BY <2>5, FromIsFit, LegMoves, AlikeKeeps DEF Calm
  <2> HIDE DEF f
  <2>7. From(g, OnBridgeLost(g, i), l, i) /\ Either(OnBridgeLost(g, i), l, i)
      BY <2>2, LegMoves, AlikeKeeps DEF Either
  <2>8. From(g, h, l, i) /\ Either(h, l, i)
      BY <2>1, <2>4, <2>6, <2>7, SettleAfterPunchKeeps, FailIfNoLegsRemainKeeps, CalmIsEither
  <2>9. Handled(g, h, l, i) BY <2>8, Handles
  <2> QED BY <2>9 DEF h
<1> QED BY <1>1, <1>2

LEMMA AttemptPeerReadyKeeps ==
  ASSUME NEW g, NEW l, NEW i, NEW p, Good(g, l), NotDone(g, i)
  PROVE  Handled(g, AttemptPeerReady(g, i, p), l, i)
<1> DEFINE h == AttemptPeerReady(g, i, p)
<1>1. CASE h = g BY <1>1, NothingHandled
<1>2. CASE h # g
  <2>1. At(g, i) # None /\ ~At(g, i).done /\ h \in {OpenHop(g, i), FailRelayLeg(g, i)}
      BY <1>2 DEF AttemptPeerReady
  <2> HIDE DEF h
  <2>2. From(g, g, l, i) /\ Live(g, l, i) /\ Fit(g, i) BY <2>1, Enters, FromIsFit DEF At
  <2>3. From(g, OpenHop(g, i), l, i) /\ Live(OpenHop(g, i), l, i) BY <2>2, LegMoves, AlikeKeeps
  <2>4. From(g, FailRelayLeg(g, i), l, i) /\ Either(FailRelayLeg(g, i), l, i)
      BY <2>2, FailRelayLegKeeps, CalmIsEither DEF Calm
  <2>5. From(g, h, l, i) /\ Either(h, l, i) BY <2>1, <2>3, <2>4 DEF Either
  <2>6. Handled(g, h, l, i) BY <2>5, Handles
  <2> QED BY <2>6 DEF h
<1> QED BY <1>1, <1>2

LEMMA AttemptDialFailedKeeps ==
  ASSUME NEW g, NEW l, NEW i, NEW purpose, Good(g, l)
  PROVE  Handled(g, AttemptDialFailed(g, i, purpose), l, i)
<1> DEFINE h == AttemptDialFailed(g, i, purpose)
           k == [g EXCEPT !.attempts[i].live = Max({0, @ - 1})]
<1>1. CASE h = g BY <1>1, NothingHandled
<1>2. CASE h # g
  <2>1. At(g, i) # None /\ ~At(g, i).done /\ h \in {FailIfNoLegsRemain(k, i), FailRelayLeg(g, i)}
      BY <1>2 DEF AttemptDialFailed
  <2> HIDE DEF h
  <2>2. From(g, g, l, i) /\ Live(g, l, i) /\ Fit(g, i) BY <2>1, Enters, FromIsFit DEF At
  <2>3. Alike(g, k, i) BY <2>2 DEF Alike, Fit, Shape, IsAttempt
  <2> HIDE DEF k
  <2>4. From(g, k, l, i) /\ Live(k, l, i) BY <2>2, <2>3, AlikeKeeps
  <2>5. From(g, h, l, i) /\ Either(h, l, i)
      BY <2>1, <2>2, <2>4, FailIfNoLegsRemainKeeps, FailRelayLegKeeps, CalmIsEither DEF Calm
  <2>6. Handled(g, h, l, i) BY <2>5, Handles
  <2> QED BY <2>6 DEF h
<1> QED BY <1>1, <1>2

LEMMA AttemptOpenResultKeeps ==
  ASSUME NEW g, NEW l, NEW i, NEW s, Good(g, l), NotDone(g, i)
  PROVE  Handled(g, AttemptOpenResult(g, i, s), l, i)
<1> DEFINE h == AttemptOpenResult(g, i, s)
           reset == PushIf(g, s # None, ResetStream(RelayPeer, s))
           own == OwnStream(g, <<RelayPeer, s>>, Role("HopConnect", i))
           k == [own EXCEPT !.attempts[i].leg = "WaitHopReady", !.attempts[i].stream = s]
<1>1. CASE h = reset
  <2>1. Still(g, reset) BY Pushed DEF Good
  <2> HIDE DEF reset
  <2>2. Good(reset, l) /\ reset.attempts = g.attempts BY <2>1, StillIsSilent, SilentKeeps DEF Still
  <2> QED BY <1>1, <2>2 DEF Handled
<1>2. CASE h # reset
  <2>1. At(g, i) # None /\ ~At(g, i).done /\ h \in {FailRelayLeg(g, i), k}
      BY <1>2 DEF AttemptOpenResult
  <2> HIDE DEF h
  <2>2. From(g, g, l, i) /\ Live(g, l, i) /\ Fit(g, i) BY <2>1, Enters, FromIsFit DEF At
  <2>3. Still(g, own) BY <2>2, Pushed DEF Fit
  <2> HIDE DEF own
  <2>4. Alike(g, k, i) BY <2>2, <2>3 DEF Alike, Still, Fit, Shape, IsAttempt
  <2> HIDE DEF k
  <2>5. From(g, k, l, i) /\ Live(k, l, i) BY <2>2, <2>4, AlikeKeeps
  <2>6. From(g, FailRelayLeg(g, i), l, i) /\ Either(FailRelayLeg(g, i), l, i)
      BY <2>2, FailRelayLegKeeps, CalmIsEither DEF Calm
  <2>7. From(g, h, l, i) /\ Either(h, l, i) BY <2>1, <2>5, <2>6 DEF Either
  <2>8. Handled(g, h, l, i) BY <2>7, Handles
  <2> QED BY <2>8 DEF h
<1> QED BY <1>1, <1>2

\* The fields that a HOP stream's input changes.
LEMMA HopFields ==
  ASSUME NEW g, NEW i, Fit(g, i)
  PROVE  /\ \A c : Alike(g, [g EXCEPT !.attempts[i].inner = c], i)
         /\ \A d : Alike(g, [g EXCEPT !.attempts[i].data = @ + d], i)
         /\ Alike(g, [g EXCEPT !.attempts[i].rwc = TRUE], i)
         /\ \A c, x : Alike(g, [Push(g, x) EXCEPT !.attempts[i].leg = "AwaitHopStatus",
                                                  !.attempts[i].inner = c], i)
         /\ \A d : Alike(g, OnBridged(g, i, d), i)
<1>1. \A c : Alike(g, [g EXCEPT !.attempts[i].inner = c], i)
    BY DEF Alike, Fit, Shape, IsAttempt
<1>2. \A d : Alike(g, [g EXCEPT !.attempts[i].data = @ + d], i)
    BY DEF Alike, Fit, Shape, IsAttempt
<1>3. Alike(g, [g EXCEPT !.attempts[i].rwc = TRUE], i)
    BY DEF Alike, Fit, Shape, IsAttempt
<1>4. ASSUME NEW c, NEW x
      PROVE  Alike(g, [Push(g, x) EXCEPT !.attempts[i].leg = "AwaitHopStatus",
                                         !.attempts[i].inner = c], i)
  <2>1. Still(g, Push(g, x)) BY Pushed DEF Fit
  <2> QED BY <2>1 DEF Alike, Still, Fit, Shape, IsAttempt
<1>5. ASSUME NEW d PROVE Alike(g, OnBridged(g, i, d), i)
  <2> DEFINE k == [g EXCEPT !.attempts[i].leg = "Bridged", !.attempts[i].relay_dl = None,
                            !.attempts[i].alive = TRUE, !.attempts[i].data = @ + d,
                            !.attempts[i].settled = @ \/ g.config.force_relay]
  <2>1. Alike(g, k, i) BY DEF Alike, Fit, Shape, IsAttempt
  <2>2. OnBridged(g, i, d) = PromoteAttempt(k, i) BY DEF OnBridged
  <2> HIDE DEF k
  <2>3. Alike(k, PromoteAttempt(k, i), i) BY <2>1, AlikeFits, LegMoves
  <2> QED BY <2>1, <2>2, <2>3, AlikeOn
<1> QED BY <1>1, <1>2, <1>3, <1>4, <1>5

LEMMA OnHopStreamInputKeeps ==
  ASSUME NEW g, NEW l, NEW i, NEW c, NEW s, NEW input, NEW chunk, Good(g, l), NotDone(g, i)
  PROVE  Handled(g, OnHopStreamInput(g, i, c, s, input, chunk), l, i)
<1> DEFINE h == OnHopStreamInput(g, i, c, s, input, chunk)
<1>1. CASE h = g BY <1>1, NothingHandled
<1>2. CASE h # g
  <2>1. /\ At(g, i) # None /\ ~At(g, i).done
        /\ \/ h = [Push(g, SendStream(RelayPeer, s, "Connect")) EXCEPT
                     !.attempts[i].leg = "AwaitHopStatus", !.attempts[i].inner = c]
           \/ h = [g EXCEPT !.attempts[i].inner = c]
           \/ h = [g EXCEPT !.attempts[i].data = @ + chunk.tail]
           \/ h = [g EXCEPT !.attempts[i].rwc = TRUE]
           \/ h = OnHopData(g, i, chunk)
           \/ h = OnHopClosed(g, i, s)
      BY <1>2 DEF OnHopStreamInput
  <2> HIDE DEF h
  <2>2. h = OnHopData(g, i, chunk) => h \in {OnBridged(g, i, chunk.tail), FailRelayLeg(g, i)}
      BY <1>2 DEF OnHopData
  <2>3. h = OnHopClosed(g, i, s) => h \in {OnBridgeLost(g, i), FailRelayLeg(g, i)}
      BY <1>2 DEF OnHopClosed
  <2>4. From(g, g, l, i) /\ Live(g, l, i) /\ Fit(g, i) BY <2>1, Enters, FromIsFit DEF At
  <2>5. From(g, FailRelayLeg(g, i), l, i) /\ Either(FailRelayLeg(g, i), l, i)
      BY <2>4, FailRelayLegKeeps, CalmIsEither DEF Calm
  <2>6. h = FailRelayLeg(g, i) \/ Alike(g, h, i)
    <3>1. /\ Alike(g, [Push(g, SendStream(RelayPeer, s, "Connect")) EXCEPT
                         !.attempts[i].leg = "AwaitHopStatus", !.attempts[i].inner = c], i)
          /\ Alike(g, [g EXCEPT !.attempts[i].inner = c], i)
          /\ Alike(g, [g EXCEPT !.attempts[i].data = @ + chunk.tail], i)
          /\ Alike(g, [g EXCEPT !.attempts[i].rwc = TRUE], i)
        BY <2>4, HopFields, Zenon
    <3>2. h = OnHopData(g, i, chunk) => h = FailRelayLeg(g, i) \/ Alike(g, h, i)
      <4>1. Alike(g, OnBridged(g, i, chunk.tail), i) BY <2>4, HopFields, Zenon
      <4> QED BY <2>2, <4>1
    <3>3. h = OnHopClosed(g, i, s) => h = FailRelayLeg(g, i) \/ Alike(g, h, i)
        BY <2>3, <2>4, LegMoves
    <3> QED BY <2>1, <3>1, <3>2, <3>3, Zenon
  <2>7. Alike(g, h, i) => From(g, h, l, i) /\ Live(h, l, i) BY <2>4, AlikeKeeps
  <2>8. From(g, h, l, i) /\ Either(h, l, i) BY <2>5, <2>6, <2>7 DEF Either
  <2>9. Handled(g, h, l, i) BY <2>8, Handles
  <2> QED BY <2>9 DEF h
<1> QED BY <1>1, <1>2

LEMMA AttemptPromoteResultKeeps ==
  ASSUME NEW g, NEW l, NEW i, NEW result, Good(g, l), NotDone(g, i)
  PROVE  Handled(g, AttemptPromoteResult(g, i, result), l, i)
<1> DEFINE h == AttemptPromoteResult(g, i, result)
           k == [g EXCEPT !.attempts[i].promoted = result]
           m == [g EXCEPT !.attempts[i].alive = FALSE, !.attempts[i].leg = "Failed"]
<1>1. CASE h = g BY <1>1, NothingHandled
<1>2. CASE h # g
  <2>1. At(g, i) # None /\ h \in {k, m, FailIfNoLegsRemain(m, i)}
      BY <1>2 DEF AttemptPromoteResult
  <2> HIDE DEF h
  <2>2. From(g, g, l, i) /\ Live(g, l, i) /\ Fit(g, i) BY <2>1, Enters, FromIsFit DEF At, NotDone
  <2>3. Alike(g, k, i) BY <2>2 DEF Alike, Fit, Shape, IsAttempt
  <2>4. Alike(g, m, i) BY <2>2 DEF Alike, Fit, Shape, IsAttempt
  <2> HIDE DEF k, m
  <2>5. From(g, k, l, i) /\ Live(k, l, i) /\ From(g, m, l, i) /\ Live(m, l, i)
      BY <2>2, <2>3, <2>4, AlikeKeeps
  <2>6. From(g, h, l, i) /\ Either(h, l, i)
      BY <2>1, <2>5, FailIfNoLegsRemainKeeps, CalmIsEither DEF Calm, Either
  <2>7. Handled(g, h, l, i) BY <2>6, Handles
  <2> QED BY <2>7 DEF h
<1> QED BY <1>1, <1>2

\* An attempt that a DCUtR stream may go to has a path.
LEMMA OnDcutrStreamOpenedKeeps ==
  ASSUME NEW g, NEW l, NEW i \in ConnectIds, NEW s, Good(g, l),
         g.attempts[i] # None, g.attempts[i].best = "Relayed", ~g.attempts[i].done
  PROVE  Handled(g, OnDcutrStreamOpened(g, i, s), l, i)
<1> DEFINE h == OnDcutrStreamOpened(g, i, s)
<1>1. From(g, g, l, i) /\ Live(g, l, i) /\ Fit(g, i) BY Enters, FromIsFit
<1>2. HasPath(g, i) BY NatAssumption DEF HasPath, Paths
<1>3. Punched(g, h, i) BY <1>1 DEF Punched, OnDcutrStreamOpened, Fit, Shape, IsAttempt
<1> HIDE DEF h
<1>4. From(g, h, l, i) /\ Either(h, l, i) BY <1>1, <1>2, <1>3, PunchedKeeps DEF Either
<1>5. Handled(g, h, l, i) BY <1>4, Handles
<1> QED BY <1>5 DEF h

LEMMA DcutrInputKeeps ==
  ASSUME NEW g, NEW l, NEW i, NEW s, NEW input, NEW frame, Good(g, l), NotDone(g, i),
         g.attempts[i] # None
  PROVE  Handled(g, OnDcutrStreamInput(g, i, s, input, frame), l, i)
<1>1. From(g, g, l, i) /\ Live(g, l, i) BY Enters DEF NotDone
<1> QED BY <1>1, OnDcutrStreamInputKeeps, Handles

-----------------------------------------------------------------------------
(* A tick of an attempt.  The relay leg may fail it, before the other deadlines. *)

LEMMA AttemptTickKeeps ==
  ASSUME NEW g, NEW l, NEW i \in ConnectIds, Good(g, l), NotDone(g, i)
  PROVE  Handled(g, AttemptTick(g, i), l, i)
<1>1. CASE At(g, i) = None BY <1>1, NothingHandled DEF AttemptTick
<1>2. CASE At(g, i) # None
  <2> DEFINE u == [g EXCEPT !.attempts[i].until = None]
             a == StaggerPhase(g, i)
             b == RelayPhase(a, i)
             c == RedriveRelayLeg(b, i)
             d == PunchPhase(c, i)
             m == [d EXCEPT !.attempts[i].live = 0, !.attempts[i].punch_dl = None]
             k == [d EXCEPT !.attempts[i].live = 0]
             e == ConnectPhase(d, i)
  <2>1. From(g, g, l, i) /\ Live(g, l, i) /\ Fit(g, i) BY <1>2, Enters, FromIsFit DEF At, NotDone
  <2>2. Alike(g, u, i) BY <2>1 DEF Alike, Fit, Shape, IsAttempt
  <2>3. a \in {g, BeginRelayLeg(u, i)} BY DEF StaggerPhase
  <2> HIDE DEF u
  <2>4. From(g, u, l, i) /\ Live(u, l, i) BY <2>1, <2>2, AlikeKeeps
  <2> HIDE DEF a
  <2>5. From(g, a, l, i) /\ Calm(a, l, i) BY <2>1, <2>3, <2>4, BeginRelayLegKeeps DEF Calm
  <2>6. b \in {a, FailRelayLeg(a, i)} BY DEF RelayPhase
  <2> HIDE DEF b
  <2>7. From(g, b, l, i) /\ Calm(b, l, i) BY <2>5, <2>6, FailRelayLegKeeps
  <2>8. From(g, c, l, i) /\ Calm(c, l, i) BY <2>7, FromIsFit, LegMoves, AlikeKeeps
  <2> HIDE DEF c
  <2>9. d = c \/ (d = OnPunchWindowElapsed(c, i) /\ At(c, i).punch_dl = 0) BY DEF PunchPhase
  <2>10. At(c, i).punch_dl = 0 => Live(c, l, i) /\ HasPath(c, i)
      BY <2>8, NatAssumption DEF Calm, Live, HasPath, Untimed, Fits, At
  <2> HIDE DEF d
  <2>11. From(g, d, l, i) /\ Either(d, l, i)
      BY <2>8, <2>9, <2>10, OnPunchWindowElapsedKeeps, CalmIsEither
  <2>12. e = d \/ (~At(d, i).done /\ At(d, i).best # None /\ e = SettleAfterPunch(m, i))
              \/ (~At(d, i).done /\ At(d, i).best = None /\ e = Fail(k, i))
      BY DEF ConnectPhase
  <2>13. ~At(d, i).done => Live(d, l, i) BY <2>11 DEF Either, Over, Live, At
  <2>14. Alike(d, m, i) /\ Alike(d, k, i)
      BY <2>11, FromIsFit DEF Alike, Fit, Shape, IsAttempt
  <2> HIDE DEF m, k, e
  <2>15. From(g, m, l, i) /\ Either(m, l, i) BY <2>11, <2>14, AlikeKeeps
  <2>16. From(g, SettleAfterPunch(m, i), l, i) /\ Either(SettleAfterPunch(m, i), l, i)
      BY <2>15, SettleAfterPunchKeeps
  <2>17. ASSUME ~At(d, i).done, At(d, i).best = None
         PROVE  From(g, Fail(k, i), l, i) /\ Over(Fail(k, i), i)
    <3>1. Pathless(d, i) BY <2>17 DEF Pathless, At
    <3>2. From(g, k, l, i) /\ Live(k, l, i) /\ Pathless(k, i)
        BY <2>11, <2>13, <2>14, <2>17, <3>1, AlikeKeeps
    <3> QED BY <3>2, FailEnds
  <2>18. From(g, e, l, i) /\ Either(e, l, i) BY <2>11, <2>12, <2>16, <2>17 DEF Either
  <2>19. AttemptTick(g, i) = e BY <1>2 DEF AttemptTick, a, b, c, d, e
  <2> QED BY <2>18, <2>19, Handles
<1> QED BY <1>1, <1>2

\* Whatever the attempt hears of.
LEMMA AttemptHearsKeeps ==
  ASSUME NEW g, NEW l, NEW i \in ConnectIds, NEW x, Good(g, l), NotDone(g, i)
  PROVE  Handled(g, AttemptHears(g, i, x), l, i)
<1> DEFINE h == AttemptHears(g, i, x)
<1>1. h \in {AttemptEstablished(g, i, x.conn), AttemptClosed(g, i, x.conn),
             AttemptPeerReady(g, i, x.peer), AttemptTick(g, i), g}
      \/ (h = RedriveRelayLeg(g, i) /\ g.attempts[i] # None)
    BY DEF AttemptHears
<1>2. ASSUME g.attempts[i] # None PROVE Handled(g, RedriveRelayLeg(g, i), l, i)
  <2>1. From(g, g, l, i) /\ Live(g, l, i) /\ Fit(g, i) BY <1>2, Enters, FromIsFit DEF NotDone
  <2>2. From(g, RedriveRelayLeg(g, i), l, i) /\ Live(RedriveRelayLeg(g, i), l, i)
      BY <2>1, LegMoves, AlikeKeeps
  <2> QED BY <2>2, Handles DEF Either
<1> HIDE DEF h
<1>3. Handled(g, h, l, i)
    BY <1>1, <1>2, NothingHandled, AttemptEstablishedKeeps, AttemptClosedKeeps,
       AttemptPeerReadyKeeps, AttemptTickKeeps
<1> QED BY <1>3 DEF h

-----------------------------------------------------------------------------
(* The housekeeping says nothing of an attempt. *)

LEMMA StillItself == \A g : Shape(g) => Still(g, g) /\ Silent(g, g)
BY StillIsSilent DEF Still

LEMMA StillOn ==
  ASSUME NEW g, NEW h, NEW k, Still(g, h), Still(h, k)
  PROVE  Still(g, k)
BY DEF Still

\* An event that is not about a connect id.
LEMMA RaisedIsSilent ==
  ASSUME NEW g, Shape(g), NEW e, "id" \notin DOMAIN e
  PROVE  Silent(g, Raise(g, e))
<1> DEFINE h == Raise(g, e)
<1>1. /\ h.attempts = g.attempts /\ h.next = g.next /\ h.events = Append(g.events, e)
      /\ DOMAIN h = DOMAIN g
    BY DEF Shape, Raise
<1>2. IsSeq(g.events) BY DEF Shape
<1>3. IsSeq(h.events) BY <1>1, <1>2, Appended
<1> HIDE DEF h
<1>4. Shape(h) BY <1>1, <1>3 DEF Shape
<1>5. \A j \in ConnectIds : Spares(g.events, h.events, j) BY <1>1, <1>2, SaidOfOthers DEF Is
<1>6. Silent(g, h) BY <1>1, <1>4, <1>5 DEF Silent
<1> QED BY <1>6 DEF h

\* The machines' own fields.
LEMMA OwnFields ==
  ASSUME NEW g, Shape(g)
  PROVE  /\ \A v : Still(g, [g EXCEPT !.prober = v])
         /\ \A v : Still(g, [g EXCEPT !.res = v])
         /\ \A v : Still(g, [g EXCEPT !.inbound = v])
BY DEF Still, Shape

LEMMA ClosedAndReleased == \A g, k : Shape(g) => Still(g, CloseAndRelease(g, k))
BY Pushed DEF CloseAndRelease, Still

LEMMA FlightEnds ==
  ASSUME NEW g, Shape(g)
  PROVE  /\ Still(g, AbortFlight(g))
         /\ Still(g, FinishFlight(g))
         /\ \A p : Still(g, ProberDisconnected(g, p))
<1> DEFINE f == g.prober.flight
<1>1. ASSUME NEW h, Still(g, h) PROVE Still(g, [h EXCEPT !.prober.flight = None])
    BY <1>1 DEF Still, Shape
<1>2. \A k : Still(g, ResetAndRelease(g, k)) /\ Still(g, CloseAndRelease(g, k)) /\ Still(g, ReleaseStream(g, k))
    BY Pushed, ClosedAndReleased
<1>3. Still(g, EndFlight(g, ResetAndRelease))
  <2> DEFINE h == IF f # None /\ Holding(f.stage) THEN ResetAndRelease(g, <<f.server, f.stream>>) ELSE g
  <2>1. Still(g, h) BY <1>2, StillItself
  <2>2. EndFlight(g, ResetAndRelease) = [h EXCEPT !.prober.flight = None] BY DEF EndFlight
  <2> HIDE DEF h
  <2> QED BY <1>1, <2>1, <2>2
<1>4. Still(g, EndFlight(g, CloseAndRelease))
  <2> DEFINE h == IF f # None /\ Holding(f.stage) THEN CloseAndRelease(g, <<f.server, f.stream>>) ELSE g
  <2>1. Still(g, h) BY <1>2, StillItself
  <2>2. EndFlight(g, CloseAndRelease) = [h EXCEPT !.prober.flight = None] BY DEF EndFlight
  <2> HIDE DEF h
  <2> QED BY <1>1, <2>1, <2>2
<1>5. Still(g, EndFlight(g, ReleaseStream))
  <2> DEFINE h == IF f # None /\ Holding(f.stage) THEN ReleaseStream(g, <<f.server, f.stream>>) ELSE g
  <2>1. Still(g, h) BY <1>2, StillItself
  <2>2. EndFlight(g, ReleaseStream) = [h EXCEPT !.prober.flight = None] BY DEF EndFlight
  <2> HIDE DEF h
  <2> QED BY <1>1, <2>1, <2>2
<1>6. ASSUME NEW h, Still(g, h), NEW d
      PROVE  Still(g, [h EXCEPT !.prober.idx = (@ + 1) % Len(AutonatServers), !.prober.next = d])
    BY <1>6 DEF Still, Shape
<1>7. Still(g, AbortFlight(g)) BY <1>3, <1>6 DEF AbortFlight
<1>8. Still(g, FinishFlight(g)) BY <1>4 DEF FinishFlight, Still, Shape
<1>9. ASSUME NEW p PROVE Still(g, ProberDisconnected(g, p))
  <2>1. Still(g, [EndFlight(g, ReleaseStream) EXCEPT !.prober.idx = (@ + 1) % Len(AutonatServers),
                                                     !.prober.next = probe_interval_unsettled])
      BY <1>5, <1>6
  <2> QED BY <2>1, StillItself DEF ProberDisconnected
<1> QED BY <1>7, <1>8, <1>9

LEMMA ProberIsSilent ==
  ASSUME NEW g, Shape(g)
  PROVE  /\ Still(g, ProberTick(g))
         /\ \A p : Still(g, ProberPeerReady(g, p))
         /\ Still(g, ProbeDialFailed(g))
         /\ \A p, s : Still(g, ProbeOpenResult(g, p, s))
<1>1. ASSUME NEW h, Shape(h) PROVE Still(h, StartProbe(h))
  <2> DEFINE p == ServerAt(h.prober.idx)
             k == IF IsConnected(h, p) \/ SessionDialPending(h, p) THEN h
                  ELSE PushSessionDial(h, "ProbeDial", None, p, probe_deadline)
  <2>1. Still(h, k) /\ Still(h, Push(h, OpenProbe(p))) BY <1>1, Pushed, StillItself
  <2>2. StartProbe(h) \in {[h EXCEPT !.prober.next = probe_interval_unsettled],
                           WithFlight(Push(h, OpenProbe(p)), p, "Opening"),
                           [h EXCEPT !.prober.idx = (@ + 1) % Len(AutonatServers),
                                     !.prober.next = probe_interval_unsettled],
                           WithFlight(k, p, "WaitPeerReady")}
      BY DEF StartProbe
  <2> HIDE DEF k, p
  <2>3. \A m, q, s : Still(h, m) => Still(h, WithFlight(m, q, s)) BY DEF WithFlight, Still, Shape
  <2>4. /\ Still(h, [h EXCEPT !.prober.next = probe_interval_unsettled])
        /\ Still(h, [h EXCEPT !.prober.idx = (@ + 1) % Len(AutonatServers),
                              !.prober.next = probe_interval_unsettled])
      BY <1>1 DEF Still, Shape
  <2> QED BY <2>1, <2>2, <2>3, <2>4
<1>2. Still(g, ProberTick(g))
  <2> DEFINE m == IF g.prober.flight # None /\ g.prober.flight.deadline = 0 THEN AbortFlight(g) ELSE g
  <2>1. Still(g, m) BY FlightEnds, StillItself
  <2>2. ProberTick(g) \in {m, StartProbe(m)} BY DEF ProberTick
  <2> HIDE DEF m
  <2>3. Still(m, StartProbe(m)) BY <1>1, <2>1 DEF Still
  <2> QED BY <2>1, <2>2, <2>3, StillOn
<1>3. ASSUME NEW p PROVE Still(g, ProberPeerReady(g, p))
  <2>1. Still(g, Push(g, OpenProbe(p))) BY Pushed
  <2>2. Still(g, [Push(g, OpenProbe(p)) EXCEPT !.prober.flight.stage = "Opening"])
      BY <2>1 DEF Still, Shape
  <2> QED BY <2>2, FlightEnds, StillItself DEF ProberPeerReady
<1>4. Still(g, ProbeDialFailed(g)) BY FlightEnds, StillItself DEF ProbeDialFailed
<1>5. ASSUME NEW p, NEW s PROVE Still(g, ProbeOpenResult(g, p, s))
  <2> DEFINE own == OwnStream(g, <<p, s>>, Role("AutonatProbe", None))
  <2>1. Still(g, own) /\ Still(g, PushIf(g, s # None, ResetStream(p, s))) BY Pushed
  <2>2. ProbeOpenResult(g, p, s) \in {PushIf(g, s # None, ResetStream(p, s)), AbortFlight(g),
            [own EXCEPT !.prober.flight.stage = "WaitStreamReady", !.prober.flight.stream = s]}
      BY DEF ProbeOpenResult
  <2> HIDE DEF own
  <2>3. Still(g, [own EXCEPT !.prober.flight.stage = "WaitStreamReady", !.prober.flight.stream = s])
      BY <2>1 DEF Still, Shape
  <2> QED BY <2>1, <2>2, <2>3, FlightEnds
<1> QED BY <1>2, <1>3, <1>4, <1>5

LEMMA RecordSampleIsSilent ==
  ASSUME NEW g, Shape(g), NEW sample
  PROVE  Silent(g, RecordSample(g, sample))
<1> DEFINE w == Window(g.prober.window, sample)
           new == Judge(w, g.prober.verdict)
           e == [event |-> "ReachabilityChanged", new |-> new]
           r == Raise(g, e)
           pub == (new = "Public" /\ sample = "Public")
           a == [g EXCEPT !.prober.window = w, !.prober.public = @ \/ pub]
           b == [r EXCEPT !.prober.window = w, !.prober.verdict = new, !.prober.public = pub]
<1>1. RecordSample(g, sample) \in {g, a, b} BY DEF RecordSample
<1>2. Still(g, a) BY DEF Still, Shape
<1>3. Silent(g, r) BY RaisedIsSilent
<1> HIDE DEF r, w, new, pub
<1>4. Still(r, b) BY <1>3 DEF Still, Shape, Silent
<1> QED BY <1>1, <1>2, <1>3, <1>4, StillIsSilent, SilentOn, StillItself

LEMMA ProbeStreamInputIsSilent ==
  ASSUME NEW g, Shape(g), NEW s, NEW input, NEW frame
  PROVE  Silent(g, ProbeStreamInput(g, s, input, frame))
<1> DEFINE p == Push(g, SendStream(g.prober.flight.server, s, "Dial"))
           a == [p EXCEPT !.prober.flight.stage = "AwaitResponse"]
           f == FinishFlight(g)
<1>1. ProbeStreamInput(g, s, input, frame) \in {g, a, AbortFlight(g), RecordSample(f, Verdict(frame))}
    BY DEF ProbeStreamInput
<1>2. Still(g, p) BY Pushed
<1> HIDE DEF p
<1>3. Still(g, a) BY <1>2 DEF Still, Shape
<1>4. Still(g, f) BY FlightEnds
<1> HIDE DEF f, a
<1>5. Silent(f, RecordSample(f, Verdict(frame))) BY <1>4, RecordSampleIsSilent DEF Still
<1>6. Silent(g, RecordSample(f, Verdict(frame))) BY <1>4, <1>5, StillIsSilent, SilentOn
<1> QED BY <1>1, <1>3, <1>6, FlightEnds, StillIsSilent, StillItself

LEMMA ReservationSteps ==
  ASSUME NEW g, Shape(g)
  PROVE  /\ \A r : Silent(g, Lost(g, r))
         /\ Still(g, DropReserveStream(g, ResetAndRelease))
         /\ Still(g, DropReserveStream(g, ReleaseStream))
         /\ \A r : Silent(g, BackOff(g, r))
         /\ \A p, s : Still(g, Acquiring(g, p, s))
<1>1. ASSUME NEW h, Shape(h), NEW r PROVE Silent(h, Lost(h, r))
  <2> DEFINE e == [event |-> "RelayReservationLost", relay |-> r]
  <2>1. "id" \notin DOMAIN e OBVIOUS
  <2> HIDE DEF e
  <2>2. Silent(h, Raise(h, e)) BY <1>1, <2>1, RaisedIsSilent
  <2>3. Lost(h, r) \in {h, Raise(h, e)} BY DEF Lost, e
  <2> QED BY <1>1, <2>2, <2>3, StillItself
<1>2. Still(g, DropReserveStream(g, ResetAndRelease)) BY Pushed, StillItself DEF DropReserveStream
<1>3. Still(g, DropReserveStream(g, ReleaseStream)) BY Pushed, StillItself DEF DropReserveStream
<1>4. ASSUME NEW r PROVE Silent(g, BackOff(g, r))
  <2> DEFINE h == Lost(g, r)
  <2>1. Silent(g, h) BY <1>1
  <2>2. PICK v : BackOff(g, r) = [h EXCEPT !.res = v] BY DEF BackOff
  <2> HIDE DEF h
  <2>3. Still(h, [h EXCEPT !.res = v]) BY <2>1, OwnFields DEF Silent
  <2> QED BY <2>1, <2>2, <2>3, StillIsSilent, SilentOn
<1>5. ASSUME NEW p, NEW s PROVE Still(g, Acquiring(g, p, s)) BY DEF Acquiring, Still, Shape
<1> QED BY <1>1, <1>2, <1>3, <1>4, <1>5

LEMMA ReservationMoves ==
  ASSUME NEW g, Shape(g)
  PROVE  /\ Silent(g, Release(g))
         /\ Silent(g, FailAcquire(g))
         /\ Silent(g, BeginAcquire(g))
<1>1. Silent(g, FailAcquire(g))
  <2> DEFINE h == DropReserveStream(g, ResetAndRelease)
  <2>1. Still(g, h) BY ReservationSteps
  <2>2. FailAcquire(g) = BackOff(h, g.res.held) BY DEF FailAcquire
  <2> HIDE DEF h
  <2>3. Silent(h, BackOff(h, g.res.held)) BY <2>1, ReservationSteps DEF Still
  <2> QED BY <2>1, <2>2, <2>3, StillIsSilent, SilentOn
<1>2. Silent(g, Release(g))
  <2> DEFINE lost == IF g.res.state = "Reserved" THEN g.res.relay
                     ELSE IF g.res.state = "Acquiring" THEN g.res.held ELSE None
             h == DropReserveStream(g, ResetAndRelease)
             k == Lost(h, lost)
             m == [k EXCEPT !.res = Idled(@)]
  <2>1. Still(g, h) BY ReservationSteps
  <2>2. Release(g) = m BY DEF Release
  <2> HIDE DEF h, lost
  <2>3. Silent(h, k) BY <2>1, ReservationSteps DEF Still
  <2> HIDE DEF k
  <2>4. Still(k, m) BY <2>3 DEF Still, Silent, Shape
  <2> QED BY <2>1, <2>2, <2>3, <2>4, StillIsSilent, SilentOn
<1>3. Silent(g, BeginAcquire(g))
  <2> DEFINE p == RelayAt(g.res.idx)
             o == Push(g, OpenReserve(p))
             k == IF IsConnected(g, p) \/ SessionDialPending(g, p) THEN g
                  ELSE PushSessionDial(g, "ReserveDial", None, p, relay_leg_deadline)
  <2>1. BeginAcquire(g) \in {Acquiring(o, p, "Opening"), BackOff(g, g.res.held),
                             Acquiring(k, p, "WaitPeerReady")}
      BY DEF BeginAcquire
  <2>2. Still(g, o) /\ Still(g, k) BY Pushed, StillItself
  <2> HIDE DEF p, o, k
  <2>3. Still(o, Acquiring(o, p, "Opening")) /\ Still(k, Acquiring(k, p, "WaitPeerReady"))
      BY <2>2, ReservationSteps DEF Still
  <2>4. Still(g, Acquiring(o, p, "Opening")) /\ Still(g, Acquiring(k, p, "WaitPeerReady"))
      BY <2>2, <2>3, StillOn
  <2>5. Silent(g, BackOff(g, g.res.held)) BY ReservationSteps
  <2> QED BY <2>1, <2>4, <2>5, StillIsSilent
<1> QED BY <1>1, <1>2, <1>3

LEMMA SyncIsSilent ==
  ASSUME NEW g, Shape(g)
  PROVE  Silent(g, Sync(g))
<1> DEFINE m == [g EXCEPT !.res.needs_sync = FALSE]
           k == [m EXCEPT !.res.held = g.res.relay]
           p == Push(m, [op |-> "Ping", peer |-> g.res.relay])
           q == [p EXCEPT !.res.alive_at = keep_alive_interval]
<1>1. Sync(g) \in {Release(m), BeginAcquire(m), BeginAcquire(k), q, FailAcquire(m), m} BY DEF Sync
<1>2. Still(g, m) BY DEF Still, Shape
<1> HIDE DEF m
<1>3. Still(g, k) BY <1>2 DEF Still, Shape
<1>4. Still(g, p) BY <1>2, Pushed, StillOn DEF Still
<1> HIDE DEF k, p
<1>5. Still(g, q) BY <1>4 DEF Still, Shape
<1> HIDE DEF q
<1>6. Silent(m, Release(m)) /\ Silent(m, BeginAcquire(m)) /\ Silent(m, FailAcquire(m))
    BY <1>2, ReservationMoves DEF Still
<1>7. Silent(k, BeginAcquire(k)) BY <1>3, ReservationMoves DEF Still
<1>8. Silent(g, m) /\ Silent(g, k) /\ Silent(g, q) BY <1>2, <1>3, <1>5, StillIsSilent
<1>9. /\ Silent(g, Release(m)) /\ Silent(g, BeginAcquire(m)) /\ Silent(g, FailAcquire(m))
      /\ Silent(g, BeginAcquire(k))
    BY <1>6, <1>7, <1>8, SilentOn
<1> QED BY <1>1, <1>8, <1>9

LEMMA ReservationIsSilent ==
  ASSUME NEW g, Shape(g)
  PROVE  /\ \A p : Silent(g, ReservePeerReady(g, p))
         /\ \A p : Silent(g, ReserveDisconnected(g, p))
         /\ Silent(g, ReserveDialFailed(g))
         /\ \A p, s : Silent(g, ReserveOpenResult(g, p, s))
         /\ \A s, input, frame : Silent(g, ReserveStreamInput(g, s, input, frame))
<1>1. Silent(g, g) /\ Silent(g, FailAcquire(g)) BY StillItself, ReservationMoves
<1>2. ASSUME NEW p PROVE Silent(g, ReservePeerReady(g, p))
  <2> DEFINE o == Push(g, OpenReserve(p))
             h == [o EXCEPT !.res.stage = "Opening"]
  <2>1. ReservePeerReady(g, p) \in {g, h, FailAcquire(g)} BY DEF ReservePeerReady
  <2>2. Still(g, o) BY Pushed
  <2> HIDE DEF o
  <2>3. Still(g, h) BY <2>2 DEF Still, Shape
  <2> QED BY <1>1, <2>1, <2>3, StillIsSilent
<1>3. ASSUME NEW p PROVE Silent(g, ReserveDisconnected(g, p))
  <2> DEFINE h == DropReserveStream(g, ReleaseStream)
  <2>1. ReserveDisconnected(g, p) \in {g, BackOff(g, p), BackOff(h, g.res.held)}
      BY DEF ReserveDisconnected
  <2>2. Still(g, h) /\ Silent(g, BackOff(g, p)) BY ReservationSteps
  <2> HIDE DEF h
  <2>3. Silent(h, BackOff(h, g.res.held)) BY <2>2, ReservationSteps DEF Still
  <2>4. Silent(g, BackOff(h, g.res.held)) BY <2>2, <2>3, StillIsSilent, SilentOn
  <2> QED BY <1>1, <2>1, <2>2, <2>4
<1>4. Silent(g, ReserveDialFailed(g)) BY <1>1 DEF ReserveDialFailed
<1>5. ASSUME NEW p, NEW s PROVE Silent(g, ReserveOpenResult(g, p, s))
  <2> DEFINE own == OwnStream(g, <<p, s>>, Role("HopReserve", None))
             h == [own EXCEPT !.res.stage = "WaitStreamReady", !.res.stream = s]
             reset == PushIf(g, s # None, ResetStream(p, s))
  <2>1. ReserveOpenResult(g, p, s) \in {reset, FailAcquire(g), h} BY DEF ReserveOpenResult
  <2>2. Still(g, own) /\ Still(g, reset) BY Pushed
  <2> HIDE DEF own, reset
  <2>3. Still(g, h) BY <2>2 DEF Still, Shape
  <2> QED BY <1>1, <2>1, <2>2, <2>3, StillIsSilent
<1>6. ASSUME NEW s, NEW input, NEW frame PROVE Silent(g, ReserveStreamInput(g, s, input, frame))
  <2> DEFINE p == Push(g, SendStream(g.res.relay, s, "Reserve"))
             a == [p EXCEPT !.res.stage = "AwaitResponse"]
  <2>1. ReserveStreamInput(g, s, input, frame) \in {g, a, CompleteAcquire(g, reservation_ttl), FailAcquire(g)}
      BY DEF ReserveStreamInput
  <2>2. Still(g, p) BY Pushed
  <2> HIDE DEF p
  <2>3. Still(g, a) BY <2>2 DEF Still, Shape
  <2> HIDE DEF a
  <2>4. Silent(g, CompleteAcquire(g, reservation_ttl))
    <3> DEFINE e == [event |-> "RelayReserved", relay |-> g.res.relay]
               h == CloseAndRelease(g, <<g.res.relay, g.res.stream>>)
               k == Raise(h, e)
               m == [k EXCEPT !.res = [@ EXCEPT !.state = "Reserved", !.held = None, !.stage = None,
                                                !.stream = None, !.timer = reservation_ttl,
                                                !.alive_at = keep_alive_interval]]
    <3>1. CompleteAcquire(g, reservation_ttl) = m BY DEF CompleteAcquire
    <3>2. Still(g, h) BY ClosedAndReleased
    <3>3. "id" \notin DOMAIN e OBVIOUS
    <3> HIDE DEF e, h
    <3>4. Silent(h, k) BY <3>2, <3>3, RaisedIsSilent DEF Still
    <3> HIDE DEF k
    <3>5. Still(k, m) BY <3>4 DEF Still, Silent, Shape
    <3> QED BY <3>1, <3>2, <3>4, <3>5, StillIsSilent, SilentOn
  <2> QED BY <1>1, <2>1, <2>3, <2>4, StillIsSilent
<1> QED BY <1>2, <1>3, <1>4, <1>5, <1>6

LEMMA HousekeepingIsSilent ==
  ASSUME NEW g, Shape(g)
  PROVE  /\ Silent(g, HousekeepingTick(g))
         /\ \A p : Silent(g, HousekeepingPeerReady(g, p))
         /\ \A s, input, frame : Silent(g, ProbeInput(g, s, input, frame))
         /\ Silent(g, ReconcileDisconnects(g))
<1>1. Silent(g, HousekeepingTick(g))
  <2>1. Still(g, ProberTick(g)) BY ProberIsSilent
  <2>2. Silent(ProberTick(g), Sync(ProberTick(g))) BY <2>1, SyncIsSilent DEF Still
  <2> QED BY <2>1, <2>2, StillIsSilent, SilentOn DEF HousekeepingTick
<1>2. ASSUME NEW p PROVE Silent(g, HousekeepingPeerReady(g, p))
  <2> DEFINE h == ProberPeerReady(g, p)
  <2>1. Still(g, h) BY ProberIsSilent
  <2>2. Silent(h, ReservePeerReady(h, p)) BY <2>1, ReservationIsSilent DEF Still
  <2> QED BY <2>1, <2>2, StillIsSilent, SilentOn DEF HousekeepingPeerReady
<1>3. ASSUME NEW s, NEW input, NEW frame PROVE Silent(g, ProbeInput(g, s, input, frame))
  <2> DEFINE h == ProbeStreamInput(g, s, input, frame)
  <2>1. Silent(g, h) BY ProbeStreamInputIsSilent
  <2>2. ProbeInput(g, s, input, frame) \in {h, Sync(h)} BY DEF ProbeInput
  <2> HIDE DEF h
  <2>3. Silent(h, Sync(h)) BY <2>1, SyncIsSilent DEF Silent
  <2> QED BY <2>1, <2>2, <2>3, SilentOn
<1>4. Silent(g, ReconcileDisconnects(g))
  <2> DEFINE gone == {p \in g.reconcile_disconnects : ~IsConnected(g, p)}
             f    == g.prober.flight
             m    == IF f = None THEN g ELSE IF f.server \in gone THEN ProberDisconnected(g, f.server) ELSE g
             h    == IF g.res.relay \in gone THEN ReserveDisconnected(m, g.res.relay) ELSE m
             k    == [h EXCEPT !.reconcile_disconnects = g.pending_disconnects, !.pending_disconnects = {}]
  <2>1. ReconcileDisconnects(g) = k BY DEF ReconcileDisconnects
  <2> HIDE DEF gone, f
  <2>2. Still(g, m) BY FlightEnds, StillItself
  <2> HIDE DEF m
  <2>3. Silent(m, h) BY <2>2, ReservationIsSilent, StillItself DEF Still
  <2> HIDE DEF h
  <2>4. Still(h, k) BY <2>3 DEF Still, Silent, Shape
  <2> QED BY <2>1, <2>2, <2>3, <2>4, StillIsSilent, SilentOn
<1> QED BY <1>1, <1>2, <1>3, <1>4

-----------------------------------------------------------------------------
(* Neither do the inbound circuits. *)

LEMMA InboundSteps ==
  ASSUME NEW g, Shape(g), NEW j
  PROVE  /\ Still(g, InboundDone(g, j))
         /\ \A reset : Still(g, Abandon(g, j, reset))
         /\ \A tail : Still(g, PromoteInbound(g, j, tail))
         /\ Still(g, FinishDcutr(g, j))
<1>1. ASSUME NEW h, Shape(h) PROVE Still(h, InboundDone(h, j))
    BY <1>1 DEF InboundDone, Still, Shape
<1>2. \A k, c, a : Still(g, ReleaseStream(PushIf(g, c, a), k)) BY Pushed DEF Still
<1>3. ASSUME NEW reset PROVE Still(g, Abandon(g, j, reset))
  <2> DEFINE x == In(g, j)
             h == IF x.released THEN g
                  ELSE ReleaseStream(PushIf(g, reset, ResetStream(x.relay, x.stream)), StopKey(x))
  <2>1. Still(g, h) BY <1>2, StillItself
  <2>2. Abandon(g, j, reset) = InboundDone(h, j) BY DEF Abandon
  <2> HIDE DEF h
  <2>3. Still(h, InboundDone(h, j)) BY <1>1, <2>1 DEF Still
  <2> QED BY <2>1, <2>2, <2>3, StillOn
<1>4. ASSUME NEW tail PROVE Still(g, PromoteInbound(g, j, tail))
  <2> DEFINE x == In(g, j)
             h == Push(ReleaseStream(g, StopKey(x)),
                       PromoteBridge("PromoteInbound", j, x.inner, x.stream, tail, FALSE))
  <2>1. \A k, a : Still(g, Push(ReleaseStream(g, k), a)) BY Pushed DEF Still
  <2>2. PromoteInbound(g, j, tail) = [h EXCEPT !.inbound[j].released = TRUE] BY DEF PromoteInbound
  <2>3. Still(g, h) BY <2>1
  <2> HIDE DEF h
  <2> QED BY <2>2, <2>3 DEF Still, Shape
<1>5. Still(g, FinishDcutr(g, j))
  <2> DEFINE x == In(g, j)
             h == IF x.dstream = None THEN g ELSE ResetAndRelease(g, <<x.source, x.dstream>>)
  <2>1. Still(g, h) BY Pushed, StillItself
  <2>2. FinishDcutr(g, j) = [h EXCEPT !.inbound[j].dcutr = None, !.inbound[j].dcutr_dl = None,
                                      !.inbound[j].dstream = None]
      BY DEF FinishDcutr
  <2> HIDE DEF h
  <2> QED BY <2>1, <2>2 DEF Still, Shape
<1> QED BY <1>1, <1>3, <1>4, <1>5

LEMMA InboundInputs ==
  ASSUME NEW g, Shape(g), NEW j
  PROVE  /\ \A c, s, input, chunk : Still(g, OnStopStreamInput(g, j, c, s, input, chunk))
         /\ \A result : Still(g, InboundPromoteResult(g, j, result))
         /\ \A p, s : Still(g, InboundOpenResult(g, j, p, s))
         /\ \A s, input, frame : Still(g, OnDcutrInboundInput(g, j, s, input, frame))
<1>1. Still(g, g) /\ Still(g, InboundDone(g, j)) BY StillItself, InboundSteps
<1>2. ASSUME NEW c, NEW s, NEW input, NEW chunk PROVE Still(g, OnStopStreamInput(g, j, c, s, input, chunk))
  <2> DEFINE h == Push(g, SendStream(In(g, j).relay, In(g, j).stream, "Status"))
             k == [h EXCEPT !.inbound[j].source = chunk.source]
             r == OnStopStreamInput(g, j, c, s, input, chunk)
  <2>1. r \in {g, Abandon(g, j, FALSE), OnStopInput(g, j, chunk)} BY DEF OnStopStreamInput
  <2>2. OnStopInput(g, j, chunk) \in {g, Abandon(g, j, TRUE), Abandon(h, j, TRUE),
                                      PromoteInbound(k, j, chunk.tail)}
      BY DEF OnStopInput
  <2>3. Still(g, h) BY Pushed
  <2> HIDE DEF h
  <2>4. Still(g, k) BY <2>3 DEF Still, Shape
  <2> HIDE DEF k, r
  <2>5. Still(h, Abandon(h, j, TRUE)) /\ Still(k, PromoteInbound(k, j, chunk.tail))
    <3>1. Shape(h) /\ Shape(k) BY <2>3, <2>4 DEF Still
    <3> QED BY <3>1, InboundSteps, Zenon
  <2>6. Still(g, Abandon(h, j, TRUE)) /\ Still(g, PromoteInbound(k, j, chunk.tail))
      BY <2>3, <2>4, <2>5, StillOn
  <2>7. Still(g, Abandon(g, j, TRUE)) /\ Still(g, Abandon(g, j, FALSE)) BY InboundSteps
  <2>8. Still(g, r) BY <1>1, <2>1, <2>2, <2>6, <2>7
  <2> QED BY <2>8 DEF r
<1>3. ASSUME NEW result PROVE Still(g, InboundPromoteResult(g, j, result))
  <2>1. Still(g, [g EXCEPT !.inbound[j].promoted = result,
                           !.inbound[j].handshake = circuit_handshake_timeout])
      BY DEF Still, Shape
  <2> QED BY <1>1, <2>1 DEF InboundPromoteResult
<1>4. ASSUME NEW p, NEW s PROVE Still(g, InboundOpenResult(g, j, p, s))
  <2> DEFINE own == OwnStream(g, <<p, s>>, Role("DcutrInbound", j))
             reset == PushIf(g, s # None, ResetStream(p, s))
             d == InboundDone(g, j)
             h == [own EXCEPT !.inbound[j].dstream = s, !.inbound[j].dcutr = "Pending",
                              !.inbound[j].dcutr_dl = relay_leg_deadline]
             k == [d EXCEPT !.inbound[j].linger = None]
  <2>1. InboundOpenResult(g, j, p, s) \in {reset, k, h} BY DEF InboundOpenResult
  <2>2. Still(g, own) /\ Still(g, reset) BY Pushed
  <2> HIDE DEF own, reset, d
  <2>3. Still(g, h) BY <2>2 DEF Still, Shape
  <2>4. Still(g, d) BY <1>1 DEF d
  <2>5. Still(g, k) BY <2>4 DEF Still, Shape
  <2> QED BY <2>1, <2>2, <2>3, <2>5
<1>5. ASSUME NEW s, NEW input, NEW frame PROVE Still(g, OnDcutrInboundInput(g, j, s, input, frame))
  <2> DEFINE x == In(g, j)
             p == Push(g, SendStream(x.source, s, "Connect"))
             a == [p EXCEPT !.inbound[j].dcutr = "AwaitingReply"]
             q == Push(g, SendStream(x.source, s, "Sync"))
             b == [q EXCEPT !.inbound[j].blast = IF frame = "Addrs" THEN punch_deadline ELSE @,
                            !.inbound[j].linger = punch_deadline * (1 + punch_max_retries)]
             f == FinishDcutr(g, j)
  <2>1. OnDcutrInboundInput(g, j, s, input, frame) \in {g, a, FinishDcutr(b, j), InboundDone(f, j)}
      BY DEF OnDcutrInboundInput, DialNow
  <2>2. Still(g, p) /\ Still(g, q) BY Pushed
  <2> HIDE DEF p, q
  <2>3. Still(g, a) BY <2>2 DEF Still, Shape
  <2>4. Still(g, b) BY <2>2 DEF Still, Shape
  <2>5. Still(g, f) BY InboundSteps
  <2> HIDE DEF a, b, f
  <2>6. Still(b, FinishDcutr(b, j)) /\ Still(f, InboundDone(f, j))
      BY <2>4, <2>5, InboundSteps DEF Still
  <2>7. Still(g, FinishDcutr(b, j)) /\ Still(g, InboundDone(f, j)) BY <2>4, <2>5, <2>6, StillOn
  <2> QED BY <1>1, <2>1, <2>3, <2>7
<1> QED BY <1>2, <1>3, <1>4, <1>5

LEMMA InboundTickIsSilent ==
  ASSUME NEW g, Shape(g), NEW j
  PROVE  Still(g, InboundTick(g, j))
<1>1. ASSUME NEW h, Shape(h) PROVE Still(h, ExchangePhase(h, j))
    BY <1>1, InboundSteps, StillItself DEF ExchangePhase
<1>2. ASSUME NEW h, Shape(h) PROVE Still(h, BlastPhase(h, j))
  <2>1. Still(h, [h EXCEPT !.inbound[j].blast = None]) BY <1>2 DEF Still, Shape
  <2> QED BY <1>2, <2>1, StillItself DEF BlastPhase
<1>3. ASSUME NEW h, Shape(h) PROVE Still(h, LingerPhase(h, j))
  <2>1. \A d : Still(h, [h EXCEPT !.inbound[j].linger = None, !.inbound[j].blast = None,
                                  !.inbound[j].done = d])
      BY <1>3 DEF Still, Shape
  <2> QED BY <1>3, <2>1, StillItself DEF LingerPhase
<1>4. ASSUME NEW h, Shape(h) PROVE Still(h, HandshakePhase(h, j))
  <2> DEFINE x == In(h, j)
             p == PushIf(h, x.promoted # None, CloseCircuit(x.promoted))
             k == [p EXCEPT !.inbound[j].handshake = None, !.inbound[j].promoted = None,
                            !.inbound[j].done = TRUE]
  <2>1. HandshakePhase(h, j) \in {h, k} BY DEF HandshakePhase
  <2>2. Still(h, p) BY <1>4, Pushed
  <2> HIDE DEF p
  <2>3. Still(h, k) BY <2>2 DEF Still, Shape
  <2> QED BY <1>4, <2>1, <2>3, StillItself
<1>5. ASSUME NEW h, Shape(h) PROVE Still(h, DcutrPhase(h, j))
  <2> DEFINE f == FinishDcutr(h, j)
  <2>1. Still(h, f) BY <1>5, InboundSteps
  <2>2. DcutrPhase(h, j) \in {h, InboundDone(f, j)} BY DEF DcutrPhase
  <2> HIDE DEF f
  <2>3. Still(f, InboundDone(f, j)) BY <2>1, InboundSteps DEF Still
  <2> QED BY <1>5, <2>1, <2>2, <2>3, StillOn, StillItself
<1> DEFINE a == ExchangePhase(g, j)
           b == BlastPhase(a, j)
           c == LingerPhase(b, j)
           d == HandshakePhase(c, j)
           e == DcutrPhase(d, j)
<1>6. InboundTick(g, j) \in {g, e} BY DEF InboundTick
<1>7. Still(g, a) BY <1>1
<1> HIDE DEF a
<1>8. Still(a, b) BY <1>2, <1>7 DEF Still
<1> HIDE DEF b
<1>9. Still(b, c) BY <1>3, <1>8 DEF Still
<1> HIDE DEF c
<1>10. Still(c, d) BY <1>4, <1>9 DEF Still
<1> HIDE DEF d
<1>11. Still(d, e) BY <1>5, <1>10 DEF Still
<1> HIDE DEF e
<1>12. Still(g, e) BY <1>7, <1>8, <1>9, <1>10, <1>11 DEF Still
<1> QED BY <1>6, <1>12, StillItself

LEMMA InboundHearsIsSilent ==
  ASSUME NEW g, Shape(g), NEW j, NEW x
  PROVE  Silent(g, InboundHears(g, j, x))
<1> DEFINE c == x.conn
           p == PeerOf[c]
<1>1. Still(g, InboundClosed(g, j, c)) BY InboundSteps, StillItself DEF InboundClosed
<1>2. Silent(g, InboundCircuitUp(g, j, p))
  <2> DEFINE m == [g EXCEPT !.inbound[j].handshake = None]
             d == InboundDone(m, j)
             a == [d EXCEPT !.inbound[j].blast = None, !.inbound[j].linger = None]
             o == IF g.config.force_relay THEN d
                  ELSE Push(m, OpenStream("OpenDcutrInbound", j, p, DCUTR))
             e == [event |-> "InboundPathEstablished", peer |-> p]
             r == Raise(o, e)
             b == [o EXCEPT !.events = Append(@, e), !.inbound[j].announced = TRUE]
  <2>1. InboundCircuitUp(g, j, p) \in {a, m, b} BY DEF InboundCircuitUp
  <2>2. Still(g, m) BY DEF Still, Shape
  <2> HIDE DEF m
  <2>3. Still(g, d) BY <2>2, InboundSteps, StillOn DEF Still
  <2> HIDE DEF d
  <2>4. Still(g, a) BY <2>3 DEF Still, Shape
  <2>5. Still(g, o) BY <2>2, <2>3, Pushed, StillOn DEF Still
  <2>6. "id" \notin DOMAIN e OBVIOUS
  <2> HIDE DEF o, e, a
  <2>7. Silent(o, r) BY <2>5, <2>6, RaisedIsSilent DEF Still
  <2>8. b.attempts = r.attempts /\ b.events = r.events /\ b.next = r.next /\ DOMAIN b = DOMAIN r
      BY <2>5 DEF Raise, Still, Shape
  <2> HIDE DEF r, b
  <2>9. Still(r, b) BY <2>7, <2>8 DEF Still, Silent, Shape
  <2>10. Silent(g, b) BY <2>5, <2>7, <2>9, StillIsSilent, SilentOn
  <2> QED BY <2>1, <2>2, <2>4, <2>10, StillIsSilent
<1>3. Silent(g, InboundEstablished(g, j, c))
  <2> DEFINE e == [event |-> "InboundDirectUpgrade", peer |-> p]
             r == Raise(g, e)
             b == [r EXCEPT !.inbound[j].blast = None, !.inbound[j].linger = None,
                            !.inbound[j].done = In(g, j).released]
  <2>1. InboundEstablished(g, j, c) \in {g, b, InboundCircuitUp(g, j, p)} BY DEF InboundEstablished
  <2>2. "id" \notin DOMAIN e OBVIOUS
  <2> HIDE DEF e
  <2>3. Silent(g, r) BY <2>2, RaisedIsSilent
  <2> HIDE DEF r
  <2>4. Still(r, b) BY <2>3 DEF Still, Silent, Shape
  <2> QED BY <1>2, <2>1, <2>3, <2>4, StillIsSilent, SilentOn, StillItself
<1>4. InboundHears(g, j, x) \in {InboundEstablished(g, j, c), InboundClosed(g, j, c), InboundTick(g, j)}
    BY DEF InboundHears
<1> QED BY <1>1, <1>3, <1>4, InboundTickIsSilent, StillIsSilent

-----------------------------------------------------------------------------
(* The agent goes through its machines in the order of their ids.  A fold over the
   ids 1..K is the K-th of a chain of states, each of which comes from the last by
   one machine hearing of x.  The fold's definition chooses a function on the
   subsets of 1..K; that there is one is shown by induction on K. *)

Hears(kind, g, i, x) == IF kind = "attempts" THEN AttemptHears(g, i, x) ELSE InboundHears(g, i, x)
Ids(K) == [i \in 1..K |-> i]
FoldStep(kind, K, q, s, g, x) == IF s = {} THEN g ELSE Hears(kind, q[s \ {Max(s)}], Ids(K)[Max(s)], x)
Runs(kind, m, K, g, x) == \E q : q = [s \in SUBSET (1..m) |-> FoldStep(kind, K, q, s, g, x)]
IsRun(kind, K, q, g, x) == q = [s \in SUBSET (1..K) |-> FoldStep(kind, K, q, s, g, x)]
Chain(kind, K, h, g, x) ==
    \E f : f[0] = g /\ f[K] = h /\ \A i \in 1..K : f[i] = Hears(kind, f[i - 1], i, x)

LEMMA LeastElement == ASSUME NEW S \in SUBSET Nat, S # {} PROVE \E x \in S : \A y \in S : x <= y
<1>1. IsWellFoundedOn(OpToRel(<, Nat), Nat) BY NatLessThanWellFounded
<1>2. \E x \in S : \A y \in S : ~ (<<y, x>> \in OpToRel(<, Nat))
  BY <1>1, WFMin, Zenon
<1>3. PICK x \in S : \A y \in S : ~ (<<y, x>> \in OpToRel(<, Nat)) BY <1>2, Zenon
<1>4. \A y \in S : ~(y < x)
  <2> TAKE y \in S
  <2>1. x \in Nat /\ y \in Nat BY Zenon
  <2>2. ~ (<<y, x>> \in OpToRel(<, Nat)) BY <1>3, Zenon
  <2> QED BY <2>1, <2>2 DEF OpToRel
<1>5. \A y \in S : x <= y
  <2> TAKE y \in S
  <2>1. x \in Nat /\ y \in Nat BY Zenon
  <2>2. ~(y < x) BY <1>4, Zenon
  <2> QED BY <2>1, <2>2
<1> QED BY <1>5, Zenon

LEMMA Induction == ASSUME NEW S \in SUBSET Nat, 0 \in S, \A k \in S : k + 1 \in S PROVE S = Nat
<1>1. SUFFICES ASSUME Nat \ S # {} PROVE FALSE OBVIOUS
<1>2. Nat \ S \in SUBSET Nat OBVIOUS
<1>3. PICK x \in Nat \ S : \A y \in Nat \ S : x <= y BY <1>1, <1>2, LeastElement
<1>4. x # 0 /\ x \in Nat BY <1>3
<1>5. x - 1 \in Nat BY <1>4
<1>6. x - 1 \notin Nat \ S BY <1>3, <1>4, <1>5
<1>7. x - 1 \in S BY <1>5, <1>6
<1>8. (x - 1) + 1 \in S BY <1>7
<1> QED BY <1>3, <1>4, <1>8

LEMMA MaxOfRange == ASSUME NEW m \in Nat, NEW s \in SUBSET (1..m), m \in s PROVE Max(s) = m
<1>1. \A x \in s : x \in Int /\ m >= x OBVIOUS
<1>2. m \in s /\ \A y \in s : m >= y BY <1>1
<1>3. \A z \in s : (\A y \in s : z >= y) => z = m BY <1>1
<1>4. Max(s) \in s /\ \A y \in s : Max(s) >= y BY <1>2 DEF Max
<1> QED BY <1>3, <1>4

LEMMA RunsLonger ==
  ASSUME NEW kind, NEW m \in Nat, NEW K, NEW g, NEW x, Runs(kind, m, K, g, x)
  PROVE  Runs(kind, m + 1, K, g, x)
<1>1. PICK q : q = [s \in SUBSET (1..m) |-> FoldStep(kind, K, q, s, g, x)] BY DEF Runs
<1> DEFINE h == [s \in SUBSET (1..(m + 1)) |->
                   IF m + 1 \in s THEN Hears(kind, q[s \ {m + 1}], Ids(K)[m + 1], x) ELSE q[s]]
<1>2. ASSUME NEW s \in SUBSET (1..(m + 1)) PROVE h[s] = FoldStep(kind, K, h, s, g, x)
  <2>1. CASE m + 1 \in s
    <3>1. Max(s) = m + 1 BY <2>1, MaxOfRange
    <3>2. s \ {m + 1} \in SUBSET (1..m) OBVIOUS
    <3>3. s \ {m + 1} \in SUBSET (1..(m + 1)) /\ m + 1 \notin s \ {m + 1} OBVIOUS
    <3>4. h[s \ {m + 1}] = q[s \ {m + 1}] BY <3>3
    <3>5. h[s] = Hears(kind, q[s \ {m + 1}], Ids(K)[m + 1], x) BY <2>1
    <3>6. s # {} BY <2>1
    <3> HIDE DEF h
    <3> QED BY <3>1, <3>4, <3>5, <3>6 DEF FoldStep
  <2>2. CASE m + 1 \notin s
    <3>1. s \in SUBSET (1..m) BY <2>2
    <3>2. h[s] = q[s] BY <2>2
    <3>3. q[s] = FoldStep(kind, K, q, s, g, x) BY <1>1, <3>1
    <3>4. s \ {Max(s)} \in SUBSET (1..(m + 1)) /\ m + 1 \notin s \ {Max(s)} BY <2>2
    <3>5. h[s \ {Max(s)}] = q[s \ {Max(s)}] BY <3>4
    <3> HIDE DEF h
    <3> QED BY <3>2, <3>3, <3>5 DEF FoldStep
  <2> QED BY <2>1, <2>2
<1>3. h = [s \in SUBSET (1..(m + 1)) |-> h[s]] OBVIOUS
<1> HIDE DEF h
<1>4. h = [s \in SUBSET (1..(m + 1)) |-> FoldStep(kind, K, h, s, g, x)] BY <1>2, <1>3
<1> QED BY <1>4 DEF Runs

LEMMA RunsAlways == ASSUME NEW kind, NEW K \in Nat, NEW g, NEW x PROVE Runs(kind, K, K, g, x)
<1> DEFINE S == {m \in Nat : Runs(kind, m, K, g, x)}
<1>1. S \in SUBSET Nat OBVIOUS
<1>2. 0 \in S
  <2>1. SUBSET (1..0) = {{}} OBVIOUS
  <2>2. [s \in SUBSET (1..0) |-> g]
          = [s \in SUBSET (1..0) |-> FoldStep(kind, K, [t \in SUBSET (1..0) |-> g], s, g, x)]
      BY <2>1 DEF FoldStep
  <2>3. Runs(kind, 0, K, g, x) BY <2>2 DEF Runs
  <2> QED BY <2>3
<1>3. \A m \in S : m + 1 \in S BY RunsLonger
<1> HIDE DEF S
<1>4. S = Nat BY <1>1, <1>2, <1>3, Induction
<1> QED BY <1>4 DEF S

LEMMA ChainOf ==
  ASSUME NEW kind, NEW K \in Nat, NEW g, NEW x,
         NEW q, IsRun(kind, K, q, g, x)
  PROVE  Chain(kind, K, q[1..K], g, x)
<1>0. q = [s \in SUBSET (1..K) |-> FoldStep(kind, K, q, s, g, x)] BY DEF IsRun
<1> DEFINE f == [i \in 0..K |-> q[1..i]]
<1>1. f[0] = g
  <2>1. 0 \in 0..K /\ 1..0 = {} /\ 1..0 \in SUBSET (1..K) OBVIOUS
  <2>2. f[0] = q[1..0] BY <2>1
  <2>3. q[1..0] = FoldStep(kind, K, q, 1..0, g, x) BY <1>0, <2>1
  <2> QED BY <2>1, <2>2, <2>3 DEF FoldStep
<1>2. ASSUME NEW i \in 1..K PROVE f[i] = Hears(kind, f[i - 1], i, x)
  <2>1. /\ i \in Nat /\ i \in 0..K /\ i - 1 \in 0..K
        /\ 1..i \in SUBSET (1..K) /\ 1..i \in SUBSET (1..i) /\ i \in 1..i
      OBVIOUS
  <2>2. Max(1..i) = i BY <2>1, MaxOfRange
  <2>3. (1..i) \ {i} = 1..(i - 1) BY <2>1
  <2>4. q[1..i] = FoldStep(kind, K, q, 1..i, g, x) BY <1>0, <2>1
  <2>5. Ids(K)[i] = i BY DEF Ids
  <2>6. q[1..i] = Hears(kind, q[1..(i - 1)], i, x) BY <2>1, <2>2, <2>3, <2>4, <2>5 DEF FoldStep
  <2> QED BY <2>1, <2>6
<1>3. f[K] = q[1..K] OBVIOUS
<1> HIDE DEF f
<1> QED BY <1>1, <1>2, <1>3 DEF Chain

Attempts == Cardinality(ConnectIds)
Circuits == Cardinality(InboundIds)

LEMMA Counted == Attempts \in Nat /\ ConnectIds = 1..Attempts /\ Circuits \in Nat /\ InboundIds = 1..Circuits
BY NatAssumption, FS_CardinalityType DEF Attempts, Circuits

LEMMA ForAttemptsChain ==
  ASSUME NEW g, NEW x
  PROVE  \E f : /\ f[0] = g /\ f[Attempts] = ForAttempts(g, x)
                /\ \A i \in 1..Attempts : f[i] = AttemptHears(f[i - 1], i, x)
<1> DEFINE K == Attempts
           Sets == SUBSET (1..K)
           Ran(q) == [s \in Sets |-> IF s = {} THEN g
                                     ELSE AttemptHears(q[s \ {Max(s)}], Ids(K)[Max(s)], x)]
           iter == CHOOSE q : q = Ran(q)
<1>1. \A q : Ran(q) = [s \in Sets |-> FoldStep("attempts", K, q, s, g, x)] BY DEF FoldStep, Hears
<1>2. \E q : q = Ran(q)
  <2>1. Runs("attempts", K, K, g, x) BY RunsAlways, Counted
  <2>2. PICK q : q = [s \in Sets |-> FoldStep("attempts", K, q, s, g, x)] BY <2>1 DEF Runs
  <2>3. q = Ran(q) BY <1>1, <2>2
  <2> QED BY <2>3
<1>3. iter = Ran(iter) BY <1>2, Zenon
<1>4. ForAttempts(g, x) = iter[1..K]
  <2> DEFINE ids == [i \in ConnectIds |-> i]
  <2>1. ids = Ids(K) /\ DOMAIN ids = 1..K BY Counted DEF Ids
  <2>2. ForAttempts(g, x)
          = (CHOOSE q : q = [s \in SUBSET (DOMAIN ids) |->
                              IF s = {} THEN g
                              ELSE AttemptHears(q[s \ {Max(s)}], ids[Max(s)], x)])[DOMAIN ids]
      BY Zenon DEF ForAttempts, FoldLeft, MapThenFoldSet
  <2> HIDE DEF ids
  <2> QED BY <2>1, <2>2, Zenon
<1> HIDE DEF iter
<1>5. IsRun("attempts", K, iter, g, x) BY <1>1, <1>3 DEF IsRun
<1>6. Chain("attempts", K, iter[1..K], g, x) BY <1>5, ChainOf, Counted
<1>7. PICK f : /\ f[0] = g /\ f[K] = iter[1..K]
               /\ \A i \in 1..K : f[i] = Hears("attempts", f[i - 1], i, x)
    BY <1>6 DEF Chain
<1>8. \A i \in 1..K : f[i] = AttemptHears(f[i - 1], i, x) BY <1>7 DEF Hears
<1> QED BY <1>4, <1>7, <1>8

LEMMA ForInboundChain ==
  ASSUME NEW g, NEW x
  PROVE  \E f : /\ f[0] = g /\ f[Circuits] = ForInbound(g, x)
                /\ \A j \in 1..Circuits : f[j] = InboundHears(f[j - 1], j, x)
<1> DEFINE K == Circuits
           Sets == SUBSET (1..K)
           Ran(q) == [s \in Sets |-> IF s = {} THEN g
                                     ELSE InboundHears(q[s \ {Max(s)}], Ids(K)[Max(s)], x)]
           iter == CHOOSE q : q = Ran(q)
<1>1. \A q : Ran(q) = [s \in Sets |-> FoldStep("inbound", K, q, s, g, x)] BY DEF FoldStep, Hears
<1>2. \E q : q = Ran(q)
  <2>1. Runs("inbound", K, K, g, x) BY RunsAlways, Counted
  <2>2. PICK q : q = [s \in Sets |-> FoldStep("inbound", K, q, s, g, x)] BY <2>1 DEF Runs
  <2>3. q = Ran(q) BY <1>1, <2>2
  <2> QED BY <2>3
<1>3. iter = Ran(iter) BY <1>2, Zenon
<1>4. ForInbound(g, x) = iter[1..K]
  <2> DEFINE ids == [j \in InboundIds |-> j]
  <2>1. ids = Ids(K) /\ DOMAIN ids = 1..K BY Counted DEF Ids
  <2>2. ForInbound(g, x)
          = (CHOOSE q : q = [s \in SUBSET (DOMAIN ids) |->
                              IF s = {} THEN g
                              ELSE InboundHears(q[s \ {Max(s)}], ids[Max(s)], x)])[DOMAIN ids]
      BY Zenon DEF ForInbound, FoldLeft, MapThenFoldSet
  <2> HIDE DEF ids
  <2> QED BY <2>1, <2>2, Zenon
<1> HIDE DEF iter
<1>5. IsRun("inbound", K, iter, g, x) BY <1>1, <1>3 DEF IsRun
<1>6. Chain("inbound", K, iter[1..K], g, x) BY <1>5, ChainOf, Counted
<1>7. PICK f : /\ f[0] = g /\ f[K] = iter[1..K]
               /\ \A j \in 1..K : f[j] = Hears("inbound", f[j - 1], j, x)
    BY <1>6 DEF Chain
<1>8. \A j \in 1..K : f[j] = InboundHears(f[j - 1], j, x) BY <1>7 DEF Hears
<1> QED BY <1>4, <1>7, <1>8

\* What every attempt does with x leaves their stories right.
LEMMA ForAttemptsKeeps ==
  ASSUME NEW g, NEW l, NEW x, Good(g, l), NoneDone(g)
  PROVE  Good(ForAttempts(g, x), l)
<1>1. PICK f : /\ f[0] = g /\ f[Attempts] = ForAttempts(g, x)
               /\ \A i \in 1..Attempts : f[i] = AttemptHears(f[i - 1], i, x)
    BY ForAttemptsChain
<1> DEFINE Upto(k) == /\ Good(f[k], l)
                      /\ \A j \in ConnectIds : j > k => f[k].attempts[j] = g.attempts[j]
           S == {k \in Nat : k <= Attempts => Upto(k)}
<1>2. 0 \in S BY <1>1
<1>3. ASSUME NEW k \in S PROVE k + 1 \in S
  <2>1. SUFFICES ASSUME k + 1 <= Attempts PROVE Upto(k + 1) OBVIOUS
  <2> DEFINE i == k + 1
  <2>2. i \in ConnectIds /\ i \in 1..Attempts /\ i - 1 = k /\ k <= Attempts BY <2>1, Counted
  <2>3. Upto(k) BY <2>2
  <2>4. NotDone(f[k], i) BY <2>2, <2>3, Counted DEF NotDone, NoneDone
  <2>5. f[i] = AttemptHears(f[k], i, x) BY <1>1, <2>2
  <2>6. Handled(f[k], f[i], l, i) BY <2>2, <2>3, <2>4, <2>5, AttemptHearsKeeps
  <2>7. ASSUME NEW j \in ConnectIds, j > i PROVE f[i].attempts[j] = g.attempts[j]
    <3>1. j # i /\ j > k BY <2>7, Counted
    <3> QED BY <2>3, <2>6, <3>1 DEF Handled
  <2> QED BY <2>6, <2>7 DEF Handled
<1> HIDE DEF Upto
<1>4. S \in SUBSET Nat OBVIOUS
<1>5. \A k \in S : k + 1 \in S BY <1>3
<1> HIDE DEF S
<1>6. S = Nat BY <1>2, <1>4, <1>5, Induction
<1>7. Upto(Attempts) BY <1>6, Counted DEF S
<1> QED BY <1>1, <1>7 DEF Upto

LEMMA ForInboundIsSilent ==
  ASSUME NEW g, NEW x, Shape(g)
  PROVE  Silent(g, ForInbound(g, x))
<1>1. PICK f : /\ f[0] = g /\ f[Circuits] = ForInbound(g, x)
               /\ \A j \in 1..Circuits : f[j] = InboundHears(f[j - 1], j, x)
    BY ForInboundChain
<1> DEFINE S == {k \in Nat : k <= Circuits => Silent(g, f[k])}
<1>2. 0 \in S BY <1>1, StillItself
<1>3. ASSUME NEW k \in S PROVE k + 1 \in S
  <2>1. SUFFICES ASSUME k + 1 <= Circuits PROVE Silent(g, f[k + 1]) OBVIOUS
  <2>2. k + 1 \in 1..Circuits /\ (k + 1) - 1 = k /\ k <= Circuits BY <2>1, Counted
  <2>3. Silent(g, f[k]) BY <2>2
  <2>4. f[k + 1] = InboundHears(f[k], k + 1, x) BY <1>1, <2>2
  <2>5. Silent(f[k], f[k + 1]) BY <2>3, <2>4, InboundHearsIsSilent DEF Silent
  <2> QED BY <2>3, <2>5, SilentOn
<1>4. S \in SUBSET Nat OBVIOUS
<1>5. \A k \in S : k + 1 \in S BY <1>3
<1> HIDE DEF S
<1>6. S = Nat BY <1>2, <1>4, <1>5, Induction
<1>7. Silent(g, f[Circuits]) BY <1>6, Counted DEF S
<1> QED BY <1>1, <1>7

-----------------------------------------------------------------------------
(* The agent. *)

LEMMA ReapDoneKeeps ==
  ASSUME NEW g, NEW l, Good(g, l)
  PROVE  Good(ReapDone(g), l) /\ NoneDone(ReapDone(g))
<1> DEFINE h == ReapDone(g)
<1>1. Shape(g) BY DEF Good
<1>2. /\ DOMAIN h = DOMAIN g /\ h.events = g.events /\ h.next = g.next
      /\ DOMAIN h.attempts = ConnectIds
      /\ \A j \in ConnectIds : h.attempts[j] = IF g.attempts[j] # None /\ g.attempts[j].done
                                               THEN None ELSE g.attempts[j]
    BY <1>1 DEF ReapDone, Shape
<1> HIDE DEF h
<1>3. Shape(h) BY <1>1, <1>2 DEF Shape
<1>4. \A j \in ConnectIds : Kept(h, l, j) BY <1>2 DEF Good, Kept, Fits
<1>5. NoneDone(h) BY <1>2 DEF NoneDone
<1> QED BY <1>3, <1>4, <1>5 DEF Good, h

LEMMA NoneIsDone == \A g, i : NoneDone(g) => NotDone(g, i)
BY DEF NoneDone, NotDone

LEMMA StillKeeps ==
  ASSUME NEW g, NEW h, NEW l, Good(g, l), Still(g, h)
  PROVE  Good(h, l) /\ (NoneDone(g) => NoneDone(h))
BY StillIsSilent, SilentKeeps

\* Connections.
LEMMA ConnectionEventsKeep ==
  ASSUME NEW g, NEW l, NEW e, Good(g, l), NoneDone(g)
  PROVE  /\ Good(OnConnectionEstablished(g, e), l)
         /\ Good(OnConnectionClosed(g, e), l)
         /\ Good(OnPeerReady(g, e), l)
<1>1. Shape(g) BY DEF Good
<1>2. Good(OnConnectionEstablished(g, e), l)
  <2> DEFINE p == PeerOf[e.conn]
             m == [g EXCEPT !.pending_disconnects = @ \ {p}, !.reconcile_disconnects = @ \ {p},
                            !.dialing[p] = 0, !.connected[p] = @ \cup {e.conn}]
             a == ForAttempts(m, e)
  <2>1. Still(g, m) BY <1>1 DEF Still, Shape
  <2>2. OnConnectionEstablished(g, e) = ForInbound(a, e) BY DEF OnConnectionEstablished
  <2> HIDE DEF m
  <2>3. Good(a, l) BY <2>1, StillKeeps, ForAttemptsKeeps
  <2> HIDE DEF a
  <2>4. Silent(a, ForInbound(a, e)) BY <2>3, ForInboundIsSilent DEF Good
  <2> QED BY <2>2, <2>3, <2>4, SilentKeeps
<1>3. Good(OnConnectionClosed(g, e), l)
  <2> DEFINE p == PeerOf[e.conn]
             last == g.connected[p] = {e.conn}
             m == [g EXCEPT !.connected[p] = @ \ {e.conn}, !.ready[p] = IF last THEN None ELSE @]
             a == ForAttempts(m, e)
             b == [a EXCEPT !.pending_disconnects = @ \cup (IF last THEN {p} ELSE {})]
             c == ForInbound(b, e)
             d == ForgetStreamsOf(c, e.conn)
             z == [d EXCEPT !.dialing[p] = 0]
  <2>1. Still(g, m) BY <1>1 DEF Still, Shape
  <2>2. OnConnectionClosed(g, e) = z BY DEF OnConnectionClosed
  <2> HIDE DEF m
  <2>3. Good(a, l) BY <2>1, StillKeeps, ForAttemptsKeeps
  <2> HIDE DEF a
  <2>4. Still(a, b) BY <2>3 DEF Still, Shape, Good
  <2> HIDE DEF b
  <2>5. Good(b, l) BY <2>3, <2>4, StillKeeps
  <2>6. Silent(b, c) BY <2>5, ForInboundIsSilent DEF Good
  <2> HIDE DEF c
  <2>7. Good(c, l) BY <2>5, <2>6, SilentKeeps
  <2>8. Still(c, d) BY <2>7 DEF ForgetStreamsOf, Still, Shape, Good
  <2> HIDE DEF d
  <2>9. Still(d, z) BY <2>8 DEF Still, Shape
  <2> HIDE DEF z
  <2> QED BY <2>2, <2>7, <2>8, <2>9, StillKeeps
<1>4. Good(OnPeerReady(g, e), l)
  <2> DEFINE m == [g EXCEPT !.ready[e.peer] = e.protocols]
             a == ForAttempts(m, e)
  <2>1. Still(g, m) BY <1>1 DEF Still, Shape
  <2>2. OnPeerReady(g, e) = HousekeepingPeerReady(a, e.peer) BY DEF OnPeerReady
  <2> HIDE DEF m
  <2>3. Good(a, l) BY <2>1, StillKeeps, ForAttemptsKeeps
  <2> HIDE DEF a
  <2>4. \A p : Silent(a, HousekeepingPeerReady(a, p)) BY <2>3, HousekeepingIsSilent DEF Good
  <2> QED BY <2>2, <2>3, <2>4, SilentKeeps
<1> QED BY <1>2, <1>3, <1>4

\* Streams.
LEMMA OnInboundControlKeeps ==
  ASSUME NEW g, NEW l, NEW c, NEW s, NEW protocol, Good(g, l), NoneDone(g)
  PROVE  Good(OnInboundControl(g, c, s, protocol), l)
<1> DEFINE p == PeerOf[c]
           k == <<p, s>>
           takers == {i \in ConnectIds : AcceptsDcutr(g.attempts[i], p, c)}
           m == BindStream(g, k, c)
           j == g.next.inbound
           refuse == Push(g, ResetStream(p, s))
           taker == Min(takers)
           own == OwnStream(m, k, Role("DcutrAttempt", taker))
           took == OnDcutrStreamOpened(own, taker, s)
           stop == OwnStream(m, k, Role("StopInbound", j))
           circuit == [stop EXCEPT !.next.inbound = j + 1, !.inbound[j] = NewInbound(c, s)]
           rejected == OwnStream(Push(m, ResetStream(p, s)), k, Role("RejectedControl", None))
<1>1. OnInboundControl(g, c, s, protocol) \in {refuse, circuit, rejected}
      \/ (OnInboundControl(g, c, s, protocol) = took /\ takers # {})
    BY DEF OnInboundControl
<1>2. Shape(g) BY DEF Good
<1>3. Still(g, refuse) /\ Still(g, m) BY <1>2, Pushed
<1> HIDE DEF m, refuse
<1>4. Still(g, own) /\ Still(g, stop) BY <1>3, Pushed, StillOn DEF Still
<1>5. Still(g, rejected)
  <2>1. Still(m, Push(m, ResetStream(p, s))) BY <1>3, Pushed DEF Still
  <2>2. Still(Push(m, ResetStream(p, s)), rejected) BY <2>1, Pushed DEF Still
  <2> QED BY <1>3, <2>1, <2>2, StillOn
<1> HIDE DEF stop, rejected
<1>6. Silent(g, circuit)
  <2>1. Silent(g, stop) BY <1>4, StillIsSilent
  <2>2. /\ DOMAIN circuit = DOMAIN stop /\ circuit.attempts = stop.attempts
        /\ circuit.events = stop.events
        /\ circuit.next.connect = stop.next.connect /\ "connect" \in DOMAIN circuit.next
      BY <2>1 DEF Silent, Shape
  <2> HIDE DEF circuit
  <2>3. Shape(circuit) BY <2>1, <2>2 DEF Silent, Shape
  <2> QED BY <2>1, <2>2, <2>3 DEF Silent
<1>7. ASSUME takers # {} PROVE Good(took, l)
  <2>1. takers \in SUBSET Nat BY Counted
  <2>2. \E y \in takers : \A z \in takers : y <= z BY <1>7, <2>1, LeastElement
  <2>3. taker \in takers BY <2>2 DEF Min
  <2>4. /\ taker \in ConnectIds /\ g.attempts[taker] # None
        /\ g.attempts[taker].best = "Relayed" /\ ~g.attempts[taker].done
      BY <2>3 DEF AcceptsDcutr
  <2> HIDE DEF own, taker
  <2>5. Good(own, l) /\ own.attempts = g.attempts BY <1>4, StillKeeps DEF Still
  <2>6. Handled(own, took, l, taker) BY <2>4, <2>5, OnDcutrStreamOpenedKeeps
  <2> QED BY <2>6 DEF Handled
<1> HIDE DEF took, circuit
<1>8. Good(refuse, l) /\ Good(circuit, l) /\ Good(rejected, l)
    BY <1>3, <1>5, <1>6, StillIsSilent, SilentKeeps
<1> QED BY <1>1, <1>7, <1>8

LEMMA RouteKeeps ==
  ASSUME NEW g, NEW l, NEW c, NEW s, NEW input, NEW chunk, Good(g, l), NoneDone(g)
  PROVE  Good(Route(g, c, s, input, chunk), l)
<1> DEFINE role == g.registry[<<PeerOf[c], s>>]
           i == role.id
           frame == chunk.frame
           h == Route(g, c, s, input, chunk)
<1>1. \/ h = OnHopStreamInput(g, i, c, s, input, chunk)
      \/ h = ReserveStreamInput(g, s, input, frame)
      \/ h = ProbeInput(g, s, input, frame)
      \/ h = OnStopStreamInput(g, i, c, s, input, chunk)
      \/ h = OnDcutrStreamInput(g, i, s, input, frame) /\ g.attempts[i] # None
      \/ h = OnDcutrInboundInput(g, i, s, input, frame)
      \/ h = g
    BY DEF Route
<1> HIDE DEF role, i, frame, h
<1>2. Shape(g) /\ NotDone(g, i) BY NoneIsDone DEF Good
<1>3. Good(OnHopStreamInput(g, i, c, s, input, chunk), l)
    BY <1>2, OnHopStreamInputKeeps DEF Handled
<1>4. Good(ReserveStreamInput(g, s, input, frame), l)
    BY <1>2, ReservationIsSilent, SilentKeeps
<1>5. Good(ProbeInput(g, s, input, frame), l)
    BY <1>2, HousekeepingIsSilent, SilentKeeps
<1>6. Good(OnStopStreamInput(g, i, c, s, input, chunk), l)
    BY <1>2, InboundInputs, StillKeeps
<1>7. g.attempts[i] # None => Good(OnDcutrStreamInput(g, i, s, input, frame), l)
    BY <1>2, DcutrInputKeeps DEF Handled
<1>8. Good(OnDcutrInboundInput(g, i, s, input, frame), l)
    BY <1>2, InboundInputs, StillKeeps
<1>9. Good(h, l) BY <1>1, <1>3, <1>4, <1>5, <1>6, <1>7, <1>8
<1> QED BY <1>9 DEF h

LEMMA StreamEventsKeep ==
  ASSUME NEW g, NEW l, NEW c, NEW s, NEW input, NEW chunk, Good(g, l), NoneDone(g)
  PROVE  Good(OnStreamReady(g, c, s), l) /\ Good(OnStream(g, c, s, input, chunk), l)
<1>1. Good(OnStreamReady(g, c, s), l)
  <2> DEFINE m == BindStream(g, <<PeerOf[c], s>>, c)
  <2>1. OnStreamReady(g, c, s) \in {g, Route(m, c, s, "Ready", NoChunk)} BY DEF OnStreamReady
  <2>2. Still(g, m) BY Pushed DEF Good
  <2> HIDE DEF m
  <2>3. Good(m, l) /\ NoneDone(m) BY <2>2, StillKeeps
  <2> QED BY <2>1, <2>3, RouteKeeps
<1>2. Good(OnStream(g, c, s, input, chunk), l)
  <2> DEFINE r == Route(g, c, s, input, chunk)
             k == <<PeerOf[c], s>>
  <2>1. OnStream(g, c, s, input, chunk) \in {g, r, ReleaseStream(r, k)} BY DEF OnStream
  <2>2. Good(r, l) BY RouteKeeps
  <2> HIDE DEF r, k
  <2>3. Still(r, ReleaseStream(r, k)) BY <2>2, Pushed DEF Good
  <2> QED BY <2>1, <2>2, <2>3, StillKeeps
<1> QED BY <1>1, <1>2

\* Every call of the driver: handle_event, handle_tick, and the results.
LEMMA CallsKeep ==
  ASSUME NEW g, NEW l, Good(g, l), NoneDone(g)
  PROVE  /\ \A e : Good(HandleEvent(g, e), l) /\ NoneDone(HandleEvent(g, e))
         /\ Good(HandleTick(g), l) /\ NoneDone(HandleTick(g))
         /\ \A act : Good(DialFailed(g, act), l) /\ NoneDone(DialFailed(g, act))
         /\ \A act, s : Good(StreamOpenResult(g, act, s), l) /\ NoneDone(StreamOpenResult(g, act, s))
         /\ \A act, r : Good(PromoteResult(g, act, r), l) /\ NoneDone(PromoteResult(g, act, r))
         /\ \A i \in ConnectIds : g.attempts[i] # None => Good(Cancel(g, i), l) /\ NoneDone(Cancel(g, i))
<1>0. Shape(g) /\ \A i : NotDone(g, i) BY NoneIsDone DEF Good
<1>1. ASSUME NEW e PROVE Good(HandleEvent(g, e), l) /\ NoneDone(HandleEvent(g, e))
  <2>1. PICK h : /\ HandleEvent(g, e) = ReapDone(h)
                 /\ h \in {OnConnectionEstablished(g, e), OnConnectionClosed(g, e), OnPeerReady(g, e),
                           OnInboundControl(g, e.conn, e.s, e.protocol), OnStreamReady(g, e.conn, e.s),
                           OnStream(g, e.conn, e.s, e.event, e.chunk)}
      BY DEF HandleEvent
  <2>2. /\ Good(OnConnectionEstablished(g, e), l)
        /\ Good(OnConnectionClosed(g, e), l)
        /\ Good(OnPeerReady(g, e), l)
      BY ConnectionEventsKeep, Zenon
  <2>3. Good(OnInboundControl(g, e.conn, e.s, e.protocol), l) BY OnInboundControlKeeps, Zenon
  <2>4. Good(OnStreamReady(g, e.conn, e.s), l) /\ Good(OnStream(g, e.conn, e.s, e.event, e.chunk), l)
      BY StreamEventsKeep, Zenon
  <2>5. Good(h, l) BY <2>1, <2>2, <2>3, <2>4
  <2> QED BY <2>1, <2>5, ReapDoneKeeps
<1>2. Good(HandleTick(g), l) /\ NoneDone(HandleTick(g))
  <2> DEFINE x == [event |-> "Tick"]
             a == ReconcileDisconnects(g)
             b == ForAttempts(a, x)
             c == HousekeepingTick(b)
             d == ForInbound(c, x)
  <2>1. HandleTick(g) = ReapDone(d) BY DEF HandleTick
  <2>2. Good(a, l) /\ NoneDone(a) BY <1>0, HousekeepingIsSilent, SilentKeeps
  <2> HIDE DEF a, x
  <2>3. Good(b, l) BY <2>2, ForAttemptsKeeps
  <2> HIDE DEF b
  <2>4. Silent(b, c) BY <2>3, HousekeepingIsSilent DEF Good
  <2> HIDE DEF c
  <2>5. Good(c, l) BY <2>3, <2>4, SilentKeeps
  <2>6. Silent(c, d) BY <2>5, ForInboundIsSilent DEF Good
  <2> HIDE DEF d
  <2>7. Good(d, l) BY <2>5, <2>6, SilentKeeps
  <2> QED BY <2>1, <2>7, ReapDoneKeeps
<1>3. ASSUME NEW act PROVE Good(DialFailed(g, act), l) /\ NoneDone(DialFailed(g, act))
  <2> DEFINE shared == act.purpose \in {"RelayDial", "ProbeDial", "ReserveDial"} /\ g.dialing[act.peer] > 0
             k == [g EXCEPT !.dialing[act.peer] = 0]
             x == [event |-> "DialFailed", id |-> act.id, peer |-> act.peer]
             m == IF ~shared THEN g ELSE ForAttempts(k, x)
  <2>1. PICK h : /\ DialFailed(g, act) = ReapDone(h)
                 /\ h \in {ProbeDialFailed(m), ReserveDialFailed(m),
                           AttemptDialFailed(m, act.id, act.purpose)}
      BY DEF DialFailed
  <2>2. Still(g, k) BY <1>0 DEF Still, Shape
  <2> HIDE DEF shared, k, x
  <2>3. Good(m, l) BY <2>2, StillKeeps, ForAttemptsKeeps
  <2> HIDE DEF m
  <2>4. Still(m, ProbeDialFailed(m)) /\ Silent(m, ReserveDialFailed(m))
      BY <2>3, ProberIsSilent, ReservationIsSilent DEF Good
  <2>5. Good(AttemptDialFailed(m, act.id, act.purpose), l)
    <3>1. Handled(m, AttemptDialFailed(m, act.id, act.purpose), l, act.id)
        BY <2>3, AttemptDialFailedKeeps, Zenon
    <3> QED BY <3>1 DEF Handled
  <2>6. Good(h, l) BY <2>1, <2>3, <2>4, <2>5, StillKeeps, SilentKeeps
  <2> QED BY <2>1, <2>6, ReapDoneKeeps
<1>4. ASSUME NEW act, NEW s
      PROVE  Good(StreamOpenResult(g, act, s), l) /\ NoneDone(StreamOpenResult(g, act, s))
  <2> DEFINE i == act.id
             p == act.peer
  <2>1. PICK h : /\ StreamOpenResult(g, act, s) = ReapDone(h)
                 /\ h \in {AttemptOpenResult(g, i, s), ProbeOpenResult(g, p, s),
                           ReserveOpenResult(g, p, s), InboundOpenResult(g, i, p, s)}
      BY DEF StreamOpenResult
  <2> HIDE DEF i, p
  <2>2. Good(AttemptOpenResult(g, i, s), l) BY <1>0, AttemptOpenResultKeeps DEF Handled
  <2>3. Still(g, ProbeOpenResult(g, p, s)) /\ Still(g, InboundOpenResult(g, i, p, s))
      BY <1>0, ProberIsSilent, InboundInputs
  <2>4. Silent(g, ReserveOpenResult(g, p, s)) BY <1>0, ReservationIsSilent
  <2>5. Good(h, l) BY <2>1, <2>2, <2>3, <2>4, StillKeeps, SilentKeeps
  <2> QED BY <2>1, <2>5, ReapDoneKeeps
<1>5. ASSUME NEW act, NEW r PROVE Good(PromoteResult(g, act, r), l) /\ NoneDone(PromoteResult(g, act, r))
  <2> DEFINE i == act.id
  <2>1. PICK h : /\ PromoteResult(g, act, r) = ReapDone(h)
                 /\ h \in {AttemptPromoteResult(g, i, r), InboundPromoteResult(g, i, r)}
      BY DEF PromoteResult
  <2> HIDE DEF i
  <2>2. Good(AttemptPromoteResult(g, i, r), l) BY <1>0, AttemptPromoteResultKeeps DEF Handled
  <2>3. Still(g, InboundPromoteResult(g, i, r)) BY <1>0, InboundInputs
  <2>4. Good(h, l) BY <2>1, <2>2, <2>3, StillKeeps
  <2> QED BY <2>1, <2>4, ReapDoneKeeps
<1>6. ASSUME NEW i \in ConnectIds, g.attempts[i] # None PROVE Good(Cancel(g, i), l) /\ NoneDone(Cancel(g, i))
  <2>1. From(g, g, l, i) BY <1>0, <1>6, Enters DEF NotDone
  <2>2. From(g, CancelAttempt(g, i), l, i) /\ Over(CancelAttempt(g, i), i) BY <2>1, CancelEnds
  <2>3. Good(CancelAttempt(g, i), l) BY <2>2, Leaves DEF Either
  <2> QED BY <2>3, ReapDoneKeeps DEF Cancel
<1> QED BY <1>1, <1>2, <1>3, <1>4, <1>5, <1>6

\* A connect id is handed out: nothing was said of it.
LEMMA ConnectKeeps ==
  ASSUME NEW g, NEW l, NEW p, NEW candidates, NEW allow_relay,
         Good(g, l), NoneDone(g), g.next.connect \in ConnectIds
  PROVE  LET h == ConnectWithRelayPolicy(g, p, candidates, allow_relay)
         IN  Good(h, l) /\ NoneDone(h)
<1> DEFINE i == g.next.connect
           m == [g EXCEPT !.next.connect = i + 1]
           up == [event |-> "PathEstablished", id |-> i, path |-> "DirectDialed"]
           failed == [event |-> "ConnectFailed", id |-> i]
           some == IF g.config.force_relay THEN 0 ELSE candidates
           a == [m EXCEPT !.attempts[i] = NewAttempt(p, some, allow_relay)]
           b == WithDirectDials(a, i, p, some)
           w == [b EXCEPT !.attempts[i].leg = "WaitStagger", !.attempts[i].until = relay_stagger]
<1>1. /\ DOMAIN m = DOMAIN g /\ m.attempts = g.attempts /\ m.events = g.events
      /\ m.next.connect = i + 1 /\ "connect" \in DOMAIN m.next
    BY DEF Good, Shape
<1>2. PICK h : /\ ConnectWithRelayPolicy(g, p, candidates, allow_relay) = ReapDone(h)
               /\ h \in {Raise(m, up), Raise(m, failed), b, BeginRelayLeg(b, i), w}
    BY DEF ConnectWithRelayPolicy, StartAttempt
<1> HIDE DEF m
<1>3. Shape(m) BY <1>1 DEF Good, Shape
<1>4. i \in ConnectIds /\ i \in Nat /\ ~(i >= i + 1) BY Counted
<1>5. ASSUME NEW j \in ConnectIds, j # i PROVE Kept(m, l, j)
  <2>1. j >= i + 1 => j >= i BY <1>4, Counted
  <2>2. Kept(g, l, j) BY DEF Good
  <2> QED BY <1>1, <2>1, <2>2 DEF Kept
<1>6. g.attempts[i] = None /\ Fresh(g.events, l[i], i) /\ Story(g.events, l[i], i)
  <2>1. Kept(g, l, i) BY <1>4 DEF Good
  <2>2. i >= g.next.connect BY <1>4
  <2> QED BY <2>1, <2>2 DEF Kept
<1>7. ASSUME NEW e, "id" \in DOMAIN e, e.id = i, Opener(e) PROVE Good(Raise(m, e), l)
  <2> DEFINE r == Raise(m, e)
  <2>1. /\ DOMAIN r = DOMAIN m /\ r.attempts = m.attempts /\ r.next = m.next
        /\ r.events = Append(m.events, e) /\ IsSeq(m.events)
      BY <1>3 DEF Raise, Shape
  <2>2. IsSeq(r.events) BY <2>1, Appended
  <2> HIDE DEF r
  <2>3. Shape(r) BY <1>3, <2>1, <2>2 DEF Shape
  <2>4. ASSUME NEW j \in ConnectIds, j # i PROVE Kept(r, l, j)
    <3>1. ~Is(e, j) BY <1>7, <2>4 DEF Is
    <3>2. Spares(m.events, r.events, j) BY <2>1, <3>1, SaidOfOthers
    <3>3. Kept(m, l, j) BY <1>5, <2>4
    <3> QED BY <2>1, <3>2, <3>3 DEF Kept, Spares, Fits
  <2>5. Kept(r, l, i)
    <3>1. Story(r.events, l[i], i) BY <1>1, <1>6, <1>7, <2>1, SaidFirst DEF Is
    <3> QED BY <1>1, <1>4, <1>6, <2>1, <3>1 DEF Kept
  <2>6. Good(r, l) BY <2>3, <2>4, <2>5 DEF Good
  <2> QED BY <2>6 DEF r
<1>8. Good(Raise(m, up), l) /\ Good(Raise(m, failed), l)
  <2>1. /\ "id" \in DOMAIN up /\ up.id = i /\ Opener(up)
        /\ "id" \in DOMAIN failed /\ failed.id = i /\ Opener(failed)
      BY DEF Opener
  <2> HIDE DEF up, failed, i
  <2> QED BY <1>7, <2>1
<1>9. From(b, b, l, i) /\ Live(b, l, i)
  <2> DEFINE new == NewAttempt(p, some, allow_relay)
  <2>1. IsAttempt(new) /\ ~new.done /\ new.best = None /\ new.punch_dl = None /\ new.dcutr = None
      BY DEF NewAttempt, IsAttempt
  <2> HIDE DEF new
  <2>2. /\ Shape(a) /\ a.events = m.events /\ a.next = m.next /\ a.attempts[i] = new
        /\ \A j \in ConnectIds : j # i => a.attempts[j] = m.attempts[j]
      BY <1>3, <1>4 DEF Shape, new
  <2> HIDE DEF a
  <2>3. Still(a, b) BY <2>2 DEF WithDirectDials, Still, Shape
  <2> HIDE DEF b
  <2>4. /\ Shape(b) /\ b.events = g.events /\ b.next = m.next /\ b.attempts[i] = new
        /\ \A j \in ConnectIds : j # i => b.attempts[j] = m.attempts[j]
      BY <1>1, <2>2, <2>3 DEF Still
  <2>5. \A j \in ConnectIds : j # i => Kept(b, l, j) BY <1>1, <1>5, <2>4 DEF Kept
  <2>6. Fits(new, b.events, l[i], i) BY <1>6, <2>1, <2>4 DEF Fits
  <2>7. From(b, b, l, i) BY <1>1, <1>4, <1>6, <2>1, <2>4, <2>5 DEF From
  <2>8. Live(b, l, i) BY <2>1, <2>4, <2>6 DEF Live
  <2> QED BY <2>7, <2>8
<1> HIDE DEF b
<1>10. Good(b, l) BY <1>9, Leaves DEF Either
<1>11. Good(BeginRelayLeg(b, i), l) BY <1>9, BeginRelayLegKeeps, CalmIsEither, Leaves DEF Calm
<1>12. Good(w, l)
  <2>1. Alike(b, w, i) BY <1>9, FromIsFit DEF Alike, Fit, Shape, IsAttempt
  <2> HIDE DEF w
  <2>2. From(b, w, l, i) /\ Live(w, l, i) BY <1>9, <2>1, AlikeKeeps
  <2> QED BY <2>2, Leaves DEF Either
<1>13. Good(h, l) BY <1>2, <1>8, <1>10, <1>11, <1>12
<1> QED BY <1>2, <1>13, ReapDoneKeeps

-----------------------------------------------------------------------------
(* The specification. *)

LEMMA InitialState == Init => NatInv
<1> SUFFICES ASSUME Init PROVE NatInv OBVIOUS
<1>1. PICK mode \in Modes : n = NewAgent(mode.config) /\ log = [i \in ConnectIds |-> <<>>]
    BY DEF Init
<1>2. /\ {"attempts", "events", "next", "actions"} \subseteq DOMAIN n
      /\ n.attempts = [i \in ConnectIds |-> None]
      /\ n.events = <<>> /\ n.next = [connect |-> 1, inbound |-> 1]
    BY <1>1 DEF NewAgent
<1>3. IsSeq(<<>>)
  <2>1. <<>> \in Seq({}) OBVIOUS
  <2> QED BY <2>1 DEF IsSeq
<1>4. Shape(n) BY <1>2, <1>3 DEF Shape
<1>5. ASSUME NEW j \in ConnectIds PROVE Kept(n, log, j)
  <2>1. log[j] = <<>> /\ n.attempts[j] = None BY <1>1, <1>2
  <2>2. Story(<<>>, <<>>, j) BY DEF Story, Told
  <2>3. Fresh(<<>>, <<>>, j) BY DEF Fresh
  <2> QED BY <1>2, <2>1, <2>2, <2>3 DEF Kept
<1> QED BY <1>1, <1>2, <1>3, <1>4, <1>5 DEF NatInv, Good, NoneDone

\* A step that changes the agent by a call that keeps what is known of it, and that
\* does not touch the log.
LEMMA ByCall ==
  ASSUME NatInv, Good(n', log), NoneDone(n'), log' = log
  PROVE  NatInv'
BY DEF NatInv, Good, Shape, Kept, NoneDone

\* Taking an action off the queue leaves the rest of the agent alone.
LEMMA PoppedKeeps ==
  ASSUME NatInv
  PROVE  Good(Popped, log) /\ NoneDone(Popped)
<1>1. Good(n, log) /\ NoneDone(n) /\ Shape(n) BY DEF NatInv, Good
<1>2. Still(n, Popped) BY <1>1 DEF Popped, Still, Shape
<1> QED BY <1>1, <1>2, StillKeeps

\* fn observe: the event moves from the queue to the log of its id.
LEMMA ObserveKeeps == NatInv /\ Observe => NatInv'
<1> SUFFICES ASSUME NatInv, Observe PROVE NatInv' OBVIOUS
<1> DEFINE e == Head(n.events)
<1>1. /\ Good(n, log) /\ NoneDone(n) /\ Shape(n) /\ DOMAIN log = ConnectIds
      /\ \A i \in ConnectIds : IsSeq(log[i])
      /\ IsSeq(n.events) /\ n.events # <<>>
    BY DEF NatInv, Good, Shape, Observe
<1>2. /\ n' = [n EXCEPT !.events = Tail(@)]
      /\ log' = IF "id" \in DOMAIN e THEN [log EXCEPT ![e.id] = Append(@, e)] ELSE log
    BY DEF Observe
<1>3. /\ DOMAIN n' = DOMAIN n /\ n'.events = Tail(n.events)
      /\ n'.attempts = n.attempts /\ n'.next = n.next
    BY <1>1, <1>2 DEF Shape
<1>4. IsSeq(n'.events) BY <1>1, <1>3, Taken
<1>5. Shape(n') BY <1>1, <1>3, <1>4 DEF Shape
<1> HIDE DEF e
<1>6. DOMAIN log' = ConnectIds BY <1>1, <1>2
<1>7. ASSUME NEW j \in ConnectIds PROVE Kept(n', log', j) /\ IsSeq(log'[j])
  <2> DEFINE ev == n.events
             l == log[j]
  <2>1. Kept(n, log, j) /\ IsSeq(l) BY <1>1 DEF Good
  <2>2. CASE Is(e, j)
    <3>1. log'[j] = Append(l, e) BY <1>1, <1>2, <2>2 DEF Is
    <3>2. /\ Story(Tail(ev), Append(l, e), j)
          /\ ~Fresh(ev, l, j)
          /\ Open(ev, l, j) => Open(Tail(ev), Append(l, e), j)
        BY <1>1, <2>1, <2>2, SaidTaken DEF Kept, e
    <3>3. IsSeq(log'[j]) BY <2>1, <3>1, Appended
    <3>4. Kept(n', log', j) BY <1>3, <2>1, <3>1, <3>2 DEF Kept, Fits
    <3> QED BY <3>3, <3>4
  <2>3. CASE ~Is(e, j)
    <3>1. log'[j] = l BY <1>1, <1>2, <2>3 DEF Is
    <3>2. Spares(ev, Tail(ev), j) BY <1>1, <2>3, TakenOfOthers DEF e
    <3> QED BY <1>3, <2>1, <3>1, <3>2 DEF Kept, Fits, Spares
  <2> QED BY <2>2, <2>3
<1>8. Good(n', log') BY <1>5, <1>7 DEF Good
<1>9. NoneDone(n') BY <1>1, <1>3 DEF NoneDone
<1> QED BY <1>6, <1>7, <1>8, <1>9 DEF NatInv, Good, Shape, Kept, NoneDone

\* Time passes: a hole punch that is not under way stays so.
LEMMA ElapseKeeps == NatInv /\ Elapse => NatInv'
<1> SUFFICES ASSUME NatInv, Elapse PROVE NatInv' OBVIOUS
<1>1. Good(n, log) /\ NoneDone(n) /\ Shape(n) BY DEF NatInv, Good
<1> DEFINE later == [i \in ConnectIds |-> AttemptLater(n.attempts[i])]
<1>2. /\ DOMAIN n' = DOMAIN n /\ n'.attempts = later
      /\ n'.events = n.events /\ n'.next = n.next /\ log' = log
  <2>1. log' = log BY DEF Elapse, driver
  <2>2. PICK a, b, c, d : n' = [n EXCEPT !.attempts = later, !.inbound = a, !.dialing = b,
                                         !.prober = c, !.res = d]
      BY DEF Elapse
  <2> HIDE DEF later
  <2> QED BY <1>1, <2>1, <2>2 DEF Shape
<1>3. DOMAIN later = ConnectIds OBVIOUS
<1>4. ASSUME NEW j \in ConnectIds
      PROVE  /\ n.attempts[j] = None => later[j] = None
             /\ n.attempts[j] # None => /\ IsAttempt(later[j])
                                        /\ later[j].done = n.attempts[j].done
                                        /\ later[j].best = n.attempts[j].best
                                        /\ later[j].dcutr = n.attempts[j].dcutr
                                        /\ later[j].punch_dl = Less(n.attempts[j].punch_dl)
  <2>1. n.attempts[j] # None => IsAttempt(n.attempts[j]) BY <1>1 DEF Good, Kept
  <2> QED BY <2>1 DEF IsAttempt, AttemptLater
<1> HIDE DEF later
<1>5. Less(None) = None BY DEF Less
<1>6. Shape(n') BY <1>1, <1>2, <1>3 DEF Shape
<1>7. ASSUME NEW j \in ConnectIds
      PROVE  Kept(n', log, j) /\ (n'.attempts[j] = None \/ ~n'.attempts[j].done)
  <2>1. Kept(n, log, j) BY <1>1 DEF Good
  <2>2. n.attempts[j] = None \/ ~n.attempts[j].done BY <1>1 DEF NoneDone
  <2>3. CASE n.attempts[j] = None BY <1>2, <1>4, <2>1, <2>3 DEF Kept
  <2>4. CASE n.attempts[j] # None
    <3>1. Fits(later[j], n.events, log[j], j) BY <1>4, <1>5, <2>1, <2>2, <2>4 DEF Kept, Fits
    <3> QED BY <1>2, <1>4, <2>1, <2>2, <2>4, <3>1 DEF Kept
  <2> QED BY <2>3, <2>4
<1>8. Good(n', log) /\ NoneDone(n') BY <1>6, <1>7 DEF Good, NoneDone
<1> QED BY <1>2, <1>8, ByCall

\* What the driver does.
LEMMA DriverKeeps == NatInv /\ Driver => NatInv'
<1> SUFFICES ASSUME NatInv, Driver PROVE NatInv' OBVIOUS
<1>1. Good(n, log) /\ NoneDone(n) BY DEF NatInv
<1>2. Good(Popped, log) /\ NoneDone(Popped) BY PoppedKeeps
<1> HIDE DEF Popped
<1>3. CASE Ingest
  <2>1. log' = log BY <1>3 DEF Ingest, InjectStraggler
  <2>2. n' = n \/ \E e : n' = HandleEvent(n, e) BY <1>3 DEF Ingest, InjectStraggler
  <2>3. Good(n', log) /\ NoneDone(n') BY <1>1, <2>2, CallsKeep
  <2> QED BY <2>1, <2>3, ByCall
<1>4. CASE Tick
  <2>1. n' = HandleTick(n) /\ log' = log BY <1>4 DEF Tick
  <2>2. Good(n', log) /\ NoneDone(n') BY <1>1, <2>1, CallsKeep
  <2> QED BY <2>1, <2>2, ByCall
<1>5. CASE ExecuteDial
  <2>1. log' = log /\ (n' = Popped \/ \E act : n' = DialFailed(Popped, act))
      BY <1>5 DEF ExecuteDial, driver
  <2>2. Good(n', log) /\ NoneDone(n') BY <1>2, <2>1, CallsKeep
  <2> QED BY <2>1, <2>2, ByCall
<1>6. CASE ExecuteOpen
  <2>1. log' = log /\ \E act, s : n' = StreamOpenResult(Popped, act, s)
      BY <1>6, Zenon DEF ExecuteOpen, driver
  <2>2. Good(n', log) /\ NoneDone(n') BY <1>2, <2>1, CallsKeep
  <2> QED BY <2>1, <2>2, ByCall
<1>7. CASE ExecuteReset \/ ExecuteSend \/ ExecuteCloseCircuit
  <2>1. log' = log /\ n' = Popped BY <1>7 DEF ExecuteReset, ExecuteSend, ExecuteCloseCircuit, driver
  <2> QED BY <1>2, <2>1, ByCall
<1>8. CASE ExecutePromote
  <2>1. log' = log /\ \E act, r : n' = PromoteResult(Popped, act, r)
      BY <1>8, Zenon DEF ExecutePromote
  <2>2. Good(n', log) /\ NoneDone(n') BY <1>2, <2>1, CallsKeep
  <2> QED BY <2>1, <2>2, ByCall
<1>9. CASE Observe BY <1>9, ObserveKeeps
<1> QED BY <1>3, <1>4, <1>5, <1>6, <1>7, <1>8, <1>9 DEF Driver

\* What the swarm and the remote peers do reaches the agent as events only.
LEMMA NetworkKeeps == NatInv /\ Network => NatInv'
<1> SUFFICES ASSUME NatInv, Network PROVE NatInv' OBVIOUS
<1>1. ASSUME NEW c, Establish(c) \/ Accept(c) \/ Vanish(c) \/ Disconnect(c) PROVE n' = n /\ log' = log
    BY <1>1 DEF Establish, Accept, Vanish, Disconnect, driver
<1>2. ASSUME NEW c, NEW protocols, Identified(c, protocols) PROVE n' = n /\ log' = log
    BY <1>2 DEF Identified, driver
<1>3. ASSUME NEW c, NEW s, Negotiated(c, s) \/ AppOpens(c, s) PROVE n' = n /\ log' = log
    BY <1>3 DEF Negotiated, AppOpens, driver
<1>4. ASSUME NEW c, NEW s, NEW protocol, Incoming(c, s, protocol) PROVE n' = n /\ log' = log
    BY <1>4 DEF Incoming, driver
<1>5. ASSUME NEW c, NEW s, NEW input, NEW frame, NEW tail, Remote(c, s, input, frame, tail)
      PROVE  n' = n /\ log' = log
    BY <1>5 DEF Remote, driver
<1>6. n' = n /\ log' = log BY <1>1, <1>2, <1>3, <1>4, <1>5, Zenon DEF Network
<1> QED BY <1>6, ByCall DEF NatInv

LEMMA ApplicationKeeps == NatInv /\ Application => NatInv'
<1> SUFFICES ASSUME NatInv, Application PROVE NatInv' OBVIOUS
<1>1. Good(n, log) /\ NoneDone(n) /\ Shape(n) BY DEF NatInv, Good
<1>2. ASSUME NEW p, NEW candidates, NEW allow_relay, Connect(p, candidates, allow_relay) PROVE NatInv'
  <2>1. /\ n' = ConnectWithRelayPolicy(n, p, candidates, allow_relay)
        /\ n.next.connect \in ConnectIds /\ log' = log
      BY <1>2 DEF Connect, driver
  <2>2. Good(n', log) /\ NoneDone(n') BY <1>1, <2>1, ConnectKeeps
  <2> QED BY <2>1, <2>2, ByCall
<1>3. ASSUME NEW i \in ConnectIds, CancelConnect(i) PROVE NatInv'
  <2>1. n' = Cancel(n, i) /\ n.attempts[i] # None /\ log' = log BY <1>3 DEF CancelConnect, driver
  <2>2. Good(n', log) /\ NoneDone(n') BY <1>1, <2>1, CallsKeep
  <2> QED BY <2>1, <2>2, ByCall
<1>4. CASE SetListenAddrs
  <2>1. n' = [n EXCEPT !.listening = TRUE] /\ log' = log BY <1>4 DEF SetListenAddrs, driver
  <2>2. Still(n, n') BY <1>1, <2>1 DEF Still, Shape
  <2>3. Good(n', log) /\ NoneDone(n') BY <1>1, <2>2, StillKeeps
  <2> QED BY <2>1, <2>3, ByCall
<1> QED BY <1>2, <1>3, <1>4 DEF Application

\* NatInv is an invariant of the driver with its agent: the log of every connect id
\* together with the queued events is legal, and an attempt that is not done is at
\* the point of it that its fields say.
THEOREM NatInvariant == Spec => []NatInv
<1>1. NatInv /\ [Next]_vars => NatInv'
  <2> SUFFICES ASSUME NatInv, [Next]_vars PROVE NatInv' OBVIOUS
  <2>1. CASE UNCHANGED vars
    <3>1. n' = n /\ log' = log BY <2>1 DEF vars
    <3> QED BY <3>1, ByCall DEF NatInv
  <2> QED BY <2>1, DriverKeeps, NetworkKeeps, ElapseKeeps, ApplicationKeeps DEF Next
<1> QED BY <1>1, InitialState, PTL DEF Spec

\* What the application reads of a connect id, whatever the races between direct
\* dials, the relay leg, hole punches, timers, late results and cancellation: one
\* ConnectFailed, or one PathEstablished followed by failed punches and at most one
\* last word.
THEOREM OneOutcomeHolds == Spec => []OneOutcome
<1>1. NatInv => OneOutcome
  <2> SUFFICES ASSUME NatInv, NEW i \in ConnectIds
               PROVE  LET names == [k \in DOMAIN log[i] |-> log[i][k].event]
                      IN  names # <<>> =>
                            /\ names[1] \in {"PathEstablished", "ConnectFailed"}
                            /\ names[1] = "ConnectFailed" => Len(names) = 1
                            /\ \A k \in 2..Len(names) :
                                  /\ names[k] \in {"HolePunchFailed", "PathUpgraded", "FellBackToRelay"}
                                  /\ log[i][1].path = "Relayed"
                                  /\ names[k] # "HolePunchFailed" => k = Len(names)
      BY DEF OneOutcome
  <2> DEFINE l == log[i]
             names == [k \in DOMAIN l |-> l[k].event]
  <2>1. Told(l) BY DEF NatInv, Good, Kept, Story
  <2>2. PICK X : l \in Seq(X) BY DEF NatInv, IsSeq
  <2>3. Len(l) \in Nat /\ DOMAIN l = 1..Len(l) BY <2>2
  <2> HIDE DEF l
  <2>4. /\ DOMAIN names = 1..Len(l) /\ \A k \in 1..Len(l) : names[k] = l[k].event BY <2>3
  <2>5. names \in Seq({l[k].event : k \in 1..Len(l)}) /\ Len(names) = Len(l) BY <2>3
  <2> HIDE DEF names
  <2>6. ASSUME names # <<>> PROVE 1 \in 1..Len(l) BY <2>3, <2>5, <2>6
  <2>7. ASSUME names # <<>>
        PROVE  names[1] \in {"PathEstablished", "ConnectFailed"} /\ (names[1] = "ConnectFailed" => Len(names) = 1)
    <3>1. Opener(l[1]) /\ (1 < Len(l) => ~Final(l[1])) BY <2>1, <2>6, <2>7 DEF Told
    <3> QED BY <2>3, <2>4, <2>5, <2>6, <2>7, <3>1 DEF Opener, Final
  <2>8. ASSUME names # <<>>, NEW k \in 2..Len(l)
        PROVE  /\ names[k] \in {"HolePunchFailed", "PathUpgraded", "FellBackToRelay"}
               /\ l[1].path = "Relayed"
               /\ names[k] # "HolePunchFailed" => k = Len(names)
    <3>1. k \in 1..Len(l) /\ k > 1 /\ 1 \in 1..Len(l) /\ 1 < Len(l) BY <2>3, <2>5
    <3>2. Follow(l[k]) /\ (k < Len(l) => ~Final(l[k])) BY <2>1, <3>1 DEF Told
    <3>3. Opener(l[1]) /\ ~Final(l[1]) BY <2>1, <3>1 DEF Told
    <3>4. l[1].path = "Relayed" BY <3>3 DEF Opener, Final
    <3>5. names[k] \in {"HolePunchFailed", "PathUpgraded", "FellBackToRelay"} BY <2>4, <3>1, <3>2 DEF Follow
    <3>6. k < Len(l) => l[k].event = "HolePunchFailed" BY <3>2 DEF Follow, Final
    <3>7. names[k] = l[k].event BY <2>4, <3>1
    <3>8. Len(names) = Len(l) BY <2>5
    <3>9. k < Len(l) \/ k = Len(l)
      <4>1. \A m \in Nat : \A h \in 2..m : h < m \/ h = m OBVIOUS
      <4>2. Len(l) \in Nat BY <2>3
      <4> QED BY <4>1, <4>2
    <3> QED BY <3>4, <3>5, <3>6, <3>7, <3>8, <3>9
  <2> QED BY <2>5, <2>7, <2>8 DEF l, names
<1> QED BY <1>1, NatInvariant, PTL
=============================================================================
