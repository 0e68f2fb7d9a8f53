------------------------------ MODULE TuiProofs ------------------------------
(***************************************************************************)
(* Proofs about Tui, for any bounds, folder and file sizes: its types; the *)
(* list ends up at the truth however events are split between the loop and *)
(* the picker; every job waiting is listed; no bar moves back.  All follow *)
(* from one invariant, IInv: ids are given in order and the worker is at   *)
(* the oldest (Numbered), it is where its figures say (Measured), and each *)
(* row, with the events on their way to it, ends at the truth and only     *)
(* rises (Listing).                                                        *)
(***************************************************************************)
EXTENDS Tui, TLAPS, SequenceTheorems, WellFoundedInduction

LEMMA LeastExists ==
  ASSUME NEW S, S \subseteq Nat, S # {}
  PROVE  \E x \in S : \A y \in S : x <= y
<1>1. \E x \in S : \A y \in S : <<y, x>> \notin OpToRel(<, Nat)
  BY NatLessThanWellFounded, WFMin
<1>2. PICK x \in S : \A y \in S : <<y, x>> \notin OpToRel(<, Nat)
  BY <1>1
<1>3. \A y \in S : ~(y < x)
  BY <1>2 DEF OpToRel
<1> QED
  BY <1>3

LEMMA MinIsLeast ==
  ASSUME NEW S, S \subseteq Nat, S # {}
  PROVE  Min(S) \in S /\ \A y \in S : Min(S) <= y
  BY LeastExists DEF Min

LEMMA MaxIsGreatest ==
  ASSUME NEW S, NEW n \in Nat, S \subseteq 1..n, S # {}
  PROVE  Max(S) \in S /\ \A y \in S : y <= Max(S)
<1> DEFINE T == {n - x : x \in S}
<1>s. \A x \in S : x \in 1..n
  OBVIOUS
<1>1. T \subseteq Nat
  BY <1>s
<1>2. T # {}
  OBVIOUS
<1>t. \A y \in S : n - y \in T
  OBVIOUS
<1>3. PICK m \in T : \A y \in T : m <= y
  <2> HIDE DEF T
  <2> QED
    BY <1>1, <1>2, LeastExists
<1>4. PICK x \in S : m = n - x
  OBVIOUS
<1> HIDE DEF T
<1>5. ASSUME NEW y \in S PROVE x >= y
  <2>1. n - x <= n - y
    BY <1>3, <1>4, <1>t
  <2> QED
    BY <2>1, <1>s
<1>6. \A y \in S : x >= y
  BY <1>5
<1>7. Max(S) \in S /\ \A y \in S : Max(S) >= y
  BY <1>6 DEF Max
<1>8. ASSUME NEW y \in S PROVE y <= Max(S)
  <2>1. Max(S) \in 1..n /\ y \in 1..n /\ Max(S) >= y
    BY <1>7, <1>s
  <2> QED
    BY <2>1
<1> QED
  BY <1>7, <1>8

-----------------------------------------------------------------------------
(* Events.  A stream of them is the worker's and the keys, in any order.   *)

Streams == Seq(Events \cup {Key})

LEMMA EventFacts ==
  ASSUME NEW e \in Events
  PROVE  /\ ~IsKey(e) /\ e.id \in Ids /\ e.done \in 0..Total
         /\ e.type \in {"Started", "Progress", "Verifying", "Finished", "Failed"}
         /\ e.type # "Progress" => e.done = 0
<1>1. DOMAIN ShownAs = {"Started", "Progress", "Verifying", "Finished", "Failed"}
  BY DEF ShownAs
<1>2. 0 \in 0..Total
  BY TuiAssumption DEF Total
<1>3. CASE e \in [type : {"Progress"}, id : Ids, done : 0..Total]
  BY <1>3 DEF IsKey
<1>4. CASE e \in [type : DOMAIN ShownAs \ {"Progress"}, id : Ids, done : {0}]
  BY <1>1, <1>2, <1>4 DEF IsKey
<1> QED
  BY <1>3, <1>4 DEF Events

LEMMA KeyIsKey == IsKey(Key)
  BY DEF IsKey, Key

LEMMA StreamElement ==
  ASSUME NEW s \in Streams, NEW k \in DOMAIN s, ~IsKey(s[k])
  PROVE  s[k] \in Events
  BY KeyIsKey DEF Streams

\* What each event makes of the status.
LEMMA Shown ==
  ASSUME NEW e \in Events
  PROVE  /\ StatusAfter(e).done = e.done
         /\ e.type \in {"Started", "Progress"} => StatusAfter(e).kind = "Active"
         /\ e.type = "Verifying" => StatusAfter(e).kind = "Verifying"
         /\ e.type = "Finished" => StatusAfter(e).kind = "Done"
         /\ e.type = "Failed" => StatusAfter(e).kind = "Error"
         /\ StatusAfter(e) \in [kind : Kinds, done : 0..Total]
<1>1. ShownAs["Started"] = "Active" /\ ShownAs["Progress"] = "Active"
      /\ ShownAs["Verifying"] = "Verifying" /\ ShownAs["Finished"] = "Done"
      /\ ShownAs["Failed"] = "Error"
  BY DEF ShownAs
<1> QED
  BY <1>1, EventFacts DEF StatusAfter, Kinds

\* The places of an item's events in a stream made of two.
LEMMA DueConcat ==
  ASSUME NEW d \in Streams, NEW c \in Streams, NEW id
  PROVE  /\ Due(id, d) \subseteq 1..Len(d) /\ Due(id, c) \subseteq 1..Len(c)
         /\ Due(id, d \o c) \subseteq 1..(Len(d) + Len(c))
         /\ \A k \in 1..Len(d) : k \in Due(id, d \o c) <=> k \in Due(id, d)
         /\ \A k \in 1..Len(c) : Len(d) + k \in Due(id, d \o c) <=> k \in Due(id, c)
         /\ \A k \in 1..Len(d) : (d \o c)[k] = d[k]
         /\ \A k \in 1..Len(c) : (d \o c)[Len(d) + k] = c[k]
<1> USE DEF Due, Streams
<1>1. d \o c \in Streams /\ Len(d \o c) = Len(d) + Len(c)
  OBVIOUS
<1>2. DOMAIN d = 1..Len(d) /\ DOMAIN c = 1..Len(c) /\ DOMAIN (d \o c) = 1..(Len(d) + Len(c))
  BY <1>1
<1>3. \A k \in 1..Len(d) : (d \o c)[k] = d[k]
  OBVIOUS
<1>4. ASSUME NEW k \in 1..Len(c) PROVE (d \o c)[Len(d) + k] = c[k]
  OBVIOUS
<1>5. ASSUME NEW k \in 1..Len(c) PROVE Len(d) + k \in 1..(Len(d) + Len(c))
  OBVIOUS
<1> QED
  BY <1>2, <1>3, <1>4, <1>5

\* Applying a stream at once or in two parts comes to the same.
LEMMA OnceConcat ==
  ASSUME NEW d \in Streams, NEW c \in Streams, NEW id, NEW st
  PROVE  StatusOnce(id, st, d \o c) = StatusOnce(id, StatusOnce(id, st, d), c)
<1>n. Len(d) \in Nat /\ Len(c) \in Nat /\ Len(d) + Len(c) \in Nat
  BY DEF Streams
<1>1. CASE Due(id, c) # {}
  <2> DEFINE m == Max(Due(id, c))
             M == Max(Due(id, d \o c))
  <2>1. m \in Due(id, c) /\ \A y \in Due(id, c) : y <= m
    BY <1>1, <1>n, DueConcat, MaxIsGreatest
  <2>2. m \in 1..Len(c) /\ Len(d) + m \in Due(id, d \o c)
    BY <2>1, DueConcat
  <2>3. M \in Due(id, d \o c) /\ \A y \in Due(id, d \o c) : y <= M
    <3>1. Due(id, d \o c) # {} /\ Due(id, d \o c) \subseteq 1..(Len(d) + Len(c))
      BY <2>2, DueConcat
    <3> QED
      BY <3>1, <1>n, MaxIsGreatest
  <2> HIDE DEF m, M
  <2>4. M \in 1..(Len(d) + Len(c)) /\ Len(d) + m <= M
    BY <2>2, <2>3, DueConcat
  <2>5. M - Len(d) \in 1..Len(c) /\ M = Len(d) + (M - Len(d))
    BY <2>2, <2>4, <1>n
  <2>6. M - Len(d) \in Due(id, c)
    BY <2>3, <2>5, DueConcat
  <2>7. M = Len(d) + m
    BY <2>1, <2>2, <2>4, <2>5, <2>6, <1>n
  <2>8. (d \o c)[M] = c[m]
    BY <2>2, <2>7, DueConcat
  <2> QED
    BY <1>1, <2>2, <2>8 DEF StatusOnce, m, M
<1>2. CASE Due(id, c) = {}
  <2>1. Due(id, d \o c) = Due(id, d)
    <3>1. ASSUME NEW k \in Due(id, d \o c) PROVE k \in 1..Len(d)
      <4>1. k \in 1..(Len(d) + Len(c))
        BY DueConcat
      <4>2. CASE k > Len(d)
        <5>1. k - Len(d) \in 1..Len(c) /\ k = Len(d) + (k - Len(d))
          BY <4>1, <4>2, <1>n
        <5> DEFINE j == k - Len(d)
        <5> HIDE DEF j
        <5>2. j \in 1..Len(c) /\ Len(d) + j \in Due(id, d \o c)
          BY <5>1 DEF j
        <5>3. j \in Due(id, c)
          BY <5>2, DueConcat
        <5> QED
          BY <5>3, <1>2
      <4> QED
        BY <4>1, <4>2, <1>n
    <3>2. ASSUME NEW k \in Due(id, d \o c) PROVE k \in Due(id, d)
      BY <3>1, <3>2, DueConcat
    <3>3. ASSUME NEW k \in Due(id, d) PROVE k \in Due(id, d \o c)
      <4>1. k \in 1..Len(d)
        BY DueConcat
      <4> QED
        BY <4>1, DueConcat
    <3> QED
      BY <3>2, <3>3
  <2>2. CASE Due(id, d) = {}
    BY <1>2, <2>1, <2>2 DEF StatusOnce
  <2>3. CASE Due(id, d) # {}
    <3>1. Max(Due(id, d)) \in 1..Len(d)
      BY <2>3, <1>n, DueConcat, MaxIsGreatest
    <3>2. (d \o c)[Max(Due(id, d))] = d[Max(Due(id, d))]
      BY <3>1, DueConcat
    <3> QED
      BY <1>2, <2>1, <2>3, <3>2 DEF StatusOnce
  <2> QED
    BY <2>2, <2>3
<1> QED
  BY <1>1, <1>2

\* A stream of one event, and of one key.
LEMMA OnceSingle ==
  ASSUME NEW e \in Events \cup {Key}, NEW id, NEW st
  PROVE  StatusOnce(id, st, <<e>>) = IF ~IsKey(e) /\ e.id = id THEN StatusAfter(e) ELSE st
<1>1. CASE ~IsKey(e) /\ e.id = id
  <2>1. Due(id, <<e>>) = {1}
    BY <1>1 DEF Due
  <2>2. Max({1}) = 1
    BY MaxIsGreatest
  <2> QED
    BY <1>1, <2>1, <2>2 DEF StatusOnce
<1>2. CASE ~(~IsKey(e) /\ e.id = id)
  <2>1. Due(id, <<e>>) = {}
    BY <1>2 DEF Due
  <2> QED
    BY <1>2, <2>1 DEF StatusOnce
<1> QED
  BY <1>1, <1>2

LEMMA HeadFirst ==
  ASSUME NEW s \in Streams, s # <<>>
  PROVE  /\ Head(s) \in Events \cup {Key} /\ Tail(s) \in Streams /\ <<Head(s)>> \in Streams
         /\ s = <<Head(s)>> \o Tail(s)
         /\ \A d \in Streams : d \o s = (d \o <<Head(s)>>) \o Tail(s)
<1> USE DEF Streams
<1>1. Head(s) \in Events \cup {Key} /\ Tail(s) \in Streams /\ <<Head(s)>> \in Streams
  OBVIOUS
<1>2. s = <<Head(s)>> \o Tail(s)
  OBVIOUS
<1>3. ASSUME NEW d \in Streams PROVE d \o s = (d \o <<Head(s)>>) \o Tail(s)
  <2>1. d \o (<<Head(s)>> \o Tail(s)) = (d \o <<Head(s)>>) \o Tail(s)
    BY <1>1, ConcatAssociative
  <2> QED
    BY <1>2, <2>1
<1> QED
  BY <1>1, <1>2, <1>3

\* A key is no news, wherever it stands.
LEMMA OnceWithoutKey ==
  ASSUME NEW d \in Streams, NEW s \in Streams, s # <<>>, IsKey(Head(s)), NEW id, NEW st
  PROVE  StatusOnce(id, st, d \o s) = StatusOnce(id, st, d \o Tail(s))
<1> DEFINE u == StatusOnce(id, st, d)
           h == <<Head(s)>>
           r == Tail(s)
<1>0. h \in Streams /\ r \in Streams /\ s = h \o r
  BY HeadFirst
<1>1. StatusOnce(id, st, d \o s) = StatusOnce(id, u, s)
  BY OnceConcat
<1>2. StatusOnce(id, u, h) = u
  BY HeadFirst, OnceSingle
<1> HIDE DEF h, r
<1>3. StatusOnce(id, st, d \o r) = StatusOnce(id, u, r)
  BY <1>0, OnceConcat
<1> HIDE DEF u
<1>4. StatusOnce(id, u, h \o r) = StatusOnce(id, StatusOnce(id, u, h), r)
  BY <1>0, OnceConcat
<1> QED
  BY <1>0, <1>1, <1>2, <1>3, <1>4 DEF r

-----------------------------------------------------------------------------
(* Figures.                                                                *)

\* No figure of an item, shown or waiting, is above m.
Below(id, status, s, m) ==
  /\ status.kind = "Active" => status.done <= m
  /\ \A k \in Reports(id, s) : s[k].done <= m

\* Figures are numbers.
LEMMA ReportFacts ==
  ASSUME NEW s \in Streams, NEW id, NEW k \in Reports(id, s)
  PROVE  k \in 1..Len(s) /\ s[k] \in Events /\ s[k].done \in Nat /\ s[k].type = "Progress"
<1>1. k \in 1..Len(s) /\ ~IsKey(s[k]) /\ s[k].type = "Progress"
  BY DEF Reports, Due, Streams
<1>2. s[k] \in Events
  BY <1>1, StreamElement DEF Streams
<1>3. Total \in Nat
  BY TuiAssumption DEF Total
<1> QED
  BY <1>1, <1>2, <1>3, EventFacts

\* Dropping some of a stream's elements, in order, keeps what remains in order.
LEMMA Thinned ==
  ASSUME NEW s \in Streams, NEW u \in Streams, NEW f \in [1..Len(u) -> 1..Len(s)],
         \A j, k \in 1..Len(u) : j < k => f[j] < f[k],
         \A k \in 1..Len(u) : u[k] = s[f[k]],
         NEW id, NEW st
  PROVE  /\ Advances(id, st, s) => Advances(id, st, u)
         /\ \A m : Below(id, st, s, m) => Below(id, st, u, m)
<1>1. ASSUME NEW k \in Reports(id, u)
      PROVE  k \in 1..Len(u) /\ f[k] \in Reports(id, s) /\ u[k] = s[f[k]]
  BY DEF Reports, Due, Streams
<1>2. ASSUME Advances(id, st, s), NEW k \in Reports(id, u)
      PROVE  st.kind = "Active" => st.done <= u[k].done
  BY <1>1, <1>2 DEF Advances
<1>3. ASSUME Advances(id, st, s), NEW k \in Reports(id, u), NEW j \in Reports(id, u), j < k
      PROVE  u[j].done <= u[k].done
  <2>1. f[j] < f[k] /\ f[j] \in Reports(id, s) /\ f[k] \in Reports(id, s)
    BY <1>1, <1>3
  <2>2. s[f[j]].done <= s[f[k]].done
    BY <1>3, <2>1 DEF Advances
  <2> QED
    BY <2>2, <1>1
<1>4. ASSUME NEW m, Below(id, st, s, m) PROVE Below(id, st, u, m)
  BY <1>1, <1>4 DEF Below
<1> QED
  BY <1>2, <1>3, <1>4 DEF Advances

LEMMA FiguresWithoutKey ==
  ASSUME NEW d \in Streams, NEW s \in Streams, s # <<>>, NEW id, NEW st
  PROVE  /\ Advances(id, st, d \o s) => Advances(id, st, d \o Tail(s))
         /\ \A m : Below(id, st, d \o s, m) => Below(id, st, d \o Tail(s), m)
<1> DEFINE u == d \o Tail(s)
           v == d \o s
           f == [k \in 1..Len(u) |-> IF k <= Len(d) THEN k ELSE k + 1]
<1>1. u \in Streams /\ v \in Streams /\ Len(v) = Len(d) + Len(s)
      /\ Len(u) = Len(d) + Len(s) - 1 /\ Len(d) \in Nat /\ Len(s) \in Nat \ {0}
  BY DEF Streams
<1>2. f \in [1..Len(u) -> 1..Len(v)] /\ \A j, k \in 1..Len(u) : j < k => f[j] < f[k]
  BY <1>1
<1>3. ASSUME NEW k \in 1..Len(u) PROVE u[k] = v[f[k]]
  <2>1. CASE k <= Len(d)
    BY <1>1, <2>1 DEF Streams
  <2>2. CASE k > Len(d)
    <3> DEFINE j == k - Len(d)
    <3>1. j \in 1..(Len(s) - 1) /\ k = Len(d) + j
      BY <1>1, <2>2
    <3> HIDE DEF j
    <3>2. u[k] = Tail(s)[j] /\ Tail(s)[j] = s[j + 1] /\ v[k + 1] = s[j + 1]
      BY <1>1, <3>1 DEF Streams
    <3> QED
      BY <1>1, <2>2, <3>2
  <2> QED
    BY <1>1, <2>1, <2>2
<1> HIDE DEF u, v, f
<1>4. /\ Advances(id, st, v) => Advances(id, st, u)
      /\ \A m : Below(id, st, v, m) => Below(id, st, u, m)
  BY <1>1, <1>2, <1>3, Thinned
<1> QED
  BY <1>4 DEF u, v
\* Applying the first part of a stream leaves the figures of the rest above it.
LEMMA FiguresConcat ==
  ASSUME NEW d \in Streams, NEW c \in Streams, NEW id, NEW st
  PROVE  /\ Advances(id, st, d \o c) => Advances(id, StatusOnce(id, st, d), c)
         /\ \A m \in Nat : Below(id, st, d \o c, m) => Below(id, StatusOnce(id, st, d), c, m)
<1>n. Len(d) \in Nat /\ Len(c) \in Nat /\ d \o c \in Streams /\ Len(d \o c) = Len(d) + Len(c)
  BY DEF Streams
<1>1. ASSUME NEW k \in Reports(id, c)
      PROVE  /\ k \in 1..Len(c) /\ Len(d) + k \in Reports(id, d \o c)
             /\ (d \o c)[Len(d) + k] = c[k] /\ c[k].done \in Nat
  BY ReportFacts, DueConcat DEF Reports
\* The figure shown after d, if any, was one of those before the rest, or nought.
<1>2. ASSUME StatusOnce(id, st, d).kind = "Active"
      PROVE  \/ StatusOnce(id, st, d) = st
             \/ StatusOnce(id, st, d).done = 0
             \/ \E j \in Reports(id, d \o c) :
                  j <= Len(d) /\ StatusOnce(id, st, d).done = (d \o c)[j].done
  <2> DEFINE M == Max(Due(id, d))
  <2>1. CASE Due(id, d) = {}
    BY <2>1 DEF StatusOnce
  <2>2. CASE Due(id, d) # {}
    <3>1. M \in Due(id, d) /\ M \in 1..Len(d)
      BY <2>2, <1>n, DueConcat, MaxIsGreatest
    <3> HIDE DEF M
    <3>2. d[M] \in Events
      BY <3>1, StreamElement DEF Due, Streams
    <3>3. StatusOnce(id, st, d) = StatusAfter(d[M])
      BY <2>2 DEF StatusOnce, M
    <3>4. StatusOnce(id, st, d).done = d[M].done /\ (d[M].type # "Progress" => d[M].done = 0)
      BY <3>2, <3>3, Shown, EventFacts
    <3>5. CASE d[M].type = "Progress"
      <4>1. M \in Due(id, d \o c) /\ (d \o c)[M] = d[M]
        BY <3>1, DueConcat
      <4> QED
        BY <3>1, <3>4, <3>5, <4>1 DEF Reports
    <3> QED
      BY <3>4, <3>5
  <2> QED
    BY <2>1, <2>2
<1>3. ASSUME Advances(id, st, d \o c) PROVE Advances(id, StatusOnce(id, st, d), c)
  <2>1. ASSUME NEW k \in Reports(id, c), NEW j \in Reports(id, c), j < k
        PROVE  c[j].done <= c[k].done
    <3>1. Len(d) + j < Len(d) + k
      BY <1>1, <1>n, <2>1
    <3> QED
      BY <1>1, <1>3, <3>1 DEF Advances
  <2>2. ASSUME NEW k \in Reports(id, c), StatusOnce(id, st, d).kind = "Active"
        PROVE  StatusOnce(id, st, d).done <= c[k].done
    <3>1. CASE StatusOnce(id, st, d) = st
      BY <1>1, <1>3, <2>2, <3>1 DEF Advances
    <3>2. CASE StatusOnce(id, st, d).done = 0
      BY <1>1, <3>2
    <3>3. ASSUME NEW j \in Reports(id, d \o c), j <= Len(d),
                 StatusOnce(id, st, d).done = (d \o c)[j].done
          PROVE  StatusOnce(id, st, d).done <= c[k].done
      <4>1. j < Len(d) + k
        BY <1>1, <1>n, <3>3, ReportFacts
      <4> QED
        BY <1>1, <1>3, <3>3, <4>1 DEF Advances
    <3> QED
      BY <1>2, <2>2, <3>1, <3>2, <3>3
  <2> QED
    BY <2>1, <2>2 DEF Advances
<1>4. ASSUME NEW m \in Nat, Below(id, st, d \o c, m) PROVE Below(id, StatusOnce(id, st, d), c, m)
  <2>1. ASSUME NEW k \in Reports(id, c) PROVE c[k].done <= m
    BY <1>1, <1>4 DEF Below
  <2>2. ASSUME StatusOnce(id, st, d).kind = "Active" PROVE StatusOnce(id, st, d).done <= m
    <3>1. CASE StatusOnce(id, st, d) = st
      BY <1>4, <2>2, <3>1 DEF Below
    <3>2. CASE StatusOnce(id, st, d).done = 0
      BY <3>2
    <3>3. ASSUME NEW j \in Reports(id, d \o c), StatusOnce(id, st, d).done = (d \o c)[j].done
          PROVE  StatusOnce(id, st, d).done <= m
      BY <1>4, <3>3 DEF Below
    <3> QED
      BY <1>2, <2>2, <3>1, <3>2, <3>3
  <2> QED
    BY <2>1, <2>2 DEF Below
<1> QED
  BY <1>3, <1>4

\* A new event may raise its item's figures and must not lower them.
LEMMA FiguresAppend ==
  ASSUME NEW s \in Streams, NEW e \in Events \cup {Key}, NEW id, NEW st
  PROVE  LET mine == ~IsKey(e) /\ e.id = id /\ e.type = "Progress" IN
         /\ Advances(id, st, s) /\ (mine => Below(id, st, s, e.done)) => Advances(id, st, Append(s, e))
         /\ \A m : Below(id, st, s, m) /\ (mine => e.done <= m) => Below(id, st, Append(s, e), m)
<1> DEFINE u == Append(s, e)
           n == Len(s) + 1
           mine == ~IsKey(e) /\ e.id = id /\ e.type = "Progress"
<1>1. Len(s) \in Nat /\ DOMAIN u = 1..n /\ u[n] = e /\ \A k \in 1..Len(s) : u[k] = s[k]
      /\ DOMAIN s = 1..Len(s)
  BY DEF Streams
<1> HIDE DEF u
<1>2. Reports(id, u) = Reports(id, s) \cup (IF mine THEN {n} ELSE {})
  <2>1. ASSUME NEW k \in 1..n PROVE k \in Reports(id, u) <=> k \in Reports(id, s) \/ (k = n /\ mine)
    <3>1. CASE k \in 1..Len(s)
      BY <1>1, <3>1 DEF Reports, Due
    <3>2. CASE k = n
      BY <1>1, <3>2 DEF Reports, Due
    <3> QED
      BY <1>1, <3>1, <3>2
  <2>2. Reports(id, u) \subseteq 1..n /\ Reports(id, s) \subseteq 1..n
    BY <1>1 DEF Reports, Due
  <2>3. n \in 1..n
    BY <1>1
  <2> QED
    BY <2>1, <2>2, <2>3
<1>3. \A k \in Reports(id, s) : u[k] = s[k] /\ k \in 1..Len(s)
  BY <1>1 DEF Reports, Due
<1>4. ASSUME Advances(id, st, s), mine => Below(id, st, s, e.done) PROVE Advances(id, st, u)
  <2>1. ASSUME NEW k \in Reports(id, u), st.kind = "Active" PROVE st.done <= u[k].done
    BY <1>1, <1>2, <1>3, <1>4, <2>1 DEF Advances, Below
  <2>2. ASSUME NEW k \in Reports(id, u), NEW j \in Reports(id, u), j < k
        PROVE  u[j].done <= u[k].done
    <3>1. j \in Reports(id, s)
      BY <1>1, <1>2, <1>3, <2>2
    <3>2. CASE k \in Reports(id, s)
      BY <1>3, <1>4, <2>2, <3>1, <3>2 DEF Advances
    <3>3. CASE mine /\ k = n
      BY <1>1, <1>3, <1>4, <3>1, <3>3 DEF Below
    <3> QED
      BY <1>2, <3>2, <3>3
  <2> QED
    BY <2>1, <2>2 DEF Advances
<1>5. ASSUME NEW m, Below(id, st, s, m), mine => e.done <= m PROVE Below(id, st, u, m)
  BY <1>1, <1>2, <1>3, <1>5 DEF Below
<1> QED
  BY <1>4, <1>5 DEF u
-----------------------------------------------------------------------------
(* The inductive invariant.                                                *)

IdsOf(s)  == {s[i].id : i \in DOMAIN s}
Rising(s) == \A i, j \in DOMAIN s : i < j => s[i].id < s[j].id

\* Ids are given in order, rows and jobs keep it, and whatever the worker has
\* said or ended is of a job before all that are queued.
Numbered ==
  /\ Rising(items) /\ IdsOf(items) \subseteq 1..(nextId - 1)
  /\ Rising(queue) /\ IdsOf(queue) \subseteq 1..(nextId - 1)
  /\ w.job.id < nextId /\ \A i \in IdsOf(queue) : w.job.id < i
  /\ \A e \in ToSet(Waiting) : ~IsKey(e) =>
       e.id < nextId /\ \A i \in IdsOf(queue) : e.id < i
  /\ \A id \in Ids : result[id] # "none" =>
       id < nextId /\ id # w.job.id /\ \A i \in IdsOf(queue) : id < i
  /\ w.pc \in {"pop", "stopped"} <=> w.job.id = 0
  /\ ~quit => IdsOf(queue) \subseteq IdsOf(items)
  /\ quit => items = <<>> /\ deferred = <<>> /\ chan = <<>>
  /\ mode = "Picker" => nextId <= MaxJobs

\* What the job in work has done and has left, by where the worker is in it.
Measured ==
  /\ w.pc \in {"fetch", "verify"} => w.left > 0
  /\ w.base + w.left * FileSize <= Total
  /\ w.pc \notin {"fetch", "verify"} => w.pos = 0
  /\ w.pc \notin {"file", "fetch", "verify"} => w.base = 0 /\ w.left = 0
  /\ w.pc = "verify" => w.pos = FileSize

\* A row and the events on their way to it: they end in the truth, and its
\* figures rise, up to where the worker is if it is at this very item.
Told(id, status) ==
  LET s == StatusOnce(id, status, Waiting) IN
  s.kind \in Truth(id) /\ (s.kind = "Active" => s.done <= w.base + w.pos)
Climbs(id, status) ==
  /\ Advances(id, status, Waiting)
  /\ id = w.job.id => Below(id, status, Waiting, w.base + w.pos)
Listing == \A i \in DOMAIN items :
  Told(items[i].id, items[i].status) /\ Climbs(items[i].id, items[i].status)

IInv == TypeOK /\ Numbered /\ Measured /\ Listing
-----------------------------------------------------------------------------
(* Lists of rows and of jobs, by the ids in them.                          *)

LEMMA RisingAppend ==
  ASSUME NEW S, \A x \in S : x.id \in Nat, NEW s \in Seq(S), NEW e \in S,
         Rising(s), \A i \in IdsOf(s) : i < e.id
  PROVE  Rising(Append(s, e)) /\ IdsOf(Append(s, e)) = IdsOf(s) \cup {e.id}
<1> DEFINE u == Append(s, e)
           n == Len(s) + 1
<1>1. Len(s) \in Nat /\ DOMAIN s = 1..Len(s) /\ DOMAIN u = 1..n /\ u[n] = e
      /\ \A k \in 1..Len(s) : u[k] = s[k]
  OBVIOUS
<1> HIDE DEF u
<1>2. Rising(u)
  BY <1>1 DEF Rising, IdsOf
<1>3. \A k \in 1..n : k \in 1..Len(s) \/ k = n
  BY <1>1
<1>4. IdsOf(u) = IdsOf(s) \cup {e.id}
  <2>1. IdsOf(u) \subseteq IdsOf(s) \cup {e.id}
    BY <1>1, <1>3 DEF IdsOf
  <2>2. n \in 1..n /\ \A k \in 1..Len(s) : k \in 1..n
    BY <1>1
  <2>3. IdsOf(s) \subseteq IdsOf(u) /\ e.id \in IdsOf(u)
    BY <1>1, <2>2 DEF IdsOf
  <2> QED
    BY <2>1, <2>3
<1> QED
  BY <1>2, <1>4 DEF u

LEMMA RisingTail ==
  ASSUME NEW S, \A x \in S : x.id \in Nat, NEW s \in Seq(S), s # <<>>, Rising(s)
  PROVE  /\ Rising(Tail(s)) /\ IdsOf(Tail(s)) \subseteq IdsOf(s) /\ Head(s).id \in IdsOf(s)
         /\ \A i \in IdsOf(Tail(s)) : Head(s).id < i
<1> DEFINE u == Tail(s)
<1>1. Len(s) \in Nat \ {0} /\ DOMAIN s = 1..Len(s) /\ DOMAIN u = 1..(Len(s) - 1)
      /\ Head(s) = s[1] /\ \A k \in 1..(Len(s) - 1) : u[k] = s[k + 1]
  OBVIOUS
<1> HIDE DEF u
<1>2. Rising(u)
  <2>1. ASSUME NEW j \in 1..(Len(s) - 1), NEW k \in 1..(Len(s) - 1), j < k
        PROVE  u[j].id < u[k].id
    <3>1. j + 1 \in 1..Len(s) /\ k + 1 \in 1..Len(s) /\ j + 1 < k + 1
      BY <1>1, <2>1
    <3> QED
      BY <1>1, <3>1 DEF Rising
  <2> QED
    BY <1>1, <2>1 DEF Rising
<1>3. \A k \in 1..(Len(s) - 1) : k + 1 \in 1..Len(s) /\ 1 < k + 1
  BY <1>1
<1>q. 1 \in 1..Len(s)
  BY <1>1
<1>4. IdsOf(u) \subseteq IdsOf(s) /\ Head(s).id \in IdsOf(s)
  <2>1. Head(s).id \in IdsOf(s)
    BY <1>1, <1>q DEF IdsOf
  <2>2. ASSUME NEW k \in 1..(Len(s) - 1) PROVE u[k].id \in IdsOf(s)
    BY <1>1, <1>3 DEF IdsOf
  <2> QED
    BY <1>1, <2>1, <2>2 DEF IdsOf
<1>6. ASSUME NEW k \in 1..(Len(s) - 1) PROVE Head(s).id < u[k].id
  BY <1>1, <1>3, <1>q DEF Rising
<1>7. \A i \in IdsOf(u) : Head(s).id < i
  BY <1>1, <1>6 DEF IdsOf
<1> QED
  BY <1>2, <1>4, <1>7 DEF u

LEMMA Removed ==
  ASSUME NEW S, NEW s \in Seq(S), NEW i \in 1..Len(s)
  PROVE  /\ RemoveAt(s, i) \in Seq(S) /\ Len(RemoveAt(s, i)) = Len(s) - 1
         /\ \A k \in 1..(Len(s) - 1) : RemoveAt(s, i)[k] = s[IF k < i THEN k ELSE k + 1]
<1> DEFINE a == SubSeq(s, 1, i - 1)
           b == SubSeq(s, i + 1, Len(s))
<1>1. a \in Seq(S) /\ Len(a) = i - 1 /\ \A k \in 1..(i - 1) : a[k] = s[k]
  OBVIOUS
<1>2. b \in Seq(S) /\ Len(b) = Len(s) - i /\ \A k \in 1..(Len(s) - i) : b[k] = s[i + k]
  OBVIOUS
<1> HIDE DEF a, b
<1>3. /\ a \o b \in Seq(S) /\ Len(a \o b) = Len(a) + Len(b)
      /\ \A k \in 1..(Len(a) + Len(b)) : (a \o b)[k] = IF k <= Len(a) THEN a[k] ELSE b[k - Len(a)]
  BY <1>1, <1>2, ConcatProperties
<1>4. Len(s) \in Nat /\ i \in Nat /\ Len(a) + Len(b) = Len(s) - 1
  BY <1>1, <1>2
<1>5. ASSUME NEW k \in 1..(Len(s) - 1) PROVE (a \o b)[k] = s[IF k < i THEN k ELSE k + 1]
  <2>0. (a \o b)[k] = IF k <= i - 1 THEN a[k] ELSE b[k - (i - 1)]
    BY <1>1, <1>3, <1>4
  <2>1. CASE k < i
    BY <1>1, <1>4, <2>0, <2>1
  <2>2. CASE k >= i
    <3>1. (a \o b)[k] = b[k - (i - 1)]
      BY <1>4, <2>0, <2>2
    <3>2. k - (i - 1) \in 1..(Len(s) - i) /\ i + (k - (i - 1)) = k + 1
      BY <1>4, <2>2
    <3>3. b[k - (i - 1)] = s[k + 1]
      BY <1>2, <3>2
    <3> QED
      BY <1>4, <2>2, <3>1, <3>3
  <2> QED
    BY <1>4, <2>1, <2>2
<1> QED
  BY <1>3, <1>4, <1>5 DEF RemoveAt, a, b

LEMMA RisingRemove ==
  ASSUME NEW S, \A x \in S : x.id \in Nat, NEW s \in Seq(S), NEW i \in 1..Len(s), Rising(s)
  PROVE  Rising(RemoveAt(s, i)) /\ IdsOf(RemoveAt(s, i)) = IdsOf(s) \ {s[i].id}
<1> DEFINE u == RemoveAt(s, i)
           f == [k \in 1..(Len(s) - 1) |-> IF k < i THEN k ELSE k + 1]
<1>1. u \in Seq(S) /\ DOMAIN u = 1..(Len(s) - 1) /\ DOMAIN s = 1..Len(s)
      /\ \A k \in 1..(Len(s) - 1) : u[k] = s[f[k]]
  BY Removed
<1>2. \A k \in 1..(Len(s) - 1) : f[k] \in 1..Len(s) \ {i}
  OBVIOUS
<1>3. \A j, k \in 1..(Len(s) - 1) : j < k => f[j] < f[k]
  OBVIOUS
<1>4. ASSUME NEW k \in 1..Len(s) \ {i} PROVE \E j \in 1..(Len(s) - 1) : f[j] = k
  <2>1. CASE k < i
    <3>1. k \in 1..(Len(s) - 1) /\ f[k] = k
      BY <2>1
    <3> QED
      BY <3>1
  <2>2. CASE k > i
    <3>1. k - 1 \in 1..(Len(s) - 1) /\ f[k - 1] = k
      BY <2>2
    <3> QED
      BY <3>1
  <2> QED
    BY <2>1, <2>2
<1> HIDE DEF u, f
<1>5. ASSUME NEW j \in 1..(Len(s) - 1), NEW k \in 1..(Len(s) - 1), j < k
      PROVE  u[j].id < u[k].id
  <2>1. f[j] \in DOMAIN s /\ f[k] \in DOMAIN s /\ f[j] < f[k]
    BY <1>1, <1>2, <1>3, <1>5
  <2>2. s[f[j]].id < s[f[k]].id
    BY <2>1 DEF Rising
  <2> QED
    BY <1>1, <2>2
<1>6. ASSUME NEW k \in 1..Len(s) \ {i} PROVE s[k].id # s[i].id
  <2>1. s[k] \in S /\ s[i] \in S /\ k \in 1..Len(s)
    OBVIOUS
  <2>2. s[k].id \in Nat /\ s[i].id \in Nat
    BY <2>1
  <2>3. k < i \/ i < k
    OBVIOUS
  <2>4. s[k].id < s[i].id \/ s[i].id < s[k].id
    BY <1>1, <2>1, <2>3 DEF Rising
  <2> QED
    BY <2>2, <2>4
<1>7. IdsOf(u) = IdsOf(s) \ {s[i].id}
  <2>1. ASSUME NEW k \in 1..(Len(s) - 1) PROVE u[k].id \in IdsOf(s) \ {s[i].id}
    <3>1. f[k] \in DOMAIN s /\ s[f[k]].id # s[i].id /\ u[k] = s[f[k]]
      BY <1>1, <1>2, <1>6
    <3> QED
      BY <3>1 DEF IdsOf
  <2>2. ASSUME NEW k \in 1..Len(s) \ {i} PROVE s[k].id \in IdsOf(u)
    <3>1. PICK j \in 1..(Len(s) - 1) : f[j] = k
      BY <1>4
    <3> QED
      BY <1>1, <3>1 DEF IdsOf
  <2>3. IdsOf(u) \subseteq IdsOf(s) \ {s[i].id}
    BY <1>1, <2>1 DEF IdsOf
  <2>4. IdsOf(s) \ {s[i].id} \subseteq IdsOf(u)
    BY <1>1, <2>2 DEF IdsOf
  <2> QED
    BY <2>3, <2>4
<1>8. Rising(u)
  BY <1>1, <1>5 DEF Rising
<1> QED
  BY <1>7, <1>8 DEF u

LEMMA Found ==
  ASSUME NEW S, NEW s \in Seq(S), NEW id
  PROVE  IF id \in IdsOf(s) THEN Find(s, id) \in 1..Len(s) /\ s[Find(s, id)].id = id
                             ELSE Find(s, id) = 0
<1> DEFINE I == {i \in 1..Len(s) : s[i].id = id}
<1>1. I \subseteq Nat /\ (id \in IdsOf(s) <=> I # {})
  BY DEF IdsOf
<1>2. Find(s, id) = IF I # {} THEN Min(I) ELSE 0
  BY DEF Find, SelectInSeq
<1>3. I # {} => Min(I) \in I
  <2> HIDE DEF I
  <2> QED
    BY <1>1, MinIsLeast
<1> QED
  BY <1>1, <1>2, <1>3

LEMMA Withdrawn ==
  ASSUME NEW S, \A x \in S : x.id \in Nat, NEW s \in Seq(S), Rising(s), NEW id
  PROVE  Without(s, id) \in Seq(S) /\ Rising(Without(s, id)) /\ IdsOf(Without(s, id)) = IdsOf(s) \ {id}
<1>1. CASE id \in IdsOf(s)
  <2>1. Find(s, id) \in 1..Len(s) /\ s[Find(s, id)].id = id /\ Find(s, id) # 0
    BY <1>1, Found
  <2>2. Without(s, id) = RemoveAt(s, Find(s, id))
    BY <2>1 DEF Without
  <2> QED
    BY <2>1, <2>2, Removed, RisingRemove
<1>2. CASE id \notin IdsOf(s)
  <2>1. Find(s, id) = 0
    BY <1>2, Found
  <2> QED
    BY <1>2, <2>1 DEF Without
<1> QED
  BY <1>1, <1>2
-----------------------------------------------------------------------------
(* Types.                                                                  *)

Statuses == [kind : Kinds, done : 0..Total]
Rows     == [id : Ids, status : Statuses]

LEMMA RowIds == (\A x \in Rows : x.id \in Nat) /\ (\A x \in Jobs : x.id \in Nat)
  BY DEF Rows, Jobs, Ids

LEMMA Typed ==
  ASSUME TypeOK
  PROVE  /\ items \in Seq(Rows) /\ deferred \in Streams /\ chan \in Streams
         /\ Waiting \in Streams /\ queue \in Seq(Jobs)
<1>1. items \in Seq(Rows) /\ queue \in Seq(Jobs)
  BY DEF TypeOK, Rows, Statuses
<1>2. deferred \in Streams /\ chan \in Streams
  BY DEF TypeOK, Streams
<1> QED
  BY <1>1, <1>2 DEF Waiting, Streams

LEMMA StatusTyped ==
  ASSUME NEW st \in Statuses, NEW s \in Streams, NEW id
  PROVE  StatusOnce(id, st, s) \in Statuses
<1>1. CASE Due(id, s) = {}
  BY <1>1 DEF StatusOnce
<1>2. CASE Due(id, s) # {}
  <2> DEFINE M == Max(Due(id, s))
  <2>1. Due(id, s) \subseteq 1..Len(s) /\ Len(s) \in Nat
    BY DEF Due, Streams
  <2>2. M \in Due(id, s)
    BY <1>2, <2>1, MaxIsGreatest
  <2> HIDE DEF M
  <2>3. s[M] \in Events
    BY <2>2, StreamElement DEF Due
  <2>4. StatusOnce(id, st, s) = StatusAfter(s[M])
    BY <1>2 DEF StatusOnce, M
  <2> QED
    BY <2>3, <2>4, Shown DEF Statuses
<1> QED
  BY <1>1, <1>2

\* apply, for one event and for a list of them.
LEMMA ApplyShape ==
  ASSUME NEW list \in Seq(Rows), Rising(list), NEW e \in Events
  PROVE  /\ Apply(list, e) \in Seq(Rows) /\ Len(Apply(list, e)) = Len(list)
         /\ \A i \in 1..Len(list) :
              /\ Apply(list, e)[i].id = list[i].id
              /\ Apply(list, e)[i].status = StatusOnce(list[i].id, list[i].status, <<e>>)
<1> DEFINE at == Find(list, e.id)
<1>0. StatusAfter(e) \in Statuses /\ ~IsKey(e)
  BY Shown, EventFacts DEF Statuses
<1>1. CASE e.id \notin IdsOf(list)
  <2>1. Apply(list, e) = list
    BY <1>1, Found DEF Apply
  <2>2. ASSUME NEW i \in 1..Len(list)
        PROVE  list[i].status = StatusOnce(list[i].id, list[i].status, <<e>>)
    <3>1. list[i].id # e.id
      BY <1>1 DEF IdsOf
    <3> QED
      BY <3>1, OnceSingle
  <2> QED
    BY <2>1, <2>2
<1>2. CASE e.id \in IdsOf(list)
  <2>1. at \in 1..Len(list) /\ list[at].id = e.id
    BY <1>2, Found
  <2>2. Apply(list, e) = [list EXCEPT ![at].status = StatusAfter(e)]
    BY <2>1 DEF Apply
  <2> HIDE DEF at
  <2>3. ASSUME NEW i \in 1..Len(list), i # at PROVE list[i].id # e.id
    <3>1. list[i].id \in Nat /\ list[at].id \in Nat
      BY <2>1, RowIds
    <3>2. i < at \/ at < i
      BY <2>1, <2>3
    <3> QED
      BY <2>1, <3>1, <3>2 DEF Rising
  <2>4. [list[at] EXCEPT !.status = StatusAfter(e)] \in Rows
    <3>1. list[at] \in Rows
      BY <2>1
    <3> QED
      BY <1>0, <3>1 DEF Rows
  <2>5. Apply(list, e) \in Seq(Rows) /\ Len(Apply(list, e)) = Len(list)
    BY <2>1, <2>2, <2>4
  <2>6. ASSUME NEW i \in 1..Len(list)
        PROVE  /\ Apply(list, e)[i].id = list[i].id
               /\ Apply(list, e)[i].status = StatusOnce(list[i].id, list[i].status, <<e>>)
    <3>1. CASE i = at
      <4>1. Apply(list, e)[i] = [list[at] EXCEPT !.status = StatusAfter(e)]
        BY <2>1, <2>2, <3>1
      <4>2. Apply(list, e)[i].id = list[i].id /\ Apply(list, e)[i].status = StatusAfter(e)
        BY <2>1, <3>1, <4>1 DEF Rows
      <4> QED
        BY <1>0, <2>1, <3>1, <4>2, OnceSingle
    <3>2. CASE i # at
      <4>1. Apply(list, e)[i] = list[i]
        BY <2>1, <2>2, <3>2
      <4> QED
        BY <2>3, <3>2, <4>1, OnceSingle
    <3> QED
      BY <3>1, <3>2
  <2> QED
    BY <2>5, <2>6
<1> QED
  BY <1>1, <1>2

LEMMA ApplyAllShape ==
  ASSUME NEW list \in Seq(Rows), NEW s \in Streams
  PROVE  /\ ApplyAll(list, s) \in Seq(Rows) /\ Len(ApplyAll(list, s)) = Len(list)
         /\ \A i \in 1..Len(list) :
              /\ ApplyAll(list, s)[i].id = list[i].id
              /\ ApplyAll(list, s)[i].status = StatusOnce(list[i].id, list[i].status, s)
<1>1. ASSUME NEW i \in 1..Len(list)
      PROVE  /\ ApplyAll(list, s)[i] \in Rows
             /\ ApplyAll(list, s)[i].id = list[i].id
             /\ ApplyAll(list, s)[i].status = StatusOnce(list[i].id, list[i].status, s)
  <2>1. ApplyAll(list, s)[i] = [list[i] EXCEPT !.status = StatusOnce(list[i].id, list[i].status, s)]
    BY DEF ApplyAll
  <2>2. list[i] \in Rows
    OBVIOUS
  <2>3. StatusOnce(list[i].id, list[i].status, s) \in Statuses
    BY <2>2, StatusTyped DEF Rows
  <2> QED
    BY <2>1, <2>2, <2>3 DEF Rows
<1>2. Len(list) \in Nat /\ DOMAIN ApplyAll(list, s) = 1..Len(list)
  BY DEF ApplyAll
<1>3. ApplyAll(list, s) = [i \in 1..Len(list) |-> ApplyAll(list, s)[i]]
  BY <1>2 DEF ApplyAll
<1>4. ApplyAll(list, s) \in [1..Len(list) -> Rows]
  BY <1>1, <1>3
<1> QED
  BY <1>1, <1>2, <1>4
\* ApplyAll is apply, event by event: the loop of main over what was deferred.
LEMMA ApplyAllIsALoop ==
  ASSUME NEW list \in Seq(Rows), Rising(list)
  PROVE  /\ ApplyAll(list, <<>>) = list
         /\ \A s \in Streams, e \in Events :
              ApplyAll(list, Append(s, e)) = Apply(ApplyAll(list, s), e)
<1>r. \A x \in Rows, y \in Rows : x.id = y.id /\ x.status = y.status => x = y
  BY DEF Rows
<1>1. ApplyAll(list, <<>>) = list
  <2>1. /\ ApplyAll(list, <<>>) \in Seq(Rows) /\ Len(ApplyAll(list, <<>>)) = Len(list)
        /\ \A i \in 1..Len(list) :
             /\ ApplyAll(list, <<>>)[i].id = list[i].id
             /\ ApplyAll(list, <<>>)[i].status = StatusOnce(list[i].id, list[i].status, <<>>)
    <3>1. <<>> \in Streams
      BY DEF Streams
    <3> QED
      BY <3>1, ApplyAllShape
  <2>2. \A id, st : StatusOnce(id, st, <<>>) = st
    BY DEF StatusOnce, Due
  <2> DEFINE u == ApplyAll(list, <<>>)
  <2> HIDE DEF u
  <2>3. \A i \in 1..Len(list) : u[i] = list[i]
    BY <1>r, <2>1, <2>2 DEF u
  <2>4. u = list
    BY <2>1, <2>3 DEF u
  <2> QED
    BY <2>4 DEF u
<1>2. ASSUME NEW s \in Streams, NEW e \in Events
      PROVE  ApplyAll(list, Append(s, e)) = Apply(ApplyAll(list, s), e)
  <2> DEFINE t == Append(s, e)
             a == ApplyAll(list, t)
             b == ApplyAll(list, s)
             c == Apply(b, e)
  <2>1. t \in Streams /\ t = s \o <<e>> /\ <<e>> \in Streams
    BY AppendIsConcat DEF Streams
  <2> HIDE DEF t
  <2>2. /\ a \in Seq(Rows) /\ Len(a) = Len(list)
        /\ \A i \in 1..Len(list) :
             a[i].id = list[i].id /\ a[i].status = StatusOnce(list[i].id, list[i].status, t)
    BY <2>1, ApplyAllShape
  <2>3. /\ b \in Seq(Rows) /\ Len(b) = Len(list)
        /\ \A i \in 1..Len(list) :
             b[i].id = list[i].id /\ b[i].status = StatusOnce(list[i].id, list[i].status, s)
    BY ApplyAllShape
  <2>4. Rising(b)
    BY <2>3 DEF Rising
  <2> HIDE DEF a, b
  <2>5. /\ c \in Seq(Rows) /\ Len(c) = Len(list)
        /\ \A i \in 1..Len(list) :
             c[i].id = b[i].id /\ c[i].status = StatusOnce(b[i].id, b[i].status, <<e>>)
    BY <2>3, <2>4, ApplyShape
  <2> HIDE DEF c
  <2>6. \A id, st : StatusOnce(id, st, t) = StatusOnce(id, StatusOnce(id, st, s), <<e>>)
    BY <2>1, OnceConcat
  <2>7. \A i \in 1..Len(list) : a[i] = c[i]
    BY <1>r, <2>2, <2>3, <2>5, <2>6, SMTT(20)
  <2>8. a = c
    BY <2>2, <2>5, <2>7
  <2> QED
    BY <2>8 DEF a, b, c, t
<1> QED
  BY <1>1, <1>2

Modes == {"List", "Message", "AskUrl", "AskDest", "Resolving", "Picker"}

\* What a step may assume of numbers, and of the worker's record.
LEMMA Bounds ==
  ASSUME IInv
  PROVE  /\ Total \in Nat /\ FileSize \in Nat \ {0} /\ FileSize <= Total /\ Folder \in Nat
         /\ w.left \in 0..Folder /\ w.base \in 0..Total /\ w.pos \in 0..FileSize
         /\ w.job \in Jobs \cup {NoJob} /\ w.job.id \in Nat /\ w.pc \in DOMAIN AtWork \cup {"pop", "stopped"}
         /\ w.left > 0 => w.base + FileSize <= Total
         /\ w.pc \notin {"pop", "stopped"} => w.job \in Jobs /\ w.job.id \in Ids
         /\ nextId \in 1..(MaxJobs + 1) /\ MaxJobs \in Nat
<1>1. Folder \in Nat /\ FileSize \in Nat \ {0} /\ Folder >= 1 /\ MaxJobs \in Nat
  BY TuiAssumption
<1>2. FileSize * Folder >= FileSize * 1
  BY <1>1
<1>3. Total \in Nat /\ FileSize <= Total
  BY <1>1, <1>2 DEF Total
<1>4. w.left \in 0..Folder /\ w.base \in 0..Total /\ w.pos \in 0..FileSize
      /\ w.job \in Jobs \cup {NoJob} /\ w.pc \in DOMAIN AtWork \cup {"pop", "stopped"}
      /\ nextId \in 1..(MaxJobs + 1)
  BY DEF IInv, TypeOK
<1>5. ASSUME w.left > 0 PROVE w.base + FileSize <= Total
  <2>1. w.base + w.left * FileSize <= Total
    BY DEF IInv, Measured
  <2>2. w.left * FileSize >= 1 * FileSize /\ w.left * FileSize \in Nat
    BY <1>1, <1>4, <1>5
  <2> QED
    BY <1>1, <1>3, <1>4, <2>1, <2>2
<1>6. w.job.id \in Nat /\ (w.job.id # 0 => w.job \in Jobs /\ w.job.id \in Ids)
  BY <1>4 DEF Jobs, NoJob, Ids
<1>7. w.pc \notin {"pop", "stopped"} => w.job.id # 0
  BY DEF IInv, Numbered
<1> QED
  BY <1>1, <1>3, <1>4, <1>5, <1>6, <1>7

\* Sending keeps the channel's type.
LEMMA SendTyped ==
  ASSUME IInv, NEW e \in Events, MaySend(e)
  PROVE  chan' \in Streams /\ (chan' = chan \/ (~quit /\ chan' = Append(chan, e)))
<1>1. chan \in Streams
  BY Typed DEF IInv
<1> QED
  BY <1>1 DEF MaySend, Send, Streams

LEMMA EventTyped ==
  ASSUME IInv, w.job.id \in Ids
  PROVE  /\ \A t \in {"Started", "Verifying", "Finished", "Failed"} : Event(t, 0) \in Events
         /\ \A d \in 0..Total : Event("Progress", d) \in Events
<1>1. DOMAIN ShownAs = {"Started", "Progress", "Verifying", "Finished", "Failed"}
  BY DEF ShownAs
<1> QED
  BY <1>1 DEF Event, Events
Works   == [pc : DOMAIN AtWork \cup {"pop", "stopped"}, job : Jobs \cup {NoJob},
            left : 0..Folder, base : 0..Total, pos : 0..FileSize]
Results == [Ids -> {"none", "ok", "failed", "cancelled"}]

LEMMA Places == DOMAIN AtWork = {"resolve", "plan", "file", "fetch", "verify"}
  BY DEF AtWork

LEMMA WorkerTyped ==
  ASSUME IInv, UNCHANGED <<ui, quit>>, chan' \in Streams, queue' \in Seq(Jobs),
         w' \in Works, result' \in Results
  PROVE  TypeOK'
<1>1. TypeOK /\ UNCHANGED <<items, cursor, mode, deferred, nextId, quit>>
  BY DEF IInv, ui
<1> QED
  BY <1>1 DEF TypeOK, Works, Results, Streams

\* The end of a job, however it comes.
LEMMA EndTyped ==
  ASSUME IInv, NEW r \in {"ok", "failed", "cancelled"}, EndJob(r), w.job.id \in Ids
  PROVE  /\ w' \in Works /\ result' \in Results /\ queue' = queue /\ Measured'
         /\ w'.pc \in {"pop", "stopped"} /\ w'.job.id = 0
         /\ result'[w.job.id] = r /\ \A id \in Ids : id # w.job.id => result'[id] = result[id]
<1>1. w' = [pc |-> AfterJob(r), job |-> NoJob, left |-> 0, base |-> 0, pos |-> 0]
      /\ AfterJob(r) \in {"pop", "stopped"} /\ queue' = queue
  BY DEF EndJob, AfterJob
<1>2. w' \in Works
  BY <1>1, Bounds DEF Works
<1>3. result \in Results /\ result' = [result EXCEPT ![w.job.id] = r]
  BY DEF EndJob, IInv, TypeOK, Results
<1>4. result' \in Results /\ result'[w.job.id] = r
      /\ \A id \in Ids : id # w.job.id => result'[id] = result[id]
  BY <1>3 DEF Results
<1>5. w'.pc \in {"pop", "stopped"} /\ w'.job.id = 0 /\ w'.left = 0 /\ w'.base = 0 /\ w'.pos = 0
  BY <1>1 DEF NoJob
<1>6. Measured'
  BY <1>5, Bounds DEF Measured
<1> QED
  BY <1>1, <1>2, <1>4, <1>5, <1>6

LEMMA WorkerTypeStep == ASSUME IInv, Worker PROVE TypeOK' /\ Measured'
<1>t. /\ chan \in Streams /\ queue \in Seq(Jobs) /\ w \in Works /\ result \in Results
  BY Typed DEF IInv, TypeOK, Works, Results
<1>m. Measured
  BY DEF IInv
<1>n. w.left * FileSize \in Nat
  BY Bounds
<1>1. CASE Pop
  <2>1. Head(queue) \in Jobs /\ queue' \in Seq(Jobs)
    BY <1>1, <1>t DEF Pop
  <2>2. w' \in Works
    BY <1>1, <1>t, <2>1, Places DEF Pop, Works
  <2>3. Measured'
    BY <1>1, <1>t, <1>m DEF Pop, At, Works, Measured
  <2> QED
    BY <1>1, <1>t, <2>1, <2>2, <2>3, WorkerTyped DEF Pop, At
<1>2. CASE WorkerQuits
  <2>1. w' \in Works /\ Measured'
    BY <1>2, <1>t, <1>m DEF WorkerQuits, At, Works, Measured
  <2> QED
    BY <1>2, <1>t, <2>1, WorkerTyped DEF WorkerQuits, At
<1>3. CASE WorkerResolves
  <2>1. w' \in Works /\ Measured'
    BY <1>3, <1>t, <1>m, Places DEF WorkerResolves, At, Works, Measured
  <2>2. chan' \in Streams
    <3>1. w.job.id \in Ids
      BY <1>3, Bounds DEF WorkerResolves, At
    <3> QED
      BY <1>3, <3>1, EventTyped, SendTyped DEF WorkerResolves, MaySend
  <2> QED
    BY <1>3, <1>t, <2>1, <2>2, WorkerTyped DEF WorkerResolves, At
<1>4. CASE JobFails
  <2>1. w.job.id \in Ids
    BY <1>4, Bounds DEF JobFails
  <2>2. chan' \in Streams
    BY <1>4, <2>1, EventTyped, SendTyped DEF JobFails, MaySend
  <2> QED
    BY <1>4, <1>t, <2>1, <2>2, EndTyped, WorkerTyped DEF JobFails, At
<1>5. CASE Plan
  <2>1. w.job \in Jobs /\ w.base = 0 /\ w.pos = 0
    BY <1>5, <1>m, Bounds DEF Plan, At, Measured
  <2>2. Planned(w.job) \in 0..Folder
    BY <2>1 DEF Planned, Jobs
  <2>3. w' \in Works /\ w'.left = Planned(w.job) /\ w'.base = 0 /\ w'.pos = 0 /\ w'.pc = "file"
    BY <1>5, <1>t, <2>1, <2>2, Places DEF Plan, At, Works
  <2>4. Planned(w.job) * FileSize <= FileSize * Folder
    <3> DEFINE p == Planned(w.job)
    <3>1. p \in Nat /\ Folder - p \in Nat /\ FileSize \in Nat
      BY <2>2, Bounds
    <3> HIDE DEF p
    <3>2. (Folder - p) * FileSize >= 0 /\ (Folder - p) * FileSize = Folder * FileSize - p * FileSize
      BY <3>1, Bounds
    <3>3. Folder * FileSize = FileSize * Folder /\ p * FileSize \in Nat /\ FileSize * Folder \in Nat
      BY <3>1, Bounds
    <3> QED
      BY <3>2, <3>3 DEF p
  <2>5. Measured'
    <3>1. w'.left * FileSize \in Nat /\ w'.left * FileSize <= Total
      BY <2>2, <2>3, <2>4, Bounds DEF Total
    <3>2. w'.base + w'.left * FileSize <= Total
      BY <2>3, <3>1, Bounds
    <3> QED
      BY <2>3, <3>2 DEF Measured, Total
  <2> QED
    BY <1>5, <1>t, <2>3, <2>5, WorkerTyped DEF Plan, At
\* A file behind: one fewer left, its units counted.
<1>s. ASSUME w.left > 0
      PROVE  /\ w.left - 1 \in 0..Folder /\ w.base + FileSize \in 0..Total
             /\ (w.base + FileSize) + (w.left - 1) * FileSize <= Total
  <2>1. w.left - 1 \in 0..Folder /\ w.base + FileSize \in 0..Total
    BY <1>s, Bounds
  <2>2. (w.left - 1) * FileSize = w.left * FileSize - FileSize
    BY Bounds
  <2>3. w.base + w.left * FileSize <= Total
    BY <1>m DEF Measured
  <2> QED
    BY <1>n, <2>1, <2>2, <2>3, Bounds
<1>6. CASE FileSkipped
  <2>1. w.left > 0 /\ w.pc = "file" /\ w.pos = 0
    BY <1>6, <1>m DEF FileSkipped, At, Measured
  <2>2. /\ w' \in Works /\ w'.left = w.left - 1 /\ w'.base = w.base + FileSize
        /\ w'.pc = "file" /\ w'.pos = 0
    BY <1>6, <1>t, <1>s, <2>1 DEF FileSkipped, Works
  <2>3. Measured'
    BY <1>s, <2>1, <2>2 DEF Measured, Total
  <2> QED
    BY <1>6, <1>t, <2>2, <2>3, WorkerTyped DEF FileSkipped, At
<1>7. CASE FileStarts
  <2>1. PICK from \in 0..FileSize : /\ w' = [w EXCEPT !.pc = "fetch", !.pos = from]
                                  /\ Send(Event("Progress", BaseOfItem + from))
    BY <1>7 DEF FileStarts
  <2>2. w.left > 0 /\ w.pc = "file" /\ w.job.id \in Ids
    BY <1>7, Bounds DEF FileStarts, At
  <2>3. BaseOfItem + from \in 0..Total
    BY <2>2, Bounds DEF BaseOfItem
  <2>4. chan' \in Streams
    BY <2>1, <2>2, <2>3, EventTyped, SendTyped DEF MaySend
  <2>5. w' \in Works /\ w'.pc = "fetch" /\ w'.left = w.left /\ w'.base = w.base
    BY <1>t, <2>1, Places DEF Works
  <2>6. Measured'
    BY <1>m, <2>2, <2>5 DEF Measured, Total
  <2> QED
    BY <1>7, <1>t, <2>4, <2>5, <2>6, WorkerTyped DEF FileStarts, At
<1>8. CASE Fetch
  <2>1. w.left > 0 /\ w.pc = "fetch" /\ w.job.id \in Ids /\ w.pos < FileSize
    BY <1>8, <1>m, Bounds DEF Fetch, At, Measured
  <2>2. BaseOfItem + w.pos + 1 \in 0..Total
    BY <2>1, Bounds DEF BaseOfItem
  <2>3. chan' \in Streams
    BY <1>8, <2>1, <2>2, EventTyped, SendTyped DEF Fetch
  <2>4. w.pos + 1 \in 0..FileSize
    BY <2>1, Bounds
  <2>5. w' \in Works /\ w'.pc = "fetch" /\ w'.left = w.left /\ w'.base = w.base
    BY <1>8, <1>t, <2>1, <2>4 DEF Fetch, Works
  <2>6. Measured'
    BY <1>m, <2>1, <2>5 DEF Measured, Total
  <2> QED
    BY <1>8, <1>t, <2>3, <2>5, <2>6, WorkerTyped DEF Fetch, At
<1>9. CASE FetchCancelled
  <2>1. w.job.id \in Ids
    BY <1>9, Bounds DEF FetchCancelled, At
  <2> QED
    BY <1>9, <1>t, <2>1, EndTyped, WorkerTyped DEF FetchCancelled, At
<1>10. CASE Verify
  <2>1. w.left > 0 /\ w.pc = "fetch" /\ w.job.id \in Ids /\ w.pos = FileSize
    BY <1>10, <1>m, Bounds DEF Verify, At, Measured
  <2>2. chan' \in Streams
    BY <1>10, <2>1, EventTyped, SendTyped DEF Verify, MaySend
  <2>3. /\ w' \in Works /\ w'.pc = "verify" /\ w'.left = w.left /\ w'.base = w.base
        /\ w'.pos = w.pos
    BY <1>10, <1>t, Places DEF Verify, Works
  <2>4. Measured'
    BY <1>m, <2>1, <2>3 DEF Measured, Total
  <2> QED
    BY <1>10, <1>t, <2>2, <2>3, <2>4, WorkerTyped DEF Verify, At
<1>11. CASE FileDone
  <2>1. w.left > 0 /\ w.pc = "verify"
    BY <1>11, <1>m DEF FileDone, At, Measured
  <2>2. 0 \in 0..FileSize
    BY Bounds
  <2>3. /\ w' \in Works /\ w'.left = w.left - 1 /\ w'.base = w.base + FileSize
        /\ w'.pc = "file" /\ w'.pos = 0
    BY <1>11, <1>t, <1>s, <2>1, <2>2, Places DEF FileDone, Works
  <2>4. Measured'
    BY <1>s, <2>1, <2>3 DEF Measured, Total
  <2> QED
    BY <1>11, <1>t, <2>3, <2>4, WorkerTyped DEF FileDone, At
<1>12. CASE JobDone
  <2>1. w.job.id \in Ids
    BY <1>12, Bounds DEF JobDone, At
  <2>2. chan' \in Streams
    BY <1>12, <2>1, EventTyped, SendTyped DEF JobDone, MaySend
  <2> QED
    BY <1>12, <1>t, <2>1, <2>2, EndTyped, WorkerTyped DEF JobDone, At
<1> QED
  BY <1>1, <1>2, <1>3, <1>4, <1>5, <1>6, <1>7, <1>8, <1>9, <1>10, <1>11, <1>12 DEF Worker
-----------------------------------------------------------------------------
(* The worker's steps: ids, and what its events make of the list.          *)

\* One more element in the channel is the last of what is waiting.
LEMMA WaitingMore ==
  ASSUME TypeOK, UNCHANGED deferred, NEW e \in Events \cup {Key}, chan' = Append(chan, e)
  PROVE  /\ Waiting' = Append(Waiting, e) /\ Waiting' = Waiting \o <<e>> /\ <<e>> \in Streams
         /\ ToSet(Waiting') = ToSet(Waiting) \cup {e}
<1>1. deferred \in Streams /\ chan \in Streams /\ Waiting \in Streams
  BY Typed
<1>2. <<e>> \in Streams
  BY DEF Streams
<1>3. Append(chan, e) = chan \o <<e>> /\ Append(Waiting, e) = Waiting \o <<e>>
  BY <1>1, AppendIsConcat DEF Streams
<1>4. deferred \o (chan \o <<e>>) = (deferred \o chan) \o <<e>>
  BY <1>1, <1>2, ConcatAssociative DEF Streams
<1>5. Waiting' = deferred \o (chan \o <<e>>)
  BY <1>3 DEF Waiting
<1>6. Waiting' = Append(Waiting, e)
  BY <1>3, <1>4, <1>5 DEF Waiting
<1>7. ToSet(Append(Waiting, e)) = ToSet(Waiting) \cup {e}
  <2> DEFINE u == Append(Waiting, e)
             n == Len(Waiting) + 1
  <2>1. Len(Waiting) \in Nat /\ DOMAIN Waiting = 1..Len(Waiting) /\ DOMAIN u = 1..n /\ u[n] = e
        /\ \A k \in 1..Len(Waiting) : u[k] = Waiting[k]
    BY <1>1 DEF Streams
  <2> HIDE DEF u
  <2>2. n \in 1..n /\ \A k \in 1..n : k \in 1..Len(Waiting) \/ k = n
    BY <2>1
  <2>3. \A k \in 1..Len(Waiting) : k \in 1..n
    BY <2>1
  <2>4. ToSet(u) \subseteq ToSet(Waiting) \cup {e}
    BY <2>1, <2>2 DEF ToSet
  <2>5. ToSet(Waiting) \subseteq ToSet(u) /\ e \in ToSet(u)
    BY <2>1, <2>2, <2>3 DEF ToSet
  <2> QED
    BY <2>4, <2>5 DEF u
<1> QED
  BY <1>2, <1>3, <1>6, <1>7

LEMMA WaitingSame ==
  ASSUME UNCHANGED <<deferred, chan>>
  PROVE  Waiting' = Waiting
  BY DEF Waiting

\* The worker speaks of its job only, and to nobody once the UI is gone.
LEMMA WorkerSays ==
  ASSUME IInv, Worker
  PROVE  \/ chan' = chan
         \/ ~quit /\ w.job.id \in Ids /\ \E e \in Events : e.id = w.job.id /\ chan' = Append(chan, e)
<1>1. ASSUME w.job.id \in Ids, NEW t \in {"Started", "Verifying", "Finished", "Failed"}, Send(Event(t, 0))
      PROVE  chan' = chan \/ (~quit /\ \E e \in Events : e.id = w.job.id /\ chan' = Append(chan, e))
  <2>1. Event(t, 0) \in Events /\ Event(t, 0).id = w.job.id
    BY <1>1, EventTyped DEF Event
  <2> QED
    BY <1>1, <2>1 DEF Send
<1>2. ASSUME w.job.id \in Ids, NEW d \in 0..Total, MaySend(Event("Progress", d))
      PROVE  chan' = chan \/ (~quit /\ \E e \in Events : e.id = w.job.id /\ chan' = Append(chan, e))
  <2>1. Event("Progress", d) \in Events /\ Event("Progress", d).id = w.job.id
    BY <1>2, EventTyped DEF Event
  <2> QED
    BY <1>2, <2>1 DEF Send, MaySend
<1>3. CASE Pop \/ WorkerQuits \/ Plan \/ FileSkipped \/ FetchCancelled \/ FileDone
  BY <1>3 DEF Pop, WorkerQuits, Plan, FileSkipped, FetchCancelled, FileDone
<1>4. CASE WorkerResolves
  <2>1. w.job.id \in Ids
    BY <1>4, Bounds DEF WorkerResolves, At
  <2> QED
    BY <1>1, <1>4, <2>1 DEF WorkerResolves
<1>5. CASE JobFails
  <2>1. w.job.id \in Ids
    BY <1>5, Bounds DEF JobFails
  <2> QED
    BY <1>1, <1>5, <2>1 DEF JobFails
<1>6. CASE FileStarts
  <2>1. w.job.id \in Ids /\ w.left > 0
    BY <1>6, Bounds DEF FileStarts, At
  <2>2. PICK from \in 0..FileSize : Send(Event("Progress", BaseOfItem + from))
    BY <1>6 DEF FileStarts
  <2>3. BaseOfItem + from \in 0..Total
    BY <2>1, Bounds DEF BaseOfItem
  <2> QED
    BY <1>2, <2>1, <2>2, <2>3 DEF MaySend
<1>7. CASE Fetch
  <2>1. w.job.id \in Ids /\ w.left > 0 /\ w.pos < FileSize
    BY <1>7, Bounds DEF Fetch, At, IInv, Measured
  <2>2. BaseOfItem + w.pos + 1 \in 0..Total
    BY <2>1, Bounds DEF BaseOfItem
  <2> QED
    BY <1>2, <1>7, <2>1, <2>2 DEF Fetch
<1>8. CASE Verify
  <2>1. w.job.id \in Ids
    BY <1>8, Bounds DEF Verify, At
  <2> QED
    BY <1>1, <1>8, <2>1 DEF Verify
<1>9. CASE JobDone
  <2>1. w.job.id \in Ids
    BY <1>9, Bounds DEF JobDone, At
  <2> QED
    BY <1>1, <1>9, <2>1 DEF JobDone
<1> QED
  BY <1>3, <1>4, <1>5, <1>6, <1>7, <1>8, <1>9 DEF Worker

\* Either it takes the next job, or it goes on with its own, or it ends it.
LEMMA WorkerJob ==
  ASSUME IInv, Worker
  PROVE  /\ UNCHANGED <<items, cursor, mode, deferred, nextId, quit>>
         /\ \/ Pop
            \/ /\ UNCHANGED <<queue, result>> /\ w'.job.id = w.job.id
               /\ w'.pc \in {"pop", "stopped"} <=> w.pc \in {"pop", "stopped"}
            \/ /\ queue' = queue /\ w.job.id \in Ids
               /\ w'.job.id = 0 /\ w'.pc \in {"pop", "stopped"}
               /\ \A id \in Ids : id # w.job.id => result'[id] = result[id]
<1>t. w \in Works
  BY DEF IInv, TypeOK, Works
<1>1. UNCHANGED <<items, cursor, mode, deferred, nextId, quit>>
  BY DEF Worker, Pop, WorkerQuits, WorkerResolves, JobFails, Plan, FileSkipped, FileStarts,
         Fetch, FetchCancelled, Verify, FileDone, JobDone, At, ui
<1>2. ASSUME NEW r \in {"ok", "failed", "cancelled"}, EndJob(r), w.pc \notin {"pop", "stopped"}
      PROVE  /\ queue' = queue /\ w.job.id \in Ids
             /\ w'.job.id = 0 /\ w'.pc \in {"pop", "stopped"}
             /\ \A id \in Ids : id # w.job.id => result'[id] = result[id]
  BY <1>2, Bounds, EndTyped
<1>3. CASE JobFails \/ FetchCancelled \/ JobDone
  <2>1. w.pc \notin {"pop", "stopped"}
    BY <1>3 DEF JobFails, FetchCancelled, JobDone, At
  <2> QED
    BY <1>1, <1>2, <1>3, <2>1 DEF JobFails, FetchCancelled, JobDone
<1>4. CASE WorkerQuits \/ WorkerResolves \/ Plan \/ FileSkipped \/ Fetch \/ Verify \/ FileDone
  BY <1>1, <1>4, <1>t
     DEF WorkerQuits, WorkerResolves, Plan, FileSkipped, Fetch, Verify, FileDone, At, Works
<1>5. CASE FileStarts
  BY <1>1, <1>5, <1>t DEF FileStarts, At, Works
<1> QED
  BY <1>1, <1>3, <1>4, <1>5 DEF Worker
LEMMA WorkerNumbered == ASSUME IInv, Worker PROVE Numbered'
<1>0. TypeOK /\ Numbered /\ UNCHANGED <<items, cursor, mode, deferred, nextId, quit>>
  BY WorkerJob DEF IInv
<1>1. /\ \A e \in ToSet(Waiting') : ~IsKey(e) => e \in ToSet(Waiting) \/ (e.id = w.job.id /\ w.job.id \in Ids)
      /\ quit => chan' = chan
  <2>1. CASE chan' = chan
    BY <1>0, <2>1, WaitingSame
  <2>2. CASE chan' # chan
    <3>1. PICK e \in Events : e.id = w.job.id /\ chan' = Append(chan, e) /\ ~quit /\ w.job.id \in Ids
      BY <2>2, WorkerSays
    <3>2. ToSet(Waiting') = ToSet(Waiting) \cup {e}
      BY <1>0, <3>1, WaitingMore
    <3> QED
      BY <3>1, <3>2
  <2> QED
    BY <2>1, <2>2
<1>2. CASE Pop
  <2>1. /\ queue \in Seq(Jobs) /\ queue # <<>> /\ queue' = Tail(queue) /\ w.pc = "pop"
        /\ chan' = chan /\ result' = result /\ w.job.id = 0
    BY <1>0, <1>2, Typed DEF Pop, At, Numbered
  <2>2. w'.job = Head(queue) /\ w'.pc = "resolve"
    BY <1>0, <1>2 DEF Pop, TypeOK
  <2>3. /\ Rising(queue') /\ IdsOf(queue') \subseteq IdsOf(queue) /\ w'.job.id \in IdsOf(queue)
        /\ \A i \in IdsOf(queue') : w'.job.id < i
    BY <1>0, <2>1, <2>2, RowIds, RisingTail DEF Numbered
  <2>4. \A id \in Ids : result[id] # "none" => id # w'.job.id
    BY <1>0, <2>3 DEF Numbered, Ids
  <2>5. w'.job.id \in Nat /\ w'.job.id # 0 /\ w'.job.id < nextId
    BY <1>0, <2>3, Bounds DEF Numbered
  <2>6. Waiting' = Waiting
    BY <1>0, <2>1, WaitingSame
  <2> QED
    BY <1>0, <2>1, <2>2, <2>3, <2>4, <2>5, <2>6 DEF Numbered
<1>3. ASSUME UNCHANGED <<queue, result>>, w'.job.id = w.job.id,
             w'.pc \in {"pop", "stopped"} <=> w.pc \in {"pop", "stopped"}
      PROVE  Numbered'
  <2>1. \A e \in ToSet(Waiting') : ~IsKey(e) => e.id < nextId /\ \A i \in IdsOf(queue) : e.id < i
    BY <1>0, <1>1 DEF Numbered
  <2> QED
    BY <1>0, <1>1, <1>3, <2>1 DEF Numbered
<1>4. ASSUME queue' = queue, w.job.id \in Ids, w'.job.id = 0, w'.pc \in {"pop", "stopped"},
             \A id \in Ids : id # w.job.id => result'[id] = result[id]
      PROVE  Numbered'
  <2>1. \A e \in ToSet(Waiting') : ~IsKey(e) => e.id < nextId /\ \A i \in IdsOf(queue) : e.id < i
    BY <1>0, <1>1 DEF Numbered
  <2>2. ASSUME NEW id \in Ids, result'[id] # "none"
        PROVE  id < nextId /\ id # w'.job.id /\ \A i \in IdsOf(queue) : id < i
    <3>1. id # 0
      BY DEF Ids
    <3>2. CASE id = w.job.id
      BY <1>0, <1>4, <3>1, <3>2 DEF Numbered
    <3>3. CASE id # w.job.id
      BY <1>0, <1>4, <2>2, <3>1, <3>3 DEF Numbered
    <3> QED
      BY <3>2, <3>3
  <2>3. 0 < nextId /\ \A i \in IdsOf(queue) : 0 < i
    BY <1>0, Bounds DEF Numbered
  <2> QED
    BY <1>0, <1>1, <1>4, <2>1, <2>2, <2>3 DEF Numbered
<1> QED
  BY <1>2, <1>3, <1>4, WorkerJob

-----------------------------------------------------------------------------
\* A higher bound on figures is a bound.
LEMMA BelowMore ==
  ASSUME NEW s \in Streams, NEW id, NEW st \in Statuses, NEW m \in Nat, NEW n \in Nat, m <= n,
         Below(id, st, s, m)
  PROVE  Below(id, st, s, n)
<1>1. st.done \in Nat
  BY TuiAssumption DEF Statuses, Total
<1>2. \A k \in Reports(id, s) : s[k].done \in Nat
  BY ReportFacts
<1> QED
  BY <1>1, <1>2 DEF Below

\* Rows of other items are not concerned.
LEMMA OtherRows ==
  ASSUME IInv, UNCHANGED deferred,
         chan' = chan \/ \E e \in Events : e.id = w.job.id /\ chan' = Append(chan, e),
         NEW id \in Ids, id # w.job.id, id # w'.job.id, result'[id] = result[id],
         NEW st \in Statuses, Told(id, st), Climbs(id, st)
  PROVE  Told(id, st)' /\ Climbs(id, st)'
<1>0. TypeOK /\ Waiting \in Streams
  BY Typed DEF IInv
<1>1. StatusOnce(id, st, Waiting') = StatusOnce(id, st, Waiting) /\ Advances(id, st, Waiting')
  <2>1. CASE chan' = chan
    BY <2>1, WaitingSame DEF Climbs
  <2>2. ASSUME NEW e \in Events, e.id = w.job.id, chan' = Append(chan, e)
        PROVE  StatusOnce(id, st, Waiting') = StatusOnce(id, st, Waiting) /\ Advances(id, st, Waiting')
    <3>1. /\ Waiting' = Append(Waiting, e) /\ Waiting' = Waiting \o <<e>> /\ <<e>> \in Streams
      BY <1>0, <2>2, WaitingMore
    <3>2. StatusOnce(id, st, Waiting \o <<e>>) = StatusOnce(id, StatusOnce(id, st, Waiting), <<e>>)
      BY <1>0, <3>1, OnceConcat
    <3>3. StatusOnce(id, StatusOnce(id, st, Waiting), <<e>>) = StatusOnce(id, st, Waiting)
      BY <2>2, OnceSingle
    <3>4. Advances(id, st, Append(Waiting, e))
      BY <1>0, <2>2, FiguresAppend DEF Climbs
    <3> QED
      BY <3>1, <3>2, <3>3, <3>4
  <2> QED
    BY <2>1, <2>2
<1>2. Truth(id)' = Truth(id) /\ "Active" \notin Truth(id)
  BY DEF Truth
<1> QED
  BY <1>1, <1>2 DEF Told, Climbs
\* The row of the job in work, when the worker says something of it ...
LEMMA OwnRowTold ==
  ASSUME IInv, UNCHANGED deferred, NEW e \in Events, e.id = w.job.id, chan' = Append(chan, e),
         NEW st \in Statuses, Told(e.id, st), Climbs(e.id, st),
         w'.base \in Nat, w'.pos \in Nat,
         w'.job.id = e.id => w.base + w.pos <= w'.base + w'.pos,
         e.type = "Progress" => w'.job.id = e.id /\ e.done = w'.base + w'.pos,
         StatusAfter(e).kind \in Truth(e.id)'
  PROVE  Told(e.id, st)' /\ Climbs(e.id, st)'
<1>0. TypeOK /\ Waiting \in Streams /\ ~IsKey(e) /\ w.base + w.pos \in Nat
  <2>1. w.base \in Nat /\ w.pos \in Nat
    BY Bounds
  <2> QED
    BY <2>1, Typed, EventFacts DEF IInv
<1>1. /\ Waiting' = Append(Waiting, e) /\ Waiting' = Waiting \o <<e>> /\ <<e>> \in Streams
  BY <1>0, WaitingMore
<1>2. StatusOnce(e.id, st, Waiting') = StatusAfter(e)
  <2>1. StatusOnce(e.id, st, Waiting \o <<e>>) = StatusOnce(e.id, StatusOnce(e.id, st, Waiting), <<e>>)
    BY <1>0, <1>1, OnceConcat
  <2>2. StatusOnce(e.id, StatusOnce(e.id, st, Waiting), <<e>>) = StatusAfter(e)
    BY <1>0, OnceSingle
  <2> QED
    BY <1>1, <2>1, <2>2
<1>3. Told(e.id, st)'
  <2>1. StatusAfter(e).done <= w'.base + w'.pos
    BY Shown, EventFacts
  <2> QED
    BY <1>2, <2>1 DEF Told
<1>4. Below(e.id, st, Waiting, w.base + w.pos) /\ Advances(e.id, st, Waiting)
  BY DEF Climbs
<1>5. w'.job.id = e.id => Below(e.id, st, Waiting, w'.base + w'.pos)
  BY <1>0, <1>4, BelowMore
<1>6. Advances(e.id, st, Append(Waiting, e))
  BY <1>0, <1>4, <1>5, FiguresAppend
<1>7. w'.job.id = e.id => Below(e.id, st, Append(Waiting, e), w'.base + w'.pos)
  <2> DEFINE m == w'.base + w'.pos
  <2>1. e.type = "Progress" => e.done <= m
    BY Bounds
  <2> HIDE DEF m
  <2>2. Below(e.id, st, Waiting, m) => Below(e.id, st, Append(Waiting, e), m)
    BY <1>0, <2>1, FiguresAppend
  <2> QED
    BY <1>5, <2>2 DEF m
<1> QED
  BY <1>1, <1>3, <1>6, <1>7 DEF Climbs

\* ... and when it says nothing.
LEMMA OwnRowSilent ==
  ASSUME IInv, UNCHANGED <<deferred, chan>>, NEW id, id = w.job.id, w'.job.id = id,
         NEW st \in Statuses, Told(id, st), Climbs(id, st),
         w'.base \in Nat, w'.pos \in Nat, w.base + w.pos <= w'.base + w'.pos,
         Truth(id) \subseteq Truth(id)'
  PROVE  Told(id, st)' /\ Climbs(id, st)'
<1>0. Waiting \in Streams /\ Waiting' = Waiting /\ w.base + w.pos \in Nat
  <2>1. w.base \in Nat /\ w.pos \in Nat
    BY Bounds
  <2> QED
    BY <2>1, Typed, WaitingSame DEF IInv
<1>1. StatusOnce(id, st, Waiting).done \in Nat
  <2>1. StatusOnce(id, st, Waiting) \in Statuses
    BY <1>0, StatusTyped
  <2> QED
    BY <2>1, Bounds DEF Statuses
<1>2. Told(id, st)'
  BY <1>0, <1>1 DEF Told
<1>3. Below(id, st, Waiting, w'.base + w'.pos)
  BY <1>0, BelowMore DEF Climbs
<1> QED
  BY <1>0, <1>2, <1>3 DEF Climbs
\* An item still queued has had no events.
LEMMA QueuedSilent ==
  ASSUME IInv, NEW id \in IdsOf(queue)
  PROVE  Due(id, Waiting) = {}
<1>1. ASSUME NEW k \in Due(id, Waiting) PROVE FALSE
  <2>1. Waiting[k] \in ToSet(Waiting) /\ ~IsKey(Waiting[k]) /\ Waiting[k].id = id
    BY <1>1 DEF Due, ToSet
  <2>2. id < id
    BY <2>1 DEF IInv, Numbered
  <2>3. id \in Nat
    BY DEF IInv, Numbered
  <2> QED
    BY <2>2, <2>3
<1> QED
  BY <1>1

LEMMA WorkerRow ==
  ASSUME IInv, Worker, ~quit, NEW id \in Ids, NEW st \in Statuses, Told(id, st), Climbs(id, st)
  PROVE  Told(id, st)' /\ Climbs(id, st)'
<1>t. /\ w \in Works /\ result \in Results /\ Waiting \in Streams /\ UNCHANGED deferred
      /\ Measured /\ Numbered
  BY Typed, WorkerJob DEF IInv, TypeOK, Works, Results
<1>b. w.base \in Nat /\ w.pos \in Nat /\ FileSize \in Nat
  BY Bounds
<1>i. id # 0
  BY DEF Ids
<1>c. \/ chan' = chan
      \/ \E e \in Events : e.id = w.job.id /\ chan' = Append(chan, e)
  BY WorkerSays
<1>1. CASE id # w.job.id
  <2>1. CASE Pop /\ w'.job.id = id
    <3>1. queue \in Seq(Jobs) /\ queue # <<>> /\ w'.job = Head(queue) /\ w'.pc = "resolve"
          /\ w'.base = w.base /\ w'.pos = w.pos /\ chan' = chan /\ result' = result
      BY <1>t, <2>1, Typed DEF Pop, At, Works, IInv
    <3>2. id \in IdsOf(queue)
      BY <1>t, <2>1, <3>1, RowIds, RisingTail DEF Numbered
    <3>3. Due(id, Waiting) = {} /\ result[id] = "none" /\ Waiting' = Waiting
      <4>1. ~(id < id)
        BY DEF Ids
      <4> QED
        BY <1>t, <3>1, <3>2, <4>1, QueuedSilent, WaitingSame DEF Numbered
    <3>4. st.kind = "Queued"
      BY <1>1, <3>3 DEF Told, StatusOnce, Truth
    <3>5. AtWork["resolve"] = {"Queued"}
      BY DEF AtWork
    <3>6. Truth(id)' = {"Queued"}
      BY <2>1, <3>1, <3>3, <3>5 DEF Truth
    <3>7. Told(id, st)'
      BY <3>3, <3>4, <3>6 DEF Told, StatusOnce
    <3> QED
      BY <3>3, <3>4, <3>7 DEF Climbs, Advances, Below, Reports
  <2>2. CASE ~(Pop /\ w'.job.id = id)
    <3>1. id # w'.job.id /\ result'[id] = result[id]
      BY <1>1, <1>i, <2>2, WorkerJob DEF Pop
    <3> QED
      BY <1>1, <1>c, <1>t, <3>1, OtherRows
  <2> QED
    BY <2>1, <2>2
<1>2. CASE id = w.job.id
  <2>0. result[id] = "none" /\ w.pc \notin {"pop", "stopped"} /\ Truth(id) = AtWork[w.pc]
    BY <1>2, <1>i, <1>t DEF Numbered, Truth
  <2>w. /\ AtWork["resolve"] = {"Queued"} /\ AtWork["plan"] = {"Active"}
        /\ AtWork["file"] = {"Active", "Verifying"} /\ AtWork["fetch"] = {"Active"}
        /\ AtWork["verify"] = {"Verifying"}
    BY DEF AtWork
  <2>s. \A t \in {"Started", "Verifying", "Finished", "Failed"} :
          Event(t, 0) \in Events /\ Event(t, 0).id = id /\ Event(t, 0).type = t
    BY <1>2, EventTyped DEF Event
  <2>p. \A d \in 0..Total : /\ Event("Progress", d) \in Events /\ Event("Progress", d).id = id
                           /\ Event("Progress", d).type = "Progress" /\ Event("Progress", d).done = d
    BY <1>2, EventTyped DEF Event
  \* The end of the job, in result r.
  <2>e. ASSUME NEW r \in {"ok", "failed"}, EndJob(r)
        PROVE  /\ w'.base \in Nat /\ w'.pos \in Nat /\ w'.job.id # id
               /\ Truth(id)' = IF r = "ok" THEN {"Done"} ELSE {"Error"}
    <3>1. w'.job.id = 0 /\ w' \in Works /\ result'[id] = r
      BY <1>2, <2>e, EndTyped
    <3> QED
      BY <1>i, <3>1 DEF Truth, Works
  <2>1. CASE WorkerResolves
    <3>1. /\ chan' = Append(chan, Event("Started", 0)) /\ result' = result /\ w'.pc = "plan"
          /\ w'.job = w.job /\ w'.base = w.base /\ w'.pos = w.pos
      BY <1>t, <2>1 DEF WorkerResolves, At, Send, Works
    <3>2. Truth(id)' = {"Active"}
      BY <1>2, <2>0, <2>w, <3>1 DEF Truth
    <3>3. StatusAfter(Event("Started", 0)).kind = "Active"
      BY <2>s, Shown
    <3> QED
      BY <1>2, <1>b, <1>t, <2>s, <3>1, <3>2, <3>3, OwnRowTold
  <2>2. CASE JobFails
    <3>1. chan' = Append(chan, Event("Failed", 0))
      BY <2>2 DEF JobFails, Send
    <3>2. Truth(id)' = {"Error"} /\ w'.base \in Nat /\ w'.pos \in Nat /\ w'.job.id # id
      BY <2>2, <2>e DEF JobFails
    <3>3. StatusAfter(Event("Failed", 0)).kind = "Error"
      BY <2>s, Shown
    <3> QED
      BY <1>2, <1>t, <2>s, <3>1, <3>2, <3>3, OwnRowTold
  <2>3. CASE JobDone
    <3>1. chan' = Append(chan, Event("Finished", 0))
      BY <2>3 DEF JobDone, Send
    <3>2. Truth(id)' = {"Done"} /\ w'.base \in Nat /\ w'.pos \in Nat /\ w'.job.id # id
      BY <2>3, <2>e DEF JobDone
    <3>3. StatusAfter(Event("Finished", 0)).kind = "Done"
      BY <2>s, Shown
    <3> QED
      BY <1>2, <1>t, <2>s, <3>1, <3>2, <3>3, OwnRowTold
  <2>4. CASE Verify
    <3>1. /\ chan' = Append(chan, Event("Verifying", 0)) /\ result' = result /\ w'.pc = "verify"
          /\ w'.job = w.job /\ w'.base = w.base /\ w'.pos = w.pos
      BY <1>t, <2>4 DEF Verify, At, Send, Works
    <3>2. Truth(id)' = {"Verifying"}
      BY <1>2, <2>0, <2>w, <3>1 DEF Truth
    <3>3. StatusAfter(Event("Verifying", 0)).kind = "Verifying"
      BY <2>s, Shown
    <3> QED
      BY <1>2, <1>b, <1>t, <2>s, <3>1, <3>2, <3>3, OwnRowTold
  <2>5. CASE FileStarts
    <3>1. PICK from \in 0..FileSize : /\ w' = [w EXCEPT !.pc = "fetch", !.pos = from]
                                    /\ chan' = Append(chan, Event("Progress", BaseOfItem + from))
      BY <2>5 DEF FileStarts, Send
    <3>2. /\ result' = result /\ w'.pc = "fetch" /\ w.pos = 0
          /\ w'.job = w.job /\ w'.base = w.base /\ w'.pos = from
      BY <1>t, <2>5, <3>1 DEF FileStarts, At, Works, Measured
    <3>3. BaseOfItem + from \in 0..Total /\ BaseOfItem + from = w'.base + w'.pos
      BY <2>5, <3>2, Bounds DEF BaseOfItem, FileStarts
    <3>4. Truth(id)' = {"Active"}
      BY <1>2, <2>0, <2>w, <3>2 DEF Truth
    <3>5. StatusAfter(Event("Progress", BaseOfItem + from)).kind = "Active"
      BY <2>p, <3>3, Shown
    <3>6. w.base + w.pos <= w'.base + w'.pos
      BY <1>b, <3>2
    <3> QED
      BY <1>2, <1>b, <1>t, <2>p, <3>1, <3>2, <3>3, <3>4, <3>5, <3>6, OwnRowTold
  <2>6. CASE Fetch
    <3>1. /\ result' = result /\ w'.pc = "fetch" /\ w.left > 0 /\ w.pos < FileSize
          /\ w'.job = w.job /\ w'.base = w.base /\ w'.pos = w.pos + 1 /\ w.pc = "fetch"
      BY <1>t, <2>6 DEF Fetch, At, Works, Measured
    <3>2. BaseOfItem + w.pos + 1 \in 0..Total /\ BaseOfItem + w.pos + 1 = w'.base + w'.pos
      BY <3>1, Bounds DEF BaseOfItem
    <3>3. Truth(id)' = {"Active"} /\ Truth(id) = {"Active"}
      BY <1>2, <2>0, <2>w, <3>1 DEF Truth
    <3>4. StatusAfter(Event("Progress", BaseOfItem + w.pos + 1)).kind = "Active"
      BY <2>p, <3>2, Shown
    <3>5. w.base + w.pos <= w'.base + w'.pos
      BY <1>b, <3>1
    <3>6. CASE chan' = chan
      BY <1>2, <1>b, <1>t, <3>1, <3>3, <3>5, <3>6, OwnRowSilent
    <3>7. CASE chan' = Append(chan, Event("Progress", BaseOfItem + w.pos + 1))
      BY SMTT(30), <1>2, <1>b, <1>t, <2>p, <3>1, <3>2, <3>3, <3>4, <3>5, <3>7, OwnRowTold
    <3> QED
      BY <2>6, <3>6, <3>7 DEF Fetch, MaySend, Send
  <2>7. CASE Plan \/ FileSkipped \/ FileDone
    <3>1. /\ result' = result /\ chan' = chan /\ w'.pc = "file" /\ w'.job = w.job
          /\ w.pc \in {"plan", "file", "verify"}
      BY <1>t, <2>7 DEF Plan, FileSkipped, FileDone, At, Works
    <3>2. Truth(id) \subseteq Truth(id)'
      BY <1>2, <2>0, <2>w, <3>1 DEF Truth
    <3>3. w'.base \in Nat /\ w'.pos \in Nat /\ w.base + w.pos <= w'.base + w'.pos
      <4>1. CASE Plan
        BY <1>t, <1>b, <4>1 DEF Plan, Works
      <4>2. CASE FileSkipped
        BY <1>t, <1>b, <4>2 DEF FileSkipped, Works
      <4>3. CASE FileDone
        <5>1. w.pos = FileSize /\ w'.base = w.base + FileSize /\ w'.pos = 0
          BY <1>t, <4>3 DEF FileDone, At, Works, Measured
        <5> QED
          BY <1>b, <5>1
      <4> QED
        BY <2>7, <4>1, <4>2, <4>3
    <3> QED
      BY <1>2, <1>t, <3>1, <3>2, <3>3, OwnRowSilent
  <2> QED
    BY <2>0, <2>1, <2>2, <2>3, <2>4, <2>5, <2>6, <2>7
       DEF Worker, Pop, WorkerQuits, FetchCancelled, At
<1> QED
  BY <1>1, <1>2

LEMMA WorkerListing == ASSUME IInv, Worker PROVE Listing'
<1>1. items' = items /\ items \in Seq(Rows)
  BY WorkerJob, Typed DEF IInv
<1>2. CASE quit
  BY <1>1, <1>2 DEF IInv, Numbered, Listing
<1>3. CASE ~quit
  <2>1. ASSUME NEW i \in DOMAIN items
        PROVE  (Told(items[i].id, items[i].status) /\ Climbs(items[i].id, items[i].status))'
    <3>0. items[i] \in Rows
      BY <1>1
    <3>1. PICK id \in Ids, st \in Statuses : id = items[i].id /\ st = items[i].status
      BY <3>0 DEF Rows
    <3>2. Told(id, st) /\ Climbs(id, st)
      BY <3>1 DEF IInv, Listing
    <3>3. Told(id, st)' /\ Climbs(id, st)'
      BY <1>3, <3>2, WorkerRow
    <3> QED
      BY <1>1, <3>1, <3>3
  <2> QED
    BY <1>1, <2>1 DEF Listing
<1> QED
  BY <1>2, <1>3

-----------------------------------------------------------------------------
(* The UI's steps and the reader's.                                        *)

\* A row's old status and the events waiting for it come to the same as its
\* new status and those still waiting, and its figures are still in order.
Carries(id, old, new) ==
  /\ StatusOnce(id, new, Waiting') = StatusOnce(id, old, Waiting)
  /\ Advances(id, old, Waiting) => Advances(id, new, Waiting')
  /\ \A m \in Nat : Below(id, old, Waiting, m) => Below(id, new, Waiting', m)

LEMMA CarriedRow ==
  ASSUME IInv, UNCHANGED <<w, result>>, NEW id, NEW old, NEW new,
         Told(id, old), Climbs(id, old), Carries(id, old, new)
  PROVE  Told(id, new)' /\ Climbs(id, new)'
<1>1. Truth(id)' = Truth(id)
  BY DEF Truth
<1>2. w.base + w.pos \in Nat
  BY Bounds
<1>3. Told(id, new)'
  BY <1>1 DEF Told, Carries
<1>4. Climbs(id, new)'
  BY <1>2 DEF Climbs, Carries
<1> QED
  BY <1>3, <1>4

LEMMA CarriedListing ==
  ASSUME IInv, UNCHANGED <<w, result>>,
         \A j \in DOMAIN items' : \E i \in DOMAIN items :
           /\ items'[j].id = items[i].id
           /\ Carries(items[i].id, items[i].status, items'[j].status)
  PROVE  Listing'
<1>1. ASSUME NEW j \in DOMAIN items'
      PROVE  (Told(items[j].id, items[j].status) /\ Climbs(items[j].id, items[j].status))'
  <2>1. PICK i \in DOMAIN items :
          /\ items'[j].id = items[i].id
          /\ Carries(items[i].id, items[i].status, items'[j].status)
    OBVIOUS
  <2>2. PICK id, old, new : id = items[i].id /\ old = items[i].status /\ new = items'[j].status
    OBVIOUS
  <2>3. Told(id, old) /\ Climbs(id, old) /\ Carries(id, old, new)
    BY <2>1, <2>2 DEF IInv, Listing
  <2>4. Told(id, new)' /\ Climbs(id, new)'
    BY <2>3, CarriedRow
  <2> QED
    BY <2>1, <2>2, <2>4
<1> QED
  BY <1>1 DEF Listing

LEMMA ElementsConcat ==
  ASSUME NEW d \in Streams, NEW c \in Streams
  PROVE  ToSet(d \o c) = ToSet(d) \cup ToSet(c)
<1>1. Range(d \o c) = Range(d) \cup Range(c)
  BY RangeConcatenation DEF Streams
<1>2. ToSet(d \o c) = Range(d \o c) /\ ToSet(d) = Range(d) /\ ToSet(c) = Range(c)
  BY DEF ToSet, Range
<1> QED
  BY <1>1, <1>2

\* The key at the head of the channel is taken.
LEMMA KeyTaken ==
  ASSUME IInv, UNCHANGED deferred, chan # <<>>, IsKey(Head(chan)), chan' = Tail(chan)
  PROVE  /\ chan' \in Streams /\ deferred' \in Streams /\ ToSet(Waiting') \subseteq ToSet(Waiting)
         /\ \A id, st : Carries(id, st, st)
<1>1. /\ chan \in Streams /\ deferred \in Streams /\ chan' \in Streams
      /\ Waiting' = deferred \o Tail(chan) /\ Waiting = deferred \o chan
  BY Typed, HeadFirst DEF IInv, Waiting
<1>2. ASSUME NEW id, NEW st PROVE Carries(id, st, st)
  BY <1>1, OnceWithoutKey, FiguresWithoutKey DEF Carries
<1>3. ToSet(Waiting') \subseteq ToSet(Waiting)
  <2>1. /\ ToSet(deferred \o chan) = ToSet(deferred) \cup ToSet(chan)
        /\ ToSet(deferred \o Tail(chan)) = ToSet(deferred) \cup ToSet(Tail(chan))
    BY <1>1, ElementsConcat
  <2>2. ToSet(Tail(chan)) \subseteq ToSet(chan)
    <3> DEFINE u == Tail(chan)
    <3>1. Len(chan) \in Nat /\ DOMAIN chan = 1..Len(chan) /\ DOMAIN u = 1..(Len(chan) - 1)
          /\ \A k \in 1..(Len(chan) - 1) : u[k] = chan[k + 1]
      BY <1>1 DEF Streams
    <3> HIDE DEF u
    <3>2. \A k \in 1..(Len(chan) - 1) : k + 1 \in 1..Len(chan)
      BY <3>1
    <3>3. ToSet(u) \subseteq ToSet(chan)
      BY <3>1, <3>2 DEF ToSet
    <3> QED
      BY <3>3 DEF u
  <2> QED
    BY <1>1, <2>1, <2>2
<1> QED
  BY <1>1, <1>2, <1>3

\* The loop applies what was set aside ...
LEMMA DrainCarries ==
  ASSUME IInv, Drain
  PROVE  /\ items' \in Seq(Rows) /\ Len(items') = Len(items) /\ deferred' \in Streams
         /\ ToSet(Waiting') \subseteq ToSet(Waiting)
         /\ \A i \in 1..Len(items) : /\ items'[i].id = items[i].id
                                    /\ Carries(items[i].id, items[i].status, items'[i].status)
<1>1. /\ chan \in Streams /\ deferred \in Streams /\ items \in Seq(Rows)
      /\ items' = ApplyAll(items, deferred) /\ deferred' = <<>> /\ chan' = chan
  BY Typed DEF IInv, Drain
<1>2. Waiting = deferred \o chan /\ Waiting' = chan /\ deferred' \in Streams
  BY <1>1 DEF Waiting, Streams
<1>3. \A id, st : Carries(id, st, StatusOnce(id, st, deferred))
  BY <1>1, <1>2, OnceConcat, FiguresConcat DEF Carries
<1>4. ToSet(Waiting') \subseteq ToSet(Waiting)
  BY <1>1, <1>2, ElementsConcat
<1>5. /\ items' \in Seq(Rows) /\ Len(items') = Len(items)
      /\ \A i \in 1..Len(items) : /\ items'[i].id = items[i].id
                                 /\ items'[i].status = StatusOnce(items[i].id, items[i].status, deferred)
  BY <1>1, ApplyAllShape
<1> QED
  BY <1>2, <1>3, <1>4, <1>5

\* ... and then takes events one at a time.
LEMMA ReceiveCarries ==
  ASSUME IInv, ReceiveEvent
  PROVE  /\ items' \in Seq(Rows) /\ Len(items') = Len(items) /\ chan' \in Streams
         /\ ToSet(Waiting') \subseteq ToSet(Waiting)
         /\ \A i \in 1..Len(items) : /\ items'[i].id = items[i].id
                                    /\ Carries(items[i].id, items[i].status, items'[i].status)
<1> DEFINE h == <<Head(chan)>>
           r == Tail(chan)
<1>1. /\ chan \in Streams /\ items \in Seq(Rows) /\ Rising(items) /\ Head(chan) \in Events
      /\ items' = Apply(items, Head(chan)) /\ deferred = <<>> /\ deferred' = <<>> /\ chan' = r
      /\ h \in Streams /\ r \in Streams /\ chan = h \o r
  BY Typed, HeadFirst, KeyIsKey DEF IInv, Numbered, ReceiveEvent
<1> HIDE DEF r
<1>2. Waiting = h \o r /\ Waiting' = r
  BY <1>1 DEF Waiting, Streams
<1>3. /\ items' \in Seq(Rows) /\ Len(items') = Len(items)
      /\ \A i \in 1..Len(items) : /\ items'[i].id = items[i].id
                                 /\ items'[i].status = StatusOnce(items[i].id, items[i].status, h)
  BY <1>1, ApplyShape
<1> HIDE DEF h
<1>4. \A id, st : Carries(id, st, StatusOnce(id, st, h))
  BY <1>1, <1>2, OnceConcat, FiguresConcat DEF Carries
<1>5. ToSet(Waiting') \subseteq ToSet(Waiting)
  BY <1>1, <1>2, ElementsConcat
<1> QED
  BY <1>1, <1>3, <1>4, <1>5

\* Setting an event aside changes nothing to what waits, in its order.
LEMMA DeferCarries ==
  ASSUME IInv, Defer
  PROVE  chan' \in Streams /\ deferred' \in Seq(Events) /\ Waiting' = Waiting
<1> DEFINE h == <<Head(chan)>>
           r == Tail(chan)
<1>1. /\ chan \in Streams /\ deferred \in Seq(Events) /\ deferred \in Streams /\ Head(chan) \in Events
      /\ deferred' = Append(deferred, Head(chan)) /\ chan' = r /\ r \in Streams
      /\ deferred \o chan = (deferred \o h) \o r
  BY Typed, HeadFirst, KeyIsKey DEF IInv, TypeOK, Defer
<1>2. deferred' = deferred \o h /\ deferred' \in Seq(Events)
  BY <1>1, AppendIsConcat
<1> HIDE DEF h, r
<1>3. Waiting' = Waiting
  BY <1>1, <1>2 DEF Waiting
<1> QED
  BY <1>1, <1>2, <1>3

CursorOn(c, list) == c \in IF list = <<>> THEN {0} ELSE 0..(Len(list) - 1)

LEMMA UiTyped ==
  ASSUME IInv, UNCHANGED <<w, result>>, quit' \in BOOLEAN, nextId' \in 1..(MaxJobs + 1),
         items' \in Seq(Rows), CursorOn(cursor', items'), mode' \in Modes,
         deferred' \in Seq(Events), chan' \in Streams, queue' \in Seq(Jobs)
  PROVE  TypeOK' /\ Measured'
<1>1. TypeOK /\ Measured
  BY DEF IInv
<1>2. TypeOK'
  BY <1>1 DEF TypeOK, CursorOn, Rows, Statuses, Modes, Streams
<1>3. Measured'
  BY <1>1 DEF Measured, Total
<1> QED
  BY <1>2, <1>3

\* A step that hears of no new event and gives no new id.
LEMMA UiNumbered ==
  ASSUME IInv, ~quit, UNCHANGED <<quit, w, result, nextId>>,
         Rising(items'), IdsOf(items') \subseteq IdsOf(items),
         Rising(queue'), IdsOf(queue') \subseteq IdsOf(queue), IdsOf(queue') \subseteq IdsOf(items'),
         \A e \in ToSet(Waiting') : ~IsKey(e) => e \in ToSet(Waiting),
         mode' = "Picker" => nextId <= MaxJobs
  PROVE  Numbered'
<1>1. Numbered
  BY DEF IInv
<1>2. /\ IdsOf(items') \subseteq 1..(nextId - 1) /\ IdsOf(queue') \subseteq 1..(nextId - 1)
      /\ \A i \in IdsOf(queue') : w.job.id < i
  BY <1>1 DEF Numbered
<1>3. \A e \in ToSet(Waiting') : ~IsKey(e) => e.id < nextId /\ \A i \in IdsOf(queue') : e.id < i
  BY <1>1 DEF Numbered
<1>4. \A id \in Ids : result[id] # "none" =>
        id < nextId /\ id # w.job.id /\ \A i \in IdsOf(queue') : id < i
  BY <1>1 DEF Numbered
<1>5. w.job.id < nextId /\ (w.pc \in {"pop", "stopped"} <=> w.job.id = 0)
  BY <1>1 DEF Numbered
<1> QED
  BY <1>2, <1>3, <1>4, <1>5 DEF Numbered

\* The same with the list and the queue as they are.
LEMMA UiListKept ==
  ASSUME IInv, ~quit, UNCHANGED <<items, queue, quit, w, result, nextId>>,
         CursorOn(cursor', items), mode' \in Modes, mode' = "Picker" => nextId <= MaxJobs,
         deferred' \in Seq(Events), chan' \in Streams,
         \A e \in ToSet(Waiting') : ~IsKey(e) => e \in ToSet(Waiting),
         \A id, st : Carries(id, st, st)
  PROVE  IInv'
<1>1. Numbered /\ items \in Seq(Rows) /\ queue \in Seq(Jobs) /\ nextId \in 1..(MaxJobs + 1)
      /\ quit \in BOOLEAN
  BY Typed, Bounds DEF IInv, TypeOK
<1>2. TypeOK' /\ Measured'
  BY <1>1, UiTyped
<1>3. Numbered'
  BY <1>1, UiNumbered DEF Numbered
<1>4. Listing'
  BY CarriedListing
<1> QED
  BY <1>2, <1>3, <1>4 DEF IInv

LEMMA CursorOK == ASSUME IInv PROVE CursorOn(cursor, items) /\ cursor \in Nat /\ Len(items) \in Nat
<1>1. items \in Seq(Rows) /\ CursorOn(cursor, items)
  BY Typed DEF IInv, TypeOK, CursorOn
<1>2. CASE items = <<>>
  BY <1>1, <1>2 DEF CursorOn
<1>3. CASE items # <<>>
  BY <1>1, <1>3 DEF CursorOn
<1> QED
  BY <1>1, <1>2, <1>3

\* The keys that move between modes, move the cursor or do nothing.
LEMMA PlainKeys ==
  ASSUME IInv,
         \/ DismissMessage \/ LeaveText \/ PickerCancel \/ OpenAdd \/ Move
         \/ \E md \in {"List", "Picker", "AskUrl", "AskDest"} : Ignored(md)
  PROVE  IInv'
<1>1. /\ ~quit /\ UNCHANGED <<items, queue, quit, w, result, nextId, deferred>>
      /\ chan # <<>> /\ IsKey(Head(chan)) /\ chan' = Tail(chan)
  BY DEF DismissMessage, LeaveText, PickerCancel, OpenAdd, Move, Ignored, KeyIn, UiRuns, GoTo, ui
<1>2. mode' = mode \/ mode' \in {"List", "AskUrl", "AskDest", "Resolving"}
  BY DEF DismissMessage, LeaveText, PickerCancel, OpenAdd, Move, Ignored, GoTo, ui
<1>3. mode \in Modes /\ deferred \in Seq(Events) /\ (mode = "Picker" => nextId <= MaxJobs)
  BY DEF IInv, TypeOK, Numbered, Modes
<1>4. CursorOn(cursor', items)
  <2>1. CASE Move
    <3>1. items \in Seq(Rows) /\ (items = <<>> => cursor = 0) /\ (items # <<>> => cursor < Len(items))
      BY Typed DEF IInv, TypeOK
    <3>2. cursor' \in {IF cursor > 0 THEN cursor - 1 ELSE 0,
                       IF cursor + 1 < Len(items) THEN cursor + 1 ELSE cursor}
      BY <2>1 DEF Move
    <3>3. CASE items = <<>>
      BY <3>1, <3>2, <3>3 DEF CursorOn
    <3>4. CASE items # <<>>
      BY <3>1, <3>2, <3>4, CursorOK DEF CursorOn
    <3> QED
      BY <3>3, <3>4
  <2>2. CASE ~Move
    <3>1. cursor' = cursor
      BY <2>2 DEF DismissMessage, LeaveText, PickerCancel, OpenAdd, Ignored, ui
    <3> QED
      BY <3>1, CursorOK
  <2> QED
    BY <2>1, <2>2
<1> QED
  BY <1>1, <1>2, <1>3, <1>4, KeyTaken, UiListKept DEF Modes

\* Nothing waits that did not, nor in another order.
LEMMA WaitingKept == ASSUME Waiting' = Waiting PROVE \A id, st : Carries(id, st, st)
  BY DEF Carries

LEMMA ResolveSteps == ASSUME IInv, ResolveFails \/ ResolvedFolder PROVE IInv'
<1>1. /\ ~quit /\ UNCHANGED <<items, cursor, queue, chan, quit, w, result, nextId, deferred>>
      /\ mode' \in {"Message", "Picker"} /\ (mode' = "Picker" => nextId <= MaxJobs)
  BY DEF ResolveFails, ResolvedFolder, GoTo
<1>2. deferred \in Seq(Events) /\ chan \in Streams
  BY Typed DEF IInv, TypeOK
<1> QED
  BY <1>1, <1>2, WaitingSame, WaitingKept, CursorOK, UiListKept DEF Modes

LEMMA DeferStep == ASSUME IInv, Defer PROVE IInv'
<1>1. /\ ~quit /\ UNCHANGED <<items, cursor, mode, queue, quit, w, result, nextId>>
  BY DEF Defer, UiRuns
<1>2. mode \in Modes /\ (mode = "Picker" => nextId <= MaxJobs)
  BY DEF IInv, TypeOK, Numbered, Modes
<1> QED
  BY <1>1, <1>2, DeferCarries, WaitingKept, CursorOK, UiListKept

LEMMA ReaderStep == ASSUME IInv, PressKey PROVE IInv'
<1>1. /\ ~quit /\ UNCHANGED <<items, cursor, mode, deferred, queue, quit, w, result, nextId>>
      /\ chan' = Append(chan, Key)
  BY DEF PressKey, ui
<1>2. /\ mode \in Modes /\ (mode = "Picker" => nextId <= MaxJobs) /\ deferred \in Seq(Events)
      /\ chan \in Streams /\ Waiting \in Streams /\ chan' \in Streams
  BY <1>1, Typed DEF IInv, TypeOK, Numbered, Modes, Streams
<1>3. /\ Waiting' = Append(Waiting, Key) /\ Waiting' = Waiting \o <<Key>> /\ <<Key>> \in Streams
      /\ ToSet(Waiting') = ToSet(Waiting) \cup {Key}
  BY <1>1, WaitingMore DEF IInv
<1>4. ASSUME NEW id, NEW st PROVE Carries(id, st, st)
  <2>1. StatusOnce(id, st, Waiting \o <<Key>>) = StatusOnce(id, StatusOnce(id, st, Waiting), <<Key>>)
    BY <1>2, <1>3, OnceConcat
  <2>2. StatusOnce(id, StatusOnce(id, st, Waiting), <<Key>>) = StatusOnce(id, st, Waiting)
    BY KeyIsKey, OnceSingle
  <2>3. /\ Advances(id, st, Waiting) => Advances(id, st, Append(Waiting, Key))
        /\ \A m : Below(id, st, Waiting, m) => Below(id, st, Append(Waiting, Key), m)
    BY <1>2, KeyIsKey, FiguresAppend
  <2> QED
    BY <1>3, <2>1, <2>2, <2>3 DEF Carries
<1> QED
  BY <1>1, <1>2, <1>3, <1>4, KeyIsKey, CursorOK, UiListKept

\* The steps that bring the list up to date.
LEMMA ApplySteps == ASSUME IInv, Drain \/ ReceiveEvent PROVE IInv'
<1>1. /\ ~quit /\ UNCHANGED <<cursor, mode, queue, quit, w, result, nextId>>
      /\ deferred' \in Seq(Events)
  <2>1. <<>> \in Seq(Events)
    OBVIOUS
  <2>2. CASE Drain
    BY <2>1, <2>2 DEF Drain, UiRuns
  <2>3. CASE ReceiveEvent
    BY <2>1, <2>3 DEF ReceiveEvent, UiRuns
  <2> QED
    BY <2>2, <2>3
<1>2. /\ mode \in Modes /\ (mode = "Picker" => nextId <= MaxJobs) /\ nextId \in 1..(MaxJobs + 1)
      /\ chan \in Streams /\ queue \in Seq(Jobs) /\ items \in Seq(Rows) /\ quit \in BOOLEAN /\ Numbered
  BY Typed, Bounds DEF IInv, TypeOK, Numbered, Modes
<1>3. /\ items' \in Seq(Rows) /\ Len(items') = Len(items) /\ chan' \in Streams
      /\ ToSet(Waiting') \subseteq ToSet(Waiting)
      /\ \A i \in 1..Len(items) : /\ items'[i].id = items[i].id
                                 /\ Carries(items[i].id, items[i].status, items'[i].status)
  <2>1. CASE Drain
    BY <1>2, <2>1, DrainCarries DEF Drain
  <2>2. CASE ReceiveEvent
    BY <2>2, ReceiveCarries
  <2> QED
    BY <2>1, <2>2
<1>4. /\ DOMAIN items' = 1..Len(items) /\ DOMAIN items = 1..Len(items)
      /\ (items' = <<>> <=> items = <<>>)
  BY <1>2, <1>3
<1>5. Rising(items') /\ IdsOf(items') = IdsOf(items)
  BY <1>2, <1>3, <1>4 DEF Numbered, Rising, IdsOf
<1>6. TypeOK' /\ Measured'
  <2>1. CursorOn(cursor', items')
    BY <1>1, <1>3, <1>4, CursorOK DEF CursorOn
  <2> QED
    BY <1>1, <1>2, <1>3, <2>1, UiTyped
<1>7. Numbered'
  BY <1>1, <1>2, <1>3, <1>5, UiNumbered DEF Numbered
<1>8. Listing'
  BY <1>1, <1>3, <1>4, CarriedListing
<1> QED
  BY <1>6, <1>7, <1>8 DEF IInv

LEMMA QuitStep == ASSUME IInv, Quit PROVE IInv'
<1>1. /\ ~quit /\ quit' = TRUE /\ items' = <<>> /\ cursor' = 0 /\ chan' = <<>> /\ deferred = <<>>
      /\ UNCHANGED <<mode, deferred, nextId, queue, w, result>>
  BY DEF Quit, UiRuns
<1>2. /\ mode \in Modes /\ nextId \in 1..(MaxJobs + 1) /\ queue \in Seq(Jobs) /\ Numbered
      /\ <<>> \in Seq(Rows) /\ <<>> \in Streams /\ deferred \in Seq(Events)
  BY Typed, Bounds DEF IInv, TypeOK, Modes, Streams
<1>3. Waiting' = <<>> /\ ToSet(Waiting') = {} /\ Rising(items') /\ IdsOf(items') = {}
  BY <1>1 DEF Waiting, ToSet, Rising, IdsOf
<1>4. TypeOK' /\ Measured'
  BY <1>1, <1>2, UiTyped DEF CursorOn
<1>5. Numbered'
  BY <1>1, <1>2, <1>3 DEF Numbered
<1>6. Listing'
  BY <1>1 DEF Listing
<1> QED
  BY <1>4, <1>5, <1>6 DEF IInv

LEMMA RemoveStep == ASSUME IInv, RemoveItem PROVE IInv'
<1> DEFINE at == cursor + 1
           id == items[at].id
<1>1. /\ ~quit /\ UNCHANGED <<mode, deferred, nextId, quit, w, result>> /\ cursor < Len(items)
      /\ chan # <<>> /\ IsKey(Head(chan)) /\ chan' = Tail(chan)
      /\ items' = RemoveAt(items, at) /\ queue' = Without(queue, id)
      /\ cursor' = IF cursor > 0 /\ cursor >= Len(items) - 1 THEN cursor - 1 ELSE cursor
  BY DEF RemoveItem, KeyIn, UiRuns, IdAt, CursorAfter
<1>2. /\ mode \in Modes /\ (mode = "Picker" => nextId <= MaxJobs) /\ nextId \in 1..(MaxJobs + 1)
      /\ queue \in Seq(Jobs) /\ items \in Seq(Rows) /\ quit \in BOOLEAN /\ Numbered
      /\ deferred \in Seq(Events)
  BY Typed, Bounds DEF IInv, TypeOK, Numbered, Modes
<1>3. at \in 1..Len(items)
  BY <1>1, CursorOK
<1> HIDE DEF at
<1>4. /\ items' \in Seq(Rows) /\ Len(items') = Len(items) - 1
      /\ \A k \in 1..(Len(items) - 1) : items'[k] = items[IF k < at THEN k ELSE k + 1]
      /\ Rising(items') /\ IdsOf(items') = IdsOf(items) \ {id}
  <2>1. \A x \in Rows : x.id \in Nat
    BY RowIds
  <2>2. Rising(items)
    BY <1>2 DEF Numbered
  <2>3. /\ RemoveAt(items, at) \in Seq(Rows) /\ Len(RemoveAt(items, at)) = Len(items) - 1
        /\ \A k \in 1..(Len(items) - 1) : RemoveAt(items, at)[k] = items[IF k < at THEN k ELSE k + 1]
    BY <1>2, <1>3, Removed
  <2>4. Rising(RemoveAt(items, at)) /\ IdsOf(RemoveAt(items, at)) = IdsOf(items) \ {id}
    BY <1>2, <1>3, <2>1, <2>2, RisingRemove
  <2> QED
    BY <1>1, <2>3, <2>4
<1>5. queue' \in Seq(Jobs) /\ Rising(queue') /\ IdsOf(queue') = IdsOf(queue) \ {id}
  <2> HIDE DEF id
  <2> QED
    BY <1>1, <1>2, Withdrawn, RowIds DEF Numbered
<1>6. CursorOn(cursor', items')
  <2>1. CASE Len(items) = 1
    <3>1. items' = <<>> /\ cursor = 0
      BY <1>1, <1>4, <2>1, CursorOK
    <3> QED
      BY <1>1, <3>1 DEF CursorOn
  <2>2. CASE Len(items) # 1
    <3>1. items' # <<>> /\ cursor' \in 0..(Len(items) - 2)
      BY <1>1, <1>4, <2>2, CursorOK
    <3> QED
      BY <1>4, <3>1, CursorOK DEF CursorOn
  <2> QED
    BY <2>1, <2>2
<1>7. TypeOK' /\ Measured'
  BY <1>1, <1>2, <1>4, <1>5, <1>6, KeyTaken, UiTyped
<1>8. Numbered'
  <2>1. IdsOf(queue) \subseteq IdsOf(items)
    BY <1>1, <1>2 DEF Numbered
  <2> HIDE DEF id
  <2> QED
    BY <1>1, <1>2, <1>4, <1>5, <2>1, KeyTaken, UiNumbered
<1>9. Listing'
  <2>1. ASSUME NEW j \in DOMAIN items'
        PROVE  \E i \in DOMAIN items :
                 /\ items'[j].id = items[i].id
                 /\ Carries(items[i].id, items[i].status, items'[j].status)
    <3>1. j \in 1..(Len(items) - 1) /\ Len(items) \in Nat
      BY <1>4, CursorOK
    <3>2. (IF j < at THEN j ELSE j + 1) \in 1..Len(items)
      BY <1>3, <3>1
    <3>3. PICK i \in 1..Len(items) : items'[j] = items[i]
      BY <1>4, <3>1, <3>2
    <3> QED
      BY <1>1, <1>2, <3>3, KeyTaken
  <2> QED
    BY <1>1, <2>1, CarriedListing
<1> QED
  BY <1>7, <1>8, <1>9 DEF IInv

\* An item is given the next id, of which nothing has been heard.
LEMMA AddStep ==
  ASSUME IInv, ~quit, UNCHANGED <<quit, w, result>>, nextId <= MaxJobs,
         NEW files \in 0..Folder, NEW sel \in 0..Folder, NEW wanted \in 0..Folder,
         Add(files, sel, wanted),
         chan' \in Streams, \A e \in ToSet(Waiting') : ~IsKey(e) => e \in ToSet(Waiting),
         \A id, st : Carries(id, st, st)
  PROVE  IInv'
<1>1. /\ mode \in Modes /\ nextId \in Ids /\ nextId + 1 \in 1..(MaxJobs + 1) /\ deferred \in Seq(Events)
      /\ queue \in Seq(Jobs) /\ items \in Seq(Rows) /\ quit \in BOOLEAN /\ Numbered
  <2>1. nextId \in 1..(MaxJobs + 1) /\ MaxJobs \in Nat
    BY Bounds
  <2>2. nextId \in Ids /\ nextId + 1 \in 1..(MaxJobs + 1)
    BY <2>1 DEF Ids
  <2>3. TypeOK /\ Numbered
    BY DEF IInv
  <2>4. mode \in Modes /\ deferred \in Seq(Events) /\ quit \in BOOLEAN
    BY <2>3 DEF TypeOK, Modes
  <2> QED
    BY <2>2, <2>3, <2>4, Typed
<1>2. CASE sel = 0 /\ files = 0
  <2>1. UNCHANGED <<items, cursor, queue, deferred, nextId>> /\ mode' = "Message"
    BY <1>2 DEF Add, GoTo
  <2> QED
    BY <1>1, <2>1, CursorOK, UiListKept DEF Modes
<1>3. CASE ~(sel = 0 /\ files = 0)
  <2> DEFINE row == [id |-> nextId, status |-> [kind |-> "Queued", done |-> 0]]
             job == [id |-> nextId, files |-> files, selected |-> sel, wanted |-> wanted]
             st0 == [kind |-> "Queued", done |-> 0]
  <2>1. /\ items' = Append(items, row) /\ queue' = Append(queue, job) /\ cursor' = Len(items)
        /\ nextId' = nextId + 1 /\ mode' = "List" /\ deferred' = deferred
    BY <1>3 DEF Add
  <2>2. row \in Rows /\ job \in Jobs /\ row.id = nextId /\ job.id = nextId /\ st0 \in Statuses
        /\ row.status = st0 /\ st0.kind = "Queued" /\ st0.done = 0
    BY <1>1, Bounds DEF Rows, Statuses, Jobs, Kinds
  <2> HIDE DEF row, job, st0
  <2>3. /\ \A i \in IdsOf(items) : i < nextId
        /\ \A i \in IdsOf(queue) : i < nextId
    BY <1>1 DEF Numbered, Ids
  <2>4. /\ items' \in Seq(Rows) /\ queue' \in Seq(Jobs)
        /\ Rising(items') /\ IdsOf(items') = IdsOf(items) \cup {nextId}
        /\ Rising(queue') /\ IdsOf(queue') = IdsOf(queue) \cup {nextId}
    <3>1. Rising(items) /\ Rising(queue)
      BY <1>1 DEF Numbered
    <3>2. Append(items, row) \in Seq(Rows) /\ Append(queue, job) \in Seq(Jobs)
      BY <1>1, <2>2
    <3>3. Rising(Append(items, row)) /\ IdsOf(Append(items, row)) = IdsOf(items) \cup {row.id}
      BY <1>1, <2>2, <2>3, <3>1, RowIds, RisingAppend
    <3>4. Rising(Append(queue, job)) /\ IdsOf(Append(queue, job)) = IdsOf(queue) \cup {job.id}
      BY <1>1, <2>2, <2>3, <3>1, RowIds, RisingAppend
    <3> QED
      BY <2>1, <2>2, <3>2, <3>3, <3>4
  <2>5. /\ Len(items) \in Nat /\ Len(items') = Len(items) + 1 /\ DOMAIN items = 1..Len(items)
        /\ DOMAIN items' = 1..(Len(items) + 1) /\ items'[Len(items) + 1] = row
        /\ \A k \in 1..Len(items) : items'[k] = items[k]
    BY <1>1, <2>1
  <2>6. TypeOK' /\ Measured'
    <3>1. items' # <<>> /\ CursorOn(cursor', items')
      BY <2>1, <2>5 DEF CursorOn
    <3> QED
      BY <1>1, <2>1, <2>4, <3>1, UiTyped DEF Modes
  <2>7. Numbered'
    <3>1. nextId \in Nat /\ nextId # 0 /\ nextId \in 1..nextId /\ (nextId + 1) - 1 = nextId
          /\ 1..(nextId - 1) \subseteq 1..nextId
      BY <1>1 DEF Ids
    <3>2. IdsOf(items') \subseteq 1..nextId /\ IdsOf(queue') \subseteq 1..nextId
      BY <1>1, <2>4, <3>1 DEF Numbered
    <3>3. w.job.id < nextId + 1 /\ \A i \in IdsOf(queue') : w.job.id < i
      <4>1. w.job.id < nextId /\ w.job.id \in Nat /\ \A i \in IdsOf(queue) : w.job.id < i
        BY <1>1, Bounds DEF Numbered
      <4> QED
        BY <2>4, <3>1, <4>1
    <3>4. \A e \in ToSet(Waiting') : ~IsKey(e) => e.id < nextId + 1 /\ \A i \in IdsOf(queue') : e.id < i
      <4>1. ASSUME NEW e \in ToSet(Waiting'), ~IsKey(e)
            PROVE  e.id < nextId /\ e.id < nextId + 1 /\ \A i \in IdsOf(queue) : e.id < i
        <5>1. e \in ToSet(Waiting) /\ Waiting \in Streams
          BY <4>1, Typed DEF IInv
        <5>2. e.id \in Nat
          <6>1. e \in Events
            BY <4>1, <5>1, StreamElement DEF ToSet
          <6> QED
            BY <6>1, EventFacts DEF Ids
        <5> QED
          BY <1>1, <3>1, <4>1, <5>1, <5>2 DEF Numbered
      <4> QED
        BY <2>4, <4>1
    <3>5. \A id \in Ids : result[id] # "none" =>
            id < nextId + 1 /\ id # w.job.id /\ \A i \in IdsOf(queue') : id < i
      BY <1>1, <2>4, <3>1 DEF Numbered, Ids
    <3>6. IdsOf(queue') \subseteq IdsOf(items')
      BY <1>1, <2>4 DEF Numbered
    <3>7. w.pc \in {"pop", "stopped"} <=> w.job.id = 0
      BY <1>1 DEF Numbered
    <3> QED
      BY <2>1, <2>4, <3>1, <3>2, <3>3, <3>4, <3>5, <3>6, <3>7 DEF Numbered
  <2>8. ASSUME NEW id, id = nextId PROVE Told(id, st0)' /\ Climbs(id, st0)'
    <3>1. Due(id, Waiting') = {}
      <4>1. ASSUME NEW k \in Due(id, Waiting') PROVE FALSE
        <5>1. Waiting'[k] \in ToSet(Waiting') /\ ~IsKey(Waiting'[k]) /\ Waiting'[k].id = id
          BY <4>1 DEF Due, ToSet
        <5>2. id < nextId
          BY <1>1, <5>1 DEF Numbered
        <5> QED
          BY <1>1, <2>8, <5>2 DEF Ids
      <4> QED
        BY <4>1
    <3>2. Truth(id)' = {"Queued"}
      <4>1. id < nextId => FALSE
        BY <1>1, <2>8 DEF Ids
      <4>2. result[id] = "none" /\ w.job.id # id
        BY <1>1, <2>8, <4>1 DEF Numbered
      <4> QED
        BY <4>2 DEF Truth
    <3>3. Told(id, st0)'
      BY <2>2, <3>1, <3>2 DEF Told, StatusOnce
    <3>4. Advances(id, st0, Waiting') /\ \A m : Below(id, st0, Waiting', m)
      BY <2>2, <3>1 DEF Advances, Below, Reports
    <3> QED
      BY <3>3, <3>4 DEF Climbs
  <2>9. Listing'
    <3>1. ASSUME NEW j \in DOMAIN items'
          PROVE  (Told(items[j].id, items[j].status) /\ Climbs(items[j].id, items[j].status))'
      <4>1. PICK id, st : id = items'[j].id /\ st = items'[j].status
        OBVIOUS
      <4>2. CASE j = Len(items) + 1
        BY <2>2, <2>5, <2>8, <4>1, <4>2
      <4>3. CASE j # Len(items) + 1
        <5>1. j \in 1..Len(items) /\ id = items[j].id /\ st = items[j].status
          BY <2>5, <4>1, <4>3
        <5>2. Told(id, st) /\ Climbs(id, st)
          BY <2>5, <5>1 DEF IInv, Listing
        <5>3. Told(id, st)' /\ Climbs(id, st)'
          BY <5>2, CarriedRow
        <5> QED
          BY <4>1, <5>3
      <4> QED
        BY <4>2, <4>3
    <3> QED
      BY <3>1 DEF Listing
  <2> QED
    BY <2>6, <2>7, <2>9 DEF IInv
<1> QED
  BY <1>2, <1>3

LEMMA AddSteps == ASSUME IInv, ResolvedSimple \/ PickerEnter PROVE IInv'
<1>0. Folder \in Nat /\ Folder > 1 /\ deferred \in Seq(Events) /\ chan \in Streams /\ Numbered
  BY TuiAssumption, Typed DEF IInv, TypeOK
<1>1. CASE ResolvedSimple
  <2>1. /\ ~quit /\ UNCHANGED <<chan, quit, w, result>> /\ nextId <= MaxJobs
        /\ \E files \in 0..Folder : Add(files, 0, files)
    BY <1>0, <1>1 DEF ResolvedSimple
  <2>2. 0 \in 0..Folder /\ deferred' = deferred
    BY <1>0, <2>1 DEF Add, GoTo
  <2>3. chan' \in Streams /\ Waiting' = Waiting /\ \A id, st : Carries(id, st, st)
    BY <1>0, <2>1, <2>2, WaitingSame, WaitingKept
  <2> QED
    BY <2>1, <2>2, <2>3, AddStep
<1>2. CASE PickerEnter
  <2>1. /\ ~quit /\ UNCHANGED <<quit, w, result>> /\ mode = "Picker"
        /\ chan # <<>> /\ IsKey(Head(chan)) /\ chan' = Tail(chan)
    BY <1>2 DEF PickerEnter, KeyIn, UiRuns
  <2>2. PICK ticked \in 0..Folder : Add(Folder, ticked, ticked)
    BY <1>2 DEF PickerEnter
  <2>3. Folder \in 0..Folder /\ deferred' = deferred /\ nextId <= MaxJobs
    BY <1>0, <2>1, <2>2 DEF Add, GoTo, Numbered
  <2> QED
    BY <2>1, <2>2, <2>3, KeyTaken, AddStep
<1> QED
  BY <1>1, <1>2

-----------------------------------------------------------------------------
(* The invariant, and what follows.                                        *)

LEMMA InitHolds == ASSUME Init PROVE IInv
<1>1. /\ MaxJobs \in Nat /\ Folder \in Nat /\ FileSize \in Nat /\ Total \in Nat
  BY TuiAssumption DEF Total
<1>2. Waiting = <<>> /\ ToSet(Waiting) = {} /\ Rising(items) /\ IdsOf(items) = {}
      /\ Rising(queue) /\ IdsOf(queue) = {}
  BY DEF Init, Waiting, ToSet, Rising, IdsOf
<1>3. w \in Works /\ w.pc = "pop" /\ w.job.id = 0 /\ w.left = 0 /\ w.base = 0 /\ w.pos = 0
  BY <1>1 DEF Init, Works, NoJob
<1>4. TypeOK
  <2>1. /\ <<>> \in Seq([id : Ids, status : [kind : Kinds, done : 0..Total]])
        /\ <<>> \in Seq(Events) /\ <<>> \in Seq(Events \cup {Key}) /\ <<>> \in Seq(Jobs)
    OBVIOUS
  <2>2. result \in [Ids -> {"none", "ok", "failed", "cancelled"}]
    BY DEF Init
  <2>3. 1 \in 1..(MaxJobs + 1) /\ 0 \in {0}
    BY <1>1
  <2>4. w \in [pc : DOMAIN AtWork \cup {"pop", "stopped"}, job : Jobs \cup {NoJob},
              left : 0..Folder, base : 0..Total, pos : 0..FileSize]
    BY <1>3 DEF Works
  <2>5. /\ items = <<>> /\ cursor = 0 /\ mode = "List" /\ deferred = <<>> /\ nextId = 1
        /\ chan = <<>> /\ queue = <<>> /\ quit = FALSE
    BY DEF Init
  <2> QED
    BY <2>1, <2>2, <2>3, <2>4, <2>5 DEF TypeOK
<1>5. Numbered
  BY <1>1, <1>2, <1>3 DEF Init, Numbered
<1>6. Measured
  BY <1>1, <1>3 DEF Measured
<1>7. Listing
  BY DEF Init, Listing
<1> QED
  BY <1>4, <1>5, <1>6, <1>7 DEF IInv

LEMMA StepHolds == ASSUME IInv, [Next]_vars PROVE IInv'
<1>1. CASE UNCHANGED vars
  <2>1. UNCHANGED <<items, cursor, mode, deferred, nextId, chan, queue, quit, w, result>>
    BY <1>1 DEF vars, ui
  <2>2. quit' = quit /\ Waiting' = Waiting /\ \A id : Truth(id)' = Truth(id)
    BY <2>1 DEF Waiting, Truth
  <2> QED
    BY <2>1, <2>2 DEF IInv, TypeOK, Numbered, Measured, Listing, Told, Climbs, Total, Events
<1>2. CASE Worker
  BY <1>2, WorkerTypeStep, WorkerNumbered, WorkerListing DEF IInv
<1>3. CASE UiKey
  BY <1>3, PlainKeys, AddSteps, RemoveStep, QuitStep DEF UiKey
<1>4. CASE UiOwn
  BY <1>4, ApplySteps, DeferStep, ResolveSteps, AddSteps DEF UiOwn
<1>5. CASE PressKey
  BY <1>5, ReaderStep
<1> QED
  BY <1>1, <1>2, <1>3, <1>4, <1>5 DEF Next

THEOREM Inductive == Spec => []IInv
<1>1. Init => IInv
  BY InitHolds
<1>2. IInv /\ [Next]_vars => IInv'
  BY StepHolds
<1> QED
  BY <1>1, <1>2, PTL DEF Spec

\* Every variable keeps to its type, and the cursor to a row of the list
\* (tui.rs:228-246).
THEOREM TuiTyped == Spec => []TypeOK
<1>1. IInv => TypeOK
  BY DEF IInv
<1> QED
  BY <1>1, Inductive, PTL

\* However the worker's events are split between the loop and the picker, the
\* list ends up at the truth (tui.rs:154-156, 288-296).
THEOREM ListCatchesUp == Spec => []StatusCoherent
<1>1. IInv => StatusCoherent
  BY DEF IInv, Listing, Told, StatusCoherent, CaughtUp, ToSet
<1> QED
  BY <1>1, Inductive, PTL

\* No job is waiting that the user does not see, and no row is there twice
\* (tui.rs:236-245).
THEOREM PendingAlwaysListed == Spec => []PendingIsListed
<1>1. IInv => PendingIsListed
  <2> SUFFICES ASSUME IInv PROVE PendingIsListed
    OBVIOUS
  <2>1. items \in Seq(Rows) /\ queue \in Seq(Jobs) /\ Rising(items)
        /\ (~quit => IdsOf(queue) \subseteq IdsOf(items))
    BY Typed DEF IInv, Numbered
  <2>2. /\ ToSet([i \in DOMAIN queue |-> queue[i].id]) = IdsOf(queue)
        /\ ToSet([i \in DOMAIN items |-> items[i].id]) = IdsOf(items)
    BY DEF ToSet, IdsOf
  <2>3. ASSUME NEW i \in DOMAIN items, NEW j \in DOMAIN items, items[i].id = items[j].id
        PROVE  i = j
    <3>1. i \in Nat /\ j \in Nat /\ items[i].id \in Nat
      BY <2>1, RowIds
    <3>2. ~(i < j) /\ ~(j < i)
      BY <2>1, <2>3, <3>1 DEF Rising
    <3> QED
      BY <3>1, <3>2
  <2>4. IsInjective([i \in DOMAIN items |-> items[i].id])
    BY <2>3 DEF IsInjective
  <2> QED
    BY <2>1, <2>2, <2>4 DEF PendingIsListed
<1> QED
  BY <1>1, Inductive, PTL

\* A bar never moves back, over all the files of its item (tui.rs:393-409).
THEOREM BarsAdvance == Spec => []BarAdvances
<1>1. IInv => BarAdvances
  BY DEF IInv, Listing, Climbs, BarAdvances, ToSet
<1> QED
  BY <1>1, Inductive, PTL
=============================================================================
