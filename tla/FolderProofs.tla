---------------------------- MODULE FolderProofs ----------------------------
(***************************************************************************)
(* Proofs about Folder and Selection, for every list of nodes a server may *)
(* send and every choice among them: the walk below the root adds no node  *)
(* twice and leaves none out; the sort only reorders what it has reached,  *)
(* with the root first; climbing from what was reached comes to the root.  *)
(* A node's path begins with the paths of the folders it is in, and with   *)
(* no others that end in a slash: so files_under finds a node's files, the *)
(* picker's run of deeper rows is a folder's subtree, plan's jobs are the  *)
(* files of what was named, and no two have one place on the disk.         *)
(***************************************************************************)
EXTENDS Selection, SequenceTheorems, FiniteSetTheorems, FunctionTheorems, TLAPS

\* Where the walk is: the node it stands on is in its list, or the last was.
Standing ==
  /\ Len(raw) \in Nat /\ reach \in Seq(Handles \cup {root})
  /\ at \in Nat \ {0} /\ last \in Nat
  /\ pc = "read" => reach = <<>> /\ at = 1 /\ last = 0

\* A node after the first was added below a node the walk has come to, and if
\* that is the one it stands on, no later than the last that was added.
AddedBelow(m) ==
  /\ reach[m] # root
  /\ \E k \in 1..Len(reach) :
       /\ k <= at /\ parent[reach[m]] = reach[k]
       /\ k = at => reach[m] <= last

WalkInv ==
  /\ Standing
  /\ Len(reach) > 0 => reach[1] = root
  /\ \A m \in 2..Len(reach) : AddedBelow(m)
  /\ \A m, n \in 1..Len(reach) : reach[m] = reach[n] => m = n

LEMMA HandlesAreNumbers == raw \in Seq(RawNode) => Handles = 1..Len(raw) /\ Len(raw) \in Nat
  BY DEF Handles

LEMMA WalkInit == Init => WalkInv
<1> SUFFICES ASSUME Init PROVE WalkInv
  OBVIOUS
<1>1. raw \in Seq(RawNode)
  BY FolderAssumption DEF Init
<1>2. Len(reach) = 0 /\ reach \in Seq(Handles \cup {root})
  BY DEF Init
<1> QED
  BY <1>1, <1>2, HandlesAreNumbers DEF Init, WalkInv, Standing

\* The root alone is a list without a second node.
LEMMA WalkStarts == WalkInv /\ FindRoot => WalkInv'
<1> SUFFICES ASSUME WalkInv, FindRoot PROVE WalkInv'
  OBVIOUS
<1>1. reach' = <<root'>> /\ Len(reach') = 1 /\ reach' \in Seq(Handles' \cup {root'})
  BY DEF FindRoot
<1>2. Standing'
  BY <1>1 DEF FindRoot, WalkInv, Standing
<1> QED
  BY <1>1, <1>2 DEF WalkInv

\* A child that was added before would stand after `last', or have another
\* parent: the list stays without a repetition.
LEMMA WalkPushes == WalkInv /\ PushChild => WalkInv'
<1> SUFFICES ASSUME WalkInv, PushChild PROVE WalkInv'
  OBVIOUS
<1>1. PICK c \in Unvisited : reach' = Append(reach, c) /\ last' = c
  BY DEF PushChild
<1>2. c \in Handles /\ c \in Nat /\ c # root /\ parent[c] = reach[at] /\ c > last
  BY DEF Unvisited, Children, Handles, WalkInv, Standing
<1>3. /\ Len(reach) \in Nat /\ at \in 1..Len(reach) /\ last \in Nat
      /\ reach \in Seq(Handles \cup {root})
  BY DEF PushChild, WalkInv, Standing
<1>4. /\ Len(reach') = Len(reach) + 1
      /\ \A m \in 1..Len(reach) : reach'[m] = reach[m]
      /\ reach'[Len(reach) + 1] = c
  BY <1>1, <1>2, <1>3, AppendProperties
<1>5. reach' \in Seq(Handles' \cup {root'}) /\ Handles' = Handles
  BY <1>1, <1>2, <1>3, AppendProperties DEF PushChild, Handles
<1>6. UNCHANGED <<raw, root, parent, at>> /\ pc' = "walk"
  BY DEF PushChild
<1>7. Standing'
  BY <1>1, <1>2, <1>3, <1>5, <1>6 DEF WalkInv, Standing
<1>8. \A m \in 1..Len(reach) : reach[m] # c
  <2> SUFFICES ASSUME NEW m \in 1..Len(reach), reach[m] = c PROVE FALSE
    OBVIOUS
  <2>1. m # 1
    BY <1>2, <1>3 DEF WalkInv
  <2>2. PICK k \in 1..Len(reach) :
          parent[c] = reach[k] /\ (k = at => c <= last)
    BY <2>1, <1>3 DEF WalkInv, AddedBelow
  <2>3. k = at
    BY <2>2, <1>2, <1>3 DEF WalkInv
  <2> QED
    BY <2>2, <2>3, <1>2, <1>3
<1>9. ASSUME NEW m \in 2..Len(reach') PROVE AddedBelow(m)'
  <2>1. CASE m = Len(reach) + 1
    BY <2>1, <1>1, <1>2, <1>3, <1>4, <1>6 DEF AddedBelow
  <2>2. CASE m # Len(reach) + 1
    <3>1. m \in 2..Len(reach)
      BY <2>2, <1>3, <1>4
    <3>2. reach[m] # root
      BY <3>1 DEF WalkInv, AddedBelow
    <3>3. PICK k \in 1..Len(reach) :
            k <= at /\ parent[reach[m]] = reach[k] /\ (k = at => reach[m] <= last)
      BY <3>1 DEF WalkInv, AddedBelow
    <3>4. reach[m] \in Nat
      BY <3>1, <3>2, <1>3 DEF WalkInv, Standing, Handles
    <3> QED
      BY <3>1, <3>2, <3>3, <3>4, <1>1, <1>2, <1>3, <1>4, <1>6 DEF AddedBelow
  <2> QED
    BY <2>1, <2>2
<1>10. Len(reach') > 0 => reach'[1] = root'
  BY <1>3, <1>4, <1>6 DEF WalkInv
<1>11. \A m, n \in 1..Len(reach') : reach'[m] = reach'[n] => m = n
  BY <1>3, <1>4, <1>8 DEF WalkInv
<1> QED
  BY <1>7, <1>9, <1>10, <1>11 DEF WalkInv

\* The next node has no child in the list yet.
LEMMA WalkGoesOn == WalkInv /\ NextNode => WalkInv'
<1> SUFFICES ASSUME WalkInv, NextNode PROVE WalkInv'
  OBVIOUS
<1>1. /\ UNCHANGED <<raw, root, parent, reach, Handles>>
      /\ at' = at + 1 /\ last' = 0 /\ pc = "walk" /\ pc' = "walk"
  BY DEF NextNode, Handles
<1>2. Standing'
  BY <1>1 DEF WalkInv, Standing
<1>3. ASSUME NEW m \in 2..Len(reach) PROVE AddedBelow(m)'
  <2>1. at \in Nat /\ AddedBelow(m)
    BY DEF WalkInv, Standing
  <2>2. PICK k \in 1..Len(reach) : k <= at /\ parent[reach[m]] = reach[k]
    BY <2>1 DEF AddedBelow
  <2>3. k \in 1..Len(reach') /\ k <= at' /\ k # at'
    BY <2>1, <2>2, <1>1
  <2> QED
    BY <2>1, <2>2, <2>3, <1>1 DEF AddedBelow
<1> QED
  BY <1>1, <1>2, <1>3 DEF WalkInv

LEMMA WalkStep == WalkInv /\ [Next]_vars => WalkInv'
<1> SUFFICES ASSUME WalkInv, [Next]_vars PROVE WalkInv'
  OBVIOUS
<1>1. CASE FindRoot
  BY <1>1, WalkStarts
<1>2. CASE PushChild
  BY <1>2, WalkPushes
<1>3. CASE NextNode
  BY <1>3, WalkGoesOn
<1>4. CASE Fail \/ Finish \/ UNCHANGED vars
  <2>1. UNCHANGED <<raw, root, parent, reach, at, last, Handles>>
    BY <1>4 DEF Fail, Finish, vars, Handles
  <2>2. pc' = "read" => pc = "read"
    BY <1>4 DEF Fail, Finish, vars
  <2> QED
    BY <2>1, <2>2 DEF WalkInv, Standing, AddedBelow
<1> QED
  BY <1>1, <1>2, <1>3, <1>4 DEF Next

\* No list, whatever parents it claims and however long, makes the walk add a
\* node twice (folder.rs:97-121): since a list is finite, the walk ends.
THEOREM NodesOnlyOnce == Spec => []EachNodeOnce
<1>1. WalkInv => EachNodeOnce
  BY DEF WalkInv, Standing, EachNodeOnce, IsInjective
<1> QED
  BY WalkInit, WalkStep, <1>1, PTL DEF Spec

-----------------------------------------------------------------------------
(* And it leaves no child out.                                             *)

\* The children of the nodes behind the walk are in the list, and of the node
\* it stands on those up to the last that was added.
Behind(k, i) == k < at \/ (k = at /\ i <= last)

Covered ==
  \A k \in 1..Len(reach) : \A i \in Handles \ {root} :
    parent[i] = reach[k] /\ Behind(k, i) => \E m \in 1..Len(reach) : reach[m] = i

CoverInv == WalkInv /\ Covered /\ (pc = "open" => at > Len(reach))

NoneLeftOut ==
  pc = "open" =>
    \A k \in 1..Len(reach) : \A i \in Handles \ {root} :
      parent[i] = reach[k] => \E m \in 1..Len(reach) : reach[m] = i

LEMMA CoverInit == Init => CoverInv
<1> SUFFICES ASSUME Init PROVE CoverInv
  OBVIOUS
<1>1. Len(reach) = 0 /\ pc # "open"
  BY DEF Init
<1> QED
  BY <1>1, WalkInit DEF CoverInv, Covered

LEMMA CoverStarts == WalkInv /\ FindRoot => Covered'
<1> SUFFICES ASSUME WalkInv, FindRoot PROVE Covered'
  OBVIOUS
<1>1. Len(reach') = 1 /\ at' = 1 /\ last' = 0 /\ raw' = raw /\ Len(raw) \in Nat
  BY DEF FindRoot, WalkInv, Standing
<1> QED
  BY <1>1 DEF Covered, Behind, Handles

\* What is added is the first child that is still missing.
LEMMA CoverPushes == CoverInv /\ PushChild => Covered'
<1> SUFFICES ASSUME CoverInv, PushChild,
                    NEW k \in 1..Len(reach'), NEW i \in Handles \ {root},
                    parent[i] = reach'[k], Behind(k, i)'
             PROVE  \E m \in 1..Len(reach') : reach'[m] = i
  BY DEF PushChild, Covered, Handles
<1>1. PICK c \in Unvisited :
        (\A d \in Unvisited : c <= d) /\ reach' = Append(reach, c) /\ last' = c
  BY DEF PushChild
<1>2. /\ Len(reach) \in Nat /\ at \in 1..Len(reach) /\ last \in Nat /\ at' = at
      /\ reach \in Seq(Handles \cup {root}) /\ i \in Nat /\ c \in Handles /\ c \in Nat
  BY DEF PushChild, CoverInv, WalkInv, Standing, Unvisited, Children, Handles
<1>3. /\ Len(reach') = Len(reach) + 1
      /\ \A m \in 1..Len(reach) : reach'[m] = reach[m]
      /\ reach'[Len(reach) + 1] = c
  BY <1>1, <1>2, AppendProperties
<1>4. CASE k \in 1..Len(reach) /\ Behind(k, i)
  <2>1. \E m \in 1..Len(reach) : reach[m] = i
    BY <1>3, <1>4 DEF CoverInv, Covered
  <2> QED
    BY <2>1, <1>2, <1>3
<1>5. CASE k = at /\ i > last
  <2>1. i \in Unvisited
    BY <1>2, <1>3, <1>5 DEF Unvisited, Children
  <2>2. c <= i /\ i <= c
    BY <2>1, <1>1, <1>2, <1>5 DEF Behind
  <2> QED
    BY <2>2, <1>2, <1>3
<1> QED
  BY <1>1, <1>2, <1>3, <1>4, <1>5, SMTT(20) DEF Behind

LEMMA CoverGoesOn == CoverInv /\ NextNode => Covered'
<1> SUFFICES ASSUME CoverInv, NextNode,
                    NEW k \in 1..Len(reach), NEW i \in Handles \ {root},
                    parent[i] = reach[k], Behind(k, i)'
             PROVE  \E m \in 1..Len(reach) : reach[m] = i
  BY DEF NextNode, Covered, Handles
<1>1. at \in Nat /\ last \in Nat /\ i \in Nat /\ i > 0 /\ at' = at + 1 /\ last' = 0
  BY DEF NextNode, CoverInv, WalkInv, Standing, Handles
<1>2. k < at \/ k = at
  BY <1>1 DEF Behind
<1>3. CASE k = at
  <2>1. i \notin Unvisited
    BY DEF NextNode
  <2>2. i <= last
    BY <2>1, <1>1, <1>3 DEF Unvisited, Children
  <2> QED
    BY <2>2, <1>3 DEF CoverInv, Covered, Behind
<1> QED
  BY <1>2, <1>3 DEF CoverInv, Covered, Behind

LEMMA CoverStep == CoverInv /\ [Next]_vars => CoverInv'
<1> SUFFICES ASSUME CoverInv, [Next]_vars PROVE CoverInv'
  OBVIOUS
<1>1. WalkInv'
  BY WalkStep DEF CoverInv
<1>2. CASE FindRoot
  BY <1>1, <1>2, CoverStarts DEF CoverInv, FindRoot
<1>3. CASE PushChild
  BY <1>1, <1>3, CoverPushes DEF CoverInv, PushChild
<1>4. CASE NextNode
  BY <1>1, <1>4, CoverGoesOn DEF CoverInv, NextNode
<1>5. CASE Fail \/ Finish \/ UNCHANGED vars
  <2>1. UNCHANGED <<raw, root, parent, reach, at, last, Handles>>
    BY <1>5 DEF Fail, Finish, vars, Handles
  <2>2. pc' = "open" => at > Len(reach)
    BY <1>5 DEF Fail, Finish, vars, CoverInv
  <2> QED
    BY <1>1, <2>1, <2>2 DEF CoverInv, Covered, Behind
<1> QED
  BY <1>2, <1>3, <1>4, <1>5 DEF Next

\* When the folder is open, the list holds every child of every node in it: with
\* what FindRoot begins with, the whole subtree of the root (folder.rs:107-121).
THEOREM NoChildLeftOut == Spec => []NoneLeftOut
<1>1. CoverInv => NoneLeftOut
  <2> SUFFICES ASSUME CoverInv, pc = "open",
                      NEW k \in 1..Len(reach), NEW i \in Handles \ {root},
                      parent[i] = reach[k]
               PROVE  \E m \in 1..Len(reach) : reach[m] = i
    BY DEF NoneLeftOut
  <2>1. at > Len(reach) /\ at \in Nat /\ Len(reach) \in Nat
    BY DEF CoverInv, WalkInv, Standing
  <2>2. Behind(k, i)
    BY <2>1 DEF Behind
  <2> QED
    BY <2>2 DEF CoverInv, Covered
<1> QED
  BY CoverInit, CoverStep, <1>1, PTL DEF Spec

-----------------------------------------------------------------------------
(* Sorting loses nothing.                                                  *)

LEMMA LeastOf ==
  ASSUME NEW T, T \subseteq Nat, T # {}
  PROVE  \E x \in T : \A y \in T : x <= y
<1> DEFINE R == OpToRel(<, Nat)
<1>1. IsWellFoundedOn(R, Nat)
  BY NatLessThanWellFounded
<1>2. \A x, y \in Nat : x < y => <<x, y>> \in R
  BY DEF OpToRel
<1> HIDE DEF R
<1>3. PICK x \in T : \A y \in T : ~ (<<y, x>> \in R)
  BY <1>1, WFMin
<1>4. \A y \in T : ~ (y < x) /\ x \in Nat /\ y \in Nat
  BY <1>2, <1>3
<1> QED
  BY <1>4

LEMMA PrefixAt ==
  ASSUME NEW a \in Seq(Nat), NEW b \in Seq(Nat)
  PROVE  IsPrefix(a, b) <=> /\ Len(a) <= Len(b)
                            /\ \A k \in 1..Len(a) : a[k] = b[k]
<1>1. Len(a) \in Nat /\ Len(b) \in Nat
  OBVIOUS
<1>2. SubSeq(a, 1, Len(a)) = a
  BY SubSeqFull
<1> SUFFICES ASSUME Len(a) <= Len(b)
             PROVE  a = SubSeq(b, 1, Len(a)) <=> \A k \in 1..Len(a) : a[k] = b[k]
  BY <1>1, <1>2 DEF IsPrefix
<1> DEFINE c == SubSeq(b, 1, Len(a))
<1>3. c \in Seq(Nat) /\ Len(c) = Len(a) /\ \A k \in 1..Len(a) : c[k] = b[k]
  <2>1. \A k \in 1..Len(a) : b[k] \in Nat
    BY <1>1
  <2> QED
    BY <1>1, <2>1, SubSeqProperties
<1> HIDE DEF c
<1>4. (\A k \in 1..Len(a) : a[k] = b[k]) => a = c
  <2> SUFFICES ASSUME \A k \in 1..Len(a) : a[k] = b[k] PROVE a = c
    OBVIOUS
  <2>1. \A k \in 1..Len(a) : a[k] = c[k]
    BY <1>3
  <2> QED
    BY <1>3, <2>1, SeqEqual
<1> QED
  BY <1>3, <1>4 DEF c

\* a is before b from the place k on: there it ends, or is smaller.
LexAt(a, b, k) ==
  /\ k \in 1..Len(b) /\ k <= Len(a) + 1
  /\ \A m \in 1..(k - 1) : a[m] = b[m]
  /\ k = Len(a) + 1 \/ a[k] < b[k]

LEMMA LexLessAt ==
  ASSUME NEW a \in Seq(Nat), NEW b \in Seq(Nat)
  PROVE  LexLess(a, b) <=> \E k \in Nat : LexAt(a, b, k)
<1>1. /\ Len(a) \in Nat /\ Len(b) \in Nat /\ DOMAIN a = 1..Len(a) /\ DOMAIN b = 1..Len(b)
      /\ \A k \in 1..Len(a) : a[k] \in Nat
      /\ \A k \in 1..Len(b) : b[k] \in Nat
  OBVIOUS
<1>2. ASSUME IsStrictPrefix(a, b) PROVE LexAt(a, b, Len(a) + 1)
  <2>1. Len(a) <= Len(b) /\ (\A k \in 1..Len(a) : a[k] = b[k]) /\ a # b
    BY <1>2, PrefixAt DEF IsStrictPrefix
  <2>2. Len(a) # Len(b)
    BY <2>1, SeqEqual
  <2>3. Len(a) + 1 \in 1..Len(b) /\ (Len(a) + 1) - 1 = Len(a)
    <3>1. Len(a) \in Nat /\ Len(b) \in Nat /\ Len(a) <= Len(b)
      BY <1>1, <2>1
    <3> QED
      BY <3>1, <2>2
  <2> QED
    BY <2>1, <2>3, <1>1 DEF LexAt
<1>3. ASSUME NEW k \in DOMAIN a \cap DOMAIN b, a[k] < b[k], \A m \in 1..(k - 1) : a[m] = b[m]
      PROVE  LexAt(a, b, k)
  BY <1>1, <1>3 DEF LexAt
<1>4. ASSUME NEW k \in Nat, LexAt(a, b, k) PROVE LexLess(a, b)
  <2>1. CASE k = Len(a) + 1
    <3>1. Len(a) < Len(b) /\ \A m \in 1..Len(a) : a[m] = b[m]
      BY <2>1, <1>1, <1>4 DEF LexAt
    <3> QED
      BY <3>1, <1>1, PrefixAt DEF LexLess, IsStrictPrefix
  <2>2. CASE k # Len(a) + 1
    <3>1. k \in DOMAIN a \cap DOMAIN b /\ a[k] < b[k] /\ \A m \in 1..(k - 1) : a[m] = b[m]
      BY <2>2, <1>1, <1>4 DEF LexAt
    <3> QED
      BY <3>1 DEF LexLess
  <2> QED
    BY <2>1, <2>2
<1> QED
  BY <1>1, <1>2, <1>3, <1>4 DEF LexLess

LEMMA LexOneWay ==
  ASSUME NEW a \in Seq(Nat), NEW b \in Seq(Nat), LexLess(a, b)
  PROVE  ~LexLess(b, a)
<1> SUFFICES ASSUME LexLess(b, a) PROVE FALSE
  OBVIOUS
<1>1. PICK k \in Nat : LexAt(a, b, k)
  BY LexLessAt
<1>2. PICK l \in Nat : LexAt(b, a, l)
  BY LexLessAt
<1>3. /\ Len(a) \in Nat /\ Len(b) \in Nat
      /\ \A i \in 1..Len(a) : a[i] \in Nat
      /\ \A i \in 1..Len(b) : b[i] \in Nat
  OBVIOUS
<1>4. CASE k < l
  <2>1. k \in 1..(l - 1) /\ k <= Len(a) /\ a[k] < b[k]
    <3>1. l \in 1..Len(a)
      BY <1>2 DEF LexAt
    <3>2. k \in 1..Len(b) /\ (k = Len(a) + 1 \/ a[k] < b[k])
      BY <1>1 DEF LexAt
    <3>3. k \in 1..(l - 1) /\ k <= Len(a) /\ k # Len(a) + 1
      BY <3>1, <3>2, <1>3, <1>4
    <3> QED
      BY <3>2, <3>3
  <2>2. a[k] = b[k] /\ a[k] \in Nat
    BY <1>1, <1>2, <1>3, <2>1 DEF LexAt
  <2> QED
    BY <2>1, <2>2
<1>5. CASE l < k
  <2>1. l \in 1..(k - 1) /\ l <= Len(b) /\ b[l] < a[l]
    BY <1>1, <1>2, <1>3, <1>5 DEF LexAt
  <2>2. a[l] = b[l] /\ b[l] \in Nat
    BY <1>1, <1>2, <1>3, <2>1 DEF LexAt
  <2> QED
    BY <2>1, <2>2
<1>6. CASE k = l
  <2>1. k \in 1..Len(a) /\ k \in 1..Len(b) /\ a[k] < b[k] /\ b[k] < a[k]
    BY <1>1, <1>2, <1>3, <1>6 DEF LexAt
  <2> QED
    BY <2>1, <1>3
<1> QED
  BY <1>4, <1>5, <1>6

LEMMA LexEither ==
  ASSUME NEW a \in Seq(Nat), NEW b \in Seq(Nat), a # b
  PROVE  LexLess(a, b) \/ LexLess(b, a)
<1> DEFINE Parts == {k \in Nat : k >= 1 /\ (k > Len(a) \/ k > Len(b) \/ a[k] # b[k])}
<1>1. /\ Len(a) \in Nat /\ Len(b) \in Nat
      /\ \A i \in 1..Len(a) : a[i] \in Nat
      /\ \A i \in 1..Len(b) : b[i] \in Nat
  OBVIOUS
<1>2. Len(a) + 1 \in Parts
  BY <1>1
<1>3. PICK k \in Parts : \A m \in Parts : k <= m
  BY <1>2, LeastOf
<1>4. k \in Nat /\ k >= 1 /\ k <= Len(a) + 1 /\ k <= Len(b) + 1
  BY <1>1, <1>3
<1>5. \A m \in 1..(k - 1) : a[m] = b[m]
  <2> TAKE m \in 1..(k - 1)
  <2>1. m \in Nat /\ m >= 1 /\ m < k
    BY <1>4
  <2>2. m \notin Parts
    BY <2>1, <1>3, <1>4
  <2> QED
    BY <2>1, <2>2
<1>6. k <= Len(a) \/ k <= Len(b)
  <2> SUFFICES ASSUME k = Len(a) + 1, k = Len(b) + 1 PROVE FALSE
    BY <1>1, <1>4
  <2>1. Len(a) = Len(b) /\ \A m \in 1..Len(a) : a[m] = b[m]
    BY <1>1, <1>5
  <2> QED
    BY <2>1, SeqEqual
<1>7. CASE k > Len(a)
  <2>1. LexAt(a, b, k)
    BY <1>1, <1>4, <1>5, <1>6, <1>7 DEF LexAt
  <2> QED
    BY <2>1, <1>4, LexLessAt
<1>8. CASE k > Len(b)
  <2>1. LexAt(b, a, k)
    BY <1>1, <1>4, <1>5, <1>6, <1>8 DEF LexAt
  <2> QED
    BY <2>1, <1>4, LexLessAt
<1>9. CASE k <= Len(a) /\ k <= Len(b)
  <2>1. a[k] # b[k] /\ a[k] \in Nat /\ b[k] \in Nat
    BY <1>1, <1>4, <1>9
  <2>2. LexAt(a, b, k) \/ LexAt(b, a, k)
    BY <1>1, <1>4, <1>5, <1>9, <2>1 DEF LexAt
  <2> QED
    BY <2>2, <1>4, LexLessAt
<1> QED
  BY <1>1, <1>4, <1>7, <1>8, <1>9

LEMMA LexOnward ==
  ASSUME NEW a \in Seq(Nat), NEW b \in Seq(Nat), NEW c \in Seq(Nat),
         LexLess(a, b), LexLess(b, c)
  PROVE  LexLess(a, c)
<1>1. PICK k \in Nat : LexAt(a, b, k)
  BY LexLessAt
<1>2. PICK l \in Nat : LexAt(b, c, l)
  BY LexLessAt
<1>3. /\ Len(a) \in Nat /\ Len(b) \in Nat /\ Len(c) \in Nat
      /\ \A i \in 1..Len(a) : a[i] \in Nat
      /\ \A i \in 1..Len(b) : b[i] \in Nat
      /\ \A i \in 1..Len(c) : c[i] \in Nat
  OBVIOUS
<1>4. CASE k <= l
  <2>1. \A m \in 1..(k - 1) : a[m] = c[m]
    BY <1>1, <1>2, <1>3, <1>4 DEF LexAt
  <2>2. k \in 1..Len(b) /\ k \in 1..Len(c) /\ k <= Len(a) + 1
    BY <1>1, <1>2, <1>3, <1>4 DEF LexAt
  <2>3. k = l => k # Len(b) + 1 /\ b[k] < c[k]
    BY <1>2, <1>3, <2>2 DEF LexAt
  <2>4. k < l => b[k] = c[k]
    BY <1>1, <1>2, <1>3, <2>2 DEF LexAt
  <2>5. k = Len(a) + 1 \/ (k \in 1..Len(a) /\ a[k] < b[k])
    BY <1>1, <1>3, <2>2 DEF LexAt
  <2>6. k = Len(a) + 1 \/ a[k] < c[k]
    <3>1. b[k] \in Nat /\ c[k] \in Nat /\ (b[k] < c[k] \/ b[k] = c[k])
      BY <1>3, <1>4, <2>2, <2>3, <2>4
    <3>2. k \in 1..Len(a) => a[k] \in Nat
      BY <1>3
    <3> QED
      BY <3>1, <3>2, <2>5
  <2>7. LexAt(a, c, k)
    BY <2>1, <2>2, <2>6 DEF LexAt
  <2> QED
    BY <2>7, LexLessAt
<1>5. CASE l < k
  <2>1. \A m \in 1..(l - 1) : a[m] = c[m]
    BY <1>1, <1>2, <1>3, <1>5 DEF LexAt
  <2>2. l \in 1..Len(a) /\ l \in 1..Len(b) /\ l \in 1..Len(c)
    <3>1. k <= Len(a) + 1 /\ k <= Len(b) /\ l >= 1 /\ l <= Len(c)
      BY <1>1, <1>2, <1>3 DEF LexAt
    <3> QED
      BY <3>1, <1>3, <1>5
  <2>3. a[l] = b[l] /\ b[l] < c[l]
    BY <1>1, <1>2, <1>3, <1>5, <2>2 DEF LexAt
  <2>4. LexAt(a, c, l)
    BY <1>3, <2>1, <2>2, <2>3 DEF LexAt
  <2> QED
    BY <2>4, LexLessAt
<1> QED
  BY <1>4, <1>5

\* An order on the elements of a set, no two of them equal.
Orders(R, S) ==
  /\ \A x \in S : <<x, x>> \notin R
  /\ \A x, y \in S : x # y => <<x, y>> \in R \/ <<y, x>> \in R
  /\ \A x, y \in S : <<x, y>> \in R => <<y, x>> \notin R
  /\ \A x, y, z \in S : <<x, y>> \in R /\ <<y, z>> \in R => <<x, z>> \in R

\* InOrder has every element in one place, and what is smaller in an earlier one.
LEMMA InOrderSorts ==
  ASSUME NEW S, IsFiniteSet(S), NEW R, Orders(R, S)
  PROVE  /\ Cardinality(S) \in Nat
         /\ InOrder(S, R) \in [1..Cardinality(S) -> S]
         /\ \A k, l \in 1..Cardinality(S) : InOrder(S, R)[k] = InOrder(S, R)[l] => k = l
         /\ \A x \in S : \E k \in 1..Cardinality(S) : InOrder(S, R)[k] = x
         /\ \A k, l \in 1..Cardinality(S) : k < l => <<InOrder(S, R)[k], InOrder(S, R)[l]>> \in R
<1> DEFINE n == Cardinality(S)
           Lower(x) == {y \in S : <<y, x>> \in R}
           rank == [x \in S |-> Cardinality(Lower(x))]
           f == InOrder(S, R)
<1>1. n \in Nat
  BY FS_CardinalityType
<1>2. ASSUME NEW x \in S PROVE IsFiniteSet(Lower(x)) /\ rank[x] \in 0..(n - 1)
  <2> DEFINE B == Lower(x)
  <2>1. B \in SUBSET S /\ x \notin B
    BY DEF Orders
  <2>2. rank[x] = Cardinality(B)
    OBVIOUS
  <2> HIDE DEF B, rank, n
  <2>3. IsFiniteSet(B) /\ Cardinality(B) <= n /\ (n = Cardinality(B) => S = B)
    BY <2>1, FS_Subset DEF n
  <2>4. Cardinality(B) \in Nat
    BY <2>3, FS_CardinalityType
  <2>5. Cardinality(B) # n
    BY <2>1, <2>3
  <2>6. rank[x] \in 0..(n - 1)
    BY <1>1, <2>2, <2>3, <2>4, <2>5
  <2> QED
    BY <2>3, <2>6 DEF B
<1>3. ASSUME NEW x \in S, NEW y \in S, <<x, y>> \in R PROVE rank[x] < rank[y]
  <2> DEFINE A == Lower(x)
             B == Lower(y)
  <2>1. A \subseteq B
    BY <1>3 DEF Orders
  <2>2. x \in B /\ x \notin A
    BY <1>3 DEF Orders
  <2>3. rank[x] = Cardinality(A) /\ rank[y] = Cardinality(B) /\ IsFiniteSet(B)
    BY <1>2
  <2>4. rank[x] \in 0..(n - 1) /\ rank[y] \in 0..(n - 1)
    BY <1>2
  <2> HIDE DEF A, B, rank, n
  <2>5. Cardinality(A) <= Cardinality(B) /\ (Cardinality(B) = Cardinality(A) => B = A)
    BY <2>1, <2>3, FS_Subset
  <2>6. rank[x] <= rank[y] /\ rank[x] # rank[y]
    BY <2>2, <2>3, <2>5
  <2> QED
    BY <1>1, <2>4, <2>6
<1>4. \A x, y \in S : rank[x] = rank[y] => x = y
  <2> SUFFICES ASSUME NEW x \in S, NEW y \in S, x # y PROVE rank[x] # rank[y]
    OBVIOUS
  <2>1. rank[x] \in 0..(n - 1) /\ rank[y] \in 0..(n - 1)
    BY <1>2
  <2>2. <<x, y>> \in R \/ <<y, x>> \in R
    BY DEF Orders
  <2>3. rank[x] < rank[y] \/ rank[y] < rank[x]
    BY <2>2, <1>3
  <2> HIDE DEF rank, n
  <2> QED
    BY <1>1, <2>1, <2>3
<1>5. rank \in [S -> 0..(n - 1)]
  <2>1. \A x \in S : Cardinality(Lower(x)) \in 0..(n - 1)
    BY <1>2
  <2> QED
    BY <2>1
<1>6. \A x \in S : Cardinality(Lower(x)) = rank[x]
  OBVIOUS
<1> HIDE DEF rank
<1>7. \A k \in 1..n : \E x \in S : rank[x] = k - 1
  <2> DEFINE T == 0..(n - 1)
  <2>1. rank \in Injection(S, T)
    BY <1>4, <1>5, Fun_IsInj
  <2>2. IsFiniteSet(T) /\ Cardinality(T) = n
    <3>1. 0 \in Int /\ n - 1 \in Int
      BY <1>1
    <3>2. IsFiniteSet(T) /\ Cardinality(T) = IF 0 > n - 1 THEN 0 ELSE (n - 1) - 0 + 1
      BY <3>1, FS_Interval
    <3> HIDE DEF n, T
    <3> QED
      BY <1>1, <3>2
  <2>3. rank \in Surjection(S, T)
    BY <2>1, <2>2, FS_Injection
  <2>4. \A r \in T : \E x \in S : rank[x] = r
    <3> HIDE DEF T
    <3> QED
      BY <2>3 DEF Surjection
  <2>5. \A k \in 1..n : k - 1 \in T
    <3> HIDE DEF n
    <3> QED
      BY <1>1
  <2> QED
    BY <2>4, <2>5
<1>8. f = [k \in 1..n |-> CHOOSE x \in S : Cardinality(Lower(x)) = k - 1]
  BY DEF InOrder
<1>9. ASSUME NEW k \in 1..n PROVE f[k] \in S /\ rank[f[k]] = k - 1
  <2>1. \E x \in S : Cardinality(Lower(x)) = k - 1
    BY <1>6, <1>7
  <2>2. f[k] \in S /\ Cardinality(Lower(f[k])) = k - 1
    <3> HIDE DEF n, f
    <3> QED
      BY <2>1, <1>8
  <2> QED
    BY <2>2, <1>6
<1>10. f \in [1..n -> S]
  BY <1>8, <1>9
<1> HIDE DEF f, n
<1>11. \A k, l \in 1..n : f[k] = f[l] => k = l
  <2> SUFFICES ASSUME NEW k \in 1..n, NEW l \in 1..n, f[k] = f[l] PROVE k = l
    OBVIOUS
  <2>1. k - 1 = l - 1 /\ k \in Nat /\ l \in Nat
    BY <1>9
  <2> QED
    BY <2>1
<1>12. \A x \in S : \E k \in 1..n : f[k] = x
  <2> TAKE x \in S
  <2>1. rank[x] \in 0..(n - 1)
    BY <1>5
  <2>2. rank[x] + 1 \in 1..n /\ (rank[x] + 1) - 1 = rank[x]
    BY <2>1, <1>1
  <2>3. rank[f[rank[x] + 1]] = rank[x] /\ f[rank[x] + 1] \in S
    BY <2>2, <1>9
  <2> QED
    BY <2>2, <2>3, <1>4
<1>13. \A k, l \in 1..n : k < l => <<f[k], f[l]>> \in R
  <2> SUFFICES ASSUME NEW k \in 1..n, NEW l \in 1..n, k < l, <<f[k], f[l]>> \notin R
               PROVE  FALSE
    OBVIOUS
  <2>1. k \in Nat /\ l \in Nat /\ k # l
    BY <1>1
  <2>2. f[k] \in S /\ f[l] \in S /\ f[k] # f[l]
    BY <1>9, <1>11, <2>1
  <2>3. <<f[l], f[k]>> \in R
    BY <2>2 DEF Orders
  <2>4. rank[f[l]] < rank[f[k]]
    BY <2>2, <2>3, <1>3
  <2>5. l - 1 < k - 1
    BY <2>4, <1>9
  <2> QED
    BY <2>1, <2>5
<1> QED
  BY <1>1, <1>10, <1>11, <1>12, <1>13 DEF f, n

\* The places of s to be sorted, and what sorting needs to know of the keys there.
Keyed(s, places) ==
  /\ DOMAIN s = 1..Len(s) /\ Len(s) \in Nat /\ places \subseteq DOMAIN s
  /\ \A i \in places : SortKey(s[i]) \in Seq(Nat)

LEMMA PrecedesIsAnOrder ==
  ASSUME NEW s, NEW places, Keyed(s, places),
         NEW i \in places, NEW j \in places, NEW k \in places
  PROVE  /\ ~Precedes(s, i, i)
         /\ i # j => Precedes(s, i, j) \/ Precedes(s, j, i)
         /\ Precedes(s, i, j) => ~Precedes(s, j, i)
         /\ Precedes(s, i, j) /\ Precedes(s, j, k) => Precedes(s, i, k)
<1> DEFINE a == SortKey(s[i])
           b == SortKey(s[j])
           c == SortKey(s[k])
<1>1. a \in Seq(Nat) /\ b \in Seq(Nat) /\ c \in Seq(Nat)
  BY DEF Keyed
<1>2. i \in Nat /\ j \in Nat /\ k \in Nat
  BY DEF Keyed
<1>3. /\ Precedes(s, i, i) <=> LexLess(a, a)
      /\ Precedes(s, i, j) <=> LexLess(a, b) \/ (a = b /\ i < j)
      /\ Precedes(s, j, i) <=> LexLess(b, a) \/ (b = a /\ j < i)
      /\ Precedes(s, j, k) <=> LexLess(b, c) \/ (b = c /\ j < k)
      /\ Precedes(s, i, k) <=> LexLess(a, c) \/ (a = c /\ i < k)
  BY <1>2 DEF Precedes
<1> HIDE DEF a, b, c
<1>4. ~LexLess(a, a) /\ (LexLess(a, b) => ~LexLess(b, a))
  BY <1>1, LexOneWay
<1>5. a # b => LexLess(a, b) \/ LexLess(b, a)
  BY <1>1, LexEither
<1>6. LexLess(a, b) /\ LexLess(b, c) => LexLess(a, c)
  BY <1>1, LexOnward
<1> QED
  BY <1>2, <1>3, <1>4, <1>5, <1>6

\* Sorting only reorders: the place of what comes k-th, and no place twice or never.
LEMMA SortedReorders ==
  ASSUME NEW s, NEW places, Keyed(s, places)
  PROVE  /\ Cardinality(places) \in Nat
         /\ DOMAIN Sorted(s, places) = 1..Cardinality(places)
         /\ \E order \in [1..Cardinality(places) -> places] :
              /\ \A k \in 1..Cardinality(places) : Sorted(s, places)[k] = s[order[k]]
              /\ \A k, l \in 1..Cardinality(places) : order[k] = order[l] => k = l
              /\ \A j \in places : \E k \in 1..Cardinality(places) : order[k] = j
              /\ \A k, l \in 1..Cardinality(places) : k < l => Precedes(s, order[k], order[l])
<1> DEFINE R == Before(s)
           order == InOrder(places, R)
           n == Cardinality(places)
<1>1. IsFiniteSet(places)
  <2>1. IsFiniteSet(1..Len(s)) /\ places \subseteq 1..Len(s)
    BY FS_Interval DEF Keyed
  <2> QED
    BY <2>1, FS_Subset
<1>2. \A i, j \in places : <<i, j>> \in R <=> Precedes(s, i, j)
  BY DEF Before, Keyed
<1> HIDE DEF R
<1>3. Orders(R, places)
  <2>1. \A i, j, k \in places :
          /\ ~Precedes(s, i, i)
          /\ i # j => Precedes(s, i, j) \/ Precedes(s, j, i)
          /\ Precedes(s, i, j) => ~Precedes(s, j, i)
          /\ Precedes(s, i, j) /\ Precedes(s, j, k) => Precedes(s, i, k)
    BY PrecedesIsAnOrder
  <2> QED
    BY <1>2, <2>1 DEF Orders
<1>4. /\ n \in Nat /\ order \in [1..n -> places]
      /\ \A k, l \in 1..n : order[k] = order[l] => k = l
      /\ \A j \in places : \E k \in 1..n : order[k] = j
      /\ \A k, l \in 1..n : k < l => <<order[k], order[l]>> \in R
  BY <1>1, <1>3, InOrderSorts
<1>5. Sorted(s, places) = [k \in DOMAIN order |-> s[order[k]]]
  BY DEF Sorted, R
<1> HIDE DEF order, n
<1>6. \A k, l \in 1..n : k < l => Precedes(s, order[k], order[l])
  BY <1>2, <1>4
<1>7. DOMAIN Sorted(s, places) = 1..n /\ \A k \in 1..n : Sorted(s, places)[k] = s[order[k]]
  BY <1>4, <1>5
<1> QED
  BY <1>4, <1>6, <1>7 DEF n

-----------------------------------------------------------------------------
(* What the walk reaches is the root's subtree, and the root comes first.  *)

\* Once there is a root, everything is about nodes of the list, and the parent
\* of the list's first node, or of the link's, is cleared; otherwise the root's is
\* the one the list gives it, if that could be read.
Placed ==
  /\ root \in Handles /\ Len(reach) > 0
  /\ parent \in [Handles \cup {0} -> Handles \cup {0}]
  /\ root = 1 \/ specific # 0 => parent[root] = 0
  /\ parent[root] \in {0, raw[root].parent}
  /\ path \in [Handles -> Seq(Nat)]

\* Climbing from whatever is in the list leads to the root, and its path begins
\* with the root's.
Leads(m) ==
  /\ root \in Above(reach[m])
  /\ m > 1 => IsPrefix(PrefixOf(root), path[reach[m]])

TreeInv ==
  /\ CoverInv /\ raw \in Seq(RawNode)
  /\ pc \in {"read", "failed"} => Len(reach) = 0
  /\ pc \in {"walk", "open"} => Placed
  /\ pc \in {"read", "failed", "walk", "open"}
  /\ \A m \in 1..Len(reach) : Leads(m)
  /\ pc = "open" => nodes = Sorted(reach, DOMAIN reach)

LEMMA NamesAreRuns == ASSUME raw \in Seq(RawNode), NEW i \in Handles
                      PROVE  Name(i) \in Seq(Nat)
<1>1. raw[i] \in RawNode
  BY DEF Handles
<1>2. raw[i].name \in Seq({Low, Slash, High})
  BY <1>1 DEF RawNode
<1>3. raw[i].name \in Seq(Nat)
  BY <1>2 DEF Low, Slash, High
<1> DEFINE s == raw[i].name
<1>4. Len(s) \in Nat /\ DOMAIN s = 1..Len(s) /\ \A k \in 1..Len(s) : s[k] \in Nat
  BY <1>3
<1>5. Name(i) \in [1..Len(s) -> Nat]
  BY <1>4 DEF Name, High
<1> QED
  BY <1>4, <1>5

LEMMA AboveSteps ==
  ASSUME NEW c \in Handles, NEW p \in Handles, parent[c] = p, c # 0, p # 0,
         root \in Above(p)
  PROVE  root \in Above(c)
<1>1. \A S \in Closed : c \in S => p \in S
  BY DEF Closed
<1> QED
  BY <1>1 DEF Above

LEMMA RootIsAbove == root \in Handles /\ root # 0 => root \in Above(root)
  BY DEF Above

LEMMA TreeInit == Init => TreeInv
<1> SUFFICES ASSUME Init PROVE TreeInv
  OBVIOUS
<1>1. raw \in Seq(RawNode)
  BY FolderAssumption DEF Init
<1>2. Len(reach) = 0 /\ pc = "read"
  BY DEF Init
<1> QED
  BY <1>1, <1>2, CoverInit DEF TreeInv

LEMMA TreeStarts == TreeInv /\ FindRoot => Placed' /\ \A m \in 1..Len(reach') : Leads(m)'
<1> SUFFICES ASSUME TreeInv, FindRoot PROVE Placed' /\ \A m \in 1..Len(reach') : Leads(m)'
  OBVIOUS
<1>1. /\ Handles = 1..Len(raw) /\ Len(raw) \in Nat /\ raw' = raw /\ Handles' = Handles
      /\ specific' = specific
  BY HandlesAreNumbers DEF TreeInv, FindRoot, Handles
<1>2. Parsed \subseteq Handles /\ Parsed \subseteq Nat
  BY <1>1 DEF Parsed
<1>3. root' \in Parsed /\ (specific # 0 => root' = specific)
  <2>1. CASE specific # 0
    BY <2>1 DEF FindRoot
  <2>2. CASE specific = 0
    <3>1. \E i \in Parsed : \A j \in Parsed : i <= j
      BY <1>2, LeastOf DEF FindRoot
    <3> QED
      BY <2>2, <3>1 DEF FindRoot
  <2> QED
    BY <2>1, <2>2
<1>4. root' \in Handles' /\ reach' = <<root'>> /\ Len(reach') = 1 /\ reach'[1] = root'
  BY <1>1, <1>2, <1>3 DEF FindRoot
<1>5. parent' \in [Handles \cup {0} -> Handles \cup {0}]
  <2>1. \A i \in Handles \cup {0} :
          (IF i \in Parsed \ {1, specific} /\ raw[i].parent \in Parsed
           THEN raw[i].parent ELSE 0) \in Handles \cup {0}
    BY <1>2
  <2> QED
    BY <2>1 DEF FindRoot, ParentIn
<1>6. /\ root' = 1 \/ specific # 0 => parent'[root'] = 0
      /\ parent'[root'] \in {0, raw[root'].parent}
  BY <1>2, <1>3 DEF FindRoot, ParentIn
<1>7. path' \in [Handles -> Seq(Nat)]
  <2>1. \A i \in Handles : <<Slash>> \o Name(i) \in Seq(Nat)
    <3> TAKE i \in Handles
    <3>1. Name(i) \in Seq(Nat)
      BY NamesAreRuns DEF TreeInv
    <3>2. <<Slash>> \in Seq(Nat)
      BY DEF Slash
    <3> QED
      BY <3>1, <3>2, ConcatProperties
  <2>2. <<>> \in Seq(Nat)
    OBVIOUS
  <2>3. path' = [i \in Handles |-> IF i = root' THEN <<Slash>> \o Name(i) ELSE <<>>]
    BY DEF FindRoot
  <2> QED
    BY <2>1, <2>2, <2>3
<1>8. Placed'
  BY <1>1, <1>4, <1>5, <1>6, <1>7 DEF Placed
<1>9. root' \in (Above(root))'
  BY <1>1, <1>4 DEF Above
<1> QED
  BY <1>4, <1>8, <1>9 DEF Leads

\* A node's path begins with its parent's and a slash.
LEMMA PathsBegin ==
  ASSUME NEW p \in Seq(Nat), NEW q \in Seq(Nat), NEW n \in Seq(Nat),
         p = q \/ IsPrefix(Append(q, Slash), p)
  PROVE  /\ p \o <<Slash>> \o n \in Seq(Nat)
         /\ IsPrefix(Append(q, Slash), p \o <<Slash>> \o n)
<1>1. Slash \in Nat /\ <<Slash>> \in Seq(Nat)
  BY DEF Slash
<1> DEFINE b == Append(q, Slash)
           r == p \o <<Slash>>
           t == r \o n
<1>2. /\ b \in Seq(Nat) /\ Len(b) = Len(q) + 1 /\ b[Len(q) + 1] = Slash
      /\ \A k \in 1..Len(q) : b[k] = q[k]
  BY <1>1, AppendProperties
<1>3. /\ r \in Seq(Nat) /\ Len(r) = Len(p) + 1 /\ r[Len(p) + 1] = Slash
      /\ \A k \in 1..Len(p) : r[k] = p[k]
  BY <1>1
<1>4. /\ t \in Seq(Nat) /\ Len(t) = Len(r) + Len(n)
      /\ \A k \in 1..Len(r) : t[k] = r[k]
  BY <1>3, ConcatProperties
<1>5. Len(p) \in Nat /\ Len(q) \in Nat /\ Len(n) \in Nat
  OBVIOUS
<1> HIDE DEF b, r, t
<1>6. CASE p = q
  <2>1. Len(b) <= Len(t)
    BY <1>2, <1>3, <1>4, <1>5, <1>6
  <2>2. ASSUME NEW k \in 1..Len(b) PROVE b[k] = t[k]
    <3>1. k \in 1..Len(r) /\ Len(p) = Len(q) /\ k \in Nat /\ t[k] = r[k]
      BY <1>2, <1>3, <1>4, <1>5, <1>6
    <3>2. CASE k = Len(q) + 1
      BY <3>1, <3>2, <1>2, <1>3
    <3>3. CASE k # Len(q) + 1
      <4>1. k \in 1..Len(q)
        BY <3>1, <3>3, <1>2, <1>5
      <4> QED
        BY <4>1, <3>1, <1>2, <1>3, <1>6
    <3> QED
      BY <3>2, <3>3
  <2> QED
    BY <2>1, <2>2, <1>2, <1>4, PrefixAt DEF b, r, t
<1>7. CASE IsPrefix(b, p)
  <2>1. Len(b) <= Len(p) /\ \A k \in 1..Len(b) : b[k] = p[k]
    BY <1>7, <1>2, PrefixAt
  <2>2. Len(b) <= Len(t)
    BY <2>1, <1>2, <1>3, <1>4, <1>5
  <2>3. ASSUME NEW k \in 1..Len(b) PROVE b[k] = t[k]
    <3>0. Len(b) <= Len(p) /\ Len(b) \in Nat /\ Len(r) = Len(p) + 1
      BY <2>1, <1>2, <1>3
    <3>1. k \in 1..Len(p) /\ k \in 1..Len(r)
      BY <3>0, <1>5
    <3> QED
      BY <3>1, <2>1, <1>3, <1>4
  <2> QED
    BY <2>2, <2>3, <1>2, <1>4, PrefixAt DEF b, r, t
<1> QED
  BY <1>6, <1>7 DEF b

LEMMA TreePushes == TreeInv /\ PushChild => Placed' /\ \A m \in 1..Len(reach') : Leads(m)'
<1> SUFFICES ASSUME TreeInv, PushChild PROVE Placed' /\ \A m \in 1..Len(reach') : Leads(m)'
  OBVIOUS
<1>1. PICK c \in Unvisited :
        /\ reach' = Append(reach, c)
        /\ path' = [path EXCEPT ![c] = path[reach[at]] \o <<Slash>> \o Name(c)]
  BY DEF PushChild
<1>2. /\ UNCHANGED <<raw, root, parent, specific, Handles>>
      /\ pc = "walk" /\ pc' = "walk" /\ Placed
  BY DEF PushChild, TreeInv, Handles
<1>3. Handles = 1..Len(raw) /\ Len(raw) \in Nat
  BY HandlesAreNumbers DEF TreeInv
<1>4. c \in Handles /\ c # root /\ parent[c] = reach[at]
  BY DEF Unvisited, Children
<1>5. /\ Len(reach) \in Nat /\ at \in 1..Len(reach) /\ reach \in Seq(Handles)
      /\ reach[at] \in Handles /\ reach[1] = root
  BY <1>2 DEF PushChild, TreeInv, CoverInv, WalkInv, Standing, Placed
<1>6. /\ Len(reach') = Len(reach) + 1
      /\ \A m \in 1..Len(reach) : reach'[m] = reach[m]
      /\ reach'[Len(reach) + 1] = c
  BY <1>1, <1>4, <1>5, AppendProperties
<1>7. \A n : Above(n)' = Above(n)
  BY <1>2 DEF Above, Closed
<1>8. root \in Above(c)
  BY <1>3, <1>4, <1>5, AboveSteps DEF TreeInv, Leads
<1>9. /\ path[reach[at]] \o <<Slash>> \o Name(c) \in Seq(Nat)
      /\ IsPrefix(PrefixOf(root), path[reach[at]] \o <<Slash>> \o Name(c))
  <2>1. path[reach[at]] \in Seq(Nat) /\ path[root] \in Seq(Nat) /\ Name(c) \in Seq(Nat)
    BY <1>2, <1>4, <1>5, NamesAreRuns DEF Placed, TreeInv
  <2>2. path[reach[at]] = path[root] \/ IsPrefix(PrefixOf(root), path[reach[at]])
    BY <1>5 DEF TreeInv, Leads
  <2> QED
    BY <2>1, <2>2, PathsBegin DEF PrefixOf
<1>10. path' \in [Handles -> Seq(Nat)] /\ path'[c] = path[reach[at]] \o <<Slash>> \o Name(c)
  BY <1>1, <1>2, <1>4, <1>9 DEF Placed
<1>11. \A i \in Handles : i # c => path'[i] = path[i]
  BY <1>1, <1>2, <1>4 DEF Placed
<1>12. PrefixOf(root)' = PrefixOf(root)
  BY <1>2, <1>4, <1>11 DEF PrefixOf, Placed
<1>13. Placed'
  <2>1. Handles' = Handles /\ Len(reach') > 0
    BY <1>2, <1>5, <1>6
  <2>2. /\ root' \in Handles' /\ (root' = 1 \/ specific' # 0 => parent'[root'] = 0)
        /\ parent'[root'] \in {0, raw'[root'].parent}
        /\ parent' \in [Handles' \cup {0} -> Handles' \cup {0}]
    BY <1>2 DEF Placed
  <2>3. path' \in [Handles' -> Seq(Nat)]
    BY <1>10, <2>1
  <2> QED
    BY <2>1, <2>2, <2>3 DEF Placed
<1>14. \A m \in 1..Len(reach) : reach[m] # c
  <2>1. WalkInv'
    BY WalkPushes DEF TreeInv, CoverInv
  <2> QED
    BY <2>1, <1>5, <1>6 DEF WalkInv
<1>15. ASSUME NEW m \in 1..Len(reach') PROVE Leads(m)'
  <2>1. CASE m = Len(reach) + 1
    BY <2>1, <1>2, <1>6, <1>7, <1>8, <1>9, <1>10, <1>12 DEF Leads
  <2>2. CASE m # Len(reach) + 1
    <3>1. m \in 1..Len(reach) /\ reach'[m] = reach[m] /\ reach[m] \in Handles
      BY <2>2, <1>5, <1>6
    <3>2. path'[reach[m]] = path[reach[m]]
      BY <3>1, <1>11, <1>14
    <3> QED
      BY <3>1, <3>2, <1>2, <1>7, <1>12 DEF Leads, TreeInv
  <2> QED
    BY <2>1, <2>2
<1> QED
  BY <1>13, <1>15

LEMMA TreeStep == TreeInv /\ [Next]_vars => TreeInv'
<1> SUFFICES ASSUME TreeInv, [Next]_vars PROVE TreeInv'
  OBVIOUS
<1>1. CoverInv'
  BY CoverStep DEF TreeInv
<1>2. CASE FindRoot
  BY <1>1, <1>2, TreeStarts DEF TreeInv, FindRoot
<1>3. CASE PushChild
  BY <1>1, <1>3, TreePushes DEF TreeInv, PushChild
<1>4. CASE Fail \/ NextNode \/ Finish \/ UNCHANGED vars
  <2>1. UNCHANGED <<raw, specific, root, parent, reach, path, Handles>>
    BY <1>4 DEF Fail, NextNode, Finish, vars, Handles
  <2>2. \A m : Leads(m)' <=> Leads(m)
    BY <2>1 DEF Leads, Above, Closed, PrefixOf
  <2>3. Placed' <=> Placed
    BY <2>1 DEF Placed
  <2>4. \/ pc' = pc /\ (pc = "open" => nodes' = nodes)
        \/ pc = "read" /\ pc' = "failed"
        \/ pc = "walk" /\ pc' = "open" /\ nodes' = Sorted(reach, DOMAIN reach)
    BY <1>4 DEF Fail, NextNode, Finish, vars
  <2>5. Sorted(reach, DOMAIN reach)' = Sorted(reach, DOMAIN reach)
    BY <2>1 DEF Sorted, Before, Precedes, SortKey
  <2> QED
    BY <1>1, <2>1, <2>2, <2>3, <2>4, <2>5 DEF TreeInv
<1> QED
  BY <1>2, <1>3, <1>4 DEF Next

\* Nothing sorts before the root: every other key begins with it.
LEMMA RootSortsFirst ==
  ASSUME TreeInv, pc = "open"
  PROVE  /\ Keyed(reach, DOMAIN reach) /\ 1 \in DOMAIN reach
         /\ \A i \in DOMAIN reach : ~Precedes(reach, i, 1)
<1>1. Placed /\ reach[1] = root /\ Len(reach) \in Nat /\ Len(reach) > 0
  BY DEF TreeInv, Placed, CoverInv, WalkInv, Standing
<1>2. reach \in Seq(Handles) /\ DOMAIN reach = 1..Len(reach)
  BY <1>1 DEF TreeInv, CoverInv, WalkInv, Standing, Placed
<1>3. Keyed(reach, DOMAIN reach)
  BY <1>1, <1>2 DEF Keyed, SortKey, Placed, Slash
<1>4. ASSUME NEW i \in DOMAIN reach, i # 1 PROVE Precedes(reach, 1, i)
  <2>1. /\ i \in Nat /\ i > 1 /\ reach[i] \in Handles
        /\ IsPrefix(PrefixOf(root), path[reach[i]])
    BY <1>2, <1>4 DEF TreeInv, Leads
  <2> DEFINE p == path[root]
             q == path[reach[i]]
             a == SortKey(root)
             b == SortKey(reach[i])
  <2>2. p \in Seq(Nat) /\ q \in Seq(Nat) /\ a \in Seq(Nat) /\ b \in Seq(Nat)
    <3>1. 1 \in DOMAIN reach /\ reach[1] = root
      BY <1>1, <1>2
    <3>2. a \in Seq(Nat) /\ b \in Seq(Nat)
      BY <1>3, <3>1 DEF Keyed
    <3> QED
      BY <1>1, <2>1, <3>2 DEF Placed
  <2>3. a = p \/ a = Append(p, Slash)
    BY DEF SortKey
  <2>4. b = q \/ b = Append(q, Slash)
    BY DEF SortKey
  <2>5. IsPrefix(Append(p, Slash), q)
    BY <2>1 DEF PrefixOf
  <2>6. reach[1] = root
    BY <1>1
  <2> HIDE DEF p, q, a, b
  <2>7. Slash \in Nat
    BY DEF Slash
  <2>8. IsPrefix(a, b)
    <3>1. /\ Append(p, Slash) \in Seq(Nat) /\ Len(Append(p, Slash)) = Len(p) + 1
          /\ \A k \in 1..Len(p) : Append(p, Slash)[k] = p[k]
      BY <2>2, <2>7, AppendProperties
    <3>2. /\ Append(q, Slash) \in Seq(Nat) /\ Len(Append(q, Slash)) = Len(q) + 1
          /\ \A k \in 1..Len(q) : Append(q, Slash)[k] = q[k]
      BY <2>2, <2>7, AppendProperties
    <3>3. Len(p) + 1 <= Len(q) /\ \A k \in 1..(Len(p) + 1) : Append(p, Slash)[k] = q[k]
      <4> DEFINE z == Append(p, Slash)
      <4>1. z \in Seq(Nat) /\ Len(z) = Len(p) + 1 /\ q \in Seq(Nat) /\ IsPrefix(z, q)
        BY <2>2, <2>5, <3>1
      <4> HIDE DEF z
      <4>2. Len(z) <= Len(q) /\ \A k \in 1..Len(z) : z[k] = q[k]
        BY <4>1, PrefixAt
      <4>3. Len(p) + 1 <= Len(q) /\ \A k \in 1..(Len(p) + 1) : z[k] = q[k]
        BY <4>1, <4>2
      <4> QED
        BY <4>3 DEF z
    <3>4. Len(p) \in Nat /\ Len(q) \in Nat
      BY <2>2
    <3>5. Len(a) <= Len(p) + 1 /\ \A k \in 1..Len(a) : a[k] = q[k]
      <4>1. CASE a = p
        <5>1. Len(a) = Len(p) /\ \A k \in 1..Len(p) : k \in 1..(Len(p) + 1)
          BY <4>1, <3>4
        <5> QED
          BY <4>1, <5>1, <3>1, <3>3, <3>4
      <4>2. CASE a = Append(p, Slash)
        BY <4>2, <3>1, <3>3, <3>4
      <4> QED
        BY <2>3, <4>1, <4>2
    <3>6. Len(q) <= Len(b) /\ \A k \in 1..Len(q) : b[k] = q[k]
      BY <2>4, <3>2, <3>4
    <3>7. Len(a) \in Nat /\ Len(b) \in Nat
      BY <2>2
    <3>8. Len(a) <= Len(b) /\ \A k \in 1..Len(a) : a[k] = b[k]
      BY <3>3, <3>4, <3>5, <3>6, <3>7
    <3> QED
      BY <2>2, <3>8, PrefixAt
  <2>9. LexLess(a, b) \/ a = b
    BY <2>8 DEF LexLess, IsStrictPrefix
  <2> QED
    BY <2>1, <2>6, <2>9 DEF Precedes, a, b
<1>5. 1 \in DOMAIN reach
  BY <1>1, <1>2
<1>6. \A i \in DOMAIN reach : ~Precedes(reach, i, 1)
  BY <1>3, <1>4, <1>5, PrecedesIsAnOrder
<1> QED
  BY <1>3, <1>5, <1>6

\* What is in no list of the walk's can be climbed from without meeting the root.
LEMMA BelowIsReached ==
  ASSUME TreeInv, pc = "open"
  PROVE  ToSet(reach) = Below(root)
<1>1. Placed /\ reach \in Seq(Handles) /\ reach[1] = root /\ Len(reach) \in Nat
  BY DEF TreeInv, Placed, CoverInv, WalkInv, Standing
<1>2. root \in ToSet(reach) /\ Handles = 1..Len(raw) /\ Len(raw) \in Nat
  BY <1>1, HandlesAreNumbers DEF ToSet, TreeInv, Placed
<1>3. \A k \in 1..Len(reach) : \A i \in Handles \ {root} :
        parent[i] = reach[k] => \E m \in 1..Len(reach) : reach[m] = i
  <2>1. \A k \in 1..Len(reach) : \A i \in Handles : Behind(k, i)
    BY <1>1 DEF TreeInv, CoverInv, WalkInv, Standing, Behind
  <2> QED
    BY <2>1 DEF TreeInv, CoverInv, Covered
<1>4. ToSet(reach) \subseteq Below(root)
  <2> SUFFICES ASSUME NEW i \in ToSet(reach) PROVE i \in Below(root)
    OBVIOUS
  <2>1. i \in Handles /\ root \in Above(i)
    BY <1>1 DEF ToSet, TreeInv, Leads
  <2> QED
    BY <2>1 DEF Above, Below
<1>5. Below(root) \subseteq ToSet(reach)
  <2> SUFFICES ASSUME NEW i \in Below(root), i \notin ToSet(reach) PROVE FALSE
    OBVIOUS
  <2> DEFINE S == Handles \ ToSet(reach)
  <2>1. S \in Closed
    <3> SUFFICES ASSUME NEW j \in S, parent[j] # 0, parent[j] \in ToSet(reach) PROVE FALSE
      BY <1>1 DEF Closed, Placed
    <3>1. j \in Handles \ {root}
      BY <1>2
    <3>2. PICK k \in 1..Len(reach) : parent[j] = reach[k]
      BY <1>1 DEF ToSet
    <3>3. \E m \in 1..Len(reach) : reach[m] = j
      BY <1>3, <3>1, <3>2
    <3> QED
      BY <1>1, <3>3 DEF ToSet
  <2>2. i \in S /\ root \notin S
    BY <1>2 DEF Below
  <2> QED
    BY <2>1, <2>2 DEF Below
<1> QED
  BY <1>4, <1>5

\* The listing is what the walk has reached, each node in one place, in the order
\* of the sort keys.
LEMMA ListingIsReached ==
  ASSUME TreeInv, pc = "open"
  PROVE  /\ Len(nodes) \in Nat /\ Len(nodes) = Len(reach) /\ Rows = 1..Len(nodes)
         /\ ToSet(nodes) = ToSet(reach)
         /\ \A q, r \in Rows : nodes[q] = nodes[r] => q = r
         /\ \A q, r \in Rows : q < r => ~LexLess(SortKey(nodes[r]), SortKey(nodes[q]))
         /\ nodes[1] = root /\ 1 \in Rows
<1> DEFINE D == DOMAIN reach
           n == Len(reach)
<1>1. Keyed(reach, D) /\ 1 \in D /\ \A i \in D : ~Precedes(reach, i, 1)
  BY RootSortsFirst
<1>2. n \in Nat /\ D = 1..n /\ reach[1] = root
  BY <1>1 DEF TreeInv, CoverInv, WalkInv, Standing
<1>3. Cardinality(D) = n
  <2>1. Cardinality(1..n) = IF 1 > n THEN 0 ELSE n - 1 + 1
    <3>1. n \in Int /\ 1 \in Int
      BY <1>2
    <3> HIDE DEF n
    <3> QED
      BY <3>1, FS_Interval
  <2> HIDE DEF D, n
  <2> QED
    BY <1>2, <2>1
<1>4. nodes = Sorted(reach, D)
  BY DEF TreeInv
<1> HIDE DEF D, n
<1>5. DOMAIN nodes = 1..n
  BY <1>1, <1>3, <1>4, SortedReorders
<1>6. PICK order \in [1..n -> D] :
        /\ \A k \in 1..n : nodes[k] = reach[order[k]]
        /\ \A k, l \in 1..n : order[k] = order[l] => k = l
        /\ \A j \in D : \E k \in 1..n : order[k] = j
        /\ \A k, l \in 1..n : k < l => Precedes(reach, order[k], order[l])
  BY <1>1, <1>3, <1>4, SortedReorders
<1>7. Rows = 1..n /\ Len(nodes) = n
  <2>1. nodes = [k \in 1..n |-> nodes[k]]
    BY <1>4, <1>5 DEF Sorted
  <2>2. Len(nodes) = n
    BY <1>2, <2>1
  <2> QED
    BY <1>5, <2>2 DEF Rows
<1>8. ToSet(nodes) = ToSet(reach)
  BY <1>5, <1>6 DEF ToSet, D
<1>9. \A q, r \in 1..n : nodes[q] = nodes[r] => q = r
  <2>1. \A i, j \in D : reach[i] = reach[j] => i = j
    BY <1>2 DEF TreeInv, CoverInv, WalkInv, n
  <2> QED
    BY <2>1, <1>6
<1>10. ASSUME NEW q \in 1..n, NEW r \in 1..n, q < r
       PROVE  ~LexLess(SortKey(nodes[r]), SortKey(nodes[q]))
  <2>1. order[q] \in D /\ order[r] \in D /\ Precedes(reach, order[q], order[r])
    BY <1>6, <1>10
  <2>2. ~Precedes(reach, order[r], order[q])
    BY <2>1, <1>1, PrecedesIsAnOrder
  <2> QED
    BY <2>2, <1>6 DEF Precedes
<1>11. nodes[1] = root /\ 1 \in 1..n
  <2>1. 1 \in 1..n
    BY <1>1, <1>2
  <2>2. PICK k \in 1..n : order[k] = 1
    BY <1>1, <1>6
  <2>3. ~(1 < k)
    <3>1. 1 < k => Precedes(reach, order[1], order[k])
      BY <2>1, <1>6
    <3>2. order[1] \in D
      BY <2>1, <1>6
    <3> QED
      BY <3>1, <3>2, <2>2, <1>1
  <2>4. k = 1
    BY <2>2, <2>3, <1>2
  <2> QED
    BY <2>1, <2>2, <2>4, <1>2, <1>6
<1> QED
  BY <1>2, <1>7, <1>8, <1>9, <1>10, <1>11 DEF n

\* Opening a folder, whatever its list, leaves the nodes below its root, each once
\* and no other, with the root first (folder.rs:97-128).
THEOREM OpenedIsSubtree == Spec => []WholeSubtree
<1>1. TreeInv => WholeSubtree
  <2> SUFFICES ASSUME TreeInv, pc = "open"
               PROVE  /\ ToSet(nodes) = Below(root) /\ nodes[1] = root
                      /\ Len(nodes) = Cardinality(ToSet(nodes))
    BY DEF WholeSubtree
  <2> DEFINE n == Len(nodes)
             T == ToSet(nodes)
  <2>1. /\ n \in Nat /\ DOMAIN nodes = 1..n /\ T = ToSet(reach) /\ nodes[1] = root
        /\ \A q, r \in 1..n : nodes[q] = nodes[r] => q = r
    BY ListingIsReached DEF Rows
  <2>2. Cardinality(T) = n
    <3>1. T = {nodes[k] : k \in 1..n}
      BY <2>1 DEF ToSet
    <3>2. [k \in 1..n |-> nodes[k]] \in Bijection(1..n, T)
      <4> DEFINE g == [k \in 1..n |-> nodes[k]]
      <4>1. g \in [1..n -> T]
        BY <3>1
      <4>2. \A q, r \in 1..n : g[q] = g[r] => q = r
        BY <2>1
      <4>3. \A t \in T : \E k \in 1..n : g[k] = t
        BY <3>1
      <4> HIDE DEF g
      <4> QED
        BY <4>1, <4>2, <4>3, Fun_IsBij DEF g
    <3>3. ExistsBijection(1..n, T)
      BY <3>2 DEF ExistsBijection
    <3> HIDE DEF n, T
    <3> QED
      BY <3>3, <2>1, FS_CountingElements
  <2> QED
    BY <2>1, <2>2, BelowIsReached
<1> QED
  BY TreeInit, TreeStep, <1>1, PTL DEF Spec

\* From every node that a folder keeps, the parents lead to the root and end there,
\* unless the list puts a root that is neither its first node nor the link's below
\* itself: prune_children does not loop for ever (lib.rs:195-203), whatever other
\* circles the list draws.
THEOREM ClimbsComeToAnEnd == Spec => []ClimbsEnd
<1>1. TreeInv => ClimbsEnd
  <2> SUFFICES ASSUME TreeInv, pc = "open", NEW n \in ToSet(nodes),
                      root = 1 \/ specific # 0 \/ raw[root].parent \notin ToSet(nodes)
               PROVE  Ends(n)
    BY DEF ClimbsEnd
  <2>1. Keyed(reach, DOMAIN reach)
    BY RootSortsFirst
  <2>2. ToSet(nodes) \subseteq ToSet(reach)
    BY ListingIsReached
  <2>3. root \in Above(n)
    <3>1. PICK m \in DOMAIN reach : n = reach[m]
      BY <2>2 DEF ToSet
    <3>2. m \in 1..Len(reach)
      BY <2>1 DEF Keyed
    <3> QED
      BY <3>1, <3>2 DEF TreeInv, Leads
  <2>4. parent[root] \notin ToSet(nodes)
    <3>1. 0 \notin ToSet(reach)
      BY HandlesAreNumbers DEF TreeInv, CoverInv, WalkInv, Standing, Placed, ToSet
    <3> QED
      BY <2>2, <3>1 DEF TreeInv, Placed
  <2> QED
    BY <2>3, <2>4 DEF Ends
<1> QED
  BY TreeInit, TreeStep, <1>1, PTL DEF Spec

-----------------------------------------------------------------------------
(* Names, paths, and what a path begins with.                              *)

\* A path to be extended ends with a slash; a name has none and is not empty.
Stem(b) == b \in Seq(Nat) /\ Len(b) > 0 /\ b[Len(b)] = Slash
Plain(n) == n \in Seq(Nat) /\ Len(n) > 0 /\ \A k \in 1..Len(n) : n[k] # Slash

\* A stem, a name and a slash, place by place.
LEMMA GrownAt ==
  ASSUME NEW b \in Seq(Nat), NEW n \in Seq(Nat)
  PROVE  LET g == Append(b \o n, Slash)
         IN  /\ b \o n \in Seq(Nat) /\ g \in Seq(Nat)
             /\ Len(b \o n) = Len(b) + Len(n) /\ Len(g) = Len(b) + Len(n) + 1
             /\ \A k \in 1..Len(b) : (b \o n)[k] = b[k] /\ g[k] = b[k]
             /\ \A k \in 1..Len(n) : (b \o n)[Len(b) + k] = n[k] /\ g[Len(b) + k] = n[k]
             /\ g[Len(b) + Len(n) + 1] = Slash
<1>1. Len(b) \in Nat /\ Len(n) \in Nat /\ Slash \in Nat
  BY DEF Slash
<1> DEFINE h == b \o n
           g == Append(h, Slash)
<1>2. /\ h \in Seq(Nat) /\ Len(h) = Len(b) + Len(n)
      /\ \A k \in 1..Len(b) : h[k] = b[k]
  BY ConcatProperties
<1>3. \A k \in 1..Len(n) : h[Len(b) + k] = n[k]
  BY <1>1
<1> HIDE DEF h
<1>4. /\ g \in Seq(Nat) /\ Len(g) = Len(h) + 1 /\ g[Len(h) + 1] = Slash
      /\ \A k \in 1..Len(h) : g[k] = h[k]
  BY <1>1, <1>2, AppendProperties
<1> HIDE DEF g
<1>5. \A k \in 1..Len(b) : k \in 1..Len(h)
  BY <1>1, <1>2
<1>6. \A k \in 1..Len(n) : Len(b) + k \in 1..Len(h)
  BY <1>1, <1>2
<1> QED
  BY <1>2, <1>3, <1>4, <1>5, <1>6 DEF h, g

GrownRun(g, b, n) ==
  /\ g \in Seq(Nat) /\ Len(g) = Len(b) + Len(n) + 1
  /\ \A k \in 1..Len(b) : g[k] = b[k]
  /\ \A k \in 1..Len(n) : g[Len(b) + k] = n[k]

LEMMA GrownIs ==
  ASSUME NEW b \in Seq(Nat), NEW n \in Seq(Nat)
  PROVE  GrownRun(Append(b \o n, Slash), b, n)
<1> DEFINE h == Append(b \o n, Slash)
<1>1. /\ h \in Seq(Nat) /\ Len(h) = Len(b) + Len(n) + 1
      /\ \A k \in 1..Len(b) : h[k] = b[k]
      /\ \A k \in 1..Len(n) : h[Len(b) + k] = n[k]
  BY GrownAt
<1> HIDE DEF h
<1>2. GrownRun(h, b, n)
  BY <1>1 DEF GrownRun
<1> QED
  BY <1>2 DEF h

\* What ends with a slash and begins a grown path is all of it or begins its stem.
LEMMA StemOfGrown ==
  ASSUME NEW x, Stem(x), NEW b \in Seq(Nat), NEW n, Plain(n)
  PROVE  IsPrefix(x, Append(b \o n, Slash)) => IsPrefix(x, b) \/ x = Append(b \o n, Slash)
<1> DEFINE g == Append(b \o n, Slash)
<1>0. n \in Seq(Nat)
  BY DEF Plain
<1>1. n \in Seq(Nat) /\ Len(n) \in Nat /\ Len(b) \in Nat /\ x \in Seq(Nat) /\ Len(x) \in Nat
  BY DEF Plain, Stem
<1>g. GrownRun(g, b, n)
  BY <1>0, GrownIs
<1> HIDE DEF g
<1>2. /\ g \in Seq(Nat) /\ Len(g) = Len(b) + Len(n) + 1
      /\ \A k \in 1..Len(b) : g[k] = b[k]
      /\ \A k \in 1..Len(n) : g[Len(b) + k] = n[k]
  BY <1>g DEF GrownRun
<1> SUFFICES ASSUME IsPrefix(x, g) PROVE IsPrefix(x, b) \/ x = g
  BY DEF g
<1>3. Len(x) <= Len(g) /\ \A k \in 1..Len(x) : x[k] = g[k]
  BY <1>1, <1>2, PrefixAt
<1>4. CASE Len(x) <= Len(b)
  <2>1. \A k \in 1..Len(x) : x[k] = b[k]
    <3>1. \A k \in 1..Len(x) : k \in 1..Len(b)
      BY <1>1, <1>4
    <3> QED
      BY <3>1, <1>2, <1>3
  <2> QED
    BY <2>1, <1>1, <1>4, PrefixAt
<1>5. CASE Len(x) > Len(b) /\ Len(x) < Len(g)
  <2>1. PICK k \in 1..Len(n) : Len(x) = Len(b) + k
    <3>1. Len(x) - Len(b) \in 1..Len(n) /\ Len(x) = Len(b) + (Len(x) - Len(b))
      BY <1>1, <1>2, <1>5
    <3> QED
      BY <3>1
  <2>2. x[Len(x)] = n[k] /\ Len(x) \in 1..Len(x)
    <3>1. Len(x) \in 1..Len(x)
      BY <1>1, <1>5
    <3> QED
      BY <3>1, <2>1, <1>2, <1>3
  <2> QED
    BY <2>2 DEF Stem, Plain
<1>6. CASE Len(x) = Len(g)
  <2>1. x = g
    BY <1>1, <1>2, <1>3, <1>6, SeqEqual
  <2> QED
    BY <2>1
<1>7. Len(x) <= Len(g) /\ Len(g) \in Nat /\ Len(x) \in Nat /\ Len(b) \in Nat
  BY <1>1, <1>2, <1>3
<1>8. \/ Len(x) <= Len(b) \/ Len(x) = Len(g)
      \/ Len(x) > Len(b) /\ Len(x) < Len(g)
  BY <1>7
<1> QED
  BY <1>4, <1>5, <1>6, <1>8

\* A grown path says what it was grown from.
LEMMA GrownFrom ==
  ASSUME NEW b, Stem(b), NEW n, Plain(n), NEW c, Stem(c), NEW m, Plain(m)
  PROVE  Append(b \o n, Slash) = Append(c \o m, Slash) => b = c /\ n = m
<1> DEFINE g == Append(b \o n, Slash)
           h == Append(c \o m, Slash)
<1>1. b \in Seq(Nat) /\ n \in Seq(Nat) /\ c \in Seq(Nat) /\ m \in Seq(Nat)
  BY DEF Stem, Plain
<1>g. GrownRun(g, b, n) /\ GrownRun(h, c, m)
  BY <1>1, GrownIs
<1> HIDE DEF g, h
<1>2. /\ Len(g) = Len(b) + Len(n) + 1
      /\ \A k \in 1..Len(b) : g[k] = b[k]
      /\ \A k \in 1..Len(n) : g[Len(b) + k] = n[k]
  BY <1>g DEF GrownRun
<1>h. /\ Len(h) = Len(c) + Len(m) + 1
      /\ \A k \in 1..Len(c) : h[k] = c[k]
      /\ \A k \in 1..Len(m) : h[Len(c) + k] = m[k]
  BY <1>g DEF GrownRun
<1> SUFFICES ASSUME g = h PROVE b = c /\ n = m
  BY DEF g, h
<1>3. /\ Len(g) = Len(c) + Len(m) + 1
      /\ \A k \in 1..Len(c) : g[k] = c[k]
      /\ \A k \in 1..Len(m) : g[Len(c) + k] = m[k]
  BY <1>h
<1>l. /\ Len(b) \in Nat /\ Len(n) \in Nat /\ Len(c) \in Nat /\ Len(m) \in Nat
      /\ Len(b) \in 1..Len(b) /\ Len(c) \in 1..Len(c)
  BY <1>1 DEF Stem
<1>s. g[Len(b)] = Slash /\ g[Len(c)] = Slash
  BY <1>2, <1>3, <1>l DEF Stem
<1>4. ~(Len(b) < Len(c))
  <2> SUFFICES ASSUME Len(b) < Len(c) PROVE FALSE
    OBVIOUS
  <2>l. Len(b) + Len(n) + 1 = Len(c) + Len(m) + 1 /\ Len(m) > 0
    BY <1>2, <1>3 DEF Plain
  <2>1. Len(c) - Len(b) \in 1..Len(n) /\ Len(b) + (Len(c) - Len(b)) = Len(c)
    BY <2>l, <1>l
  <2>2. g[Len(c)] = n[Len(c) - Len(b)]
    BY <2>1, <1>2
  <2> QED
    BY <2>1, <2>2, <1>s DEF Plain
<1>5. ~(Len(c) < Len(b))
  <2> SUFFICES ASSUME Len(c) < Len(b) PROVE FALSE
    OBVIOUS
  <2>l. Len(b) + Len(n) + 1 = Len(c) + Len(m) + 1 /\ Len(n) > 0
    BY <1>2, <1>3 DEF Plain
  <2>1. Len(b) - Len(c) \in 1..Len(m) /\ Len(c) + (Len(b) - Len(c)) = Len(b)
    BY <2>l, <1>l
  <2>2. g[Len(b)] = m[Len(b) - Len(c)]
    BY <2>1, <1>3
  <2> QED
    BY <2>1, <2>2, <1>s DEF Plain
<1>6. Len(b) = Len(c) /\ Len(n) = Len(m)
  <2>1. Len(b) + Len(n) + 1 = Len(c) + Len(m) + 1
    BY <1>2, <1>3
  <2> QED
    BY <2>1, <1>l, <1>4, <1>5
<1>7. b = c
  <2>1. \A k \in 1..Len(b) : b[k] = c[k]
    BY <1>2, <1>3, <1>6
  <2> QED
    BY <2>1, <1>1, <1>6, SeqEqual
<1>8. n = m
  <2>1. \A k \in 1..Len(n) : n[k] = m[k]
    BY <1>2, <1>3, <1>6
  <2> QED
    BY <2>1, <1>1, <1>6, SeqEqual
<1> QED
  BY <1>7, <1>8

\* Of two beginnings of each other, and of what a grown path begins with.
LEMMA PrefixesMeet ==
  ASSUME NEW a \in Seq(Nat), NEW b \in Seq(Nat), IsPrefix(a, b), Len(b) <= Len(a)
  PROVE  a = b
<1>1. Len(a) \in Nat /\ Len(b) \in Nat /\ Len(a) <= Len(b) /\ \A k \in 1..Len(a) : a[k] = b[k]
  BY PrefixAt
<1>2. Len(a) = Len(b)
  BY <1>1
<1> QED
  BY <1>1, <1>2, SeqEqual

LEMMA PrefixesChain ==
  ASSUME NEW a \in Seq(Nat), NEW b \in Seq(Nat), NEW c \in Seq(Nat),
         IsPrefix(a, b), IsPrefix(b, c)
  PROVE  IsPrefix(a, c)
<1>1. /\ Len(a) \in Nat /\ Len(b) \in Nat /\ Len(c) \in Nat
      /\ Len(a) <= Len(b) /\ \A k \in 1..Len(a) : a[k] = b[k]
  BY PrefixAt
<1>2. Len(b) <= Len(c) /\ \A k \in 1..Len(b) : b[k] = c[k]
  BY PrefixAt
<1>3. \A k \in 1..Len(a) : k \in 1..Len(b)
  BY <1>1
<1>4. Len(a) <= Len(c) /\ \A k \in 1..Len(a) : a[k] = c[k]
  BY <1>1, <1>2, <1>3
<1> QED
  BY <1>4, PrefixAt

LEMMA PrefixOfGrown ==
  ASSUME NEW b \in Seq(Nat), NEW n \in Seq(Nat)
  PROVE  IsPrefix(b, b \o n) /\ IsPrefix(b, Append(b \o n, Slash))
<1>1. /\ b \o n \in Seq(Nat) /\ Append(b \o n, Slash) \in Seq(Nat)
      /\ Len(b \o n) = Len(b) + Len(n) /\ Len(Append(b \o n, Slash)) = Len(b) + Len(n) + 1
      /\ \A k \in 1..Len(b) : (b \o n)[k] = b[k] /\ Append(b \o n, Slash)[k] = b[k]
      /\ Len(b) \in Nat /\ Len(n) \in Nat
  BY GrownAt
<1>2. Len(b) <= Len(b) + Len(n) /\ Len(b) <= Len(b) + Len(n) + 1
  BY <1>1
<1> QED
  BY <1>1, <1>2, PrefixAt

LEMMA PrefixOfAppended ==
  ASSUME NEW x \in Seq(Nat), NEW y \in Seq(Nat)
  PROVE  IsPrefix(x, Append(y, Slash)) <=> IsPrefix(x, y) \/ x = Append(y, Slash)
<1> DEFINE z == Append(y, Slash)
<1>1. /\ z \in Seq(Nat) /\ Len(z) = Len(y) + 1 /\ \A k \in 1..Len(y) : z[k] = y[k]
      /\ Len(x) \in Nat /\ Len(y) \in Nat
  BY AppendProperties DEF Slash
<1> HIDE DEF z
<1>2. ASSUME IsPrefix(x, z), x # z PROVE IsPrefix(x, y)
  <2>1. Len(x) <= Len(z) /\ \A k \in 1..Len(x) : x[k] = z[k]
    BY <1>1, <1>2, PrefixAt
  <2>2. Len(x) # Len(z)
    BY <1>1, <1>2, <2>1, SeqEqual
  <2>3. Len(x) <= Len(y)
    BY <1>1, <2>1, <2>2
  <2>4. \A k \in 1..Len(x) : k \in 1..Len(y)
    BY <1>1, <2>3
  <2>5. \A k \in 1..Len(x) : x[k] = y[k]
    BY <1>1, <2>1, <2>4
  <2> QED
    BY <2>3, <2>5, PrefixAt
<1>3. ASSUME IsPrefix(x, y) PROVE IsPrefix(x, z)
  <2>1. Len(x) <= Len(y) /\ \A k \in 1..Len(x) : x[k] = y[k]
    BY <1>3, PrefixAt
  <2>2. Len(x) <= Len(z)
    BY <1>1, <2>1
  <2>3. \A k \in 1..Len(x) : k \in 1..Len(y)
    BY <1>1, <2>1
  <2>4. \A k \in 1..Len(x) : x[k] = z[k]
    BY <1>1, <2>1, <2>3
  <2> QED
    BY <1>1, <2>2, <2>4, PrefixAt
<1>4. IsPrefix(z, z)
  BY <1>1, PrefixAt
<1> QED
  BY <1>2, <1>3, <1>4 DEF z

\* A node was added below an earlier one, whose path its own goes on from.
GrewFrom(m, k) ==
  /\ parent[reach[m]] = reach[k]
  /\ path[reach[m]] = PrefixOf(reach[k]) \o Name(reach[m])

PathInv ==
  /\ TreeInv
  /\ pc \in {"walk", "open"} =>
       /\ path[root] = <<Slash>> \o Name(root) /\ raw[root].name # <<>>
       /\ \A i \in Handles : parent[i] # 0 => raw[i].name # <<>>
  /\ \A m \in 2..Len(reach) : \E k \in 1..(m - 1) : GrewFrom(m, k)

LEMMA NamesArePlain ==
  ASSUME raw \in Seq(RawNode), NEW i \in Handles, raw[i].name # <<>>
  PROVE  Plain(Name(i))
<1>1. raw[i].name \in Seq({Low, Slash, High}) /\ Name(i) \in Seq(Nat)
  <2>1. raw[i] \in RawNode
    BY DEF Handles
  <2> QED
    BY <2>1, NamesAreRuns DEF RawNode
<1> DEFINE s == raw[i].name
<1>2. Len(s) \in Nat /\ DOMAIN s = 1..Len(s) /\ Len(s) > 0
  BY <1>1
<1>3. Name(i) = [k \in 1..Len(s) |-> IF s[k] = Slash THEN High ELSE s[k]]
  BY <1>2 DEF Name
<1> HIDE DEF s
<1>4. Len(Name(i)) = Len(s)
  BY <1>2, <1>3
<1>5. \A k \in 1..Len(s) : Name(i)[k] # Slash
  BY <1>3 DEF High, Slash
<1> QED
  BY <1>1, <1>2, <1>4, <1>5 DEF Plain

LEMMA PathInit == Init => PathInv
<1> SUFFICES ASSUME Init PROVE PathInv
  OBVIOUS
<1>1. Len(reach) = 0 /\ pc = "read"
  BY DEF Init
<1> QED
  BY <1>1, TreeInit DEF PathInv

LEMMA PathStarts == PathInv /\ FindRoot => PathInv'
<1> SUFFICES ASSUME PathInv, FindRoot PROVE PathInv'
  OBVIOUS
<1>1. TreeInv' /\ Placed'
  BY TreeStep DEF PathInv, FindRoot, TreeInv, Next
<1>2. /\ raw' = raw /\ Handles' = Handles /\ Handles = 1..Len(raw) /\ Len(raw) \in Nat
      /\ reach' = <<root'>> /\ Len(reach') = 1 /\ parent' = ParentIn(Parsed)
      /\ pc' = "walk"
  BY HandlesAreNumbers DEF FindRoot, Handles, PathInv, TreeInv
<1>3. root' \in Parsed
  <2>1. Parsed \subseteq Nat
    BY <1>2 DEF Parsed
  <2>2. \E i \in Parsed : \A j \in Parsed : i <= j
    BY <2>1, LeastOf DEF FindRoot
  <2> QED
    BY <2>2 DEF FindRoot
<1>4. \A i \in Parsed : raw[i].name # <<>> /\ i \in Handles
  BY DEF Parsed
<1>5. path'[root'] = <<Slash>> \o Name(root)'
  <2>1. path'[root'] = <<Slash>> \o Name(root')
    BY <1>2, <1>3, <1>4 DEF FindRoot
  <2>2. Name(root)' = Name(root')
    BY <1>2 DEF Name
  <2> QED
    BY <2>1, <2>2
<1>6. \A i \in Handles : parent'[i] # 0 => i \in Parsed
  BY <1>2 DEF ParentIn
<1> QED
  BY <1>1, <1>2, <1>3, <1>4, <1>5, <1>6 DEF PathInv

LEMMA PathPushes == PathInv /\ PushChild => PathInv'
<1> SUFFICES ASSUME PathInv, PushChild PROVE PathInv'
  OBVIOUS
<1>1. PICK c \in Unvisited :
        /\ reach' = Append(reach, c)
        /\ path' = [path EXCEPT ![c] = path[reach[at]] \o <<Slash>> \o Name(c)]
  BY DEF PushChild
<1>2. /\ UNCHANGED <<raw, root, parent, Handles>> /\ \A i : Name(i)' = Name(i)
      /\ pc = "walk" /\ pc' = "walk" /\ Placed
  BY DEF PushChild, TreeInv, PathInv, Handles, Name
<1>3. TreeInv'
  BY TreeStep DEF PathInv, Next
<1>4. c \in Handles /\ c # root /\ parent[c] = reach[at]
  BY DEF Unvisited, Children
<1>5. /\ Len(reach) \in Nat /\ at \in 1..Len(reach) /\ reach \in Seq(Handles)
      /\ \A m \in 1..Len(reach) : reach[m] \in Handles
  BY <1>2 DEF PushChild, PathInv, TreeInv, CoverInv, WalkInv, Standing, Placed
<1>6. /\ Len(reach') = Len(reach) + 1
      /\ \A m \in 1..Len(reach) : reach'[m] = reach[m]
      /\ reach'[Len(reach) + 1] = c
  BY <1>1, <1>4, <1>5, AppendProperties
<1>7. \A m \in 1..Len(reach) : reach[m] # c
  <2>1. \A m, n \in 1..Len(reach') : reach'[m] = reach'[n] => m = n
    BY <1>3 DEF TreeInv, CoverInv, WalkInv
  <2>2. Len(reach) + 1 \in 1..Len(reach')
    BY <1>5, <1>6
  <2>3. \A m \in 1..Len(reach) : m \in 1..Len(reach') /\ m # Len(reach) + 1
    BY <1>5, <1>6
  <2> QED
    BY <2>1, <2>2, <2>3, <1>6
<1>8. path' \in [Handles -> Seq(Nat)] /\ path \in [Handles -> Seq(Nat)]
  BY <1>2, <1>3 DEF TreeInv, Placed
<1>9. \A m \in 1..Len(reach) : path'[reach[m]] = path[reach[m]]
  BY <1>1, <1>5, <1>7, <1>8
<1>10. path'[c] = PrefixOf(reach[at]) \o Name(c)
  <2>1. path'[c] = path[reach[at]] \o <<Slash>> \o Name(c)
    BY <1>1, <1>4, <1>8
  <2>2. path[reach[at]] \in Seq(Nat) /\ Slash \in Nat
    BY <1>5, <1>8 DEF Slash
  <2>3. Append(path[reach[at]], Slash) = path[reach[at]] \o <<Slash>>
    BY <2>2, AppendIsConcat
  <2> QED
    BY <2>1, <2>3 DEF PrefixOf
<1>11. ASSUME NEW m \in 2..Len(reach') PROVE \E k \in 1..(m - 1) : GrewFrom(m, k)'
  <2>1. CASE m = Len(reach) + 1
    <3>1. at \in 1..(m - 1) /\ reach'[m] = c /\ reach'[at] = reach[at]
      BY <2>1, <1>5, <1>6
    <3>2. path'[reach[at]] = path[reach[at]] /\ at' = at
      BY <1>5, <1>9 DEF PushChild
    <3>3. Name(c)' = Name(c)
      BY <1>2
    <3>4. GrewFrom(m, at)'
      BY <3>1, <3>2, <3>3, <1>2, <1>4, <1>10 DEF GrewFrom, PrefixOf
    <3> QED
      BY <3>1, <3>2, <3>4
  <2>2. CASE m # Len(reach) + 1
    <3>1. m \in 2..Len(reach)
      BY <2>2, <1>5, <1>6
    <3>2. PICK k \in 1..(m - 1) : GrewFrom(m, k)
      BY <3>1 DEF PathInv
    <3>3. k \in 1..Len(reach) /\ m \in 1..Len(reach)
      BY <3>1, <1>5
    <3>4. reach'[m] = reach[m] /\ reach'[k] = reach[k]
      BY <3>3, <1>6
    <3>5. path'[reach[m]] = path[reach[m]] /\ path'[reach[k]] = path[reach[k]]
      BY <3>3, <1>9
    <3>6. GrewFrom(m, k)'
      BY <3>2, <3>4, <3>5, <1>2 DEF GrewFrom, PrefixOf
    <3> QED
      BY <3>6
  <2> QED
    BY <2>1, <2>2
<1>12. path'[root] = path[root]
  BY <1>1, <1>2, <1>4, <1>8 DEF Placed
<1> QED
  BY <1>2, <1>3, <1>11, <1>12 DEF PathInv

LEMMA PathStep == PathInv /\ [Next]_vars => PathInv'
<1> SUFFICES ASSUME PathInv, [Next]_vars PROVE PathInv'
  OBVIOUS
<1>1. TreeInv'
  BY TreeStep DEF PathInv
<1>2. CASE FindRoot
  BY <1>2, PathStarts
<1>3. CASE PushChild
  BY <1>3, PathPushes
<1>4. CASE Fail \/ NextNode \/ Finish \/ UNCHANGED vars
  <2>1. UNCHANGED <<raw, root, parent, reach, path, Handles>>
    BY <1>4 DEF Fail, NextNode, Finish, vars, Handles
  <2>2. \A m, k : GrewFrom(m, k)' <=> GrewFrom(m, k)
    BY <2>1 DEF GrewFrom, PrefixOf, Name
  <2>3. pc' \in {"walk", "open"} => pc \in {"walk", "open"}
    BY <1>4 DEF Fail, NextNode, Finish, vars
  <2>4. Name(root)' = Name(root)
    BY <2>1 DEF Name
  <2> QED
    BY <1>1, <2>1, <2>2, <2>3, <2>4 DEF PathInv
<1> QED
  BY <1>2, <1>3, <1>4 DEF Next

\* An open folder, and what its tree and its paths are in the order of the walk.
Opened == PathInv /\ pc = "open"

Grown(m, k) ==
  /\ parent[reach[m]] = reach[k]
  /\ Plain(Name(reach[m]))
  /\ path[reach[m]] = PrefixOf(reach[k]) \o Name(reach[m])
  /\ PrefixOf(reach[m]) = Append(PrefixOf(reach[k]) \o Name(reach[m]), Slash)

LEMMA InTree ==
  ASSUME Opened
  PROVE  /\ Handles = 1..Len(raw) /\ Len(raw) \in Nat /\ 0 \notin Handles
         /\ Len(reach) \in Nat /\ 1 \in 1..Len(reach) /\ reach[1] = root /\ root \in Handles
         /\ \A m \in 1..Len(reach) : reach[m] \in Handles
         /\ \A l, m \in 1..Len(reach) : reach[l] = reach[m] => l = m
         /\ parent \in [Handles \cup {0} -> Handles \cup {0}]
         /\ path \in [Handles -> Seq(Nat)]
         /\ ToSet(reach) = {reach[m] : m \in 1..Len(reach)}
         /\ ToSet(reach) = Below(root) /\ ToSet(nodes) = ToSet(reach)
<1>1. TreeInv /\ Placed /\ pc = "open"
  BY DEF Opened, PathInv, TreeInv
<1>2. Handles = 1..Len(raw) /\ Len(raw) \in Nat
  BY <1>1, HandlesAreNumbers DEF TreeInv
<1>3. /\ Len(reach) \in Nat /\ Len(reach) > 0 /\ reach[1] = root /\ root \in Handles
      /\ reach \in Seq(Handles)
      /\ \A l, m \in 1..Len(reach) : reach[l] = reach[m] => l = m
  BY <1>1 DEF TreeInv, CoverInv, WalkInv, Standing, Placed
<1>4. ToSet(reach) = {reach[m] : m \in 1..Len(reach)}
  <2>1. DOMAIN reach = 1..Len(reach)
    BY <1>3
  <2> QED
    BY <2>1 DEF ToSet
<1>5. ToSet(reach) = Below(root) /\ ToSet(nodes) = ToSet(reach)
  BY <1>1, BelowIsReached, ListingIsReached
<1>6. \A m \in 1..Len(reach) : reach[m] \in Handles
  BY <1>3
<1> QED
  BY <1>1, <1>2, <1>3, <1>4, <1>5, <1>6 DEF Placed

LEMMA StemsOfPaths ==
  ASSUME Opened, NEW i \in Handles
  PROVE  /\ Stem(PrefixOf(i)) /\ PrefixOf(i) \in Seq(Nat) /\ path[i] \in Seq(Nat)
         /\ Len(PrefixOf(i)) = Len(path[i]) + 1 /\ Len(path[i]) \in Nat
<1>1. path[i] \in Seq(Nat) /\ Slash \in Nat
  BY InTree DEF Slash
<1>2. /\ PrefixOf(i) \in Seq(Nat) /\ Len(PrefixOf(i)) = Len(path[i]) + 1
      /\ PrefixOf(i)[Len(path[i]) + 1] = Slash
  BY <1>1, AppendProperties DEF PrefixOf
<1>3. Len(path[i]) \in Nat
  BY <1>1
<1> QED
  BY <1>1, <1>2, <1>3 DEF Stem

LEMMA GrownInOrder ==
  ASSUME Opened, NEW m \in 2..Len(reach)
  PROVE  \E k \in 1..(m - 1) : Grown(m, k)
<1>1. PICK k \in 1..(m - 1) : GrewFrom(m, k)
  BY DEF Opened, PathInv
<1>2. k \in 1..Len(reach) /\ m \in 1..Len(reach)
  BY InTree
<1>3. reach[k] \in Handles /\ reach[m] \in Handles /\ parent[reach[m]] # 0
  BY <1>1, <1>2, InTree DEF GrewFrom
<1>4. Plain(Name(reach[m]))
  <2>1. raw[reach[m]].name # <<>> /\ raw \in Seq(RawNode)
    BY <1>3 DEF Opened, PathInv, TreeInv
  <2> QED
    BY <2>1, <1>3, NamesArePlain
<1> QED
  BY <1>1, <1>4 DEF GrewFrom, Grown, PrefixOf

-----------------------------------------------------------------------------
(* Climbing, step by step.                                                 *)

LEMMA AboveSelf == ASSUME NEW c \in Handles, 0 \notin Handles PROVE c \in Above(c)
  BY DEF Above

LEMMA AboveUp ==
  ASSUME NEW c \in Handles, parent[c] \in Handles, 0 \notin Handles
  PROVE  \A a \in Above(parent[c]) : a \in Above(c)
<1>1. \A S \in Closed : c \in S => parent[c] \in S
  BY DEF Closed
<1> QED
  BY <1>1 DEF Above

LEMMA AboveTwice ==
  ASSUME NEW a, NEW b \in Handles, NEW c \in Handles, 0 \notin Handles,
         a \in Above(b), b \in Above(c)
  PROVE  a \in Above(c)
  BY DEF Above

\* Whoever is above a node is the node or above its parent.
LEMMA AboveIs ==
  ASSUME parent \in [Handles \cup {0} -> Handles \cup {0}], 0 \notin Handles,
         NEW c \in Handles, NEW a \in Above(c), a # c
  PROVE  parent[c] \in Handles /\ a \in Above(parent[c])
<1>1. CASE parent[c] = 0
  <2>1. {c} \in Closed
    BY <1>1 DEF Closed
  <2> QED
    BY <2>1 DEF Above
<1>2. CASE parent[c] # 0
  <2>1. parent[c] \in Handles
    BY <1>2
  <2> DEFINE U == Above(parent[c])
             S == {c} \cup U
  <2>2. U \subseteq Handles /\ parent[c] \in U
    BY <2>1, AboveSelf DEF Above
  <2>3. \A i \in U : parent[i] # 0 => parent[i] \in U
    <3> SUFFICES ASSUME NEW i \in U, parent[i] # 0 PROVE parent[i] \in U
      OBVIOUS
    <3>1. parent[i] \in Handles
      BY <2>2
    <3>2. \A T \in Closed : i \in T => parent[i] \in T
      BY DEF Closed
    <3> QED
      BY <3>1, <3>2, <2>1 DEF Above
  <2>4. S \in Closed
    BY <2>2, <2>3 DEF Closed
  <2>5. a \in S
    BY <2>4 DEF Above
  <2> QED
    BY <2>1, <2>5
<1> QED
  BY <1>1, <1>2

\* Nothing that was reached is above a root that has no parent among it.
LEMMA RootIsTop ==
  ASSUME Opened, RootOnTop, NEW a \in ToSet(reach), a \in Above(root)
  PROVE  a = root
<1> SUFFICES ASSUME a # root PROVE FALSE
  OBVIOUS
<1>1. root \in Handles /\ 0 \notin Handles /\ a \in Handles
  BY InTree
<1>2. parent[root] \in Handles /\ a \in Above(parent[root])
  BY <1>1, InTree, AboveIs
<1>3. root \in Above(a)
  BY <1>1, InTree DEF Below, Above
<1>4. root \in Above(parent[root])
  BY <1>1, <1>2, <1>3, AboveTwice
<1>5. parent[root] \in Below(root)
  BY <1>1, <1>2, <1>4 DEF Above, Below
<1> QED
  BY <1>5, InTree DEF RootOnTop

\* Above a node is what the walk came to before it, by way of its parent.
LEMMA AboveInOrder ==
  ASSUME Opened, RootOnTop, NEW m \in 1..Len(reach), NEW l \in 1..Len(reach),
         reach[l] \in Above(reach[m]), l # m
  PROVE  /\ m \in 2..Len(reach)
         /\ \A k \in 1..(m - 1) : Grown(m, k) => reach[l] \in Above(reach[k])
<1>1. reach[l] # reach[m]
  BY InTree
<1>2. m # 1
  <2> SUFFICES ASSUME m = 1 PROVE FALSE
    OBVIOUS
  <2>1. reach[l] = root
    BY InTree, RootIsTop
  <2> QED
    BY <2>1, <1>1, InTree
<1>3. parent[reach[m]] \in Handles /\ reach[l] \in Above(parent[reach[m]])
  <2>1. reach[m] \in Handles /\ 0 \notin Handles
    BY InTree
  <2> QED
    BY <2>1, <1>1, InTree, AboveIs
<1>4. m \in 2..Len(reach)
  BY <1>2, InTree
<1> QED
  BY <1>3, <1>4 DEF Grown

LEMMA AboveIsEarlier ==
  ASSUME Opened, RootOnTop
  PROVE  \A m, l \in 1..Len(reach) : reach[l] \in Above(reach[m]) => l <= m
<1> DEFINE Bad == {m \in 1..Len(reach) :
                     \E l \in 1..Len(reach) : reach[l] \in Above(reach[m]) /\ ~(l <= m)}
<1> SUFFICES ASSUME Bad # {} PROVE FALSE
  OBVIOUS
<1>1. Bad \subseteq Nat
  OBVIOUS
<1>2. PICK m \in Bad : \A n \in Bad : m <= n
  BY <1>1, LeastOf
<1>3. PICK l \in 1..Len(reach) : reach[l] \in Above(reach[m]) /\ ~(l <= m)
  OBVIOUS
<1>4. m \in 1..Len(reach) /\ m \in Nat /\ l \in Nat /\ l # m
  BY <1>3
<1>5. m \in 2..Len(reach)
  BY <1>3, <1>4, AboveInOrder
<1>6. PICK k \in 1..(m - 1) : Grown(m, k)
  BY <1>5, GrownInOrder
<1>7. k \in 1..Len(reach) /\ k < m /\ k \in Nat
  BY <1>4, InTree
<1>8. reach[l] \in Above(reach[k])
  BY <1>3, <1>4, <1>6, AboveInOrder
<1>9. k \notin Bad
  BY <1>2, <1>4, <1>7
<1>10. l <= k
  BY <1>7, <1>8, <1>9
<1> QED
  BY <1>3, <1>4, <1>7, <1>10

-----------------------------------------------------------------------------
(* Paths and the tree.                                                     *)

\* Every path but the root's goes on from the root's.
LEMMA RootIsShortest ==
  ASSUME Opened, NEW m \in 2..Len(reach)
  PROVE  /\ IsPrefix(PrefixOf(root), path[reach[m]])
         /\ Len(PrefixOf(root)) < Len(PrefixOf(reach[m]))
<1>1. m \in 1..Len(reach) /\ m > 1
  BY InTree
<1>2. IsPrefix(PrefixOf(root), path[reach[m]])
  BY <1>1 DEF Opened, PathInv, TreeInv, Leads
<1>3. reach[m] \in Handles /\ root \in Handles
  BY <1>1, InTree
<1>4. /\ PrefixOf(root) \in Seq(Nat) /\ path[reach[m]] \in Seq(Nat)
      /\ Len(PrefixOf(reach[m])) = Len(path[reach[m]]) + 1 /\ Len(path[reach[m]]) \in Nat
  BY <1>3, StemsOfPaths
<1>5. Len(PrefixOf(root)) <= Len(path[reach[m]]) /\ Len(PrefixOf(root)) \in Nat
  BY <1>2, <1>4, PrefixAt
<1> QED
  BY <1>2, <1>4, <1>5

\* Where no two siblings have one name, no two nodes have one path.
LEMMA PathsDiffer ==
  ASSUME Opened, Orderly
  PROVE  \A m, l \in 1..Len(reach) : PrefixOf(reach[l]) = PrefixOf(reach[m]) => l = m
<1> DEFINE Bad == {m \in 1..Len(reach) :
                     \E l \in 1..Len(reach) : PrefixOf(reach[l]) = PrefixOf(reach[m]) /\ l # m}
<1> SUFFICES ASSUME Bad # {} PROVE FALSE
  OBVIOUS
<1>1. Bad \subseteq Nat
  OBVIOUS
<1>2. PICK m \in Bad : \A n \in Bad : m <= n
  BY <1>1, LeastOf
<1>3. PICK l \in 1..Len(reach) : PrefixOf(reach[l]) = PrefixOf(reach[m]) /\ l # m
  OBVIOUS
<1>4. m \in 1..Len(reach) /\ m \in Nat /\ l \in Nat /\ reach[1] = root /\ Len(reach) \in Nat
  BY InTree
<1>5. m # 1
  <2> SUFFICES ASSUME m = 1 PROVE FALSE
    OBVIOUS
  <2>1. l \in 2..Len(reach)
    BY <1>3, <1>4
  <2>2. Len(PrefixOf(root)) < Len(PrefixOf(reach[l])) /\ Len(PrefixOf(root)) \in Nat
    BY <2>1, RootIsShortest, InTree, StemsOfPaths
  <2> QED
    BY <2>2, <1>3, <1>4
<1>6. l # 1
  <2> SUFFICES ASSUME l = 1 PROVE FALSE
    OBVIOUS
  <2>1. m \in 2..Len(reach)
    BY <1>3, <1>4
  <2>2. Len(PrefixOf(root)) < Len(PrefixOf(reach[m])) /\ Len(PrefixOf(root)) \in Nat
    BY <2>1, RootIsShortest, InTree, StemsOfPaths
  <2> QED
    BY <2>2, <1>3, <1>4
<1>7. m \in 2..Len(reach) /\ l \in 2..Len(reach)
  BY <1>3, <1>4, <1>5, <1>6
<1>8. PICK k \in 1..(m - 1) : Grown(m, k)
  BY <1>7, GrownInOrder
<1>9. PICK j \in 1..(l - 1) : Grown(l, j)
  BY <1>7, GrownInOrder
<1>10. k \in 1..Len(reach) /\ j \in 1..Len(reach) /\ k \in Nat /\ k < m
  BY <1>4, <1>7
<1>11. /\ reach[k] \in Handles /\ reach[j] \in Handles /\ reach[m] \in Handles
       /\ reach[l] \in Handles
  BY <1>4, <1>10, InTree
<1>12. Stem(PrefixOf(reach[k])) /\ Stem(PrefixOf(reach[j]))
  BY <1>11, StemsOfPaths
<1>13. /\ Plain(Name(reach[m])) /\ Plain(Name(reach[l]))
       /\ Append(PrefixOf(reach[j]) \o Name(reach[l]), Slash)
            = Append(PrefixOf(reach[k]) \o Name(reach[m]), Slash)
  BY <1>3, <1>8, <1>9 DEF Grown
<1>14. PrefixOf(reach[j]) = PrefixOf(reach[k]) /\ Name(reach[l]) = Name(reach[m])
  <2> DEFINE b == PrefixOf(reach[j])
             c == PrefixOf(reach[k])
             n == Name(reach[l])
             p == Name(reach[m])
  <2>1. Stem(b) /\ Stem(c) /\ Plain(n) /\ Plain(p)
    BY <1>12, <1>13
  <2>3. Append(b \o n, Slash) = Append(c \o p, Slash)
    BY <1>12, <1>13
  <2> HIDE DEF b, c, n, p
  <2>4. Append(b \o n, Slash) = Append(c \o p, Slash) => b = c /\ n = p
    BY <2>1, GrownFrom
  <2>2. b = c /\ n = p
    BY <2>3, <2>4
  <2> QED
    BY <2>2 DEF b, c, n, p
<1>15. k \notin Bad
  BY <1>2, <1>4, <1>10
<1>16. j = k
  BY <1>10, <1>14, <1>15
<1>17. parent[reach[l]] = parent[reach[m]] /\ reach[l] # reach[m]
  <2>1. reach[l] # reach[m]
    BY <1>3, <1>4, InTree
  <2> QED
    BY <2>1, <1>8, <1>9, <1>16 DEF Grown
<1>18. reach[l] \in ToSet(nodes) /\ reach[m] \in ToSet(nodes)
  BY <1>4, InTree
<1> QED
  BY <1>14, <1>17, <1>18 DEF Orderly, NamesDiffer

\* Paths begin with those of the nodes above, and with no others.
LEMMA AboveBegins ==
  ASSUME Opened, Orderly
  PROVE  \A m, l \in 1..Len(reach) :
           reach[l] \in Above(reach[m]) => IsPrefix(PrefixOf(reach[l]), PrefixOf(reach[m]))
<1> DEFINE Bad == {m \in 1..Len(reach) :
                     \E l \in 1..Len(reach) :
                       /\ reach[l] \in Above(reach[m])
                       /\ ~IsPrefix(PrefixOf(reach[l]), PrefixOf(reach[m]))}
<1> SUFFICES ASSUME Bad # {} PROVE FALSE
  OBVIOUS
<1>1. Bad \subseteq Nat
  OBVIOUS
<1>2. PICK m \in Bad : \A n \in Bad : m <= n
  BY <1>1, LeastOf
<1>3. PICK l \in 1..Len(reach) : /\ reach[l] \in Above(reach[m])
                                 /\ ~IsPrefix(PrefixOf(reach[l]), PrefixOf(reach[m]))
  OBVIOUS
<1>4. m \in 1..Len(reach) /\ m \in Nat
  OBVIOUS
<1>5. l # m
  <2> SUFFICES ASSUME l = m PROVE FALSE
    OBVIOUS
  <2>1. PrefixOf(reach[m]) \in Seq(Nat)
    BY <1>4, InTree, StemsOfPaths
  <2>2. IsPrefix(PrefixOf(reach[m]), PrefixOf(reach[m]))
    <3> DEFINE a == PrefixOf(reach[m])
    <3>1. a \in Seq(Nat)
      BY <2>1
    <3> HIDE DEF a
    <3>2. Len(a) \in Nat
      BY <3>1
    <3>3. IsPrefix(a, a)
      BY <3>1, <3>2, PrefixAt
    <3> QED
      BY <3>3 DEF a
  <2> QED
    BY <2>2, <1>3
<1>6. m \in 2..Len(reach)
  BY <1>3, <1>4, <1>5, AboveInOrder DEF Orderly
<1>7. PICK k \in 1..(m - 1) : Grown(m, k)
  BY <1>6, GrownInOrder
<1>8. k \in 1..Len(reach) /\ k < m /\ k \in Nat
  BY <1>4, InTree
<1>9. reach[l] \in Above(reach[k])
  BY <1>3, <1>4, <1>5, <1>7, AboveInOrder DEF Orderly
<1>10. k \notin Bad
  BY <1>2, <1>4, <1>8
<1>11. IsPrefix(PrefixOf(reach[l]), PrefixOf(reach[k]))
  BY <1>8, <1>9, <1>10
<1>12. /\ PrefixOf(reach[l]) \in Seq(Nat) /\ PrefixOf(reach[k]) \in Seq(Nat)
       /\ PrefixOf(reach[m]) \in Seq(Nat)
  BY <1>4, <1>8, InTree, StemsOfPaths
<1>13. IsPrefix(PrefixOf(reach[k]), PrefixOf(reach[m]))
  <2> DEFINE b == PrefixOf(reach[k])
             n == Name(reach[m])
  <2>1. b \in Seq(Nat) /\ n \in Seq(Nat) /\ PrefixOf(reach[m]) = Append(b \o n, Slash)
    BY <1>7, <1>12 DEF Grown, Plain
  <2> HIDE DEF b, n
  <2>2. IsPrefix(b, Append(b \o n, Slash))
    BY <2>1, PrefixOfGrown
  <2> QED
    BY <2>1, <2>2 DEF b
<1>14. IsPrefix(PrefixOf(reach[l]), PrefixOf(reach[m]))
  BY <1>11, <1>12, <1>13, PrefixesChain
<1> QED
  BY <1>3, <1>14

LEMMA BeginsAbove ==
  ASSUME Opened, Orderly
  PROVE  \A m, l \in 1..Len(reach) :
           IsPrefix(PrefixOf(reach[l]), PrefixOf(reach[m])) => reach[l] \in Above(reach[m])
<1> DEFINE Bad == {m \in 1..Len(reach) :
                     \E l \in 1..Len(reach) :
                       /\ IsPrefix(PrefixOf(reach[l]), PrefixOf(reach[m]))
                       /\ reach[l] \notin Above(reach[m])}
<1> SUFFICES ASSUME Bad # {} PROVE FALSE
  OBVIOUS
<1>1. Bad \subseteq Nat
  OBVIOUS
<1>2. PICK m \in Bad : \A n \in Bad : m <= n
  BY <1>1, LeastOf
<1>3. PICK l \in 1..Len(reach) : /\ IsPrefix(PrefixOf(reach[l]), PrefixOf(reach[m]))
                                 /\ reach[l] \notin Above(reach[m])
  OBVIOUS
<1>4. m \in 1..Len(reach) /\ m \in Nat /\ l \in Nat /\ Len(reach) \in Nat
  BY InTree
<1>5. reach[m] \in Handles /\ reach[l] \in Handles /\ 0 \notin Handles
  BY <1>4, InTree
<1>6. PrefixOf(reach[l]) # PrefixOf(reach[m])
  <2>1. reach[l] # reach[m]
    BY <1>3, <1>5, AboveSelf
  <2> QED
    BY <2>1, <1>4, PathsDiffer
<1>7. m # 1
  <2> SUFFICES ASSUME m = 1 PROVE FALSE
    OBVIOUS
  <2>1. reach[m] = root /\ l # 1
    BY <1>6, InTree
  <2>2. l \in 2..Len(reach)
    BY <2>1, <1>4
  <2>3. Len(PrefixOf(root)) < Len(PrefixOf(reach[l]))
    BY <2>2, RootIsShortest
  <2>4. /\ PrefixOf(reach[l]) \in Seq(Nat) /\ PrefixOf(root) \in Seq(Nat)
        /\ Len(PrefixOf(root)) \in Nat /\ Len(PrefixOf(reach[l])) \in Nat
    BY <2>1, <1>5, StemsOfPaths
  <2>5. Len(PrefixOf(reach[l])) <= Len(PrefixOf(root))
    BY <2>1, <2>4, <1>3, PrefixAt
  <2> QED
    BY <2>3, <2>4, <2>5
<1>8. m \in 2..Len(reach)
  BY <1>4, <1>7
<1>9. PICK k \in 1..(m - 1) : Grown(m, k)
  BY <1>8, GrownInOrder
<1>10. k \in 1..Len(reach) /\ k < m /\ k \in Nat /\ reach[k] \in Handles
  <2>1. Len(reach) \in Nat /\ m \in 2..Len(reach)
    BY <1>8, InTree
  <2>2. k \in 1..Len(reach) /\ k < m /\ k \in Nat
    BY <2>1
  <2> QED
    BY <2>2, InTree
<1>11. IsPrefix(PrefixOf(reach[l]), PrefixOf(reach[k]))
  <2> DEFINE x == PrefixOf(reach[l])
             b == PrefixOf(reach[k])
             n == Name(reach[m])
  <2>1. Stem(x) /\ b \in Seq(Nat) /\ Plain(n) /\ PrefixOf(reach[m]) = Append(b \o n, Slash)
    BY <1>5, <1>9, <1>10, StemsOfPaths DEF Grown
  <2>2. IsPrefix(x, Append(b \o n, Slash)) /\ x # Append(b \o n, Slash)
    BY <2>1, <1>3, <1>6
  <2> HIDE DEF x, b, n
  <2>3. IsPrefix(x, b)
    BY <2>1, <2>2, StemOfGrown
  <2> QED
    BY <2>3 DEF x, b
<1>12. k \notin Bad
  BY <1>2, <1>4, <1>10
<1>13. reach[l] \in Above(reach[k])
  BY <1>10, <1>11, <1>12
<1>14. reach[l] \in Above(reach[m])
  <2>1. parent[reach[m]] = reach[k]
    BY <1>9 DEF Grown
  <2> QED
    BY <2>1, <1>5, <1>10, <1>13, AboveUp
<1> QED
  BY <1>3, <1>14

\* The same of the nodes of the listing, whatever their places.
LEMMA PathsTell ==
  ASSUME Opened, Orderly, NEW a \in ToSet(nodes), NEW c \in ToSet(nodes)
  PROVE  /\ IsPrefix(PrefixOf(a), PrefixOf(c)) <=> a \in Above(c)
         /\ PrefixOf(a) = PrefixOf(c) => a = c
         /\ IsPrefix(PrefixOf(a), path[c]) <=> a \in Above(c) /\ a # c
         /\ a \in Handles /\ c \in Handles
<1>1. PICK l \in 1..Len(reach) : a = reach[l]
  BY InTree
<1>2. PICK m \in 1..Len(reach) : c = reach[m]
  BY InTree
<1>3. a \in Handles /\ c \in Handles /\ 0 \notin Handles
  BY <1>1, <1>2, InTree
<1>4. IsPrefix(PrefixOf(a), PrefixOf(c)) <=> a \in Above(c)
  BY <1>1, <1>2, AboveBegins, BeginsAbove
<1>5. PrefixOf(a) = PrefixOf(c) => a = c
  <2>1. PrefixOf(a) = PrefixOf(c) => l = m
    BY <1>1, <1>2, PathsDiffer
  <2> QED
    BY <2>1, <1>1, <1>2
<1>6. IsPrefix(PrefixOf(a), path[c]) <=> a \in Above(c) /\ a # c
  <2> DEFINE x == PrefixOf(a)
             y == path[c]
  <2>1. x \in Seq(Nat) /\ y \in Seq(Nat)
    BY <1>3, StemsOfPaths
  <2>2. PrefixOf(c) = Append(y, Slash) /\ Len(PrefixOf(c)) = Len(y) + 1
    BY <1>3, StemsOfPaths DEF PrefixOf
  <2> HIDE DEF x, y
  <2>3. IsPrefix(x, Append(y, Slash)) <=> IsPrefix(x, y) \/ x = Append(y, Slash)
    BY <2>1, PrefixOfAppended
  <2>4. ~(IsPrefix(x, y) /\ x = Append(y, Slash))
    <3>1. IsPrefix(x, y) => Len(x) <= Len(y)
      BY <2>1, PrefixAt
    <3>2. Len(x) \in Nat /\ Len(y) \in Nat
      BY <2>1
    <3> QED
      BY <3>1, <3>2, <2>2
  <2>5. x = PrefixOf(c) <=> a = c
    BY <1>5 DEF x
  <2> QED
    BY <2>2, <2>3, <2>4, <2>5, <1>4 DEF x, y
<1> QED
  BY <1>3, <1>4, <1>5, <1>6

LEMMA BelowIsListed ==
  ASSUME Opened, NEW n \in ToSet(nodes)
  PROVE  /\ Below(n) = {i \in ToSet(nodes) : n \in Above(i)} /\ n \in Below(n)
         /\ n \in Handles
<1>1. n \in Handles /\ 0 \notin Handles /\ root \in Handles /\ root \in Above(n)
  BY InTree DEF Below, Above
<1>2. \A i \in Handles : i \in Below(n) <=> n \in Above(i)
  BY <1>1 DEF Below, Above
<1>3. \A i \in Handles : n \in Above(i) => i \in ToSet(nodes)
  <2> SUFFICES ASSUME NEW i \in Handles, n \in Above(i) PROVE i \in ToSet(nodes)
    OBVIOUS
  <2>1. root \in Above(i)
    BY <1>1, AboveTwice
  <2>2. i \in Below(root)
    BY <1>1, <2>1 DEF Below, Above
  <2> QED
    BY <2>2, InTree
<1>4. n \in Above(n) /\ Below(n) \subseteq Handles /\ ToSet(nodes) \subseteq Handles
  BY <1>1, AboveSelf, InTree DEF Below
<1> QED
  BY <1>1, <1>2, <1>3, <1>4

\* What files_under finds by their paths are the files of the subtree.
LEMMA FilesAreFound ==
  ASSUME Opened, Orderly, NEW n \in ToSet(nodes)
  PROVE  {nodes[r] : r \in FilesUnder(n)} = Files(Below(n))
<1>1. \A r \in DOMAIN nodes : nodes[r] \in ToSet(nodes)
  BY DEF ToSet
<1>2. \A i \in ToSet(nodes) : \E r \in DOMAIN nodes : nodes[r] = i
  BY DEF ToSet
<1>3. \A c \in ToSet(nodes) : (c = n \/ IsPrefix(PrefixOf(n), path[c])) <=> n \in Above(c)
  <2> TAKE c \in ToSet(nodes)
  <2>1. IsPrefix(PrefixOf(n), path[c]) <=> n \in Above(c) /\ n # c
    BY PathsTell
  <2>2. n \in Above(n)
    BY BelowIsListed
  <2> QED
    BY <2>1, <2>2
<1>4. Below(n) = {i \in ToSet(nodes) : n \in Above(i)}
  BY BelowIsListed
<1> QED
  BY <1>1, <1>2, <1>3, <1>4 DEF FilesUnder, Files

\* Whatever has a node below it is a folder.
LEMMA AboveAreFolders ==
  ASSUME Opened, Orderly
  PROVE  \A c, a \in ToSet(nodes) : a \in Above(c) /\ a # c => raw[a].dir
<1> DEFINE Bad == {m \in 1..Len(reach) :
                     \E l \in 1..Len(reach) :
                       reach[l] \in Above(reach[m]) /\ l # m /\ ~raw[reach[l]].dir}
<1> SUFFICES ASSUME Bad # {} PROVE FALSE
  <2> SUFFICES ASSUME Bad = {}, NEW c \in ToSet(nodes), NEW a \in ToSet(nodes),
                      a \in Above(c), a # c
               PROVE  raw[a].dir
    OBVIOUS
  <2>1. PICK l \in 1..Len(reach) : a = reach[l]
    BY InTree
  <2>2. PICK m \in 1..Len(reach) : c = reach[m]
    BY InTree
  <2>3. m \notin Bad
    OBVIOUS
  <2> QED
    BY <2>1, <2>2, <2>3
<1>1. Bad \subseteq Nat
  OBVIOUS
<1>2. PICK m \in Bad : \A n \in Bad : m <= n
  BY <1>1, LeastOf
<1>3. PICK l \in 1..Len(reach) : reach[l] \in Above(reach[m]) /\ l # m /\ ~raw[reach[l]].dir
  OBVIOUS
<1>4. m \in 1..Len(reach) /\ m \in Nat
  OBVIOUS
<1>5. m \in 2..Len(reach)
  BY <1>3, <1>4, AboveInOrder DEF Orderly
<1>6. PICK k \in 1..(m - 1) : Grown(m, k)
  BY <1>5, GrownInOrder
<1>7. k \in 1..Len(reach) /\ k < m /\ k \in Nat
  BY <1>4, InTree
<1>8. reach[l] \in Above(reach[k])
  BY <1>3, <1>4, <1>6, AboveInOrder DEF Orderly
<1>9. l = k
  BY <1>2, <1>3, <1>4, <1>7, <1>8
<1>10. reach[m] \in ToSet(nodes) /\ parent[reach[m]] = reach[k] /\ reach[k] # 0
  <2>1. reach[m] \in ToSet(nodes)
    BY <1>4, InTree
  <2>2. reach[k] \in Handles /\ 0 \notin Handles
    BY <1>7, InTree
  <2>3. parent[reach[m]] = reach[k]
    BY <1>6 DEF Grown
  <2> QED
    BY <2>1, <2>2, <2>3
<1> QED
  BY <1>3, <1>9, <1>10 DEF Orderly, FoldersHoldNodes

\* A node of the listing but the root has its parent there, as a folder.
LEMMA ParentIsListed ==
  ASSUME Opened, Orderly, NEW c \in ToSet(nodes), c # root
  PROVE  \E p \in ToSet(nodes) :
           /\ parent[c] = p /\ p # c /\ p \in Above(c) /\ raw[p].dir /\ Plain(Name(c))
           /\ path[c] = PrefixOf(p) \o Name(c) /\ PrefixOf(c) = Append(PrefixOf(p) \o Name(c), Slash)
<1>1. PICK m \in 1..Len(reach) : c = reach[m]
  BY InTree
<1>2. m \in 2..Len(reach)
  BY <1>1, InTree
<1>3. PICK k \in 1..(m - 1) : Grown(m, k)
  BY <1>2, GrownInOrder
<1>4. k \in 1..Len(reach) /\ k # m /\ reach[k] \in Handles /\ reach[m] \in Handles /\ 0 \notin Handles
  BY <1>1, <1>2, InTree
<1>5. reach[k] \in ToSet(nodes) /\ reach[k] # c
  BY <1>1, <1>4, InTree
<1>6. parent[c] = reach[k] /\ reach[k] \in Above(c)
  <2>1. parent[c] = reach[k]
    BY <1>1, <1>3 DEF Grown
  <2>2. reach[k] \in Above(reach[k])
    BY <1>4, AboveSelf
  <2> QED
    BY <2>1, <2>2, <1>1, <1>4, AboveUp
<1>7. raw[reach[k]].dir
  BY <1>4, <1>6 DEF Orderly, FoldersHoldNodes
<1> QED
  BY <1>1, <1>3, <1>5, <1>6, <1>7 DEF Grown

\* files_under finds the files below a node, and those only, in every list in which
\* only folders hold nodes and no two siblings share a name (folder.rs:234-247).
THEOREM SubtreeIsFoundByPath ==
  Spec => [](pc = "open" /\ Orderly =>
               \A n \in ToSet(nodes) : {nodes[r] : r \in FilesUnder(n)} = Files(Below(n)))
<1> DEFINE Found == pc = "open" /\ Orderly =>
                      \A n \in ToSet(nodes) : {nodes[r] : r \in FilesUnder(n)} = Files(Below(n))
<1>1. PathInv => Found
  BY FilesAreFound DEF Opened
<1> QED
  BY PathInit, PathStep, <1>1, PTL DEF Spec

-----------------------------------------------------------------------------
(* From the handles named to the jobs.                                     *)

SelInv ==
  /\ PathInv
  /\ stage \in {"picking", "chosen", "planned"} => pc = "open"
  /\ stage = "picking" => ticked \subseteq Rows /\ cursor \in Rows
  /\ stage \in {"chosen", "planned"} => DOMAIN selected = 1..Len(selected) /\ Len(selected) \in Nat
  /\ stage = "planned" => jobs = JobsOf(Chosen)

LEMMA SelInitially == SelInit => SelInv
  BY PathInit DEF SelInit, SelInv

\* A set of numbers up to n is put in order.
LEMMA NumbersInOrder ==
  ASSUME NEW n \in Nat, NEW S, S \subseteq 1..n
  PROVE  LET R == {p \in (1..n) \X (1..n) : p[1] < p[2]}
         IN  /\ DOMAIN InOrder(S, R) = 1..Cardinality(S) /\ Cardinality(S) \in Nat
             /\ \A k \in 1..Cardinality(S) : InOrder(S, R)[k] \in S
             /\ \A x \in S : \E k \in 1..Cardinality(S) : InOrder(S, R)[k] = x
<1> DEFINE R == {p \in (1..n) \X (1..n) : p[1] < p[2]}
<1>1. IsFiniteSet(S)
  <2>1. IsFiniteSet(1..n)
    BY FS_Interval
  <2> QED
    BY <2>1, FS_Subset
<1>2. \A x, y \in S : <<x, y>> \in R <=> x < y
  OBVIOUS
<1>3. \A x \in S : x \in Nat
  OBVIOUS
<1> HIDE DEF R
<1>4. Orders(R, S)
  BY <1>2, <1>3 DEF Orders
<1> HIDE DEF Orders
<1>5. /\ Cardinality(S) \in Nat /\ InOrder(S, R) \in [1..Cardinality(S) -> S]
      /\ \A x \in S : \E k \in 1..Cardinality(S) : InOrder(S, R)[k] = x
  BY <1>1, <1>4, InOrderSorts
<1> QED
  BY <1>5 DEF R

\* What the jobs are made from does not change while the folder stays open.
LEMMA JobsStay ==
  ASSUME UNCHANGED <<raw, root, parent, path, nodes, selected>>
  PROVE  JobsOf(Chosen)' = JobsOf(Chosen)
<1>1. Rows' = Rows /\ \A n : FilesUnder(n)' = FilesUnder(n)
  BY DEF Rows, FilesUnder, PrefixOf
<1>2. FirstNamed' = FirstNamed
  BY DEF FirstNamed
<1>3. Named' = Named
  BY <1>2 DEF Named
<1>4. Topmost' = Topmost
  <2>1. \A n : Ancestors(n)' = Ancestors(n)
    BY DEF Ancestors, Above, Closed, Handles
  <2> QED
    BY <1>2, <1>3, <2>1 DEF Topmost
<1>5. Before(selected)' = Before(selected)
  BY DEF Before, Precedes, SortKey
<1>6. Chosen' = Chosen
  BY <1>4, <1>5 DEF Chosen, Sorted
<1>7. Taken(Chosen)' = Taken(Chosen)
  BY <1>1, <1>6 DEF Taken
<1> QED
  BY <1>7 DEF JobsOf

LEMMA SelStep == SelInv /\ [SelNext]_allVars => SelInv'
<1> SUFFICES ASSUME SelInv, [SelNext]_allVars PROVE SelInv'
  OBVIOUS
<1>1. CASE Open
  <2>1. PathInv'
    BY <1>1, PathStep DEF SelInv, Open
  <2>2. pc # "open" /\ UNCHANGED <<stage, selected, jobs>>
    BY <1>1 DEF Open, Next, Fail, FindRoot, PushChild, NextNode, Finish, selVars
  <2> QED
    BY <2>1, <2>2 DEF SelInv
<1>2. CASE UNCHANGED vars /\ ~Open
  <2>1. PathInv' /\ pc' = pc /\ nodes' = nodes /\ Rows' = Rows
    BY <1>2, PathStep DEF SelInv, vars, Rows
  <2>2. CASE UNCHANGED selVars
    <3>1. JobsOf(Chosen)' = JobsOf(Chosen)
      BY <1>2, <2>2, JobsStay DEF vars, selVars
    <3> QED
      BY <2>1, <2>2, <3>1 DEF SelInv, selVars
  <2>3. CASE OpenPicker
    <3>1. 1 \in Rows
      BY <2>3, ListingIsReached DEF OpenPicker, SelInv, PathInv
    <3>2. FileRows \subseteq Rows
      BY DEF FileRows
    <3> QED
      BY <2>1, <2>3, <3>1, <3>2 DEF SelInv, OpenPicker
  <2>4. CASE PickMove \/ Toggle \/ AllOrNone \/ LeavePicker
    <3>1. \A r \in Rows : FilesOf(r) \subseteq Rows
      BY DEF FilesOf, FileRows
    <3> QED
      BY <2>1, <2>4, <3>1 DEF SelInv, PickMove, Toggle, Toggled, AllOrNone, LeavePicker, FileRows
  <2>5. CASE Enter
    <3> DEFINE rows == InOrder(ticked, {p \in Rows \X Rows : p[1] < p[2]})
    <3>1. stage = "picking" /\ stage' \in {"left", "chosen"} /\ pc = "open"
          /\ selected' = [k \in DOMAIN rows |-> nodes[rows[k]]]
      BY <2>5 DEF Enter, SelInv
    <3>2. Rows = 1..Len(nodes) /\ Len(nodes) \in Nat /\ ticked \subseteq Rows
      BY <3>1, ListingIsReached DEF SelInv, PathInv
    <3>3. DOMAIN rows = 1..Cardinality(ticked) /\ Cardinality(ticked) \in Nat
      BY <3>2, NumbersInOrder
    <3> HIDE DEF rows
    <3>4. DOMAIN selected' = 1..Len(selected') /\ Len(selected') \in Nat
      BY <3>1, <3>3
    <3> QED
      BY <2>1, <3>1, <3>4 DEF SelInv
  <2>6. CASE GiveHandles
    <3>1. PICK k \in 0..MaxGiven : selected' \in [1..k -> Handles \cup {Unknown}]
      BY <2>6 DEF GiveHandles
    <3>2. k \in Nat
      BY SelectionAssumption
    <3>3. DOMAIN selected' = 1..Len(selected') /\ Len(selected') \in Nat
      BY <3>1, <3>2
    <3> QED
      BY <2>1, <2>6, <3>3 DEF SelInv, GiveHandles
  <2>7. CASE Plan
    <3>1. stage = "chosen" /\ stage' = "planned" /\ selected' = selected /\ jobs' = JobsOf(Chosen)
      BY <2>7 DEF Plan
    <3>2. JobsOf(Chosen)' = JobsOf(Chosen)
      BY <1>2, <3>1, JobsStay DEF vars
    <3> QED
      BY <2>1, <3>1, <3>2 DEF SelInv
  <2> QED
    BY <1>2, <2>2, <2>3, <2>4, <2>5, <2>6, <2>7 DEF SelNext, allVars
<1> QED
  BY <1>1, <1>2 DEF SelNext, allVars, OpenPicker, PickMove, Toggle, AllOrNone, Enter,
                    LeavePicker, GiveHandles, Plan

\* Every known handle that is named has a place where it is named first.
LEMMA NamedAreKnown ==
  ASSUME SelInv, stage = "planned"
  PROVE  /\ Named = ToSet(selected) \cap ToSet(nodes)
         /\ FirstNamed \subseteq DOMAIN selected
<1>1. DOMAIN selected = 1..Len(selected) /\ Len(selected) \in Nat
  BY DEF SelInv
<1>2. ASSUME NEW h \in ToSet(selected) \cap ToSet(nodes) PROVE h \in Named
  <2> DEFINE T == {k \in 1..Len(selected) : selected[k] = h}
  <2>1. T \subseteq Nat /\ T # {}
    BY <1>1 DEF ToSet
  <2>2. PICK k \in T : \A l \in T : k <= l
    BY <2>1, LeastOf
  <2>3. \A l \in 1..(k - 1) : selected[l] # selected[k]
    <3> SUFFICES ASSUME NEW l \in 1..(k - 1), selected[l] = selected[k] PROVE FALSE
      OBVIOUS
    <3>1. l \in T /\ l \in Nat /\ k \in Nat /\ l < k
      BY <1>1, <2>2
    <3> QED
      BY <2>2, <3>1
  <2>4. k \in FirstNamed /\ selected[k] = h
    BY <1>1, <2>2, <2>3 DEF FirstNamed
  <2> QED
    BY <2>4 DEF Named
<1>3. Named \subseteq ToSet(selected) \cap ToSet(nodes)
  BY DEF Named, FirstNamed, ToSet
<1> QED
  BY <1>2, <1>3 DEF FirstNamed

\* Ancestors do not count the node itself.
LEMMA AncestorsAreOthers ==
  ASSUME Opened, Orderly, NEW m \in 1..Len(reach), NEW l \in 1..Len(reach),
         reach[l] \in Ancestors(reach[m])
  PROVE  l < m /\ reach[l] \in Above(reach[m])
<1>1. /\ reach[m] \in Handles /\ reach[l] \in Handles /\ 0 \notin Handles
      /\ parent[reach[m]] \in Handles \cup {0} /\ root \in Handles
      /\ l \in Nat /\ m \in Nat /\ Len(reach) \in Nat /\ reach[1] = root
  BY InTree
<1>2. reach[l] \in Above(parent[reach[m]])
  BY DEF Ancestors
<1>3. parent[reach[m]] \in Handles
  <2> SUFFICES ASSUME parent[reach[m]] = 0 PROVE FALSE
    BY <1>1
  <2>1. {} \in Closed
    BY DEF Closed
  <2> QED
    BY <1>2, <2>1 DEF Above
<1>4. reach[l] \in Above(reach[m])
  BY <1>1, <1>2, <1>3, AboveUp
<1>5. l <= m
  BY <1>4, AboveIsEarlier DEF Orderly
<1>6. l # m
  <2> SUFFICES ASSUME l = m PROVE FALSE
    OBVIOUS
  <2>1. CASE m = 1
    <3>1. root \in Above(parent[root])
      BY <1>1, <1>2, <2>1
    <3>2. parent[root] \in Below(root)
      BY <1>1, <1>3, <3>1, <2>1 DEF Above, Below
    <3> QED
      BY <3>2, InTree DEF Orderly, RootOnTop
  <2>2. CASE m # 1
    <3>1. m \in 2..Len(reach)
      BY <1>1, <2>2
    <3>2. PICK k \in 1..(m - 1) : Grown(m, k)
      BY <3>1, GrownInOrder
    <3>3. k \in 1..Len(reach) /\ k < m /\ k \in Nat
      BY <1>1
    <3>4. reach[m] \in Above(reach[k])
      BY <1>2, <3>2 DEF Grown
    <3>5. m <= k
      BY <3>3, <3>4, AboveIsEarlier DEF Orderly
    <3> QED
      BY <1>1, <3>3, <3>5
  <2> QED
    BY <2>1, <2>2
<1> QED
  BY <1>1, <1>4, <1>5, <1>6

\* A node named has one above it, or is one, that pruning keeps.
LEMMA TopmostCover ==
  ASSUME SelInv, Opened, Orderly, stage = "planned", NEW n \in Named
  PROVE  \E k \in Topmost : selected[k] \in Above(n)
<1>1. Named \subseteq ToSet(nodes)
  BY NamedAreKnown
<1>2. n \in ToSet(nodes) /\ n \in Handles /\ 0 \notin Handles
  BY <1>1, InTree
<1> DEFINE T == {m \in 1..Len(reach) : reach[m] \in Named /\ reach[m] \in Above(n)}
<1>3. T # {} /\ T \subseteq Nat
  <2>1. PICK m \in 1..Len(reach) : n = reach[m]
    BY <1>2, InTree
  <2>2. n \in Above(n)
    BY <1>2, AboveSelf
  <2> QED
    BY <2>1, <2>2
<1>4. PICK m \in T : \A l \in T : m <= l
  BY <1>3, LeastOf
<1>5. PICK k \in FirstNamed : selected[k] = reach[m]
  BY DEF Named
<1>6. Ancestors(reach[m]) \cap Named = {}
  <2> SUFFICES ASSUME NEW a \in Ancestors(reach[m]) \cap Named PROVE FALSE
    OBVIOUS
  <2>1. PICK l \in 1..Len(reach) : a = reach[l]
    BY <1>1, InTree
  <2>2. l < m /\ reach[l] \in Above(reach[m])
    BY <2>1, AncestorsAreOthers
  <2>3. reach[m] \in Handles
    BY InTree
  <2>4. reach[l] \in Above(n)
    BY <1>2, <2>2, <2>3, AboveTwice
  <2>5. l \in T /\ l \in Nat /\ m \in Nat
    BY <2>1, <2>4
  <2> QED
    BY <1>4, <2>2, <2>5
<1>7. k \in Topmost
  BY <1>5, <1>6 DEF Topmost
<1> QED
  BY <1>5, <1>7

\* A set of pairs is put in order.
LEMMA PairsInOrder ==
  ASSUME NEW n \in Nat, NEW w \in Nat, NEW S, S \subseteq (1..n) \X (1..w)
  PROVE  LET f == InOrder(S, OneByOne(S))
         IN  /\ Cardinality(S) \in Nat /\ f \in [1..Cardinality(S) -> S]
             /\ \A k, l \in 1..Cardinality(S) : f[k] = f[l] => k = l
             /\ \A x \in S : \E k \in 1..Cardinality(S) : f[k] = x
<1> DEFINE R == OneByOne(S)
<1>1. IsFiniteSet(S)
  <2>1. IsFiniteSet(1..n) /\ IsFiniteSet(1..w)
    BY FS_Interval
  <2>2. IsFiniteSet((1..n) \X (1..w))
    BY <2>1, FS_Product
  <2> QED
    BY <2>2, FS_Subset
<1>2. \A x, y \in S : <<x, y>> \in R <=> LexLess(x, y)
  BY DEF OneByOne
<1>3. \A x \in S : x \in Seq(Nat)
  <2> SUFFICES ASSUME NEW x \in S PROVE x \in Seq(Nat)
    OBVIOUS
  <2>1. x \in (1..n) \X (1..w)
    OBVIOUS
  <2>2. PICK a \in 1..n, b \in 1..w : x = <<a, b>>
    BY <2>1
  <2>3. a \in Nat /\ b \in Nat
    OBVIOUS
  <2> QED
    BY <2>2, <2>3
<1> HIDE DEF R
<1>4. Orders(R, S)
  <2>1. \A x \in S : ~LexLess(x, x)
    BY <1>3, LexOneWay
  <2>2. \A x, y \in S : x # y => LexLess(x, y) \/ LexLess(y, x)
    BY <1>3, LexEither
  <2>3. \A x, y \in S : LexLess(x, y) => ~LexLess(y, x)
    BY <1>3, LexOneWay
  <2>4. \A x, y, z \in S : LexLess(x, y) /\ LexLess(y, z) => LexLess(x, z)
    BY <1>3, LexOnward
  <2> QED
    BY <1>2, <2>1, <2>2, <2>3, <2>4 DEF Orders
<1> HIDE DEF Orders
<1>5. /\ Cardinality(S) \in Nat /\ InOrder(S, R) \in [1..Cardinality(S) -> S]
      /\ \A k, l \in 1..Cardinality(S) : InOrder(S, R)[k] = InOrder(S, R)[l] => k = l
      /\ \A x \in S : \E k \in 1..Cardinality(S) : InOrder(S, R)[k] = x
  BY <1>1, <1>4, InOrderSorts
<1> QED
  BY <1>5 DEF R

LEMMA SortKeyIs ==
  ASSUME Opened, NEW i \in Handles
  PROVE  SortKey(i) \in Seq(Nat) /\ SortKey(i) = IF raw[i].dir THEN PrefixOf(i) ELSE path[i]
<1>1. PrefixOf(i) \in Seq(Nat) /\ path[i] \in Seq(Nat)
  BY StemsOfPaths
<1> QED
  BY <1>1 DEF SortKey, PrefixOf

LEMMA ChosenNodes ==
  ASSUME SelInv, Opened, stage = "planned"
  PROVE  \E n \in Nat :
           /\ DOMAIN Chosen = 1..n
           /\ \A k \in 1..n : Chosen[k] \in ToSet(nodes)
           /\ {Chosen[k] : k \in 1..n} =
                IF selected = <<>> THEN {root} ELSE {selected[k] : k \in Topmost}
<1>1. CASE selected = <<>>
  <2>1. Chosen = <<root>> /\ root \in ToSet(nodes)
    BY <1>1, InTree DEF Chosen
  <2>2. DOMAIN Chosen = 1..1 /\ Chosen[1] = root
    BY <2>1
  <2>3. \A k \in 1..1 : k = 1
    OBVIOUS
  <2> QED
    BY <1>1, <2>1, <2>2, <2>3
<1>2. CASE selected # <<>>
  <2> DEFINE P == Topmost
             n == Cardinality(P)
  <2>1. P \subseteq FirstNamed /\ FirstNamed \subseteq DOMAIN selected
    BY DEF Topmost, FirstNamed
  <2>2. \A k \in P : selected[k] \in ToSet(nodes) /\ selected[k] \in Handles
    BY <2>1, InTree DEF FirstNamed
  <2>3. Keyed(selected, P)
    BY <2>1, <2>2, SortKeyIs DEF Keyed, SelInv
  <2>4. Chosen = Sorted(selected, P)
    BY <1>2 DEF Chosen
  <2> HIDE DEF P
  <2>5. n \in Nat /\ DOMAIN Chosen = 1..n
    BY <2>3, <2>4, SortedReorders
  <2>6. PICK order \in [1..n -> P] :
          /\ \A k \in 1..n : Chosen[k] = selected[order[k]]
          /\ \A j \in P : \E k \in 1..n : order[k] = j
    BY <2>3, <2>4, SortedReorders
  <2> HIDE DEF n
  <2>7. {Chosen[k] : k \in 1..n} = {selected[k] : k \in P}
    BY <2>6
  <2>8. \A k \in 1..n : Chosen[k] \in ToSet(nodes)
    BY <2>2, <2>6
  <2> QED
    BY <1>2, <2>5, <2>7, <2>8 DEF P
<1> QED
  BY <1>1, <1>2

\* The jobs are the files of the chosen nodes' subtrees, and no file is twice one.
LEMMA JobsOfChosen ==
  ASSUME SelInv, Opened, Orderly, stage = "planned"
  PROVE  /\ IsInjective(jobs)
         /\ ToSet(jobs) =
              UNION {Files(Below(n)) : n \in IF selected = <<>> THEN {root}
                                             ELSE {selected[k] : k \in Topmost}}
         /\ ToSet(jobs) \subseteq Files(ToSet(nodes))
<1> DEFINE C == IF selected = <<>> THEN {root} ELSE {selected[k] : k \in Topmost}
           ch == Chosen
           S == Taken(ch)
           order == InOrder(S, OneByOne(S))
           c == Cardinality(S)
           w == Len(nodes)
<1>1. PICK n \in Nat : /\ DOMAIN ch = 1..n
                       /\ \A k \in 1..n : ch[k] \in ToSet(nodes)
                       /\ {ch[k] : k \in 1..n} = C
  BY ChosenNodes
<1>2. /\ w \in Nat /\ Rows = 1..w /\ DOMAIN nodes = 1..w
      /\ \A q, r \in 1..w : nodes[q] = nodes[r] => q = r
  BY ListingIsReached DEF Opened, PathInv, Rows
<1>3. jobs = [k \in DOMAIN order |-> nodes[order[k][2]]]
  BY DEF SelInv, JobsOf
<1> HIDE DEF C, ch
<1>4. \A t : t \in S <=> /\ t \in (1..n) \X (1..w) /\ t[2] \in FilesUnder(ch[t[1]])
                         /\ \A l \in 1..(t[1] - 1) : t[2] \notin FilesUnder(ch[l])
  BY <1>1, <1>2 DEF Taken
<1> HIDE DEF S
<1>5. S \subseteq (1..n) \X (1..w)
  BY <1>4
<1>6. /\ c \in Nat /\ order \in [1..c -> S]
      /\ \A k, l \in 1..c : order[k] = order[l] => k = l
      /\ \A t \in S : \E k \in 1..c : order[k] = t
  <2> HIDE DEF w
  <2>1. n \in Nat /\ w \in Nat /\ S \subseteq (1..n) \X (1..w)
    BY <1>1, <1>2, <1>5
  <2> QED
    BY <2>1, PairsInOrder
<1> HIDE DEF order, c, w
<1>7. DOMAIN jobs = 1..c /\ \A k \in 1..c : jobs[k] = nodes[order[k][2]] /\ order[k] \in S
  BY <1>3, <1>6
<1>8. ASSUME NEW t \in S, NEW u \in S, t[2] = u[2] PROVE t = u
  <2>1. PICK a \in 1..n, r \in 1..w : t = <<a, r>>
    BY <1>5
  <2>2. PICK b \in 1..n, q \in 1..w : u = <<b, q>>
    BY <1>5
  <2>3. r = q /\ r \in FilesUnder(ch[a]) /\ r \in FilesUnder(ch[b]) /\ a \in Nat /\ b \in Nat
    BY <2>1, <2>2, <1>4, <1>8
  <2>4. ~(a < b)
    <3>1. \A l \in 1..(b - 1) : r \notin FilesUnder(ch[l])
      BY <2>2, <2>3, <1>4
    <3>2. a < b => a \in 1..(b - 1)
      BY <2>3
    <3> QED
      BY <2>3, <3>1, <3>2
  <2>5. ~(b < a)
    <3>1. \A l \in 1..(a - 1) : r \notin FilesUnder(ch[l])
      BY <2>1, <1>4
    <3>2. b < a => b \in 1..(a - 1)
      BY <2>3
    <3> QED
      BY <2>3, <3>1, <3>2
  <2> QED
    BY <2>1, <2>2, <2>3, <2>4, <2>5
<1>9. \A t \in S : t[2] \in 1..w
  BY <1>5
<1>10. IsInjective(jobs)
  <2> SUFFICES ASSUME NEW k \in 1..c, NEW l \in 1..c, jobs[k] = jobs[l] PROVE k = l
    BY <1>7 DEF IsInjective
  <2>1. order[k] \in S /\ order[l] \in S /\ nodes[order[k][2]] = nodes[order[l][2]]
    BY <1>7
  <2>2. order[k][2] = order[l][2]
    BY <2>1, <1>2, <1>9
  <2> QED
    BY <2>1, <2>2, <1>6, <1>8
<1>11. \A f : f \in ToSet(jobs) <=> \E t \in S : f = nodes[t[2]]
  BY <1>6, <1>7 DEF ToSet
<1>12. ASSUME NEW f, NEW k \in 1..n, NEW r \in FilesUnder(ch[k]), f = nodes[r]
       PROVE  \E t \in S : f = nodes[t[2]]
  <2> DEFINE T == {l \in 1..n : r \in FilesUnder(ch[l])}
  <2>1. T \subseteq Nat /\ k \in T
    OBVIOUS
  <2>2. PICK j \in T : \A l \in T : j <= l
    BY <2>1, LeastOf
  <2>3. j \in 1..n /\ j \in Nat /\ r \in FilesUnder(ch[j]) /\ r \in 1..w
    BY <1>2 DEF FilesUnder
  <2>4. \A l \in 1..(j - 1) : r \notin FilesUnder(ch[l])
    <3> SUFFICES ASSUME NEW l \in 1..(j - 1), r \in FilesUnder(ch[l]) PROVE FALSE
      OBVIOUS
    <3>1. l \in T /\ l \in Nat /\ l < j
      BY <1>1, <2>3
    <3> QED
      BY <2>2, <2>3, <3>1
  <2>5. <<j, r>> \in S
    BY <1>4, <2>3, <2>4
  <2> QED
    BY <2>5, <1>12
<1>13. ASSUME NEW t \in S PROVE \E k \in 1..n : t[2] \in FilesUnder(ch[k])
  BY <1>4
<1>14. \A k \in 1..n : {nodes[r] : r \in FilesUnder(ch[k])} = Files(Below(ch[k]))
  BY <1>1, FilesAreFound
<1>15. \A f : f \in ToSet(jobs) <=> \E k \in 1..n : f \in Files(Below(ch[k]))
  <2> TAKE f
  <2>1. ASSUME f \in ToSet(jobs) PROVE \E k \in 1..n : f \in Files(Below(ch[k]))
    <3>1. PICK t \in S : f = nodes[t[2]]
      BY <2>1, <1>11
    <3>2. PICK k \in 1..n : t[2] \in FilesUnder(ch[k])
      BY <1>13
    <3> QED
      BY <3>1, <3>2, <1>14
  <2>2. ASSUME NEW k \in 1..n, f \in Files(Below(ch[k])) PROVE f \in ToSet(jobs)
    <3>1. PICK r \in FilesUnder(ch[k]) : f = nodes[r]
      BY <2>2, <1>14
    <3> QED
      BY <3>1, <1>11, <1>12
  <2> QED
    BY <2>1, <2>2
<1>16. ToSet(jobs) = UNION {Files(Below(i)) : i \in C}
  <2>1. \A f : f \in UNION {Files(Below(i)) : i \in C} <=> \E k \in 1..n : f \in Files(Below(ch[k]))
    BY <1>1
  <2> QED
    BY <2>1, <1>15
<1>17. ToSet(jobs) \subseteq Files(ToSet(nodes))
  <2> SUFFICES ASSUME NEW f \in ToSet(jobs) PROVE f \in Files(ToSet(nodes))
    OBVIOUS
  <2>1. PICK k \in 1..n : f \in Files(Below(ch[k]))
    BY <1>15
  <2>2. Below(ch[k]) \subseteq ToSet(nodes)
    BY <1>1, BelowIsListed
  <2> QED
    BY <2>1, <2>2 DEF Files
<1> QED
  BY <1>10, <1>16, <1>17 DEF C

\* What is asked for is what is downloaded, for every list a server sends in which
\* only folders hold nodes and no two siblings share a name, and for all the handles
\* that may be named (lib.rs:112-158, 163-206).
THEOREM SelectionIsPlanned == SelSpec => []JobsAreSelection
<1>1. SelInv => JobsAreSelection
  <2> SUFFICES ASSUME SelInv, stage = "planned", Orderly
               PROVE  /\ IsInjective(jobs)
                      /\ ToSet(jobs) =
                           IF selected = <<>> THEN Files(Below(root))
                           ELSE UNION {Files(Below(n)) : n \in ToSet(selected) \cap ToSet(nodes)}
    BY DEF JobsAreSelection
  <2>1. Opened
    BY DEF SelInv, Opened
  <2>2. /\ IsInjective(jobs)
        /\ ToSet(jobs) =
             UNION {Files(Below(n)) : n \in IF selected = <<>> THEN {root}
                                            ELSE {selected[k] : k \in Topmost}}
    BY <2>1, JobsOfChosen
  <2>3. CASE selected = <<>>
    BY <2>2, <2>3
  <2>4. CASE selected # <<>>
    <3> DEFINE T == {selected[k] : k \in Topmost}
    <3>1. Named = ToSet(selected) \cap ToSet(nodes) /\ T \subseteq Named
      BY NamedAreKnown DEF Topmost, Named
    <3>2. \A n \in Named : n \in ToSet(nodes)
      BY <3>1
    <3>3. \A n \in Named : \E t \in T : Files(Below(n)) \subseteq Files(Below(t))
      <4> SUFFICES ASSUME NEW n \in Named
                   PROVE  \E t \in T : Files(Below(n)) \subseteq Files(Below(t))
        OBVIOUS
      <4>1. PICK k \in Topmost : selected[k] \in Above(n)
        BY <2>1, TopmostCover
      <4> DEFINE t == selected[k]
      <4>2. t \in T /\ t \in ToSet(nodes) /\ n \in ToSet(nodes)
        BY <3>1
      <4>3. /\ Below(n) = {i \in ToSet(nodes) : n \in Above(i)} /\ n \in Handles
            /\ Below(t) = {i \in ToSet(nodes) : t \in Above(i)}
        BY <2>1, <4>2, BelowIsListed
      <4>4. 0 \notin Handles /\ ToSet(nodes) \subseteq Handles
        BY <2>1, InTree
      <4>5. Below(n) \subseteq Below(t)
        BY <4>1, <4>3, <4>4, AboveTwice
      <4> QED
        BY <4>2, <4>5 DEF Files
    <3> HIDE DEF T
    <3>4. UNION {Files(Below(n)) : n \in T} = UNION {Files(Below(n)) : n \in Named}
      BY <3>1, <3>3
    <3> QED
      BY <2>2, <2>4, <3>1, <3>4 DEF T
  <2> QED
    BY <2>2, <2>3, <2>4
<1> QED
  BY SelInitially, SelStep, <1>1, PTL DEF SelSpec

-----------------------------------------------------------------------------
(* Places on the disk.                                                     *)

LEMMA RestOf ==
  ASSUME NEW a \in Seq(Nat), NEW b \in Seq(Nat), IsPrefix(a, b)
  PROVE  /\ SubSeq(b, Len(a) + 1, Len(b)) \in Seq(Nat)
         /\ Len(SubSeq(b, Len(a) + 1, Len(b))) = Len(b) - Len(a)
         /\ \A k \in 1..(Len(b) - Len(a)) : SubSeq(b, Len(a) + 1, Len(b))[k] = b[Len(a) + k]
         /\ b = a \o SubSeq(b, Len(a) + 1, Len(b))
<1> DEFINE r == SubSeq(b, Len(a) + 1, Len(b))
           c == a \o r
<1>1. /\ Len(a) \in Nat /\ Len(b) \in Nat /\ Len(a) <= Len(b)
      /\ \A k \in 1..Len(a) : a[k] = b[k]
  BY PrefixAt
<1>2. \A k \in (Len(a) + 1)..Len(b) : b[k] \in Nat
  BY <1>1
<1>3. r \in Seq(Nat) /\ Len(r) = Len(b) - Len(a)
  BY <1>1, <1>2, SubSeqProperties
<1>4. \A k \in 1..(Len(b) - Len(a)) : r[k] = b[Len(a) + k]
  BY <1>1, <1>2, SubSeqProperties
<1> HIDE DEF r
<1>5. /\ c \in Seq(Nat) /\ Len(c) = Len(a) + Len(r)
      /\ \A k \in 1..Len(a) : c[k] = a[k]
      /\ \A k \in 1..Len(r) : c[Len(a) + k] = r[k]
  <2>1. r \in Seq(Nat)
    BY <1>3
  <2> QED
    BY <2>1, GrownAt
<1> HIDE DEF c
<1>6. Len(c) = Len(b)
  BY <1>1, <1>3, <1>5
<1>7. ASSUME NEW k \in 1..Len(c) PROVE c[k] = b[k]
  <2>1. CASE k <= Len(a)
    BY <2>1, <1>1, <1>5
  <2>2. CASE k > Len(a)
    <3>1. k - Len(a) \in 1..Len(r) /\ k - Len(a) \in 1..(Len(b) - Len(a)) /\ k = Len(a) + (k - Len(a))
      BY <2>2, <1>1, <1>3, <1>6
    <3> QED
      BY <3>1, <1>4, <1>5
  <2> QED
    BY <2>1, <2>2, <1>1
<1>8. c = b
  BY <1>5, <1>6, <1>7, SeqEqual
<1> QED
  BY <1>3, <1>4, <1>8 DEF c, r

LEMMA PrefixBehind ==
  ASSUME NEW k \in Seq(Nat), NEW x \in Seq(Nat), NEW y \in Seq(Nat),
         IsPrefix(Append(x, Slash), y)
  PROVE  IsPrefix(Append(k \o x, Slash), k \o y)
<1> DEFINE g == Append(k \o x, Slash)
           h == k \o y
           z == Append(x, Slash)
<1>1. Len(k) \in Nat /\ Len(x) \in Nat /\ Len(y) \in Nat /\ Slash \in Nat
  BY DEF Slash
<1>2. /\ g \in Seq(Nat) /\ Len(g) = Len(k) + Len(x) + 1
      /\ \A i \in 1..Len(k) : g[i] = k[i]
      /\ \A i \in 1..Len(x) : g[Len(k) + i] = x[i]
      /\ g[Len(k) + Len(x) + 1] = Slash
  BY GrownAt
<1>3. /\ h \in Seq(Nat) /\ Len(h) = Len(k) + Len(y)
      /\ \A i \in 1..Len(k) : h[i] = k[i]
      /\ \A i \in 1..Len(y) : h[Len(k) + i] = y[i]
  BY GrownAt
<1>4. /\ z \in Seq(Nat) /\ Len(z) = Len(x) + 1 /\ z[Len(x) + 1] = Slash
      /\ \A i \in 1..Len(x) : z[i] = x[i]
  BY <1>1, AppendProperties
<1>5. IsPrefix(z, y)
  OBVIOUS
<1> HIDE DEF g, h, z
<1>6. Len(z) <= Len(y) /\ \A i \in 1..Len(z) : z[i] = y[i]
  BY <1>4, <1>5, PrefixAt
<1>7. Len(g) <= Len(h)
  <2>1. /\ Len(g) = Len(k) + Len(x) + 1 /\ Len(h) = Len(k) + Len(y)
        /\ Len(z) = Len(x) + 1 /\ Len(z) <= Len(y)
    BY <1>2, <1>3, <1>4, <1>6
  <2> QED
    BY <2>1, <1>1
<1>8. ASSUME NEW i \in 1..Len(g) PROVE g[i] = h[i]
  <2>1. CASE i <= Len(k)
    <3>1. i \in 1..Len(k)
      BY <2>1, <1>1
    <3> QED
      BY <3>1, <1>2, <1>3
  <2>2. CASE i > Len(k) /\ i < Len(k) + Len(x) + 1
    <3>0. i \in Nat /\ Len(z) = Len(x) + 1
      BY <1>2, <1>4
    <3>1. i - Len(k) \in 1..Len(x) /\ i = Len(k) + (i - Len(k)) /\ i - Len(k) \in 1..Len(z)
      BY <3>0, <2>2, <1>1
    <3>2. i - Len(k) \in 1..Len(y)
      BY <3>1, <1>1, <1>4, <1>6
    <3>3. g[i] = x[i - Len(k)] /\ h[i] = y[i - Len(k)]
      BY <3>1, <3>2, <1>2, <1>3
    <3> QED
      BY <3>1, <3>3, <1>4, <1>6
  <2>3. CASE i = Len(k) + Len(x) + 1
    <3>1. Len(x) + 1 \in 1..Len(z) /\ i = Len(k) + (Len(x) + 1) /\ Len(x) + 1 \in 1..Len(y)
      BY <2>3, <1>1, <1>4, <1>6
    <3>2. g[i] = Slash /\ h[i] = y[Len(x) + 1]
      BY <2>3, <3>1, <1>2, <1>3
    <3> QED
      BY <3>1, <3>2, <1>4, <1>6
  <2> QED
    BY <2>1, <2>2, <2>3, <1>1, <1>2
<1>9. IsPrefix(g, h)
  BY <1>2, <1>3, <1>7, <1>8, PrefixAt
<1> QED
  BY <1>9 DEF g, h

\* Below the root's, a path goes on with a name.
LEMMA NameComesNext ==
  ASSUME Opened
  PROVE  \A m \in 2..Len(reach) :
           /\ Len(PrefixOf(root)) < Len(path[reach[m]])
           /\ path[reach[m]][Len(PrefixOf(root)) + 1] # Slash
<1> DEFINE w == Len(PrefixOf(root))
           Bad == {m \in 2..Len(reach) :
                     ~(w < Len(path[reach[m]]) /\ path[reach[m]][w + 1] # Slash)}
<1> SUFFICES ASSUME Bad # {} PROVE FALSE
  OBVIOUS
<1>1. Bad \subseteq Nat
  OBVIOUS
<1>2. PICK m \in Bad : \A n \in Bad : m <= n
  BY <1>1, LeastOf
<1>3. m \in 2..Len(reach) /\ m \in Nat /\ Len(reach) \in Nat /\ reach[1] = root
  BY InTree
<1>4. PICK k \in 1..(m - 1) : Grown(m, k)
  BY <1>3, GrownInOrder
<1>5. k \in 1..Len(reach) /\ m \in 1..Len(reach) /\ k \in Nat /\ k < m
  BY <1>3
<1>6. reach[k] \in Handles /\ reach[m] \in Handles /\ root \in Handles
  BY <1>5, InTree
<1> DEFINE b == PrefixOf(reach[k])
           n == Name(reach[m])
           p == path[reach[m]]
           q == path[reach[k]]
<1>7. /\ b \in Seq(Nat) /\ n \in Seq(Nat) /\ p = b \o n /\ Plain(n)
      /\ q \in Seq(Nat) /\ Len(b) = Len(q) + 1 /\ Len(q) \in Nat
  BY <1>4, <1>6, StemsOfPaths DEF Grown, Plain
<1>8. \A i \in 1..Len(q) : b[i] = q[i]
  <2>1. b = Append(q, Slash) /\ Slash \in Nat
    BY DEF PrefixOf, Slash
  <2> HIDE DEF b, q
  <2> QED
    BY <2>1, <1>7, AppendProperties
<1>9. w \in Nat /\ (k = 1 => b = PrefixOf(root))
  <2>1. PrefixOf(root) \in Seq(Nat)
    BY <1>6, StemsOfPaths
  <2>2. k = 1 => reach[k] = root
    BY <1>3
  <2> QED
    BY <2>1, <2>2
<1>10. k # 1 => w < Len(q) /\ q[w + 1] # Slash
  <2>1. k # 1 => k \in 2..Len(reach) /\ k \notin Bad
    BY <1>2, <1>3, <1>5
  <2> QED
    BY <2>1
<1>11. k = 1 => w = Len(b)
  BY <1>9
<1>12. ~(w < Len(p) /\ p[w + 1] # Slash)
  OBVIOUS
<1> HIDE DEF b, n, p, q, w, Bad
<1>13. /\ Len(p) = Len(b) + Len(n) /\ Len(n) \in Nat /\ Len(b) \in Nat /\ Len(n) > 0
       /\ \A i \in 1..Len(b) : p[i] = b[i]
       /\ \A i \in 1..Len(n) : p[Len(b) + i] = n[i]
  <2>1. /\ Len(b \o n) = Len(b) + Len(n)
        /\ \A i \in 1..Len(b) : (b \o n)[i] = b[i]
        /\ \A i \in 1..Len(n) : (b \o n)[Len(b) + i] = n[i]
    <3>1. b \in Seq(Nat) /\ n \in Seq(Nat)
      BY <1>7
    <3> QED
      BY <3>1, GrownAt
  <2>2. Len(n) \in Nat /\ Len(b) \in Nat /\ Len(n) > 0
    BY <1>7 DEF Plain
  <2> QED
    BY <2>1, <2>2, <1>7
<1>14. CASE k = 1
  <2>1. 1 \in 1..Len(n) /\ w < Len(p)
    BY <1>11, <1>13, <1>14
  <2>2. p[w + 1] = n[1]
    BY <2>1, <1>11, <1>13, <1>14
  <2> QED
    BY <2>1, <2>2, <1>7, <1>12 DEF Plain
<1>15. CASE k # 1
  <2>0. w < Len(q) /\ w \in Nat /\ Len(q) \in Nat /\ Len(b) = Len(q) + 1
    BY <1>7, <1>9, <1>10, <1>15
  <2>1. w + 1 \in 1..Len(q) /\ w + 1 \in 1..Len(b) /\ w < Len(p)
    BY <2>0, <1>13
  <2>2. p[w + 1] = q[w + 1]
    BY <2>1, <1>8, <1>13
  <2> QED
    BY <2>1, <2>2, <1>10, <1>12, <1>15
<1> QED
  BY <1>14, <1>15

LEMMA RelIs ==
  ASSUME Opened, NEW n \in ToSet(nodes), n # root
  PROVE  /\ RelToRoot(n) \in Seq(Nat) /\ RelToRoot(n)[1] # Slash
         /\ path[n] = PrefixOf(root) \o RelToRoot(n)
<1>1. PICK m \in 1..Len(reach) : n = reach[m]
  BY InTree
<1>2. m \in 2..Len(reach)
  BY <1>1, InTree
<1> DEFINE a == PrefixOf(root)
           b == path[n]
           r == SubSeq(b, Len(a) + 1, Len(b))
<1>3. IsPrefix(a, b) /\ a \in Seq(Nat) /\ b \in Seq(Nat)
  BY <1>1, <1>2, RootIsShortest, InTree, StemsOfPaths
<1>4. Len(a) < Len(b) /\ b[Len(a) + 1] # Slash
  BY <1>1, <1>2, NameComesNext
<1>5. RelToRoot(n) = r
  BY <1>3 DEF RelToRoot
<1> HIDE DEF a, b
<1>6. /\ r \in Seq(Nat) /\ b = a \o r
      /\ \A k \in 1..(Len(b) - Len(a)) : r[k] = b[Len(a) + k]
  BY <1>3, RestOf
<1>7. 1 \in 1..(Len(b) - Len(a))
  BY <1>3, <1>4
<1>8. r[1] # Slash
  BY <1>4, <1>6, <1>7
<1> QED
  BY <1>5, <1>6, <1>8 DEF a, b

\* Every job has a place of its own in the destination, whatever is listed, named or
\* ticked, if no two siblings share a name (lib.rs:145).
THEOREM PlacesDiffer == SelSpec => []OnePlacePerFile
<1>1. SelInv => OnePlacePerFile
  <2> SUFFICES ASSUME SelInv, stage = "planned", Orderly,
                      NEW i \in DOMAIN jobs, NEW j \in DOMAIN jobs
               PROVE  /\ RelToRoot(jobs[i])[1] # Slash
                      /\ i # j => /\ RelToRoot(jobs[i]) # RelToRoot(jobs[j])
                                  /\ ~IsPrefix(Append(RelToRoot(jobs[i]), Slash), RelToRoot(jobs[j]))
    BY DEF OnePlacePerFile
  <2> DEFINE a == jobs[i]
             b == jobs[j]
  <2>1. Opened
    BY DEF SelInv, Opened
  <2>2. /\ a \in ToSet(nodes) /\ b \in ToSet(nodes) /\ ~raw[a].dir /\ ~raw[b].dir
        /\ i # j => a # b
    BY <2>1, JobsOfChosen DEF Files, ToSet, IsInjective
  <2> HIDE DEF a, b
  <2>3. root \in Handles /\ root \in ToSet(nodes) /\ raw \in Seq(RawNode)
    BY <2>1, InTree DEF Opened, PathInv, TreeInv
  <2>4. ASSUME a = root \/ b = root PROVE a = b
    <3>1. ~raw[root].dir
      BY <2>2, <2>4
    <3>2. root \in Above(a) /\ root \in Above(b)
      BY <2>1, <2>2, InTree DEF Below, Above
    <3> QED
      BY <2>1, <2>2, <2>3, <3>1, <3>2, AboveAreFolders
  <2>5. RelToRoot(a)[1] # Slash
    <3>1. CASE a = root
      <4>1. RelToRoot(a) = Name(root)
        BY <3>1 DEF RelToRoot
      <4>2. Plain(Name(root))
        BY <2>1, <2>3, NamesArePlain DEF Opened, PathInv
      <4>3. 1 \in 1..Len(Name(root))
        BY <4>2 DEF Plain
      <4> QED
        BY <4>1, <4>2, <4>3 DEF Plain
    <3>2. CASE a # root
      BY <2>1, <2>2, <3>2, RelIs
    <3> QED
      BY <3>1, <3>2
  <2>6. ASSUME a # b
        PROVE  RelToRoot(a) # RelToRoot(b) /\ ~IsPrefix(Append(RelToRoot(a), Slash), RelToRoot(b))
    <3> DEFINE k == PrefixOf(root)
               x == RelToRoot(a)
               y == RelToRoot(b)
    <3>1. a # root /\ b # root
      BY <2>4, <2>6
    <3>2. /\ x \in Seq(Nat) /\ path[a] = k \o x /\ y \in Seq(Nat) /\ path[b] = k \o y
          /\ k \in Seq(Nat)
      BY <2>1, <2>2, <2>3, <3>1, RelIs, StemsOfPaths
    <3>3. /\ PrefixOf(a) = PrefixOf(b) => a = b
          /\ IsPrefix(PrefixOf(a), path[b]) => a \in Above(b)
      BY <2>1, <2>2, PathsTell
    <3>4. PrefixOf(a) = Append(path[a], Slash) /\ PrefixOf(b) = Append(path[b], Slash)
      BY DEF PrefixOf
    <3> HIDE DEF k, x, y
    <3>5. x # y
      BY <2>6, <3>2, <3>3, <3>4
    <3>6. ~IsPrefix(Append(x, Slash), y)
      <4> SUFFICES ASSUME IsPrefix(Append(x, Slash), y) PROVE FALSE
        OBVIOUS
      <4>1. IsPrefix(Append(k \o x, Slash), k \o y)
        BY <3>2, PrefixBehind
      <4>2. a \in Above(b)
        BY <4>1, <3>2, <3>3, <3>4
      <4> QED
        BY <2>1, <2>2, <2>6, <4>2, AboveAreFolders
    <3> QED
      BY <3>5, <3>6 DEF x, y
  <2> QED
    BY <2>2, <2>5, <2>6 DEF a, b
<1> QED
  BY SelInitially, SelStep, <1>1, PTL DEF SelSpec

-----------------------------------------------------------------------------
(* A folder's rows.                                                        *)

\* What lies between two runs that begin with p begins with p.
LEMMA LexBetween ==
  ASSUME NEW p \in Seq(Nat), NEW a \in Seq(Nat), NEW b \in Seq(Nat), NEW c \in Seq(Nat),
         IsPrefix(p, a), IsPrefix(p, c), ~LexLess(b, a), ~LexLess(c, b)
  PROVE  IsPrefix(p, b)
<1> DEFINE Off == {k \in 1..Len(p) : k > Len(b) \/ p[k] # b[k]}
<1>1. /\ Len(p) \in Nat /\ Len(a) \in Nat /\ Len(b) \in Nat /\ Len(c) \in Nat
      /\ Len(p) <= Len(a) /\ Len(p) <= Len(c)
      /\ \A k \in 1..Len(p) : p[k] = a[k] /\ p[k] = c[k] /\ p[k] \in Nat
  <2>1. /\ Len(p) \in Nat /\ Len(a) \in Nat /\ Len(b) \in Nat /\ Len(c) \in Nat
        /\ \A k \in 1..Len(p) : p[k] \in Nat
    OBVIOUS
  <2>2. Len(p) <= Len(a) /\ \A k \in 1..Len(p) : p[k] = a[k]
    BY PrefixAt
  <2>3. Len(p) <= Len(c) /\ \A k \in 1..Len(p) : p[k] = c[k]
    BY PrefixAt
  <2> QED
    BY <2>1, <2>2, <2>3
<1>2. CASE Off = {}
  <2>1. ASSUME NEW k \in 1..Len(p) PROVE k <= Len(b) /\ p[k] = b[k]
    <3>1. ~(k > Len(b)) /\ p[k] = b[k]
      BY <1>2
    <3>2. Len(b) \in Nat /\ k \in Int
      BY <1>1
    <3> QED
      BY <3>1, <3>2
  <2>2. Len(p) <= Len(b)
    <3>1. CASE Len(p) = 0
      BY <3>1, <1>1
    <3>2. CASE Len(p) # 0
      <4>1. Len(p) \in 1..Len(p)
        BY <3>2, <1>1
      <4> QED
        BY <4>1, <2>1
    <3> QED
      BY <3>1, <3>2
  <2> QED
    BY <2>1, <2>2, PrefixAt
<1>3. CASE Off # {}
  <2>1. Off \subseteq Nat
    OBVIOUS
  <2>2. PICK k \in Off : \A l \in Off : k <= l
    BY <2>1, <1>3, LeastOf
  <2>3. k \in 1..Len(p) /\ (k > Len(b) \/ p[k] # b[k]) /\ k \in Nat
    OBVIOUS
  <2>4. ASSUME NEW m \in 1..(k - 1) PROVE m <= Len(b) /\ p[m] = b[m] /\ m \in 1..Len(p)
    <3>1. m \in 1..Len(p) /\ ~(k <= m)
      BY <2>3, <1>1
    <3>2. m \notin Off
      BY <3>1, <2>2
    <3> QED
      BY <3>1, <3>2, <1>1
  <2> HIDE DEF Off
  <2>5. \A m \in 1..(k - 1) : p[m] = b[m] /\ p[m] = a[m] /\ p[m] = c[m]
    BY <2>4, <1>1
  <2>6. k - 1 <= Len(b)
    <3>1. CASE k = 1
      BY <3>1, <1>1
    <3>2. CASE k # 1
      <4>1. k - 1 \in 1..(k - 1)
        BY <3>2, <2>3
      <4> QED
        BY <4>1, <2>4
    <3> QED
      BY <3>1, <3>2
  <2>7. k \in 1..Len(a) /\ k \in 1..Len(c) /\ k <= Len(b) + 1 /\ k <= Len(c) + 1
    <3>1. /\ Len(p) \in Nat /\ Len(a) \in Nat /\ Len(b) \in Nat /\ Len(c) \in Nat
          /\ Len(p) <= Len(a) /\ Len(p) <= Len(c)
      BY <1>1
    <3>2. k \in 1..Len(p) /\ k \in Nat
      BY <2>3
    <3>3. 1 <= k /\ k <= Len(p)
      BY <3>1, <3>2
    <3>4. k <= Len(a) /\ k <= Len(c)
      <4>1. Len(p) \in Nat /\ Len(a) \in Nat /\ Len(p) <= Len(a)
        BY <3>1
      <4>2. Len(p) \in Nat /\ Len(c) \in Nat /\ Len(p) <= Len(c)
        BY <3>1
      <4>3. k <= Len(p) /\ k \in Nat
        BY <3>2, <3>3
      <4>4. k <= Len(a)
        BY <4>1, <4>3
      <4> QED
        BY <4>2, <4>3, <4>4
    <3>5. k <= Len(b) + 1
      BY <3>1, <3>2, <2>6
    <3> QED
      BY <3>1, <3>2, <3>3, <3>4, <3>5
  <2>8. p[k] = a[k] /\ p[k] = c[k] /\ p[k] \in Nat
    BY <2>3, <1>1
  <2>9. CASE k = Len(b) + 1
    <3>1. LexAt(b, a, k)
      BY <2>5, <2>7, <2>9 DEF LexAt
    <3> QED
      BY <3>1, <2>3, LexLessAt
  <2>10. CASE k <= Len(b)
    <3>0. Len(b) \in Nat /\ k >= 1
      BY <1>1, <2>3
    <3>1. k \in 1..Len(b) /\ b[k] \in Nat /\ p[k] # b[k]
      <4>1. k \in 1..Len(b)
        BY <3>0, <2>3, <2>10
      <4>2. ~(k > Len(b))
        BY <3>0, <2>3, <2>10
      <4> QED
        BY <4>1, <4>2, <2>3
    <3>2. CASE b[k] < p[k]
      <4>1. LexAt(b, a, k)
        BY <2>5, <2>7, <2>8, <3>2 DEF LexAt
      <4> QED
        BY <4>1, <2>3, LexLessAt
    <3>3. CASE p[k] < b[k]
      <4>1. LexAt(c, b, k)
        BY <2>5, <2>7, <2>8, <3>1, <3>3 DEF LexAt
      <4> QED
        BY <4>1, <2>3, LexLessAt
    <3> QED
      BY <3>1, <3>2, <3>3, <2>8
  <2>11. k = Len(b) + 1 \/ k <= Len(b)
    <3>1. Len(b) \in Nat
      BY <1>1
    <3>2. k \in Nat /\ k <= Len(b) + 1
      BY <2>3, <2>7
    <3> QED
      BY <3>1, <3>2
  <2> QED
    BY <2>9, <2>10, <2>11
<1> QED
  BY <1>2, <1>3

\* A path that goes on after the slash that closes another has more slashes,
\* and one more if a name is all that follows.
LEMMA SlashesGrow ==
  ASSUME NEW p \in Seq(Nat), NEW q \in Seq(Nat), IsPrefix(Append(p, Slash), q)
  PROVE  /\ Cardinality(SlashesOf(p)) \in Nat /\ Cardinality(SlashesOf(q)) \in Nat
         /\ Cardinality(SlashesOf(p)) + 1 <= Cardinality(SlashesOf(q))
<1> DEFINE z == Append(p, Slash)
           n == Len(p) + 1
           P == SlashesOf(p)
           Q == SlashesOf(q)
<1>1. Len(p) \in Nat /\ Len(q) \in Nat /\ Slash \in Nat /\ DOMAIN p = 1..Len(p) /\ DOMAIN q = 1..Len(q)
  BY DEF Slash
<1>2. /\ z \in Seq(Nat) /\ Len(z) = n /\ z[n] = Slash
      /\ \A i \in 1..Len(p) : z[i] = p[i]
  BY <1>1, AppendProperties
<1>3. n <= Len(q) /\ \A i \in 1..n : z[i] = q[i]
  BY <1>2, PrefixAt
<1> HIDE DEF z
<1>4. n \in Nat /\ n \in 1..Len(q) /\ n \in 1..n /\ n \notin 1..Len(p)
  BY <1>1, <1>3
<1>5. \A i \in 1..Len(p) : i \in 1..n /\ i \in 1..Len(q) /\ p[i] = q[i]
  BY <1>1, <1>2, <1>3
<1>6. n \in Q /\ n \notin P /\ P \subseteq Q
  BY <1>1, <1>2, <1>3, <1>4, <1>5 DEF SlashesOf
<1>7. IsFiniteSet(Q) /\ IsFiniteSet(P)
  <2>1. P \subseteq 1..Len(p) /\ Q \subseteq 1..Len(q)
    BY <1>1 DEF SlashesOf
  <2>2. IsFiniteSet(1..Len(p)) /\ IsFiniteSet(1..Len(q))
    BY <1>1, FS_Interval
  <2> QED
    BY <2>1, <2>2, FS_Subset
<1> HIDE DEF P, Q, n
<1>8. IsFiniteSet(P \cup {n}) /\ Cardinality(P \cup {n}) = Cardinality(P) + 1
  BY <1>6, <1>7, FS_AddElement
<1>9. P \cup {n} \subseteq Q
  BY <1>6
<1>10. Cardinality(P \cup {n}) <= Cardinality(Q)
  BY <1>7, <1>9, FS_Subset
<1>11. Cardinality(P) \in Nat /\ Cardinality(Q) \in Nat
  BY <1>7, FS_CardinalityType
<1> QED
  BY <1>8, <1>10, <1>11 DEF P, Q

LEMMA SlashesOfChild ==
  ASSUME NEW p \in Seq(Nat), NEW n, Plain(n)
  PROVE  Cardinality(SlashesOf(Append(p, Slash) \o n)) = Cardinality(SlashesOf(p)) + 1
<1> DEFINE z == Append(p, Slash)
           q == z \o n
           w == Len(p) + 1
           P == SlashesOf(p)
           Q == SlashesOf(q)
<1>1. Len(p) \in Nat /\ Slash \in Nat /\ DOMAIN p = 1..Len(p) /\ n \in Seq(Nat) /\ Len(n) \in Nat
  BY DEF Slash, Plain
<1>2. /\ z \in Seq(Nat) /\ Len(z) = w /\ z[w] = Slash
      /\ \A i \in 1..Len(p) : z[i] = p[i]
  BY <1>1, AppendProperties
<1> HIDE DEF z
<1>3. /\ q \in Seq(Nat) /\ Len(q) = w + Len(n)
      /\ \A i \in 1..w : q[i] = z[i]
      /\ \A i \in 1..Len(n) : q[w + i] = n[i]
  <2>1. /\ z \o n \in Seq(Nat) /\ Len(z \o n) = Len(z) + Len(n)
        /\ \A k \in 1..Len(z) : (z \o n)[k] = z[k]
        /\ \A k \in 1..Len(n) : (z \o n)[Len(z) + k] = n[k]
    <3>1. z \in Seq(Nat) /\ n \in Seq(Nat)
      BY <1>1, <1>2
    <3> HIDE DEF q, w, P, Q
    <3> QED
      BY <3>1, GrownAt
  <2> QED
    BY <2>1, <1>2
<1> HIDE DEF q
<1>4. DOMAIN q = 1..Len(q)
  BY <1>3
<1>5. w \in Nat /\ w \in 1..w /\ w \in 1..Len(q) /\ w \notin 1..Len(p)
  BY <1>1, <1>3
<1>6. \A i \in 1..Len(p) : i \in 1..w /\ i \in 1..Len(q) /\ q[i] = p[i]
  BY <1>1, <1>2, <1>3
<1>7. \A i \in 1..Len(q) : i > w => q[i] # Slash
  <2> SUFFICES ASSUME NEW i \in 1..Len(q), i > w PROVE q[i] # Slash
    OBVIOUS
  <2>1. i - w \in 1..Len(n) /\ i = w + (i - w)
    BY <1>1, <1>3, <1>5
  <2>2. q[i] = n[i - w]
    BY <2>1, <1>3
  <2> QED
    BY <2>1, <2>2 DEF Plain
<1>8. Q = P \cup {w}
  <2>1. P \cup {w} \subseteq Q
    BY <1>1, <1>2, <1>3, <1>4, <1>5, <1>6 DEF SlashesOf
  <2>2. ASSUME NEW i \in Q PROVE i \in P \cup {w}
    <3>1. i \in 1..Len(q) /\ q[i] = Slash
      BY <1>4 DEF SlashesOf
    <3>2. i <= w
      BY <3>1, <1>5, <1>7
    <3>3. i = w \/ i \in 1..Len(p)
      BY <3>1, <3>2, <1>1
    <3>4. i \in 1..Len(p) => i \in P
      BY <3>1, <1>1, <1>6 DEF SlashesOf
    <3> QED
      BY <3>3, <3>4
  <2> QED
    BY <2>1, <2>2
<1>9. w \notin P
  BY <1>1, <1>5 DEF SlashesOf
<1>10. IsFiniteSet(P)
  <2>1. P \subseteq 1..Len(p)
    BY <1>1 DEF SlashesOf
  <2>2. IsFiniteSet(1..Len(p))
    BY <1>1, FS_Interval
  <2> QED
    BY <2>1, <2>2, FS_Subset
<1> HIDE DEF P, Q, w
<1>11. Cardinality(Q) = Cardinality(P) + 1
  BY <1>8, <1>9, <1>10, FS_AddElement
<1> QED
  BY <1>11 DEF P, Q, q, z

\* A folder's key begins the keys of what is below it, and no others.
LEMMA KeysTell ==
  ASSUME Opened, Orderly, NEW a \in ToSet(nodes), raw[a].dir, NEW c \in ToSet(nodes)
  PROVE  IsPrefix(SortKey(a), SortKey(c)) <=> a \in Above(c)
<1>1. /\ IsPrefix(PrefixOf(a), PrefixOf(c)) <=> a \in Above(c)
      /\ IsPrefix(PrefixOf(a), path[c]) <=> a \in Above(c) /\ a # c
      /\ a \in Handles /\ c \in Handles
  BY PathsTell
<1>2. SortKey(a) = PrefixOf(a) /\ SortKey(c) = IF raw[c].dir THEN PrefixOf(c) ELSE path[c]
  BY <1>1, SortKeyIs
<1>3. ~raw[c].dir => a # c
  OBVIOUS
<1> QED
  BY <1>1, <1>2, <1>3

\* A node is listed after the folders it is in.
LEMMA AboveIsListedFirst ==
  ASSUME Opened, Orderly, NEW q \in Rows, NEW d \in Rows,
         nodes[q] \in Above(nodes[d]), nodes[q] # nodes[d]
  PROVE  q < d /\ raw[nodes[q]].dir
<1> DEFINE a == nodes[q]
           c == nodes[d]
<1>1. /\ Len(nodes) \in Nat /\ Rows = 1..Len(nodes)
      /\ \A i, j \in Rows : i < j => ~LexLess(SortKey(nodes[j]), SortKey(nodes[i]))
  BY ListingIsReached DEF Opened, PathInv
<1>2. a \in ToSet(nodes) /\ c \in ToSet(nodes)
  BY <1>1 DEF Rows, ToSet
<1>3. raw[a].dir
  BY <1>2, AboveAreFolders
<1>4. /\ IsPrefix(SortKey(a), SortKey(c)) /\ a \in Handles /\ c \in Handles
      /\ PrefixOf(a) = PrefixOf(c) => a = c
  BY <1>2, <1>3, KeysTell, PathsTell
<1>5. /\ SortKey(a) \in Seq(Nat) /\ SortKey(c) \in Seq(Nat) /\ SortKey(a) = PrefixOf(a)
      /\ SortKey(c) = IF raw[c].dir THEN PrefixOf(c) ELSE path[c]
  BY <1>3, <1>4, SortKeyIs
<1>6. SortKey(a) # SortKey(c)
  <2> SUFFICES ASSUME SortKey(a) = SortKey(c) PROVE FALSE
    OBVIOUS
  <2>1. ~raw[c].dir /\ PrefixOf(a) = path[c]
    BY <1>4, <1>5
  <2>2. c # root
    <3>1. CASE c = root
      <4>1. a \in ToSet(reach) /\ a \in Above(root)
        BY <1>2, <3>1, InTree
      <4> QED
        BY <3>1, <4>1, RootIsTop DEF Orderly
    <3> QED
      BY <3>1
  <2>3. PICK p \in ToSet(nodes) : Plain(Name(c)) /\ path[c] = PrefixOf(p) \o Name(c)
    BY <1>2, <2>2, ParentIsListed
  <2> DEFINE b == PrefixOf(p)
             n == Name(c)
             x == PrefixOf(a)
  <2>4. b \in Seq(Nat) /\ Stem(x) /\ Plain(n) /\ x = b \o n
    <3>1. p \in Handles
      BY PathsTell
    <3> QED
      BY <2>1, <2>3, <3>1, <1>4, StemsOfPaths
  <2> HIDE DEF b, n, x
  <2>5. /\ Len(b \o n) = Len(b) + Len(n)
        /\ \A k \in 1..Len(n) : (b \o n)[Len(b) + k] = n[k]
    BY <2>4, GrownAt DEF Plain
  <2>6. Len(n) \in 1..Len(n) /\ n[Len(n)] # Slash
    BY <2>4 DEF Plain
  <2> QED
    BY <2>4, <2>5, <2>6 DEF Stem
<1>7. LexLess(SortKey(a), SortKey(c))
  BY <1>4, <1>5, <1>6 DEF LexLess, IsStrictPrefix
<1>8. ~(d < q)
  BY <1>1, <1>7
<1>9. q # d
  OBVIOUS
<1> QED
  BY <1>1, <1>3, <1>8, <1>9

\* What is listed between a folder and something below it is below it.
LEMMA BetweenIsBelow ==
  ASSUME Opened, Orderly, NEW r \in Rows, NEW e \in Rows, NEW d \in Rows,
         r <= e, e <= d, raw[nodes[r]].dir, nodes[r] \in Above(nodes[d])
  PROVE  nodes[r] \in Above(nodes[e])
<1> DEFINE n == nodes[r]
           b == nodes[e]
           c == nodes[d]
<1>1. /\ Len(nodes) \in Nat /\ Rows = 1..Len(nodes)
      /\ \A i, j \in Rows : i < j => ~LexLess(SortKey(nodes[j]), SortKey(nodes[i]))
  BY ListingIsReached DEF Opened, PathInv
<1>2. n \in ToSet(nodes) /\ b \in ToSet(nodes) /\ c \in ToSet(nodes)
  BY <1>1 DEF Rows, ToSet
<1>3. n \in Handles /\ b \in Handles /\ c \in Handles
  BY <1>2, PathsTell
<1>4. SortKey(n) \in Seq(Nat) /\ SortKey(b) \in Seq(Nat) /\ SortKey(c) \in Seq(Nat)
  BY <1>3, SortKeyIs
<1>5. IsPrefix(SortKey(n), SortKey(n)) /\ IsPrefix(SortKey(n), SortKey(c))
  <2>1. IsPrefix(SortKey(n), SortKey(n))
    BY <1>4, PrefixAt
  <2> QED
    BY <2>1, <1>2, KeysTell
<1>6. CASE e = r
  BY <1>3, <1>6, InTree, AboveSelf
<1>7. CASE e = d
  BY <1>7
<1>8. CASE e # r /\ e # d
  <2>1. r < e /\ e < d
    BY <1>1, <1>8
  <2>2. ~LexLess(SortKey(b), SortKey(n)) /\ ~LexLess(SortKey(c), SortKey(b))
    BY <1>1, <2>1
  <2> HIDE DEF n, b, c
  <2>3. IsPrefix(SortKey(n), SortKey(b))
    BY <1>4, <1>5, <2>2, LexBetween
  <2>4. raw[n].dir
    BY DEF n
  <2>5. n \in Above(b)
    BY <1>2, <2>3, <2>4, KeysTell
  <2> QED
    BY <2>5 DEF n, b
<1> QED
  BY <1>6, <1>7, <1>8

LEMMA DeeperBelow ==
  ASSUME Opened, Orderly, NEW q \in Rows, NEW d \in Rows,
         nodes[q] \in Above(nodes[d]), nodes[q] # nodes[d]
  PROVE  Depth(q) \in Int /\ Depth(d) \in Int /\ Depth(q) < Depth(d)
<1> DEFINE a == nodes[q]
           c == nodes[d]
<1>1. a \in ToSet(nodes) /\ c \in ToSet(nodes)
  BY ListingIsReached DEF Opened, PathInv, Rows, ToSet
<1>2. IsPrefix(PrefixOf(a), path[c]) /\ a \in Handles /\ c \in Handles
  BY <1>1, PathsTell
<1>3. path[a] \in Seq(Nat) /\ path[c] \in Seq(Nat) /\ PrefixOf(a) = Append(path[a], Slash)
  BY <1>2, StemsOfPaths DEF PrefixOf
<1> DEFINE x == path[a]
           y == path[c]
           i == Cardinality(SlashesOf(x))
           j == Cardinality(SlashesOf(y))
<1>4. Depth(q) = i - 1 /\ Depth(d) = j - 1
  BY DEF Depth
<1>5. IsPrefix(Append(x, Slash), y) /\ x \in Seq(Nat) /\ y \in Seq(Nat)
  BY <1>2, <1>3
<1> HIDE DEF x, y
<1>6. i \in Nat /\ j \in Nat /\ i + 1 <= j
  BY <1>5, SlashesGrow
<1> HIDE DEF i, j
<1> QED
  BY <1>4, <1>6

\* After a folder and what is below it comes a row that is no deeper.
LEMMA NextIsNoDeeper ==
  ASSUME Opened, Orderly, NEW r \in Rows, NEW e \in Rows, r < e,
         nodes[r] \notin Above(nodes[e]),
         \A f \in Rows : r < f /\ f < e => nodes[r] \in Above(nodes[f])
  PROVE  ~(Depth(e) > Depth(r))
<1> DEFINE n == nodes[r]
           c == nodes[e]
<1>1. /\ Len(nodes) \in Nat /\ Rows = 1..Len(nodes) /\ nodes[1] = root /\ 1 \in Rows
      /\ \A i, j \in Rows : nodes[i] = nodes[j] => i = j
  BY ListingIsReached DEF Opened, PathInv
<1>2. n \in ToSet(nodes) /\ c \in ToSet(nodes) /\ ToSet(nodes) = {nodes[f] : f \in Rows}
  BY <1>1 DEF Rows, ToSet
<1>3. n \in Handles /\ c \in Handles
  BY <1>2, PathsTell
<1>4. c # root
  <2>1. e # 1
    BY <1>1
  <2> QED
    BY <1>1, <2>1
<1>5. PICK p \in ToSet(nodes) :
        /\ p # c /\ p \in Above(c) /\ raw[p].dir /\ Plain(Name(c))
        /\ path[c] = PrefixOf(p) \o Name(c)
  BY <1>2, <1>4, ParentIsListed
<1>6. PICK q \in Rows : p = nodes[q]
  BY <1>2
<1>7. q < e
  BY <1>5, <1>6, AboveIsListedFirst
<1>8. ~(r < q)
  <2> SUFFICES ASSUME r < q PROVE FALSE
    OBVIOUS
  <2>1. n \in Above(p)
    BY <1>6, <1>7
  <2>2. p \in Handles /\ 0 \notin Handles
    BY <1>5, PathsTell, InTree
  <2>3. n \in Above(c)
    BY <1>3, <1>5, <2>1, <2>2, AboveTwice
  <2> QED
    BY <2>3
<1>9. q # r
  BY <1>5, <1>6
<1>10. q < r
  BY <1>1, <1>8, <1>9
<1>11. p \in Above(n) /\ p # n
  <2>1. p \in Above(n)
    <3>1. q <= r /\ r <= e
      BY <1>1, <1>10
    <3> QED
      BY <3>1, <1>5, <1>6, BetweenIsBelow
  <2>2. p # n
    BY <1>1, <1>6, <1>9
  <2> QED
    BY <2>1, <2>2
<1>12. Depth(q) \in Int /\ Depth(r) \in Int /\ Depth(q) < Depth(r)
  BY <1>6, <1>11, DeeperBelow
<1>13. Depth(e) = Depth(q) + 1
  <2> DEFINE x == path[p]
             m == Name(c)
             y == path[c]
             i == Cardinality(SlashesOf(x))
             j == Cardinality(SlashesOf(y))
  <2>1. Depth(q) = i - 1 /\ Depth(e) = j - 1
    BY <1>6 DEF Depth
  <2>2. x \in Seq(Nat) /\ y = Append(x, Slash) \o m /\ Plain(m)
    <3>1. p \in Handles
      BY <1>5, PathsTell
    <3> QED
      BY <1>5, <3>1, StemsOfPaths DEF PrefixOf
  <2> HIDE DEF x, m, y
  <2>3. j = i + 1
    BY <2>2, SlashesOfChild
  <2>4. i \in Nat
    <3>1. DOMAIN x = 1..Len(x) /\ Len(x) \in Nat
      BY <2>2
    <3>2. SlashesOf(x) \subseteq 1..Len(x) /\ IsFiniteSet(1..Len(x))
      BY <3>1, FS_Interval DEF SlashesOf
    <3> QED
      BY <3>2, FS_Subset, FS_CardinalityType
  <2> HIDE DEF i, j
  <2> QED
    BY <2>1, <2>3, <2>4
<1> QED
  BY <1>12, <1>13

\* What the picker takes for a folder's subtree is that.
LEMMA DescendantsAreBelow ==
  ASSUME Opened, Orderly, NEW r \in Rows, IsDir(r)
  PROVE  Descendants(r) = {d \in Rows : nodes[r] \in Above(nodes[d]) /\ nodes[d] # nodes[r]}
<1> DEFINE n == nodes[r]
<1>1. /\ Len(nodes) \in Nat /\ Rows = 1..Len(nodes)
      /\ \A i, j \in Rows : nodes[i] = nodes[j] => i = j
  BY ListingIsReached DEF Opened, PathInv
<1>2. ASSUME NEW d \in Rows, n \in Above(nodes[d]), nodes[d] # n
      PROVE  d \in Descendants(r)
  <2>1. r < d
    BY <1>2, AboveIsListedFirst
  <2>2. ASSUME NEW e \in (r + 1)..d PROVE Depth(e) > Depth(r)
    <3>1. e \in Rows /\ r < e /\ r <= e /\ e <= d
      BY <1>1, <2>1
    <3>2. n \in Above(nodes[e])
      BY <3>1, <1>2, BetweenIsBelow DEF IsDir
    <3>3. nodes[e] # n
      BY <1>1, <3>1
    <3> QED
      BY <3>1, <3>2, <3>3, DeeperBelow
  <2> QED
    BY <2>1, <2>2 DEF Descendants
<1>3. ASSUME NEW d \in Descendants(r)
      PROVE  d \in Rows /\ n \in Above(nodes[d]) /\ nodes[d] # n
  <2>1. d \in Rows /\ d > r /\ \A e \in (r + 1)..d : Depth(e) > Depth(r)
    BY DEF Descendants
  <2>2. nodes[d] # n
    BY <1>1, <2>1
  <2>3. ASSUME n \notin Above(nodes[d]) PROVE FALSE
    <3> DEFINE Out == {e \in Rows : r < e /\ e <= d /\ n \notin Above(nodes[e])}
    <3>1. d \in Out
      BY <1>1, <2>1, <2>3
    <3>2. Out \subseteq Nat
      BY <1>1
    <3>3. PICK e \in Out : \A f \in Out : e <= f
      BY <3>1, <3>2, LeastOf
    <3>4. e \in Rows /\ r < e /\ e <= d /\ n \notin Above(nodes[e])
      OBVIOUS
    <3>5. ASSUME NEW f \in Rows, r < f, f < e PROVE n \in Above(nodes[f])
      <4>0. f \in Nat /\ e \in Nat /\ d \in Nat /\ e <= d
        BY <1>1, <2>1, <3>4, <3>5
      <4>1. f <= d /\ ~(e <= f)
        BY <4>0, <3>5
      <4> QED
        BY <3>3, <3>5, <4>1
    <3>6. ~(Depth(e) > Depth(r))
      BY <3>4, <3>5, NextIsNoDeeper
    <3>7. e \in (r + 1)..d
      BY <1>1, <3>4
    <3> QED
      BY <2>1, <3>6, <3>7
  <2> QED
    BY <2>1, <2>2, <2>3
<1> QED
  BY <1>2, <1>3

LEMMA FilesOfIsBelow ==
  ASSUME Opened, Orderly, NEW r \in Rows
  PROVE  LET under == {f \in FileRows : nodes[f] \in Below(nodes[r])}
         IN  FilesOf(r) \subseteq under /\ (IsDir(r) => FilesOf(r) = under)
<1>1. /\ nodes[r] \in ToSet(nodes) /\ \A f \in Rows : nodes[f] \in ToSet(nodes)
  BY ListingIsReached DEF Opened, PathInv, Rows, ToSet
<1>2. /\ Below(nodes[r]) = {i \in ToSet(nodes) : nodes[r] \in Above(i)}
      /\ nodes[r] \in Below(nodes[r])
  BY <1>1, BelowIsListed
<1>3. CASE IsDir(r)
  <2>1. Descendants(r) = {d \in Rows : nodes[r] \in Above(nodes[d]) /\ nodes[d] # nodes[r]}
    BY <1>3, DescendantsAreBelow
  <2>2. FilesOf(r) = {f \in FileRows : f \in Descendants(r)}
    BY <1>3 DEF FilesOf
  <2>3. \A f \in FileRows : f \in Rows /\ nodes[f] # nodes[r]
    BY <1>3 DEF FileRows, IsDir
  <2> QED
    BY <1>1, <1>2, <2>1, <2>2, <2>3
<1>4. CASE ~IsDir(r)
  BY <1>1, <1>2, <1>4 DEF FilesOf, FileRows
<1> QED
  BY <1>3, <1>4

\* The space bar reaches the files below the row it is on, all of them together
\* and no others, in every listing without two siblings of one name
\* (picker.rs:77-78).
THEOREM TogglesAreLocal == SelSpec => ToggleIsLocal
<1> DEFINE Local ==
      Toggle /\ Orderly =>
        LET tree == Below(nodes[cursor])
            under == {r \in FileRows : nodes[r] \in tree}
        IN  /\ ticked' \ under = ticked \ under
            /\ IsDir(cursor) => under \subseteq ticked' \/ under \cap ticked' = {}
<1>1. SelInv => Local
  <2> SUFFICES ASSUME SelInv, Toggle, Orderly PROVE Local
    OBVIOUS
  <2> DEFINE under == {r \in FileRows : nodes[r] \in Below(nodes[cursor])}
             F == FilesOf(cursor)
  <2>1. Opened /\ cursor \in Rows
    BY DEF SelInv, Opened, Toggle
  <2>2. F \subseteq under /\ (IsDir(cursor) => F = under)
    BY <2>1, FilesOfIsBelow
  <2>3. \/ ticked' = ticked \ F
        \/ ticked' = ticked \cup F
    BY DEF Toggle, Toggled, MarkOf
  <2> HIDE DEF under, F
  <2>4. /\ ticked' \ under = ticked \ under
        /\ IsDir(cursor) => under \subseteq ticked' \/ under \cap ticked' = {}
    BY <2>2, <2>3
  <2> QED
    BY <2>4 DEF under
<1>2. SelInv /\ [SelNext]_allVars => [Local]_allVars
  BY <1>1
<1> QED
  BY SelInitially, SelStep, <1>2, PTL DEF SelSpec, ToggleIsLocal

=============================================================================
