------------------------------- MODULE Folder -------------------------------
(***************************************************************************)
(* Opening an exported folder (src/src/folder.rs): open_folder reads the   *)
(* server's flat list of nodes, drops what it cannot decrypt, walks what   *)
(* is below the root, giving each node its path, and sorts.  files_under   *)
(* and rel_to_root look nodes up by path.                                  *)
(*                                                                         *)
(* A node's handle is its place in the list; a parent that is no node's    *)
(* handle is 0.  A name is a short run of characters that sort before or   *)
(* after the slash, because the order and the prefixes of paths decide     *)
(* what the rest of the program takes for a node's subtree.                *)
(***************************************************************************)
EXTENDS Naturals, Sequences, SequencesExt, FiniteSets

CONSTANT Listings  \* the lists of raw nodes a server may send

Low   == 0  \* a space, a dot, a hyphen
Slash == 1
High  == 2  \* a letter, a digit

\* readable: "yes"; "no" if the key it has does not open it, or opens a name of
\* dots; "odd" if a field is empty or it is neither file nor folder; "malformed"
\* if it is not a node at all.  under: the handles under which its key is given.
\* share: it brings a share key of its own.
RawNode == [parent : Nat, dir : BOOLEAN, name : Seq({Low, Slash, High}),
            readable : {"yes", "no", "odd", "malformed"}, under : SUBSET Nat,
            share : BOOLEAN]

ASSUME FolderAssumption == Listings \subseteq Seq(RawNode)

VARIABLES
  raw,       \* the reply of the "f" command
  specific,  \* the node a deep link points to, or 0
  pc,        \* "read", "walk", "open" or "failed"
  root,
  parent,    \* FNode.parent; 0, which is no node, for none
  reach,     \* the walk's list, and in it
  at, last,  \*   the node whose children are being added, and the last added
  path,      \* paths given so far
  nodes      \* FolderFs.nodes, in their final order

vars == <<raw, specific, pc, root, parent, reach, at, last, path, nodes>>

Handles == DOMAIN raw

-----------------------------------------------------------------------------
(* Reading the list.                                                       *)

\* share_keys has a key for h once node i is being parsed: the link's own for
\* the first node, or the one that h or an earlier node h brought.
KeyKnown(h, i) ==
  \/ h = 1 /\ raw[1].readable # "malformed"
  \/ h \in 1..i /\ raw[h].share /\ raw[h].readable \in {"yes", "no"}

Parsed ==
  {i \in Handles : /\ raw[i].readable = "yes" /\ raw[i].name # <<>>
                  /\ \E h \in raw[i].under : KeyKnown(h, i)}

\* sanitize_name: a slash in a name becomes an underscore, which is High.
Name(n) == [k \in DOMAIN raw[n].name |->
              IF raw[n].name[k] = Slash THEN High ELSE raw[n].name[k]]

\* parent_handle is cleared for the list's first node and a deep link's root.
ParentKept(P) ==
  [i \in Handles \cup {0} |-> IF i \in P /\ raw[i].parent \in P THEN raw[i].parent ELSE 0]
ParentIn(P) ==
  [i \in Handles \cup {0} |->
     IF i \in P \ {1, specific} /\ raw[i].parent \in P THEN raw[i].parent ELSE 0]

\* children: the root is nobody's child, even if the list says so.
LaterChildren(n) == {i \in Handles \ {root} : parent[i] = n /\ i > n}
AnyChildren(n) == {i \in Handles : parent[i] = n}
Children(n) == {i \in Handles \ {root} : parent[i] = n}

-----------------------------------------------------------------------------
(* Order and look-up by path.                                              *)
LexLess(a, b) ==
  \/ IsStrictPrefix(a, b)
  \/ \E k \in DOMAIN a \cap DOMAIN b :
       a[k] < b[k] /\ \A m \in 1..(k - 1) : a[m] = b[m]

BarePath(n) == path[n]
SortKey(n) == IF raw[n].dir THEN Append(path[n], Slash) ELSE path[n]

\* The elements of S in the order R gives them.
InOrder(S, R) ==
  [k \in 1..Cardinality(S) |->
     CHOOSE x \in S : Cardinality({y \in S : <<y, x>> \in R}) = k - 1]

\* sort_by is stable: equal keys stay in the order they came in.
Precedes(s, i, j) ==
  LexLess(SortKey(s[i]), SortKey(s[j])) \/ (SortKey(s[i]) = SortKey(s[j]) /\ i < j)
Before(s) == {p \in (DOMAIN s) \X (DOMAIN s) : Precedes(s, p[1], p[2])}

\* What s has at the given places, sorted.
Sorted(s, places) ==
  LET order == InOrder(places, Before(s))
  IN  [k \in DOMAIN order |-> s[order[k]]]

\* What files_under takes for the beginning of a path below n.
PrefixOf(n) == Append(path[n], Slash)

\* Places in the listing.
FilesUnder(n) ==
  {r \in DOMAIN nodes : /\ ~raw[nodes[r]].dir
                        /\ nodes[r] = n \/ IsPrefix(PrefixOf(n), path[nodes[r]])}

\* rel_to_root
NameOnly(n) == Name(n)
RelToRoot(n) ==
  IF n = root THEN Name(n)
  ELSE IF IsPrefix(PrefixOf(root), path[n])
       THEN SubSeq(path[n], Len(PrefixOf(root)) + 1, Len(path[n]))
       ELSE path[n]

-----------------------------------------------------------------------------
Init ==
  /\ raw \in Listings /\ specific \in 0..(Len(raw) + 1)
  /\ pc = "read" /\ root = 0 /\ parent = <<>> /\ reach = <<>> /\ at = 1 /\ last = 0
  /\ path = <<>> /\ nodes = <<>>

\* An empty list, nothing readable in it, or a deep link to what is not there.
Fail ==
  /\ pc = "read"
  /\ Parsed = {} \/ specific \notin Parsed \cup {0}
  /\ pc' = "failed"
  /\ UNCHANGED <<raw, specific, root, parent, reach, at, last, path, nodes>>

FindRoot ==
  /\ pc = "read" /\ Parsed # {} /\ specific \in Parsed \cup {0}
  /\ root' = IF specific # 0 THEN specific
             ELSE CHOOSE i \in Parsed : \A j \in Parsed : i <= j
  /\ parent' = ParentIn(Parsed)
  /\ reach' = <<root'>>
  /\ path' = [i \in Handles |-> IF i = root' THEN <<Slash>> \o Name(i) ELSE <<>>]
  /\ pc' = "walk"
  /\ UNCHANGED <<raw, specific, at, last, nodes>>

\* The children of the current node, in the order of the list.
Unvisited == {c \in Children(reach[at]) : c > last}

PushChild ==
  /\ pc = "walk" /\ at <= Len(reach)
  /\ \E c \in Unvisited :
       /\ \A d \in Unvisited : c <= d
       /\ reach' = Append(reach, c) /\ last' = c
       /\ path' = [path EXCEPT ![c] = path[reach[at]] \o <<Slash>> \o Name(c)]
  /\ UNCHANGED <<raw, specific, pc, root, parent, at, nodes>>

NextNode ==
  /\ pc = "walk" /\ at <= Len(reach) /\ Unvisited = {}
  /\ at' = at + 1 /\ last' = 0
  /\ UNCHANGED <<raw, specific, pc, root, parent, reach, path, nodes>>

\* Every node is visited: sort, and keep what the walk has reached.
Finish ==
  /\ pc = "walk" /\ at > Len(reach)
  /\ nodes' = Sorted(reach, DOMAIN reach) /\ pc' = "open"
  /\ UNCHANGED <<raw, specific, root, parent, reach, at, last, path>>

Next == Fail \/ FindRoot \/ PushChild \/ NextNode \/ Finish

Spec == Init /\ [][Next]_vars

-----------------------------------------------------------------------------
(* Reference: the tree that the parents make.                              *)

\* The sets of nodes that no step up leaves.
Closed == {S \in SUBSET Handles : \A i \in S : parent[i] # 0 => parent[i] \in S}

\* What climbing from n meets, n with it; and the nodes that climb to n.
Above(n) == LET closed == Closed
            IN  {a \in Handles : \A S \in closed : (n # 0 => n \in S) => a \in S}
Below(n) == LET closed == Closed
            IN  {i \in Handles : \A S \in closed : i \in S => n \in S}

\* A climb is over at a node whose parent was not reached (folder.rs:149).
Ends(n) == \E a \in Above(n) : parent[a] \notin ToSet(nodes)
Files(S) == {i \in S : ~raw[i].dir}

\* What files_under and the picker rely on.
FoldersHoldNodes == \A i \in ToSet(nodes) : parent[i] # 0 => raw[parent[i]].dir
NamesDiffer ==
  \A i, j \in ToSet(nodes) : i # j /\ parent[i] = parent[j] => Name(i) # Name(j)
RootOnTop == parent[root] \notin ToSet(nodes)
Orderly == FoldersHoldNodes /\ NamesDiffer /\ RootOnTop

-----------------------------------------------------------------------------
(* Properties                                                              *)
\* The walk never meets a node twice, whatever parents the list claims,
\* cycles included: it ends, and no file is listed twice (folder.rs:97-121).
EachNodeOnce == IsInjective(reach)

\* It reaches what is below the root, all of it and nothing else, and the
\* root comes first ("`nodes[root]` is always index 0", folder.rs:128).
WholeSubtree ==
  pc = "open" => /\ ToSet(nodes) = Below(root) /\ nodes[1] = root
                 /\ Len(nodes) = Cardinality(ToSet(nodes))

\* Climbing from any node comes to an end, as prune_children's loop needs
\* (lib.rs:195-203): parents may go round in a circle in the list, but not
\* among what was reached.  Only a root that is neither the list's first node
\* nor the link's keeps the parent the list gives it, which may be below it.
ClimbsEnd ==
  pc = "open" /\ (root = 1 \/ specific # 0 \/ raw[root].parent \notin ToSet(nodes)) =>
    \A n \in ToSet(nodes) : Ends(n)

\* "Every file in n's subtree" (folder.rs:234) is what files_under finds, in
\* every list in which only folders hold nodes.  But it looks for paths, and a
\* server may list two nodes of one name side by side, and sanitize_name makes
\* equal names of different ones.
FilesUnderIsSubtree ==
  pc = "open" /\ FoldersHoldNodes =>
    \A n \in ToSet(nodes) : {nodes[r] : r \in FilesUnder(n)} = Files(Below(n))

=============================================================================
