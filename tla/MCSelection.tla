---------------------------- MODULE MCSelection ----------------------------
(* The lists of nodes that TLC opens. *)
EXTENDS Selection

Node(p, d, n, r, u, s) ==
  [parent |-> p, dir |-> d, name |-> n, readable |-> r, under |-> u, share |-> s]
Plain(p, d, n) == Node(p, d, n, "yes", {1}, FALSE)

Letter == <<High>>
Dotted == <<High, Low>>

\* Every shape of four nodes, cycles and lost parents included, with names
\* one of which is the other's beginning and goes on before the slash.
Shapes ==
  {<<Plain(0, TRUE, Letter)>> \o [i \in 1..3 |-> Plain(p[i], k[i][1], k[i][2])] :
     p \in {f \in [1..3 -> 1..4] : f[1] \in {1, 3}},
     k \in [1..3 -> {TRUE, FALSE} \X {Letter, Dotted}]}

\* What cannot be read: the first node, or a folder of the chain below it.
Keys ==
  {<<Node(q, TRUE, Letter, r1, {1}, FALSE), Node(p, TRUE, Letter, r2, u2, s2),
     Node(2, d, Letter, "yes", u3, FALSE), Plain(3, FALSE, n)>> :
     d \in BOOLEAN, q \in {0, 2}, p \in {1, 3}, r1, r2 \in {"yes", "no", "odd", "malformed"},
     u2 \in {{1}, {2}}, u3 \in {{1}, {2}, {2, 3}}, s2 \in BOOLEAN,
     n \in {<<>>, <<Slash, High>>}}

MCListings == {<<>>} \cup Shapes \cup Keys
=============================================================================
