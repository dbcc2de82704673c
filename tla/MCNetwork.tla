----------------------------- MODULE MCNetwork ------------------------------
(***************************************************************************)
(* Instances of Network for TLC: which node joins through which, and in    *)
(* which order the digests put the nodes.                                  *)
(***************************************************************************)
EXTENDS Network, TLC

CONSTANTS a, b, c, d

Trio == {a, b, c}
Quartet == {a, b, c, d}

Rank == (a :> 1) @@ (b :> 2) @@ (c :> 3) @@ (d :> 4)
\* the order a, c, b, d
Swapped == (a :> 1) @@ (b :> 3) @@ (c :> 2) @@ (d :> 4)

OnNodes(f) == [n \in Node |-> f[n]]

OneRing == {0}
TwoRings == {0, 1}
RankKeys == [i \in RingIndex |-> OnNodes(Rank)]
MixedKeys == [i \in RingIndex |-> OnNodes(IF i = 0 THEN Rank ELSE Swapped)]

\* every node has its own address
RankAddr == OnNodes(Rank)

NoData == [n \in Node |-> 0]
DataFromA == [n \in Node |-> IF n = a THEN 1 ELSE 0]
DataFromB == [n \in Node |-> IF n = b THEN 1 ELSE 0]
DataFromAB == [n \in Node |-> IF n \in {a, b} THEN 1 ELSE 0]

\* everyone joins through a
ThroughA == [n \in Node |-> IF n = a THEN {} ELSE {a}]

\* b joins through a, c through b, d through c
Chain == [n \in Node |-> CASE n = b -> {a} [] n = c -> {b} [] n = d -> {c}
                          [] OTHER -> {}]

\* b and d join through a, c through b
Fork == [n \in Node |-> CASE n \in {b, d} -> {a} [] n = c -> {b} [] OTHER -> {}]

\* the nodes share one host
OneHost == [n \in Node |-> 1]

\* the IDs of b's groups come first
Rotated == (a :> 4) @@ (b :> 1) @@ (c :> 2) @@ (d :> 3)
GroupOrderB == [g \in GroupId |-> 10 * Rotated[g[1]] + g[2]]

GroupOrder == [g \in GroupId |-> 10 * Rank[g[1]] + g[2]]
=============================================================================
