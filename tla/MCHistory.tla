------------------------------ MODULE MCHistory -----------------------------
(* Instances of History: the orders of the digests and who broadcasts.     *)
EXTENDS History, TLC

CONSTANTS a, b, c, d

Pair == {a, b}
Quartet == {a, b, c, d}
OneRing == {0}
TwoRings == {0, 1}

Rank == (a :> 1) @@ (b :> 2) @@ (c :> 3) @@ (d :> 4)
\* the order a, d, b, c: a relays to b and d, b to c, c to d and a, d to a and b
Swapped == (a :> 1) @@ (b :> 3) @@ (c :> 4) @@ (d :> 2)

MixedKeys ==
    [i \in RingIndex |-> [n \in Node |-> IF i = 0 THEN Rank[n] ELSE Swapped[n]]]

TwiceA == [n \in Node |-> CASE n = a -> 2 [] OTHER -> 0]
ThriceA == [n \in Node |-> CASE n = a -> 3 [] OTHER -> 0]
=============================================================================
