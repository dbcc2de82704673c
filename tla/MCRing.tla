------------------------------- MODULE MCRing -------------------------------
(* Five nodes: RingIndex is the set of all the orders of their digests.    *)
EXTENDS SingleRing

CONSTANTS a, b, c, d, e

Five == {a, b, c, d, e}

Orders == {f \in [Five -> 1 .. 5] : \A m, n \in Five : f[m] = f[n] => m = n}

OrderKeys == [f \in Orders |-> f]
=============================================================================
