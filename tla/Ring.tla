-------------------------------- MODULE Ring --------------------------------
(***************************************************************************)
(* Peer maps and rings (Config.hpp, Peer.hpp, Ring.cpp).                   *)
(*                                                                         *)
(* A Peer object of the code is identified, at the node that holds it, by  *)
(* the remote node and by the connection it wraps:                         *)
(*   "local"   the node's own Peer (Peer::local),                          *)
(*   "entry"   the connection the node opened to its entry point,          *)
(*   "joiner"  the same connection, as its entry point accepted it,        *)
(*   "called"  a connection opened on a JOIN Notification,                 *)
(*   "caller"  the same connection, as the joining node accepted it.       *)
(*                                                                         *)
(* A PeerMap (map<string, shared_ptr<Peer> >) sorted by peer ID is the set *)
(* of its Peer objects, no two with the same ID.  A Ring is such a map     *)
(* sorted by the digest hash(ID || ring index) instead: the set says which *)
(* peers it holds, RingKey in which order.  A digest has a fixed width, so *)
(* the keys have a greatest value.                                         *)
(***************************************************************************)
EXTENDS Integers, FiniteSets

CONSTANTS
    Node,       \* the processes; a node stands for its peer ID
    RingIndex,  \* 0 .. RINGS_NB-1
    MaxKey,     \* the greatest digest
    RingKey     \* RingKey[i][n]: the digest of node n's ID in ring i

ASSUME RingAssumption ==
    /\ RingIndex # {}
    /\ MaxKey \in Nat
    /\ RingKey \in [RingIndex -> [Node -> 0 .. MaxKey]]
    /\ \A i \in RingIndex : \A m, n \in Node :
          RingKey[i][m] = RingKey[i][n] => m = n

PeerKind == {"local", "entry", "joiner", "called", "caller"}

Peer == Node \X PeerKind

Local(n) == <<n, "local">>

Id(p) == p[1]

Ids(M) == {Id(p) : p \in M}

-----------------------------------------------------------------------------
\* A PeerMap holds at most one Peer per ID.
IsPeerMap(M) ==
    /\ M \subseteq Peer
    /\ \A p, q \in M : Id(p) = Id(q) => p = q

\* map[p->get_id()] = p
Put(M, p) == {q \in M : Id(q) # Id(p)} \cup {p}

\* map.insert(pair(p->get_id(), p)): the Peer already there stays
InsertNew(M, p) == IF Id(p) \in Ids(M) THEN M ELSE M \cup {p}

\* map.erase(id)
EraseId(M, n) == {q \in M : Id(q) # n}

\* ring[key] = p for every Peer p of the PeerMap S
PutAll(M, S) == {q \in M : Id(q) \notin Ids(S)} \cup S

-----------------------------------------------------------------------------
Key(i, p) == RingKey[i][Id(p)]

Least(i, S) == CHOOSE p \in S : \A q \in S : Key(i, p) <= Key(i, q)

Greatest(i, S) == CHOOSE p \in S : \A q \in S : Key(i, q) <= Key(i, p)

After(i, R, p) == {q \in R : Key(i, q) > Key(i, p)}

Before(i, R, p) == {q \in R : Key(i, q) < Key(i, p)}

\* Faulty: a ring of two is taken for a ring of one.
NoNeighbour_AlsoInPairs(R, n) ==
    Cardinality(Ids(R)) <= 2 \/ n \notin Ids(R)

\* Where get_successor and get_predecessor throw PeerNotFoundException: the
\* peer is not in the ring, or is alone in it.
NoNeighbour(R, n) == Ids(R) \subseteq {n} \/ n \notin Ids(R)

\* Faulty: the last peer is its own successor.
Successor_NoWrap(i, R, p) ==
    LET after == After(i, R, p)
    IN  IF after # {} THEN Least(i, after) ELSE p

\* Faulty: the iterator is incremented twice.
Successor_Skips(i, R, p) ==
    LET after == After(i, R, p)
        rest == after \ {Least(i, after)}
    IN  Least(i, IF after = {} THEN R ELSE IF rest = {} THEN R ELSE rest)

\* The next peer in the order of the keys, the first one after the last, where
\* there is a neighbour
Successor(i, R, p) ==
    LET after == After(i, R, p)
    IN  Least(i, IF after # {} THEN after ELSE R)

Predecessor(i, R, p) ==
    LET before == Before(i, R, p)
    IN  Greatest(i, IF before # {} THEN before ELSE R)

\* get_successor and get_predecessor: nobody where they throw
GetSuccessor(i, R, p) ==
    IF NoNeighbour(R, Id(p)) THEN {} ELSE {Successor(i, R, p)}

GetPredecessor(i, R, p) ==
    IF NoNeighbour(R, Id(p)) THEN {} ELSE {Predecessor(i, R, p)}
=============================================================================
