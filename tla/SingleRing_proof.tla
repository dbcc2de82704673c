-------------------------- MODULE SingleRing_proof --------------------------
(***************************************************************************)
(* A ring of any number of peers, whatever was added to it and removed     *)
(* from it, and whatever the digests: neighbours that agree, one cycle,    *)
(* and a change that concerns the neighbours only.                         *)
(***************************************************************************)
EXTENDS SingleRing, Ring_proof

\* The ring is a peer map at every moment: add_peer puts its Peer in the place
\* of the one with the same digest.
LEMMA RingIsPeerMap == Spec => []IsPeerMap(ring)
<1>1. Init => IsPeerMap(ring)
  BY DEF Init, IsPeerMap
<1>2. IsPeerMap(ring) /\ [Next]_ring => IsPeerMap(ring)'
  <2> SUFFICES ASSUME IsPeerMap(ring), [Next]_ring
               PROVE  IsPeerMap(ring')
    BY DEF IsPeerMap
  <2>1. ASSUME NEW p \in Node \X Kind, AddPeer(p)
        PROVE  IsPeerMap(ring')
    BY <2>1, KindAssumption, PutIsPeerMap DEF AddPeer, Peer
  <2>2. ASSUME NEW p \in Node \X Kind, RemovePeer(p)
        PROVE  IsPeerMap(ring')
    BY <2>2, KindAssumption, KeyType, EraseIsPeerMap DEF RemovePeer, Id
  <2>3. CASE UNCHANGED ring
    BY <2>3
  <2>4. QED
    BY <2>1, <2>2, <2>3 DEF Next
<1>3. QED
  BY <1>1, <1>2, PTL DEF Spec

-----------------------------------------------------------------------------
\* Whom a node relays to expects the message from it, at every moment of a
\* ring's life.
THEOREM RingInverse == Spec => []Inverse
<1>1. IsPeerMap(ring) => Inverse
  BY GetInverse DEF Inverse
<1>2. QED
  BY <1>1, RingIsPeerMap, PTL

-----------------------------------------------------------------------------
\* The successors of p in two peer maps are one Peer if each map holds both.
LEMMA SameSuccessor ==
    ASSUME NEW i \in RingIndex, NEW R, IsPeerMap(R), NEW S, IsPeerMap(S),
           NEW p \in R \cap S,
           Successor(i, S, p) \in R, Successor(i, R, p) \in S
    PROVE  Successor(i, S, p) = Successor(i, R, p)
<1> DEFINE r == Successor(i, R, p)
           s == Successor(i, S, p)
<1>1. /\ R \in SUBSET Peer /\ \A q \in R : Key(i, q) \in Nat
      /\ S \in SUBSET Peer /\ \A q \in S : Key(i, q) \in Nat
  BY KeyType, RingAssumption DEF IsPeerMap
<1>2. r \in R \cap S /\ s \in R \cap S
  BY <1>1, NeighbourInRing
<1>3. After(i, R, p) \in SUBSET Peer /\ After(i, S, p) \in SUBSET Peer
  BY <1>1 DEF After
<1>4. Key(i, r) = Key(i, s)
  <2>1. CASE After(i, R, p) # {} /\ After(i, S, p) # {}
    <3>1. r = Least(i, After(i, R, p)) /\ s = Least(i, After(i, S, p))
      BY <2>1 DEF Successor
    <3>2. /\ r \in After(i, R, p) /\ s \in After(i, S, p)
          /\ \A q \in After(i, R, p) : Key(i, r) <= Key(i, q)
          /\ \A q \in After(i, S, p) : Key(i, s) <= Key(i, q)
      BY <3>1, <2>1, <1>3, LeastIsLeast
    <3>3. r \in After(i, S, p) /\ s \in After(i, R, p)
      BY <3>2, <1>2 DEF After
    <3>4. QED
      BY <3>2, <3>3, <1>1, <1>2
  <2>2. CASE After(i, R, p) = {} /\ After(i, S, p) = {}
    <3>1. r = Least(i, R) /\ s = Least(i, S)
      BY <2>2 DEF Successor
    <3>2. /\ \A q \in R : Key(i, r) <= Key(i, q)
          /\ \A q \in S : Key(i, s) <= Key(i, q)
      BY <3>1, <1>1, LeastIsLeast
    <3>3. QED
      BY <3>2, <1>1, <1>2
  <2>3. CASE After(i, R, p) # {} /\ After(i, S, p) = {}
    <3>1. r \in After(i, R, p)
      BY <2>3, <1>3, LeastIsLeast DEF Successor
    <3>2. QED
      BY <3>1, <2>3, <1>2 DEF After
  <2>4. CASE After(i, R, p) = {} /\ After(i, S, p) # {}
    <3>1. s \in After(i, S, p)
      BY <2>4, <1>3, LeastIsLeast DEF Successor
    <3>2. QED
      BY <3>1, <2>4, <1>2 DEF After
  <2>5. QED
    BY <2>1, <2>2, <2>3, <2>4
<1>5. QED
  BY <1>2, <1>4, OnePeerPerKey

\* Only who had the leaving peer as its successor, or has the new one, gets
\* another successor (Ring::add_peer, Ring::remove_peer).
THEOREM RingOnlyNeighboursMove == Spec => OnlyNeighboursMove
<1> DEFINE Old(i, p) == GetSuccessor(i, ring, p)
           New(i, p) == GetSuccessor(i, ring', p)
           Moves(i, p) == \/ New(i, p) = Old(i, p)
                          \/ ~(New(i, p) \subseteq ring)
                          \/ ~(Old(i, p) \subseteq ring')
           A == \A i \in RingIndex : \A p \in ring \cap ring' : Moves(i, p)
<1>1. IsPeerMap(ring) /\ IsPeerMap(ring') => A
  <2> SUFFICES ASSUME IsPeerMap(ring), IsPeerMap(ring'),
                      NEW i \in RingIndex, NEW p \in ring \cap ring'
               PROVE  Moves(i, p)
    OBVIOUS
  <2>1. CASE NoNeighbour(ring, Id(p)) /\ NoNeighbour(ring', Id(p))
    BY <2>1 DEF GetSuccessor
  <2>2. CASE NoNeighbour(ring, Id(p)) /\ ~NoNeighbour(ring', Id(p))
    <3>1. ring = {p} /\ Successor(i, ring', p) # p
      BY <2>2, AloneInRing, AnotherInRing
    <3>2. QED
      BY <2>2, <3>1 DEF GetSuccessor
  <2>3. CASE ~NoNeighbour(ring, Id(p)) /\ NoNeighbour(ring', Id(p))
    <3>1. ring' = {p} /\ Successor(i, ring, p) # p
      BY <2>3, AloneInRing, AnotherInRing
    <3>2. QED
      BY <2>3, <3>1 DEF GetSuccessor
  <2>4. CASE ~NoNeighbour(ring, Id(p)) /\ ~NoNeighbour(ring', Id(p))
    BY <2>4, SameSuccessor DEF GetSuccessor
  <2>5. QED
    BY <2>1, <2>2, <2>3, <2>4
<1>2. Spec => [][A]_ring
  <2>1. Spec => [][IsPeerMap(ring) /\ IsPeerMap(ring)']_ring
    BY RingIsPeerMap, PTL DEF Spec
  <2>2. IsPeerMap(ring)' <=> IsPeerMap(ring')
    BY DEF IsPeerMap
  <2>3. QED
    BY <1>1, <2>1, <2>2, PTL
<1>3. A <=> \A i \in RingIndex : \A p \in ring \cap ring' :
              LET old == GetSuccessor(i, ring, p)
                  new == GetSuccessor(i, ring', p)
              IN  new = old \/ ~(new \subseteq ring) \/ ~(old \subseteq ring')
  OBVIOUS
<1>4. QED
  BY <1>2, <1>3, PTL DEF OnlyNeighboursMove

-----------------------------------------------------------------------------
\* Whatever joined and left, a message that is handed from successor to successor
\* leaves no peer of the ring out (Ring::get_successor).
THEOREM RingIsOneCycle == Spec => []OneCycle
<1>1. IsPeerMap(ring) => OneCycle
  <2> SUFFICES ASSUME IsPeerMap(ring), NEW i \in RingIndex,
                      NEW S \in (SUBSET ring) \ {{}},
                      \A p \in S : GetSuccessor(i, ring, p) \subseteq S
               PROVE  S = ring
    BY DEF OneCycle
  <2>1. QED
    BY GetClosedIsWhole
<1>2. QED
  BY <1>1, RingIsPeerMap, PTL
=============================================================================
