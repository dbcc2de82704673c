----------------------------- MODULE Ring_proof -----------------------------
(***************************************************************************)
(* Facts about peer maps and rings of any size: the least and the greatest *)
(* digest exist, a neighbour is a peer of the ring, and another one than   *)
(* the peer it is asked for, and get_predecessor undoes get_successor.     *)
(***************************************************************************)
EXTENDS Ring, TLAPS, WellFoundedInduction

\* A nonempty set of natural numbers has a least element.
LEMMA NatMinimum ==
    ASSUME NEW S \in SUBSET Nat, S # {}
    PROVE  \E x \in S : \A y \in S : x <= y
<1>1. PICK x \in S : \A y \in S : ~(<<y, x>> \in OpToRel(<, Nat))
  BY NatLessThanWellFounded, WFMin
<1>2. \A y \in S : ~(y < x)
  BY <1>1 DEF OpToRel
<1>3. QED
  BY <1>2

\* The digest of a peer's ID (Ring::create_key) is a number of fixed width.
LEMMA KeyType ==
    ASSUME NEW i \in RingIndex, NEW p \in Peer
    PROVE  /\ Id(p) \in Node
           /\ Key(i, p) \in 0 .. MaxKey
  BY RingAssumption DEF Key, Id, Peer

\* Peers with the same digest have the same ID.
LEMMA KeyInjective ==
    ASSUME NEW i \in RingIndex, NEW p \in Peer, NEW q \in Peer,
           Key(i, p) = Key(i, q)
    PROVE  Id(p) = Id(q)
  BY RingAssumption DEF Key, Id, Peer

\* *ring.begin(): the peer with the least digest
LEMMA LeastIsLeast ==
    ASSUME NEW i \in RingIndex, NEW S \in SUBSET Peer, S # {}
    PROVE  /\ Least(i, S) \in S
           /\ \A q \in S : Key(i, Least(i, S)) <= Key(i, q)
<1> DEFINE keys == {Key(i, q) : q \in S}
<1>1. keys \in SUBSET Nat /\ keys # {}
  BY KeyType, RingAssumption
<1>2. PICK k \in keys : \A l \in keys : k <= l
  <2> HIDE DEF keys
  <2> QED BY <1>1, NatMinimum
<1>3. \E p \in S : \A q \in S : Key(i, p) <= Key(i, q)
  BY <1>2
<1>4. QED
  BY <1>3 DEF Least

\* *ring.rbegin(): the peer with the greatest digest
LEMMA GreatestIsGreatest ==
    ASSUME NEW i \in RingIndex, NEW S \in SUBSET Peer, S # {}
    PROVE  /\ Greatest(i, S) \in S
           /\ \A q \in S : Key(i, q) <= Key(i, Greatest(i, S))
<1> DEFINE gaps == {MaxKey - Key(i, q) : q \in S}
<1>1. gaps \in SUBSET Nat /\ gaps # {}
  BY KeyType, RingAssumption
<1>2. PICK k \in gaps : \A l \in gaps : k <= l
  <2> HIDE DEF gaps
  <2> QED BY <1>1, NatMinimum
<1>3. PICK p \in S : k = MaxKey - Key(i, p)
  BY <1>2
<1>4. \A q \in S : MaxKey - Key(i, p) <= MaxKey - Key(i, q)
  BY <1>2, <1>3
<1>5. \A q \in S : Key(i, q) <= Key(i, p)
  BY <1>4, KeyType, RingAssumption
<1>6. QED
  BY <1>5 DEF Greatest

-----------------------------------------------------------------------------
\* The neighbours of p in a ring of any peers are peers of that ring: the next
\* and the previous one, the first and the last where there is none.
LEMMA NeighbourInRing ==
    ASSUME NEW i \in RingIndex, NEW R \in SUBSET Peer, R # {}, NEW p \in Peer
    PROVE  Successor(i, R, p) \in R /\ Predecessor(i, R, p) \in R
<1>1. After(i, R, p) \in SUBSET R /\ Before(i, R, p) \in SUBSET R
  BY DEF After, Before
<1>2. Successor(i, R, p) \in R
  BY <1>1, LeastIsLeast DEF Successor
<1>3. Predecessor(i, R, p) \in R
  BY <1>1, GreatestIsGreatest DEF Predecessor
<1>4. QED
  BY <1>2, <1>3

\* Nobody is its own neighbour in a ring that holds another peer: the condition
\* under which get_successor and get_predecessor do not throw.
LEMMA NeighbourIsAnother ==
    ASSUME NEW i \in RingIndex, NEW R \in SUBSET Peer, NEW n \in Node,
           ~NoNeighbour(R, n), NEW p \in Peer, Id(p) = n
    PROVE  Id(Successor(i, R, p)) # n /\ Id(Predecessor(i, R, p)) # n
<1>1. PICK q \in R : Id(q) # n
  BY DEF NoNeighbour, Ids
<1>2. /\ \A r \in Peer : Key(i, r) \in Nat
      /\ \A r \in Peer : Id(r) = n => Key(i, r) = Key(i, p)
      /\ Key(i, q) # Key(i, p)
  BY <1>1, KeyType, KeyInjective, RingAssumption DEF Key
<1>3. Id(Successor(i, R, p)) # n
  <2>1. CASE After(i, R, p) # {}
    <3>1. Successor(i, R, p) \in After(i, R, p)
      BY <2>1, LeastIsLeast DEF Successor, After
    <3>2. Key(i, Successor(i, R, p)) > Key(i, p) /\ Successor(i, R, p) \in Peer
      BY <3>1 DEF After
    <3>3. QED
      BY <3>2, <1>2
  <2>2. CASE After(i, R, p) = {}
    <3>1. Key(i, q) < Key(i, p)
      BY <2>2, <1>1, <1>2 DEF After
    <3>2. Successor(i, R, p) = Least(i, R)
      BY <2>2 DEF Successor
    <3>3. /\ Successor(i, R, p) \in R
          /\ Key(i, Successor(i, R, p)) <= Key(i, q)
      BY <3>2, <1>1, LeastIsLeast
    <3>4. QED
      BY <3>1, <3>3, <1>1, <1>2
  <2>3. QED
    BY <2>1, <2>2
<1>4. Id(Predecessor(i, R, p)) # n
  <2>1. CASE Before(i, R, p) # {}
    <3>1. Predecessor(i, R, p) \in Before(i, R, p)
      BY <2>1, GreatestIsGreatest DEF Predecessor, Before
    <3>2. /\ Key(i, Predecessor(i, R, p)) < Key(i, p)
          /\ Predecessor(i, R, p) \in Peer
      BY <3>1 DEF Before
    <3>3. QED
      BY <3>2, <1>2
  <2>2. CASE Before(i, R, p) = {}
    <3>1. Key(i, q) > Key(i, p)
      BY <2>2, <1>1, <1>2 DEF Before
    <3>2. Predecessor(i, R, p) = Greatest(i, R)
      BY <2>2 DEF Predecessor
    <3>3. /\ Predecessor(i, R, p) \in R
          /\ Key(i, q) <= Key(i, Predecessor(i, R, p))
      BY <3>2, <1>1, GreatestIsGreatest
    <3>4. QED
      BY <3>1, <3>3, <1>1, <1>2
  <2>3. QED
    BY <2>1, <2>2
<1>5. QED
  BY <1>3, <1>4

\* In a peer map a digest belongs to one Peer.
LEMMA OnePeerPerKey ==
    ASSUME NEW i \in RingIndex, NEW R, IsPeerMap(R), NEW p \in R, NEW q \in R,
           Key(i, p) = Key(i, q)
    PROVE  p = q
  BY KeyInjective DEF IsPeerMap

\* What ring[key] = p makes of a peer map, and ring.erase
LEMMA PutIsPeerMap ==
    ASSUME NEW R, IsPeerMap(R), NEW p \in Peer
    PROVE  /\ IsPeerMap(Put(R, p))
           /\ Ids(Put(R, p)) = Ids(R) \cup {Id(p)}
  BY DEF IsPeerMap, Put, Ids

LEMMA EraseIsPeerMap ==
    ASSUME NEW R, IsPeerMap(R), NEW n \in Node
    PROVE  /\ IsPeerMap(EraseId(R, n))
           /\ Ids(EraseId(R, n)) = Ids(R) \ {n}
  BY DEF IsPeerMap, EraseId, Ids

\* In any peer map, the predecessor of the successor is the peer itself
\* (Ring::get_successor, Ring::get_predecessor).
LEMMA PredecessorOfSuccessor ==
    ASSUME NEW i \in RingIndex, NEW R, IsPeerMap(R), NEW p \in R
    PROVE  Predecessor(i, R, Successor(i, R, p)) = p
<1> DEFINE s == Successor(i, R, p)
           r == Predecessor(i, R, s)
<1>1. R \in SUBSET Peer /\ R # {} /\ \A q \in R : Key(i, q) \in Nat
  BY KeyType, RingAssumption DEF IsPeerMap
<1>2. s \in R /\ r \in R
  BY <1>1, NeighbourInRing
<1>3. Key(i, r) = Key(i, p)
  <2>1. CASE After(i, R, p) # {}
    <3>1. /\ After(i, R, p) \in SUBSET Peer
          /\ s = Least(i, After(i, R, p))
      BY <2>1, <1>1 DEF Successor, After
    <3>2. /\ s \in After(i, R, p)
          /\ \A q \in After(i, R, p) : Key(i, s) <= Key(i, q)
      BY <3>1, <2>1, LeastIsLeast
    <3>3. p \in Before(i, R, s) /\ Before(i, R, s) \in SUBSET Peer
      BY <3>2, <1>1, <1>2 DEF After, Before
    <3>4. r = Greatest(i, Before(i, R, s))
      BY <3>3 DEF Predecessor
    <3>5. r \in Before(i, R, s) /\ Key(i, p) <= Key(i, r)
      BY <3>3, <3>4, GreatestIsGreatest
    <3>6. ~(Key(i, r) > Key(i, p))
      BY <3>2, <3>5, <1>1, <1>2 DEF After, Before
    <3>7. QED
      BY <3>5, <3>6, <1>1, <1>2
  <2>2. CASE After(i, R, p) = {}
    <3>1. s = Least(i, R)
      BY <2>2 DEF Successor
    <3>2. \A q \in R : Key(i, s) <= Key(i, q)
      BY <3>1, <1>1, LeastIsLeast
    <3>3. Before(i, R, s) = {}
      BY <3>2, <1>1, <1>2 DEF Before
    <3>4. r = Greatest(i, R)
      BY <3>3 DEF Predecessor
    <3>5. Key(i, p) <= Key(i, r)
      BY <3>4, <1>1, GreatestIsGreatest
    <3>6. QED
      BY <3>5, <2>2, <1>1, <1>2 DEF After
  <2>3. QED
    BY <2>1, <2>2
<1>4. QED
  BY <1>2, <1>3, OnePeerPerKey

\* ... and the successor of the predecessor.
LEMMA SuccessorOfPredecessor ==
    ASSUME NEW i \in RingIndex, NEW R, IsPeerMap(R), NEW p \in R
    PROVE  Successor(i, R, Predecessor(i, R, p)) = p
<1> DEFINE s == Predecessor(i, R, p)
           r == Successor(i, R, s)
<1>1. R \in SUBSET Peer /\ R # {} /\ \A q \in R : Key(i, q) \in Nat
  BY KeyType, RingAssumption DEF IsPeerMap
<1>2. s \in R /\ r \in R
  BY <1>1, NeighbourInRing
<1>3. Key(i, r) = Key(i, p)
  <2>1. CASE Before(i, R, p) # {}
    <3>1. /\ Before(i, R, p) \in SUBSET Peer
          /\ s = Greatest(i, Before(i, R, p))
      BY <2>1, <1>1 DEF Predecessor, Before
    <3>2. /\ s \in Before(i, R, p)
          /\ \A q \in Before(i, R, p) : Key(i, q) <= Key(i, s)
      BY <3>1, <2>1, GreatestIsGreatest
    <3>3. p \in After(i, R, s) /\ After(i, R, s) \in SUBSET Peer
      BY <3>2, <1>1, <1>2 DEF After, Before
    <3>4. r = Least(i, After(i, R, s))
      BY <3>3 DEF Successor
    <3>5. r \in After(i, R, s) /\ Key(i, r) <= Key(i, p)
      BY <3>3, <3>4, LeastIsLeast
    <3>6. ~(Key(i, r) < Key(i, p))
      BY <3>2, <3>5, <1>1, <1>2 DEF After, Before
    <3>7. QED
      BY <3>5, <3>6, <1>1, <1>2
  <2>2. CASE Before(i, R, p) = {}
    <3>1. s = Greatest(i, R)
      BY <2>2 DEF Predecessor
    <3>2. \A q \in R : Key(i, q) <= Key(i, s)
      BY <3>1, <1>1, GreatestIsGreatest
    <3>3. After(i, R, s) = {}
      BY <3>2, <1>1, <1>2 DEF After
    <3>4. r = Least(i, R)
      BY <3>3 DEF Successor
    <3>5. Key(i, r) <= Key(i, p)
      BY <3>4, <1>1, LeastIsLeast
    <3>6. QED
      BY <3>5, <2>2, <1>1, <1>2 DEF Before
  <2>3. QED
    BY <2>1, <2>2
<1>4. QED
  BY <1>2, <1>3, OnePeerPerKey

\* No part of a ring is closed: whoever sends on to its successor, the whole ring
\* gets to know.
LEMMA ClosedIsWhole ==
    ASSUME NEW i \in RingIndex, NEW R, IsPeerMap(R), NEW S \in SUBSET R, S # {},
           \A p \in S : Successor(i, R, p) \in S
    PROVE  S = R
<1> SUFFICES ASSUME S # R
             PROVE  FALSE
  OBVIOUS
<1> DEFINE rest == R \ S
           u == Greatest(i, S)
           z == Least(i, rest)
           r == Predecessor(i, R, z)
<1>1. R \in SUBSET Peer /\ \A p \in R : Key(i, p) \in Nat
  BY KeyType, RingAssumption DEF IsPeerMap
<1>2. /\ u \in S /\ \A q \in S : Key(i, q) <= Key(i, u)
      /\ z \in rest /\ \A q \in rest : Key(i, z) <= Key(i, q)
  BY <1>1, GreatestIsGreatest, LeastIsLeast
<1> HIDE DEF u, z
\* The last peer of the ring is in S, and so is the first, its successor.
<1>3. After(i, R, u) = {}
  <2> SUFFICES ASSUME After(i, R, u) # {}
               PROVE  FALSE
    OBVIOUS
  <2>1. Successor(i, R, u) \in After(i, R, u)
    <3>1. After(i, R, u) \in SUBSET Peer
      BY <1>1 DEF After
    <3>2. QED
      BY <3>1, LeastIsLeast DEF Successor
  <2>2. Key(i, Successor(i, R, u)) > Key(i, u)
    BY <2>1 DEF After
  <2>3. QED
    BY <1>1, <1>2, <2>2
<1>4. Least(i, R) \in S /\ \A q \in R : Key(i, Least(i, R)) <= Key(i, q)
  BY <1>1, <1>2, <1>3, LeastIsLeast DEF Successor
\* So the first peer that is not in S has a predecessor in S.
<1>5. Key(i, r) < Key(i, z) /\ r \in R
  <2>1. Key(i, Least(i, R)) # Key(i, z)
    BY <1>2, <1>4, OnePeerPerKey
  <2>2. Least(i, R) \in Before(i, R, z)
    BY <1>1, <1>2, <1>4, <2>1 DEF Before
  <2>3. Before(i, R, z) \in SUBSET Peer
    BY <1>1 DEF Before
  <2>4. r \in Before(i, R, z)
    BY <2>2, <2>3, GreatestIsGreatest DEF Predecessor
  <2>5. QED
    BY <2>4 DEF Before
<1>6. r \in S
  BY <1>1, <1>2, <1>5
<1>7. Successor(i, R, r) = z
  BY <1>2, SuccessorOfPredecessor
<1>8. QED
  BY <1>2, <1>6, <1>7

\* get_successor and get_predecessor throw for a Peer of the ring only if there is
\* no other one.
LEMMA AloneInRing ==
    ASSUME NEW R, IsPeerMap(R), NEW p \in R
    PROVE  NoNeighbour(R, Id(p)) <=> R = {p}
  BY DEF NoNeighbour, IsPeerMap, Ids

\* Where they do not, they name another Peer of the ring.
LEMMA AnotherInRing ==
    ASSUME NEW i \in RingIndex, NEW R, IsPeerMap(R), NEW p \in R,
           ~NoNeighbour(R, Id(p))
    PROVE  /\ Successor(i, R, p) \in R \ {p}
           /\ Predecessor(i, R, p) \in R \ {p}
<1>1. R \in SUBSET Peer /\ p \in Peer /\ Id(p) \in Node /\ R # {}
  BY KeyType DEF IsPeerMap
<1>2. QED
  BY <1>1, NeighbourInRing, NeighbourIsAnother

\* get_predecessor undoes get_successor, and neither names the peer itself.
LEMMA GetInverse ==
    ASSUME NEW i \in RingIndex, NEW R, IsPeerMap(R), NEW p \in R
    PROVE  /\ GetSuccessor(i, R, p) \cup GetPredecessor(i, R, p) \subseteq R \ {p}
           /\ \A q \in R :
                 q \in GetSuccessor(i, R, p) <=> p \in GetPredecessor(i, R, q)
<1>1. GetSuccessor(i, R, p) \cup GetPredecessor(i, R, p) \subseteq R \ {p}
  BY AnotherInRing DEF GetSuccessor, GetPredecessor
<1>2. ASSUME NEW q \in R
      PROVE  q \in GetSuccessor(i, R, p) <=> p \in GetPredecessor(i, R, q)
  <2>1. NoNeighbour(R, Id(p)) <=> NoNeighbour(R, Id(q))
    BY AloneInRing
  <2>2. q = Successor(i, R, p) <=> p = Predecessor(i, R, q)
    BY PredecessorOfSuccessor, SuccessorOfPredecessor
  <2>3. QED
    BY <2>1, <2>2 DEF GetSuccessor, GetPredecessor
<1>3. QED
  BY <1>1, <1>2

\* No part of a ring but the whole is closed under get_successor, be it one peer.
LEMMA GetClosedIsWhole ==
    ASSUME NEW i \in RingIndex, NEW R, IsPeerMap(R), NEW S \in SUBSET R, S # {},
           \A p \in S : GetSuccessor(i, R, p) \subseteq S
    PROVE  S = R
<1>1. CASE \E p \in S : NoNeighbour(R, Id(p))
  BY <1>1, AloneInRing
<1>2. CASE \A p \in S : ~NoNeighbour(R, Id(p))
  <2>1. \A p \in S : Successor(i, R, p) \in S
    BY <1>2 DEF GetSuccessor
  <2>2. QED
    BY <2>1, ClosedIsWhole
<1>3. QED
  BY <1>1, <1>2

-----------------------------------------------------------------------------
\* Which peers follow and precede one depends on the IDs in the ring only, not
\* on the connection each Peer wraps: the digest is that of the ID.
LEMMA LeastOfIds ==
    ASSUME NEW i \in RingIndex, NEW R \in SUBSET Peer, NEW S \in SUBSET Peer,
           R # {}, Ids(R) = Ids(S)
    PROVE  /\ Id(Least(i, R)) = Id(Least(i, S))
           /\ Id(Greatest(i, R)) = Id(Greatest(i, S))
<1>1. S # {}
  BY DEF Ids
<1>2. \A p \in R : \E q \in S : Id(q) = Id(p) /\ Key(i, q) = Key(i, p)
  BY DEF Ids, Key
<1>3. \A q \in S : \E p \in R : Id(q) = Id(p) /\ Key(i, q) = Key(i, p)
  BY DEF Ids, Key
<1>4. \A p \in Peer : Key(i, p) \in Nat
  BY KeyType, RingAssumption
<1>5. Id(Least(i, R)) = Id(Least(i, S))
  <2>1. PICK r \in R : r = Least(i, R) /\ \A q \in R : Key(i, r) <= Key(i, q)
    BY LeastIsLeast
  <2>2. PICK s \in S : s = Least(i, S) /\ \A q \in S : Key(i, s) <= Key(i, q)
    BY <1>1, LeastIsLeast
  <2>3. PICK q \in R : Id(q) = Id(s) /\ Key(i, q) = Key(i, s)
    BY <1>3
  <2>4. PICK t \in S : Id(t) = Id(r) /\ Key(i, t) = Key(i, r)
    BY <1>2
  <2>5. Key(i, r) <= Key(i, s) /\ Key(i, s) <= Key(i, r)
    BY <2>1, <2>2, <2>3, <2>4
  <2>6. QED
    BY <1>4, <2>1, <2>2, <2>5, KeyInjective
<1>6. Id(Greatest(i, R)) = Id(Greatest(i, S))
  <2>1. PICK r \in R : r = Greatest(i, R) /\ \A q \in R : Key(i, q) <= Key(i, r)
    BY GreatestIsGreatest
  <2>2. PICK s \in S : s = Greatest(i, S) /\ \A q \in S : Key(i, q) <= Key(i, s)
    BY <1>1, GreatestIsGreatest
  <2>3. PICK q \in R : Id(q) = Id(s) /\ Key(i, q) = Key(i, s)
    BY <1>3
  <2>4. PICK t \in S : Id(t) = Id(r) /\ Key(i, t) = Key(i, r)
    BY <1>2
  <2>5. Key(i, s) <= Key(i, r) /\ Key(i, r) <= Key(i, s)
    BY <2>1, <2>2, <2>3, <2>4
  <2>6. QED
    BY <1>4, <2>1, <2>2, <2>5, KeyInjective
<1>7. QED
  BY <1>5, <1>6

LEMMA NeighboursOfIds ==
    ASSUME NEW i \in RingIndex, NEW R \in SUBSET Peer, NEW S \in SUBSET Peer,
           R # {}, Ids(R) = Ids(S), NEW p \in Peer, NEW q \in Peer, Id(p) = Id(q)
    PROVE  /\ Id(Successor(i, R, p)) = Id(Successor(i, S, q))
           /\ Id(Predecessor(i, R, p)) = Id(Predecessor(i, S, q))
<1>1. Key(i, p) = Key(i, q)
  BY DEF Key
<1>2. After(i, R, p) \in SUBSET Peer /\ After(i, S, q) \in SUBSET Peer
  BY DEF After
<1>3. Before(i, R, p) \in SUBSET Peer /\ Before(i, S, q) \in SUBSET Peer
  BY DEF Before
<1>4. Ids(After(i, R, p)) = Ids(After(i, S, q))
  <2>1. Ids(After(i, R, p)) = {n \in Ids(R) : RingKey[i][n] > Key(i, p)}
    BY DEF After, Ids, Key
  <2>2. Ids(After(i, S, q)) = {n \in Ids(S) : RingKey[i][n] > Key(i, q)}
    BY DEF After, Ids, Key
  <2>3. QED
    BY <1>1, <2>1, <2>2
<1>5. Ids(Before(i, R, p)) = Ids(Before(i, S, q))
  <2>1. Ids(Before(i, R, p)) = {n \in Ids(R) : RingKey[i][n] < Key(i, p)}
    BY DEF Before, Ids, Key
  <2>2. Ids(Before(i, S, q)) = {n \in Ids(S) : RingKey[i][n] < Key(i, q)}
    BY DEF Before, Ids, Key
  <2>3. QED
    BY <1>1, <2>1, <2>2
<1>6. Id(Successor(i, R, p)) = Id(Successor(i, S, q))
  <2>1. CASE After(i, R, p) # {}
    <3>1. After(i, S, q) # {}
      BY <1>4, <2>1 DEF Ids
    <3>2. QED
      BY <1>2, <1>4, <2>1, <3>1, LeastOfIds DEF Successor
  <2>2. CASE After(i, R, p) = {}
    <3>1. After(i, S, q) = {}
      BY <1>4, <2>2 DEF Ids
    <3>2. QED
      BY <2>2, <3>1, LeastOfIds DEF Successor
  <2>3. QED
    BY <2>1, <2>2
<1>7. Id(Predecessor(i, R, p)) = Id(Predecessor(i, S, q))
  <2>1. CASE Before(i, R, p) # {}
    <3>1. Before(i, S, q) # {}
      BY <1>5, <2>1 DEF Ids
    <3>2. QED
      BY <1>3, <1>5, <2>1, <3>1, LeastOfIds DEF Predecessor
  <2>2. CASE Before(i, R, p) = {}
    <3>1. Before(i, S, q) = {}
      BY <1>5, <2>2 DEF Ids
    <3>2. QED
      BY <2>2, <3>1, LeastOfIds DEF Predecessor
  <2>3. QED
    BY <2>1, <2>2
<1>8. QED
  BY <1>6, <1>7

\* The peers of T, each as its own node holds it
Canon(T) == {Local(n) : n \in T}

LEMMA CanonIsPeerMap ==
    ASSUME NEW T \in SUBSET Node
    PROVE  /\ IsPeerMap(Canon(T)) /\ Ids(Canon(T)) = T
           /\ \A n \in Node : Local(n) \in Peer /\ Id(Local(n)) = n
<1>1. \A n \in Node : Local(n) \in Peer /\ Id(Local(n)) = n
  BY DEF Local, Peer, PeerKind, Id
<1>2. IsPeerMap(Canon(T))
  BY <1>1 DEF IsPeerMap, Canon
<1>3. Ids(Canon(T)) = T
  BY <1>1 DEF Ids, Canon
<1>4. QED
  BY <1>1, <1>2, <1>3

\* One's successor in a ring has one for its predecessor in any ring of the same
\* nodes.
LEMMA SuccessorIsMutual ==
    ASSUME NEW i \in RingIndex, NEW R \in SUBSET Peer, NEW S \in SUBSET Peer,
           Ids(R) = Ids(S), NEW m \in Ids(R), NEW n \in Ids(R)
    PROVE  Id(Successor(i, R, Local(n))) = m <=> Id(Predecessor(i, S, Local(m))) = n
<1>1. PICK T \in SUBSET Node : T = Ids(R)
  <2>1. \A p \in R : Id(p) \in Node
    BY KeyType, RingAssumption
  <2>2. Ids(R) \subseteq Node
    BY <2>1 DEF Ids
  <2>3. QED
    BY <2>2
<1>2. PICK C \in SUBSET Peer : C = Canon(T) /\ IsPeerMap(C) /\ Ids(C) = T
  BY CanonIsPeerMap DEF IsPeerMap
<1>3. /\ Local(m) \in Peer /\ Id(Local(m)) = m /\ Local(m) \in C
      /\ Local(n) \in Peer /\ Id(Local(n)) = n /\ Local(n) \in C
  BY <1>1, <1>2, CanonIsPeerMap DEF Canon
<1>4. /\ Id(Successor(i, R, Local(n))) = Id(Successor(i, C, Local(n)))
      /\ Id(Predecessor(i, S, Local(m))) = Id(Predecessor(i, C, Local(m)))
  <2>1. R # {} /\ S # {}
    BY DEF Ids
  <2>2. QED
    BY <1>1, <1>2, <1>3, <2>1, NeighboursOfIds
<1>5. Successor(i, C, Local(n)) \in C /\ Predecessor(i, C, Local(m)) \in C
  BY <1>3, NeighbourInRing
<1>6. \A p \in C : p = Local(Id(p))
  BY <1>1, <1>2, CanonIsPeerMap DEF Canon
<1>7. Id(Successor(i, C, Local(n))) = m => Predecessor(i, C, Local(m)) = Local(n)
  BY <1>2, <1>3, <1>5, <1>6, PredecessorOfSuccessor
<1>8. Id(Predecessor(i, C, Local(m))) = n => Successor(i, C, Local(n)) = Local(m)
  BY <1>2, <1>3, <1>5, <1>6, SuccessorOfPredecessor
<1>9. QED
  BY <1>3, <1>4, <1>7, <1>8

\* Where each node of S passes on to its successor in the ring of T, S is T.
LEMMA ClosedIdsAreWhole ==
    ASSUME NEW i \in RingIndex, NEW T \in SUBSET Node, NEW S \in SUBSET T, S # {},
           \A n \in S : Id(Successor(i, Canon(T), Local(n))) \in S
    PROVE  S = T
<1>1. PICK R, C : R = Canon(T) /\ C = Canon(S)
  OBVIOUS
<1>2. /\ IsPeerMap(R) /\ C \in SUBSET R /\ C # {} /\ Ids(R) = T /\ Ids(C) = S
      /\ R \in SUBSET Peer /\ \A p \in R : p = Local(Id(p))
  <2>1. IsPeerMap(R) /\ Ids(R) = T /\ Ids(C) = S
    BY <1>1, CanonIsPeerMap
  <2>2. C \in SUBSET R /\ C # {}
    BY <1>1 DEF Canon
  <2>3. \A p \in R : p = Local(Id(p))
    BY <1>1, CanonIsPeerMap DEF Canon
  <2>4. QED
    BY <2>1, <2>2, <2>3 DEF IsPeerMap
<1>3. ASSUME NEW p \in C
      PROVE  Successor(i, R, p) \in C
  <2>1. PICK n \in S : p = Local(n) /\ p \in Peer
    BY <1>1, CanonIsPeerMap DEF Canon
  <2>2. PICK s \in R : s = Successor(i, R, p)
    BY <1>2, <2>1, NeighbourInRing
  <2>3. Id(s) \in S /\ s = Local(Id(s))
    BY <1>1, <1>2, <2>1, <2>2
  <2>4. QED
    BY <1>1, <2>2, <2>3 DEF Canon
<1>4. C = R
  BY <1>2, <1>3, ClosedIsWhole
<1>5. QED
  BY <1>2, <1>4
=============================================================================
