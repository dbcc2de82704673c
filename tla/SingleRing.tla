----------------------------- MODULE SingleRing -----------------------------
(***************************************************************************)
(* One ring of a group under any sequence of Ring::add_peer and            *)
(* Ring::remove_peer, kept in every order its digests may have: the ring   *)
(* of index i sorts the same Peers by RingKey[i].  A node may be added     *)
(* again as another Peer.                                                  *)
(***************************************************************************)
EXTENDS Ring

CONSTANT Kind    \* bound: the kinds of Peer that are added

ASSUME KindAssumption == Kind \subseteq PeerKind

VARIABLE ring    \* Ring::ring

AddPeer(p) == ring' = Put(ring, p)

RemovePeer(p) == ring' = EraseId(ring, Id(p))

Init == ring = {}

Next ==
    \E p \in Node \X Kind : AddPeer(p) \/ RemovePeer(p)

Spec == Init /\ [][Next]_ring

\* Who relays to me is whom I expect it from: get_predecessor undoes
\* get_successor, each names a Peer of the ring, and neither ever names the
\* node itself.
Inverse ==
    \A i \in RingIndex : \A p \in ring :
        /\ GetSuccessor(i, ring, p) \cup GetPredecessor(i, ring, p)
              \subseteq ring \ {p}
        /\ \A q \in ring :
              q \in GetSuccessor(i, ring, p) <=> p \in GetPredecessor(i, ring, q)

\* The ring is one cycle: a message that each peer sends on to its successor
\* reaches everyone.  No part of the ring keeps it to itself, be it one peer:
\* only who is alone has no successor (get_successor, for its use by broadcast).
OneCycle ==
    \A i \in RingIndex : \A S \in (SUBSET ring) \ {{}} :
        (\A p \in S : GetSuccessor(i, ring, p) \subseteq S) => S = ring

\* A peer that comes or goes only concerns its neighbours: whoever has another
\* successor afterwards has the new Peer, or had the one that is gone.
OnlyNeighboursMove ==
    [][\A i \in RingIndex : \A p \in ring \cap ring' :
          LET old == GetSuccessor(i, ring, p)
              new == GetSuccessor(i, ring', p)
          IN  new = old \/ ~(new \subseteq ring) \/ ~(old \subseteq ring')
      ]_ring
=============================================================================
