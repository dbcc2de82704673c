-------------------------------- MODULE Group -------------------------------
(***************************************************************************)
(* A group of peers organised in rings (Group.cpp).  Every operation of    *)
(* Group does the same to each of its RINGS_NB rings, which therefore hold *)
(* the same Peers in different orders: `ring` is that set of Peers.        *)
(*   members       Group::peers                                            *)
(*   ring          Group::rings                                            *)
(*   preds, succs  Group::predecessors and Group::successors               *)
(***************************************************************************)
EXTENDS Ring

Group == [members : SUBSET Peer, ring : SUBSET Peer,
          preds : SUBSET Peer, succs : SUBSET Peer]

NewGroup == [members |-> {}, ring |-> {}, preds |-> {}, succs |-> {}]

AddToRings(g, p) == [g EXCEPT !.ring = Put(@, p)]

AddGroupToRings(g, other) == [g EXCEPT !.ring = PutAll(@, other.members)]

\* Faulty: the peer is no member.
AddPeer_RingsOnly(g, p) == AddToRings(g, p)

AddPeer(g, p) ==
    [AddToRings(g, p) EXCEPT !.members = InsertNew(@, p)]

\* Faulty: the peer stays a member.
RemovePeer_RingsOnly(g, p) == [g EXCEPT !.ring = EraseId(@, Id(p))]

RemovePeer(g, p) ==
    [g EXCEPT !.ring = EraseId(@, Id(p)), !.members = EraseId(@, Id(p))]

\* What remove_peer returns: whether the peer belonged to the group
HasMember(g, p) == Id(p) \in Ids(g.members)

Predecessors(R, n) == {Predecessor(i, R, Local(n)) : i \in RingIndex}

Successors(R, n) == {Successor(i, R, Local(n)) : i \in RingIndex}

\* Both PeerMaps are rebuilt, or cleared when a ring throws.
UpdateNeighbours(g, n) ==
    IF NoNeighbour(g.ring, n)
    THEN [g EXCEPT !.preds = {}, !.succs = {}]
    ELSE [g EXCEPT !.preds = Predecessors(g.ring, n),
                   !.succs = Successors(g.ring, n)]

Neighbours(g) == g.preds \cup g.succs
=============================================================================
