---------------------------- MODULE Network_proof ---------------------------
(***************************************************************************)
(* Safety of the system of module Network for any nodes, entry points,     *)
(* addresses, digests and bounds: type correctness and the bookkeeping of  *)
(* each node.                                                              *)
(***************************************************************************)
EXTENDS Network, Ring_proof, FiniteSetTheorems

-----------------------------------------------------------------------------
(* What the operations of a group preserve: its type, and that the         *)
(* neighbours are other peers of its rings                                 *)

\* Each operation of Group makes a group of a group.
LEMMA GroupOperationsType ==
    ASSUME NEW g \in Group, NEW p \in Peer, NEW h \in Group, NEW n \in Node
    PROVE  /\ NewGroup \in Group
           /\ AddToRings(g, p) \in Group
           /\ AddGroupToRings(g, h) \in Group
           /\ AddPeer(g, p) \in Group
           /\ RemovePeer(g, p) \in Group
           /\ UpdateNeighbours(g, n) \in Group
<1>1. Local(n) \in Peer
  BY DEF Local, Peer, PeerKind
<1>2. NewGroup \in Group
  BY DEF NewGroup, Group
<1>3. AddToRings(g, p) \in Group /\ AddPeer(g, p) \in Group
  BY DEF AddToRings, AddPeer, Group, Put, InsertNew
<1>4. AddGroupToRings(g, h) \in Group
  BY DEF AddGroupToRings, Group, PutAll
<1>5. RemovePeer(g, p) \in Group
  BY DEF RemovePeer, Group, EraseId
<1>6. UpdateNeighbours(g, n) \in Group
  <2>1. CASE NoNeighbour(g.ring, n)
    BY <2>1 DEF UpdateNeighbours, Group
  <2>2. CASE ~NoNeighbour(g.ring, n)
    <3>1. g.ring \in SUBSET Peer /\ g.ring # {}
      BY <2>2 DEF Group, NoNeighbour, Ids
    <3>2. /\ Predecessors(g.ring, n) \in SUBSET Peer
          /\ Successors(g.ring, n) \in SUBSET Peer
      BY <3>1, <1>1, NeighbourInRing DEF Predecessors, Successors
    <3>3. QED
      BY <2>2, <3>2 DEF UpdateNeighbours, Group
  <2>3. QED
    BY <2>1, <2>2
<1>7. QED
  BY <1>2, <1>3, <1>4, <1>5, <1>6

\* The neighbours of node n in the group are peers of its rings, and not n.
Sound(g, n) == Ids(Neighbours(g)) \subseteq Ids(g.ring) \ {n}

\* update_neighbours finds them whatever they were before.
LEMMA UpdateNeighboursSound ==
    ASSUME NEW g \in Group, NEW n \in Node
    PROVE  Sound(UpdateNeighbours(g, n), n)
<1>1. Local(n) \in Peer /\ Id(Local(n)) = n
  BY DEF Local, Peer, PeerKind, Id
<1>2. CASE NoNeighbour(g.ring, n)
  BY <1>2 DEF UpdateNeighbours, Group, Sound, Neighbours, Ids
<1>3. CASE ~NoNeighbour(g.ring, n)
  <2>1. g.ring \in SUBSET Peer /\ g.ring # {}
    BY <1>3 DEF Group, NoNeighbour, Ids
  <2>2. \A i \in RingIndex :
           /\ Predecessor(i, g.ring, Local(n)) \in g.ring
           /\ Successor(i, g.ring, Local(n)) \in g.ring
           /\ Id(Predecessor(i, g.ring, Local(n))) # n
           /\ Id(Successor(i, g.ring, Local(n))) # n
    BY <1>1, <1>3, <2>1, NeighbourInRing, NeighbourIsAnother
  <2>3. /\ UpdateNeighbours(g, n).ring = g.ring
        /\ Neighbours(UpdateNeighbours(g, n)) =
              Predecessors(g.ring, n) \cup Successors(g.ring, n)
    BY <1>3 DEF UpdateNeighbours, Group, Neighbours
  <2>4. QED
    BY <2>2, <2>3 DEF Sound, Predecessors, Successors, Ids
<1>4. QED
  BY <1>2, <1>3

\* A group without neighbours, and one whose rings grow, need no update for
\* that.
LEMMA GrowingKeepsSound ==
    ASSUME NEW g \in Group, NEW n \in Node, Sound(g, n), NEW p \in Peer
    PROVE  /\ Sound(NewGroup, n)
           /\ Sound(AddToRings(g, p), n)
           /\ Sound(AddPeer(g, p), n)
<1>1. Sound(NewGroup, n)
  BY DEF Sound, NewGroup, Neighbours, Ids
<1>2. Ids(Put(g.ring, p)) = Ids(g.ring) \cup {Id(p)}
  BY DEF Ids, Put
<1>3. /\ AddToRings(g, p).ring = Put(g.ring, p)
      /\ AddPeer(g, p).ring = Put(g.ring, p)
      /\ Neighbours(AddToRings(g, p)) = Neighbours(g)
      /\ Neighbours(AddPeer(g, p)) = Neighbours(g)
  BY DEF AddToRings, AddPeer, Neighbours, Group
<1>4. QED
  BY <1>1, <1>2, <1>3 DEF Sound

\* Every peer of the rings is a member, apart from node n itself.
Covered(g, n) == Ids(g.ring) \subseteq Ids(g.members) \cup {n}

\* So it stays, whichever operation the group goes through.
LEMMA OperationsKeepCovered ==
    ASSUME NEW g \in Group, NEW n \in Node, Covered(g, n), NEW p \in Peer
    PROVE  /\ Covered(NewGroup, n)
           /\ Covered(AddToRings(g, Local(n)), n)
           /\ Covered(AddPeer(g, p), n)
           /\ Covered(RemovePeer(g, p), n)
           /\ Covered(UpdateNeighbours(g, n), n)
<1>1. Covered(NewGroup, n)
  BY DEF Covered, NewGroup, Ids
<1>2. \A q \in Peer : Ids(Put(g.ring, q)) = Ids(g.ring) \cup {Id(q)}
  BY DEF Ids, Put
<1>3. Covered(AddToRings(g, Local(n)), n)
  <2>1. Local(n) \in Peer /\ Id(Local(n)) = n
    BY DEF Local, Peer, PeerKind, Id
  <2>2. /\ AddToRings(g, Local(n)).ring = Put(g.ring, Local(n))
        /\ AddToRings(g, Local(n)).members = g.members
    BY DEF AddToRings, Group
  <2>3. QED
    BY <1>2, <2>1, <2>2 DEF Covered
<1>4. Covered(AddPeer(g, p), n)
  <2>1. /\ AddPeer(g, p).ring = Put(g.ring, p)
        /\ AddPeer(g, p).members = InsertNew(g.members, p)
    BY DEF AddPeer, AddToRings, Group
  <2>2. Ids(InsertNew(g.members, p)) = Ids(g.members) \cup {Id(p)}
    BY DEF Ids, InsertNew
  <2>3. QED
    BY <1>2, <2>1, <2>2 DEF Covered
<1>5. Covered(RemovePeer(g, p), n)
  <2>1. /\ RemovePeer(g, p).ring = EraseId(g.ring, Id(p))
        /\ RemovePeer(g, p).members = EraseId(g.members, Id(p))
    BY DEF RemovePeer, Group
  <2>2. /\ Ids(EraseId(g.ring, Id(p))) = Ids(g.ring) \ {Id(p)}
        /\ Ids(EraseId(g.members, Id(p))) = Ids(g.members) \ {Id(p)}
    BY DEF Ids, EraseId
  <2>3. QED
    BY <2>1, <2>2 DEF Covered
<1>6. Covered(UpdateNeighbours(g, n), n)
  <2>1. /\ UpdateNeighbours(g, n).ring = g.ring
        /\ UpdateNeighbours(g, n).members = g.members
    BY DEF UpdateNeighbours, Group
  <2>2. QED
    BY <2>1 DEF Covered
<1>7. QED
  BY <1>1, <1>3, <1>4, <1>5, <1>6

\* To remove a peer that is no member leaves the neighbours in the rings.
LEMMA OutsiderIsNoNeighbour ==
    ASSUME NEW g \in Group, NEW n \in Node, Covered(g, n), Sound(g, n),
           NEW p \in Peer, ~HasMember(g, p)
    PROVE  Sound(RemovePeer(g, p), n)
<1>1. /\ RemovePeer(g, p).ring = EraseId(g.ring, Id(p))
      /\ Neighbours(RemovePeer(g, p)) = Neighbours(g)
  BY DEF RemovePeer, Neighbours, Group
<1>2. Ids(EraseId(g.ring, Id(p))) = Ids(g.ring) \ {Id(p)}
  BY DEF Ids, EraseId
<1>3. Ids(g.ring) \ {n} \subseteq Ids(g.ring) \ {Id(p), n}
  BY DEF Covered, HasMember
<1>4. QED
  BY <1>1, <1>2, <1>3 DEF Sound

-----------------------------------------------------------------------------
(* Types                                                                   *)

Inboxes == [Node -> [Peer -> Seq(Message)]]

\* Peer::send appends a message to what the other ends have to read.
LEMMA DeliverType ==
    ASSUME NEW box \in Inboxes, NEW n \in Node, NEW M, NEW m \in Message
    PROVE  Deliver(box, n, M, m) \in Inboxes
  BY DEF Deliver, Inboxes

\* What is read is a message, and the rest of the stream is left.
LEMMA ReadType ==
    ASSUME TypeOK, NEW n \in Node, NEW p \in Peer, inbox[n][p] # <<>>
    PROVE  /\ Head(inbox[n][p]) \in Message
           /\ Consume(n, p) \in Inboxes
<1>1. inbox[n][p] \in Seq(Message)
  BY DEF TypeOK
<1>2. Head(inbox[n][p]) \in Message /\ Tail(inbox[n][p]) \in Seq(Message)
  BY <1>1
<1>3. QED
  BY <1>2 DEF Consume, Inboxes, TypeOK

\* Reading two messages at once leaves a stream of messages that were there.
LEMMA JoinedType ==
    ASSUME NEW S, NEW ms \in Seq(S), Len(ms) >= 2
    PROVE  /\ JoinedWithNext(ms) \in Seq(S)
           /\ Range(JoinedWithNext(ms)) \subseteq Range(ms)
<1> DEFINE mid == Tail(ms)
           rest == Tail(mid)
<1>1. /\ mid \in Seq(S) /\ Len(mid) = Len(ms) - 1
      /\ \A i \in 1 .. Len(mid) : mid[i] = ms[i + 1]
  OBVIOUS
<1>2. <<Head(ms)>> \in Seq(S) /\ Len(<<Head(ms)>>) = 1 /\ Head(ms) = ms[1]
  OBVIOUS
<1> HIDE DEF mid
<1>3. /\ rest \in Seq(S) /\ Len(rest) = Len(ms) - 2
      /\ \A i \in 1 .. Len(rest) : rest[i] = mid[i + 1]
  BY <1>1
<1> HIDE DEF rest
<1>4. \A i \in 1 .. Len(rest) : rest[i] = ms[i + 2]
  BY <1>1, <1>3
<1> DEFINE joined == <<Head(ms)>> \o rest
<1>5. /\ joined \in Seq(S)
      /\ Len(joined) = 1 + Len(rest)
      /\ joined[1] = ms[1]
      /\ \A i \in 1 .. Len(rest) : joined[i + 1] = rest[i]
  BY <1>2, <1>3
<1> HIDE DEF joined
<1>6. \A i \in 1 .. Len(joined) : \E j \in 1 .. Len(ms) : joined[i] = ms[j]
  <2> SUFFICES ASSUME NEW i \in 1 .. Len(joined)
               PROVE  \E j \in 1 .. Len(ms) : joined[i] = ms[j]
    OBVIOUS
  <2>0. Len(ms) \in Nat /\ Len(rest) \in Nat
    BY <1>3
  <2>1. CASE i = 1
    BY <1>5, <2>0, <2>1
  <2>2. CASE i # 1
    <3>1. i - 1 \in 1 .. Len(rest) /\ i + 1 \in 1 .. Len(ms)
      BY <1>3, <1>5, <2>0, <2>2
    <3>2. joined[(i - 1) + 1] = rest[i - 1] /\ rest[i - 1] = ms[(i - 1) + 2]
      BY <1>4, <1>5, <3>1
    <3>3. (i - 1) + 1 = i /\ (i - 1) + 2 = i + 1
      BY <3>1
    <3>4. QED
      BY <3>1, <3>2, <3>3
  <2>3. QED
    BY <2>1, <2>2
<1>7. JoinedWithNext(ms) = joined
  BY DEF JoinedWithNext, joined, rest, mid
<1>8. DOMAIN ms = 1 .. Len(ms) /\ DOMAIN joined = 1 .. Len(joined)
  BY <1>5
<1>9. QED
  BY <1>5, <1>6, <1>7, <1>8 DEF Range

\* The fields of the messages with a group (JoinNotifMessage, DataMessage,
\* JoinAckMessage)
LEMMA MessageFields ==
    ASSUME NEW m \in Message
    PROVE  /\ m.type \in {"JOIN_NOTIF", "DATA"} =>
                 m \in BCastMessage /\ m.group \in GroupId
           /\ m.type = "JOIN_NOTIF" =>
                 m.peer \in Node /\ m.port \in Node \cup {NoNode}
           /\ m.type = "JOIN_ACK" => m.group \in GroupId
  BY DEF Message, BCastMessage, JoinMsg, ReadyMsg, ReadyNotifMsg, Text, Eof, Rst

\* The messages the code makes
LEMMA MessageTypes ==
    ASSUME NEW g \in GroupId, NEW n \in Node
    PROVE  /\ \A m \in Node, port \in Node \cup {NoNode} :
                 NotifMsg(g, n, m, port) \in BCastMessage \cap Message
           /\ \A k \in Nat \ {0} : DataMsg(g, n, k) \in BCastMessage \cap Message
           /\ AckMsg(g) \in Message
           /\ {JoinMsg, ReadyMsg, ReadyNotifMsg, Text, Eof, Rst} \subseteq Message
  BY DEF NotifMsg, DataMsg, AckMsg, Message, BCastMessage

\* Addresses are those of nodes, and entries of new_peers are well-formed.
LEMMA EntryType ==
    ASSUME NEW p \in Peer, NEW port \in Node \cup {NoNode}
    PROVE  /\ AddrOfPeer(p) \in Addr
           /\ NoEntry \in NewPeerEntry
           /\ [peer |-> p, port |-> port] \in NewPeerEntry
           /\ Id(p) \in Node
  BY DEF AddrOfPeer, Addr, Id, Peer, NoEntry, NewPeerEntry

-----------------------------------------------------------------------------
\* The log of a node is finite, so that the messages it has sent can be counted.
LogsFinite == \A n \in Node : IsFiniteSet(logs[n])

\* What the broadcast command has yet to log is one message of the node itself.
OutgoingAt(n) ==
    \/ outgoing[n] = {}
    \/ /\ ui[n] = "log"
       /\ \E m \in BCastMessage :
             outgoing[n] = {m} /\ m.type = "DATA" /\ m.from = n

OutgoingKept == \A n \in Node : OutgoingAt(n)

\* Each local group is one of the node's groups and has its marker, and a node
\* without a local group has nothing that would need one.
KeptAt(n) ==
    /\ localGroup[n] # NoGroup => localGroup[n] \in groupIds[n] \cap markers[n]
    /\ localGroup[n] = NoGroup =>
          /\ groupIds[n] = {} /\ peers[n] = {} /\ Waiting(n) = {}
          /\ state[n] # "CONNECTED"

LocalGroupKept == \A n \in Node : KeptAt(n)

\* The inductive invariant of type correctness: a message carries the ID of the
\* local group, which must not be null where it is made.
IInv == TypeOK /\ LogsFinite /\ OutgoingKept /\ LocalGroupKept

LogsType == logs \in [Node -> SUBSET BCastMessage] /\ LogsFinite

\* Logging one more message keeps the logs finite.
LEMMA LogOne ==
    ASSUME IInv, NEW n \in Node, NEW m \in BCastMessage,
           logs' = [logs EXCEPT ![n] = @ \cup {m}]
    PROVE  LogsType'
<1>1. IsFiniteSet(logs[n] \cup {m})
  BY FS_AddElement DEF IInv, LogsFinite
<1>2. QED
  BY <1>1 DEF IInv, LogsFinite, LogsType, TypeOK

LEMMA OutgoingFinite ==
    ASSUME IInv, NEW n \in Node
    PROVE  IsFiniteSet(outgoing[n])
<1>1. \A m : IsFiniteSet({m})
  BY FS_Singleton
<1>2. IsFiniteSet({})
  BY FS_EmptySet
<1>3. outgoing[n] = {} \/ \E m : outgoing[n] = {m}
  BY DEF IInv, OutgoingKept, OutgoingAt
<1>4. QED
  BY <1>1, <1>2, <1>3

\* The messages a node has broadcast can be counted.
LEMMA SentDataFinite ==
    ASSUME IInv, NEW n \in Node
    PROVE  IsFiniteSet(SentData(n)) /\ Cardinality(SentData(n)) \in Nat
<1>1. IsFiniteSet(logs[n] \cup outgoing[n])
  BY OutgoingFinite, FS_Union DEF IInv, LogsFinite
<1>2. SentData(n) \subseteq logs[n] \cup outgoing[n]
  BY DEF SentData
<1>3. IsFiniteSet(SentData(n))
  BY <1>1, <1>2, FS_Subset
<1>4. QED
  BY <1>3, FS_CardinalityType

\* The sockets of a process that ends are closed.
LEMMA ExitType ==
    ASSUME IInv, NEW n \in Node, NEW how \in {"crashed", "quit"}, Exit(n, how)
    PROVE  TypeOK' /\ LogsFinite'
<1>1. {Eof, Rst} \subseteq Message
  BY DEF Message
<1>2. inbox' \in Inboxes
  BY <1>1 DEF Exit, Inboxes, IInv, TypeOK
<1>3. QED
  BY <1>2 DEF Exit, IInv, TypeOK, Inboxes, LogsFinite, joinVars, viewVars,
              groupVars

\* acknowledge_join changes peers, the group, the timers and what is sent.
LEMMA AcknowledgeJoinType ==
    ASSUME IInv, NEW n \in Node, NEW p \in Peer, NEW gid \in GroupId,
           NEW gs \in [GroupId -> Group], NEW box \in Inboxes,
           NEW written \in SUBSET Peer, NEW timers \in SUBSET Peer,
           AcknowledgeJoin(n, p, gid, gs, box, written, timers)
    PROVE  /\ peers' \in [Node -> SUBSET Peer]
           /\ groups' \in [Node -> [GroupId -> Group]]
           /\ inbox' \in Inboxes
           /\ reset' \in [Node -> SUBSET Peer]
           /\ joinTimers' \in [Node -> SUBSET Peer]
<1> DEFINE g == UpdateNeighbours(AddPeer(gs[gid], p), n)
<1>1. g \in Group
  BY GroupOperationsType
<1>2. inbox' \in Inboxes
  BY MessageTypes, DeliverType DEF AcknowledgeJoin, AckMsg, Message
<1>3. groups' \in [Node -> [GroupId -> Group]]
  <2> HIDE DEF g
  <2> QED BY <1>1 DEF AcknowledgeJoin, IInv, TypeOK, g
<1>4. /\ peers' \in [Node -> SUBSET Peer]
      /\ joinTimers' \in [Node -> SUBSET Peer]
  BY DEF AcknowledgeJoin, IInv, TypeOK, Put
<1>5. reset' \in [Node -> SUBSET Peer]
  BY DEF AcknowledgeJoin, IInv, TypeOK, Bounced
<1>6. QED
  BY <1>2, <1>3, <1>4, <1>5

\* answer_join_request logs the JOIN Notification too, and sets the timer.
LEMMA AnswerJoinRequestType ==
    ASSUME IInv, NEW n \in Node, NEW p \in Peer,
           NEW port \in Node \cup {NoNode}, NEW gid \in GroupId,
           NEW gs \in [GroupId -> Group], NEW box \in Inboxes,
           NEW timers \in SUBSET Peer,
           AnswerJoinRequest(n, p, port, gid, gs, box, timers)
    PROVE  /\ peers' \in [Node -> SUBSET Peer]
           /\ groups' \in [Node -> [GroupId -> Group]]
           /\ inbox' \in Inboxes
           /\ reset' \in [Node -> SUBSET Peer]
           /\ joinTimers' \in [Node -> SUBSET Peer]
           /\ joinToken' \in [Node -> BOOLEAN]
           /\ newPeers' \in [Node -> [Addr -> NewPeerEntry]]
           /\ readyTimers' \in [Node -> SUBSET Peer]
           /\ LogsType'
<1> DEFINE notif == NotifMsg(gid, n, Id(p), port)
           succs == gs[gid].succs
           after == Deliver(box, n, succs, notif)
<1>1. notif \in BCastMessage /\ notif \in Message
  <2>1. Id(p) \in Node
    BY DEF Id, Peer
  <2>2. QED
    BY <2>1, MessageTypes
<1>2. after \in Inboxes
  <2> HIDE DEF notif
  <2> QED BY <1>1, DeliverType
<1>3. succs \in SUBSET Peer
  BY DEF Group
<1>4. AcknowledgeJoin(n, p, gid, gs, after, succs, timers)
  BY DEF AnswerJoinRequest
<1>5. /\ peers' \in [Node -> SUBSET Peer]
      /\ groups' \in [Node -> [GroupId -> Group]]
      /\ inbox' \in Inboxes
      /\ reset' \in [Node -> SUBSET Peer]
      /\ joinTimers' \in [Node -> SUBSET Peer]
  <2> HIDE DEF after, succs
  <2> QED BY <1>2, <1>3, <1>4, AcknowledgeJoinType
<1>6. logs' = [logs EXCEPT ![n] = @ \cup {notif}]
  BY DEF AnswerJoinRequest
<1>7. LogsType'
  <2> HIDE DEF notif
  <2> QED BY <1>1, <1>6, LogOne
<1>8. /\ joinToken' \in [Node -> BOOLEAN]
      /\ newPeers' \in [Node -> [Addr -> NewPeerEntry]]
      /\ readyTimers' \in [Node -> SUBSET Peer]
  BY EntryType DEF AnswerJoinRequest, IInv, TypeOK, Put
<1>9. QED
  BY <1>5, <1>7, <1>8

\* Whoever check_for_new_peers finds is a Peer with its port, and there is a
\* local group to answer it with.
LEMMA PendingType ==
    ASSUME IInv, NEW n \in Node, NEW states, NEW a \in Pending(n, states),
           ~DereferencesNull(n, states)
    PROVE  /\ newPeers[n][a].peer \in Peer
           /\ newPeers[n][a].port \in Node \cup {NoNode}
           /\ localGroup[n] \in GroupId
<1>1. a \in Addr /\ newPeers[n][a].peer # NoPeer
  BY DEF Pending
<1>2. newPeers[n][a] \in NewPeerEntry
  BY <1>1 DEF IInv, TypeOK
<1>3. localGroup[n] \in GroupId
  BY DEF DereferencesNull, IInv, TypeOK
<1>4. QED
  BY <1>1, <1>2, <1>3 DEF NewPeerEntry

\* check_for_new_peers hands the token on or releases it.
LEMMA CheckForNewPeersType ==
    ASSUME IInv, NEW n \in Node, NEW states, NEW box \in Inboxes,
           NEW timers \in SUBSET Peer, CheckForNewPeers(n, states, box, timers)
    PROVE  /\ peers' \in [Node -> SUBSET Peer]
           /\ groups' \in [Node -> [GroupId -> Group]]
           /\ inbox' \in Inboxes
           /\ reset' \in [Node -> SUBSET Peer]
           /\ joinTimers' \in [Node -> SUBSET Peer]
           /\ joinToken' \in [Node -> BOOLEAN]
           /\ newPeers' \in [Node -> [Addr -> NewPeerEntry]]
           /\ readyTimers' \in [Node -> SUBSET Peer]
           /\ LogsType'
<1>1. CASE Pending(n, states) # {} /\ ~DereferencesNull(n, states)
  <2>1. PICK a \in Pending(n, states) :
           AnswerJoinRequest(n, newPeers[n][a].peer, newPeers[n][a].port,
                             localGroup[n], groups[n], box, timers)
    BY <1>1 DEF CheckForNewPeers
  <2>2. groups[n] \in [GroupId -> Group]
    BY DEF IInv, TypeOK
  <2>3. QED
    BY <1>1, <2>1, <2>2, PendingType, AnswerJoinRequestType
<1>2. CASE /\ joinToken' = [joinToken EXCEPT ![n] = TRUE]
           /\ inbox' = box
           /\ joinTimers' = [joinTimers EXCEPT ![n] = timers]
           /\ UNCHANGED <<newPeers, logs, peers, groups, reset, readyTimers>>
  BY <1>2 DEF IInv, TypeOK, LogsType, LogsFinite
<1>3. QED
  BY <1>1, <1>2 DEF CheckForNewPeers

-----------------------------------------------------------------------------
\* The commands of the main thread keep the types.
LEMMA UITypeOK ==
    ASSUME IInv, NEW n \in Node
    PROVE  /\ \A m \in JoinTo[n] : UIJoinConnect(n, m) => TypeOK' /\ LogsFinite'
           /\ UIBroadcastCheck(n) => TypeOK' /\ LogsFinite'
           /\ UIStep(n) => TypeOK' /\ LogsFinite'
           /\ UISend(n) => TypeOK' /\ LogsFinite'
           /\ Quit(n) => TypeOK' /\ LogsFinite'
<1> USE DEF joinVars, viewVars, groupVars, netVars, procVars
<1>1. ASSUME NEW m \in JoinTo[n], UIJoinConnect(n, m)
      PROVE  TypeOK' /\ LogsFinite'
  <2>1. m \in Node
    BY NetworkAssumption
  <2>2. <<m, "entry">> \in Peer /\ <<n, "joiner">> \in Peer
    BY <2>1 DEF Peer, PeerKind
  <2>3. /\ ui' = [ui EXCEPT ![n] = "join"]
        /\ entry' = [entry EXCEPT ![n] = m]
        /\ conns' = [conns EXCEPT ![n] = @ \cup {<<m, "entry">>}]
        /\ backlog' = [backlog EXCEPT ![m] = @ \cup {<<n, "joiner">>}]
        /\ UNCHANGED <<status, outgoing, state, joinVars, viewVars, groupVars, logs,
                       reset, inbox>>
    BY <1>1 DEF UIJoinConnect
  <2>4. /\ ui' \in [Node -> {"idle", "join", "joining", "broadcast", "log"}]
        /\ entry' \in [Node -> Node]
    BY <2>1, <2>3 DEF IInv, TypeOK
  <2>5. conns' \in [Node -> SUBSET Peer]
    BY <2>2, <2>3 DEF IInv, TypeOK
  <2>6. backlog' \in [Node -> SUBSET Peer]
    BY <2>1, <2>2, <2>3 DEF IInv, TypeOK
  <2>7. QED
    BY <2>3, <2>4, <2>5, <2>6 DEF IInv, TypeOK, LogsFinite
<1>2. ASSUME UIBroadcastCheck(n) \/ UIJoinMark(n)
      PROVE  TypeOK' /\ LogsFinite'
  BY <1>2 DEF UIBroadcastCheck, UIJoinMark, IInv, TypeOK, LogsFinite, PeerState
<1>3. ASSUME UIJoinSend(n)
      PROVE  TypeOK' /\ LogsFinite'
  <2> DEFINE p == <<entry[n], "entry">>
  <2>1. p \in Peer
    BY DEF Peer, PeerKind, IInv, TypeOK
  <2>2. /\ [peer |-> p, port |-> NoNode] \in NewPeerEntry
        /\ AddrOfPeer(p) \in Addr
    BY <2>1, EntryType
  <2>3. inbox' \in Inboxes
    BY <1>3, DeliverType DEF UIJoinSend, IInv, TypeOK, Inboxes, Message
  <2>4. reset' \in [Node -> SUBSET Peer]
    BY <1>3, <2>1 DEF UIJoinSend, IInv, TypeOK, Bounced
  <2>5. QED
    BY <1>3, <2>1, <2>2, <2>3, <2>4
       DEF UIJoinSend, IInv, TypeOK, LogsFinite, Inboxes, PeerState
<1>4. ASSUME UIBroadcast(n)
      PROVE  TypeOK' /\ LogsFinite'
  <2> DEFINE data == DataMsg(localGroup[n], n, Cardinality(SentData(n)) + 1)
             succs == groups[n][localGroup[n]].succs
  <2>1. localGroup[n] \in GroupId
    BY <1>4 DEF UIBroadcast, IInv, TypeOK
  <2>2. Cardinality(SentData(n)) \in Nat
    BY SentDataFinite
  <2>3. data \in BCastMessage /\ data \in Message
    BY <2>1, <2>2, MessageTypes
  <2>4. /\ succs \in SUBSET Peer
        /\ outgoing' = [outgoing EXCEPT ![n] = {data}]
        /\ inbox' = Deliver(inbox, n, succs, data)
        /\ reset' = [reset EXCEPT ![n] = @ \cup Bounced(succs)]
    BY <1>4, <2>1 DEF UIBroadcast, IInv, TypeOK, Group
  <2> HIDE DEF data, succs
  <2>5. outgoing' \in [Node -> SUBSET BCastMessage] /\ inbox' \in Inboxes
    BY <2>3, <2>4, DeliverType DEF IInv, TypeOK, Inboxes
  <2>6. reset' \in [Node -> SUBSET Peer]
    BY <2>4 DEF IInv, TypeOK, Bounced
  <2>7. QED
    BY <1>4, <2>5, <2>6
       DEF UIBroadcast, IInv, TypeOK, LogsFinite, Inboxes
<1>5. ASSUME UIBroadcastCrash(n) \/ Quit(n)
      PROVE  TypeOK' /\ LogsFinite'
  BY <1>5, ExitType DEF UIBroadcastCrash, Quit, Crash
<1>6. ASSUME UIJoinThrows(n)
      PROVE  TypeOK' /\ LogsFinite'
  <2> DEFINE p == <<entry[n], "entry">>
  <2>1. [inbox EXCEPT ![n][p] = <<>>] \in Inboxes
    <3>1. <<>> \in Seq(Message)
      OBVIOUS
    <3>2. inbox \in Inboxes
      BY DEF IInv, TypeOK, Inboxes
    <3> HIDE DEF p
    <3>3. QED
      BY <3>1, <3>2 DEF Inboxes
  <2>2. conns' \in [Node -> SUBSET Peer] /\ inbox' \in Inboxes
    BY <1>6, <2>1 DEF UIJoinThrows, IInv, TypeOK
  <2>3. QED
    BY <1>6, <2>2 DEF UIJoinThrows, IInv, TypeOK, LogsFinite, Inboxes, PeerState
<1>7. ASSUME UISend(n)
      PROVE  TypeOK' /\ LogsFinite'
  <2>1. inbox' = Deliver(inbox, n, peers[n], Text)
    BY <1>7 DEF UISend
  <2>2. inbox' \in Inboxes
    BY <2>1, DeliverType DEF IInv, TypeOK, Inboxes, Message
  <2>3. reset' \in [Node -> SUBSET Peer]
    BY <1>7 DEF UISend, IInv, TypeOK, Bounced
  <2>4. QED
    BY <1>7, <2>2, <2>3 DEF UISend, IInv, TypeOK, LogsFinite, Inboxes
<1>8. ASSUME UIBroadcastLog(n)
      PROVE  TypeOK' /\ LogsFinite'
  <2>1. /\ logs' = [logs EXCEPT ![n] = @ \cup outgoing[n]]
        /\ outgoing' = [outgoing EXCEPT ![n] = {}]
        /\ ui' = [ui EXCEPT ![n] = "idle"]
    BY <1>8 DEF UIBroadcastLog
  <2>2. /\ logs' \in [Node -> SUBSET BCastMessage]
        /\ outgoing' \in [Node -> SUBSET BCastMessage]
        /\ ui' \in [Node -> {"idle", "join", "joining", "broadcast", "log"}]
    BY <2>1 DEF IInv, TypeOK
  <2>3. IsFiniteSet(logs[n] \cup outgoing[n])
    BY OutgoingFinite, FS_Union DEF IInv, LogsFinite
  <2>4. LogsFinite'
    BY <2>1, <2>3 DEF IInv, TypeOK, LogsFinite
  <2>5. QED
    BY <1>8, <2>2, <2>4 DEF UIBroadcastLog, IInv, TypeOK
<1>9. QED
  BY <1>1, <1>2, <1>3, <1>4, <1>5, <1>6, <1>7, <1>8 DEF UIStep

\* The JOIN handler, which may found a group first, keeps the types.
LEMMA HandleJoinTypeOK ==
    ASSUME IInv, NEW n \in Node, NEW p \in Peer, HandleJoin(n, p)
    PROVE  TypeOK' /\ LogsFinite'
<1> DEFINE gs == IF state[n] = "CONNECTED" THEN groups[n]
                 ELSE [groups[n] EXCEPT ![localGroup'[n]] =
                          AddToRings(NewGroup, Local(n))]
<1>1. Consume(n, p) \in Inboxes
  BY ReadType DEF HandleJoin, Reads, IInv
<1>2. /\ state' \in [Node -> PeerState]
      /\ localGroup' \in [Node -> GroupId \cup {NoGroup}]
      /\ groupIds' \in [Node -> SUBSET GroupId]
      /\ markers' \in [Node -> SUBSET GroupId]
      /\ localGroup'[n] \in GroupId
  <2>1. CASE state[n] = "CONNECTED"
    <3>1. localGroup[n] \in GroupId
      BY <2>1 DEF IInv, TypeOK, LocalGroupKept, KeptAt
    <3>2. QED
      BY <2>1, <3>1 DEF HandleJoin, IInv, TypeOK
  <2>2. CASE state[n] # "CONNECTED"
    <3> DEFINE gid == NewGroupId(n)
    <3>1. /\ gid \in GroupId
          /\ state' = [state EXCEPT ![n] = "CONNECTED"]
          /\ localGroup' = [localGroup EXCEPT ![n] = gid]
          /\ groupIds' = [groupIds EXCEPT ![n] = @ \cup {gid}]
          /\ markers' = [markers EXCEPT ![n] = @ \cup {gid}]
      BY <2>2 DEF HandleJoin, FoundGroup, MapMarker
    <3> HIDE DEF gid
    <3>2. QED
      BY <3>1 DEF IInv, TypeOK, PeerState
  <2>3. QED
    BY <2>1, <2>2
<1>3. gs \in [GroupId -> Group]
  <2>1. AddToRings(NewGroup, Local(n)) \in Group
    <3>1. Local(n) \in Peer
      BY DEF Local, Peer, PeerKind
    <3>2. NewGroup \in Group
      BY DEF NewGroup, Group
    <3>3. QED
      BY <3>1, <3>2, GroupOperationsType
  <2>2. QED
    BY <2>1 DEF IInv, TypeOK
<1>4. peerState' \in [Node -> [Peer -> PeerState]]
  BY DEF HandleJoin, Identified, IInv, TypeOK, PeerState
<1>5. Id(p) \in Node \cup {NoNode}
  BY DEF Id, Peer
<1>6. /\ peers' \in [Node -> SUBSET Peer]
      /\ groups' \in [Node -> [GroupId -> Group]]
      /\ inbox' \in Inboxes
      /\ reset' \in [Node -> SUBSET Peer]
      /\ joinTimers' \in [Node -> SUBSET Peer]
      /\ joinToken' \in [Node -> BOOLEAN]
      /\ newPeers' \in [Node -> [Addr -> NewPeerEntry]]
      /\ readyTimers' \in [Node -> SUBSET Peer]
      /\ LogsType'
  <2> HIDE DEF gs
  <2>1. CASE /\ joinToken[n]
             /\ AnswerJoinRequest(n, p, Id(p), localGroup'[n], gs,
                                  Consume(n, p), joinTimers[n])
    <3>1. joinTimers[n] \in SUBSET Peer
      BY DEF IInv, TypeOK
    <3>2. QED
      BY <2>1, <3>1, <1>1, <1>2, <1>3, <1>5, AnswerJoinRequestType
  <2>2. CASE /\ newPeers' = [newPeers EXCEPT ![n][AddrOfPeer(p)].port = Id(p)]
             /\ groups' = [groups EXCEPT ![n] = gs]
             /\ inbox' = Consume(n, p)
             /\ UNCHANGED <<joinToken, readyTimers, joinTimers, peers, logs,
                            reset>>
    <3>1. AddrOfPeer(p) \in Addr
      BY EntryType
    <3>2. newPeers' \in [Node -> [Addr -> NewPeerEntry]]
      <4> DEFINE e == [newPeers[n][AddrOfPeer(p)] EXCEPT !.port = Id(p)]
      <4>1. newPeers[n][AddrOfPeer(p)] \in NewPeerEntry
        BY <3>1 DEF IInv, TypeOK
      <4>2. e \in NewPeerEntry
        BY <4>1, <1>5 DEF NewPeerEntry
      <4>3. newPeers' = [newPeers EXCEPT ![n][AddrOfPeer(p)] = e]
        BY <2>2
      <4> HIDE DEF e
      <4>4. QED
        BY <4>2, <4>3 DEF IInv, TypeOK
    <3>3. QED
      BY <2>2, <3>2, <1>1, <1>3 DEF IInv, TypeOK, LogsType, LogsFinite
  <2>3. QED
    BY <2>1, <2>2 DEF HandleJoin, gs
<1>7. QED
  BY <1>2, <1>4, <1>6
     DEF HandleJoin, IInv, TypeOK, Inboxes, LogsType, procVars

\* To log and to forward a message keeps the types.
LEMMA ForwardType ==
    ASSUME IInv, NEW n \in Node, NEW p \in Peer,
           Reads(n, p, "JOIN_NOTIF") \/ Reads(n, p, "DATA")
    PROVE  LET m == Head(inbox[n][p])
           IN  /\ m \in BCastMessage /\ m.group \in GroupId
               /\ Relays(n, m) \in SUBSET Peer
               /\ Deliver(Consume(n, p), n, Relays(n, m), m) \in Inboxes
               /\ LogForwarded(n, m) => LogsType'
<1> DEFINE m == Head(inbox[n][p])
<1>1. m \in Message /\ Consume(n, p) \in Inboxes
  BY ReadType DEF Reads, IInv
<1>2. m \in BCastMessage /\ m.group \in GroupId
  BY <1>1, MessageFields DEF Reads
<1>3. Relays(n, m) \in SUBSET Peer
  BY <1>2 DEF Relays, IInv, TypeOK, Group
<1>4. Deliver(Consume(n, p), n, Relays(n, m), m) \in Inboxes
  <2> HIDE DEF m
  <2> QED BY <1>1, DeliverType
<1>5. ASSUME LogForwarded(n, m)
      PROVE  LogsType'
  <2>1. CASE m.group \in markers[n]
    <3>1. logs' = [logs EXCEPT ![n] = @ \cup {m}]
      BY <1>5, <2>1 DEF LogForwarded
    <3> HIDE DEF m
    <3>2. QED
      BY <3>1, <1>2, LogOne
  <2>2. CASE m.group \notin markers[n]
    BY <1>5, <2>2 DEF LogForwarded, IInv, TypeOK, LogsType, LogsFinite
  <2>3. QED
    BY <2>1, <2>2
<1>6. QED
  BY <1>2, <1>3, <1>4, <1>5

\* The handlers of broadcast messages keep the types.
LEMMA BroadcastHandlersTypeOK ==
    ASSUME IInv, NEW n \in Node, NEW p \in Peer
    PROVE  /\ HandleDuplicate(n, p) => TypeOK' /\ LogsFinite'
           /\ HandleMisrouted(n, p) => TypeOK' /\ LogsFinite'
           /\ HandleData(n, p) => TypeOK' /\ LogsFinite'
           /\ HandleForeignNotif(n, p) => TypeOK' /\ LogsFinite'
           /\ HandleNotifRefused(n, p) => TypeOK' /\ LogsFinite'
           /\ HandleJoinNotif(n, p) => TypeOK' /\ LogsFinite'
<1> USE DEF joinVars, viewVars, groupVars, netVars, procVars
<1> DEFINE m == Head(inbox[n][p])
           q == <<m.peer, "called">>
<1>1. ASSUME HandleDuplicate(n, p)
      PROVE  TypeOK' /\ LogsFinite'
  <2>1. Consume(n, p) \in Inboxes
    BY <1>1, ReadType DEF HandleDuplicate, Reads, IInv
  <2>2. QED
    BY <1>1, <2>1 DEF HandleDuplicate, IInv, TypeOK, LogsFinite, Inboxes
<1>2. ASSUME HandleMisrouted(n, p)
      PROVE  TypeOK' /\ LogsFinite'
  BY <1>2, ExitType DEF HandleMisrouted, Crash
<1>3. ASSUME HandleData(n, p)
      PROVE  TypeOK' /\ LogsFinite'
  <2>1. inbox' \in Inboxes /\ LogsType' /\ Relays(n, m) \in SUBSET Peer
    BY <1>3, ForwardType DEF HandleData
  <2>2. reset' \in [Node -> SUBSET Peer]
    BY <1>3, <2>1 DEF HandleData, IInv, TypeOK, Bounced
  <2>3. QED
    BY <1>3, <2>1, <2>2
       DEF HandleData, IInv, TypeOK, LogsFinite, LogsType, Inboxes
<1>4. ASSUME HandleForeignNotif(n, p)
      PROVE  TypeOK' /\ LogsFinite'
  <2>1. inbox' \in Inboxes /\ LogsType' /\ Relays(n, m) \in SUBSET Peer
    BY <1>4, ForwardType DEF HandleForeignNotif, ReadsNotif
  <2>2. reset' \in [Node -> SUBSET Peer]
    BY <1>4, <2>1 DEF HandleForeignNotif, IInv, TypeOK, Bounced
  <2>3. QED
    BY <1>4, <2>1, <2>2
       DEF HandleForeignNotif, IInv, TypeOK, LogsFinite, LogsType, Inboxes
<1>5. ASSUME HandleNotifRefused(n, p)
      PROVE  TypeOK' /\ LogsFinite'
  <2>1. inbox' \in Inboxes /\ LogsType' /\ Relays(n, m) \in SUBSET Peer
    BY <1>5, ForwardType DEF HandleNotifRefused, ReadsNotif
  <2>2. reset' \in [Node -> SUBSET Peer]
    BY <1>5, <2>1 DEF HandleNotifRefused, IInv, TypeOK, Bounced
  <2>3. QED
    BY <1>5, <2>1, <2>2
       DEF HandleNotifRefused, IInv, TypeOK, LogsFinite, LogsType, Inboxes
<1>6. ASSUME HandleJoinNotif(n, p)
      PROVE  TypeOK' /\ LogsFinite'
  <2>1. /\ Reads(n, p, "JOIN_NOTIF") /\ LogForwarded(n, m)
        /\ m.port = m.peer /\ Up(m.port)
    BY <1>6 DEF HandleJoinNotif, ReadsNotif
  <2>2. m \in Message /\ m.type = "JOIN_NOTIF"
    BY <2>1, ReadType DEF Reads, IInv
  <2>3. /\ m.peer \in Node /\ m.group \in GroupId
        /\ q \in Peer /\ <<n, "caller">> \in Peer
    BY <2>2, MessageFields DEF Peer, PeerKind
  <2>4. /\ Deliver(Consume(n, p), n, Relays(n, m), m) \in Inboxes /\ LogsType'
        /\ Relays(n, m) \in SUBSET Peer
    BY <2>1, ForwardType
  <2>5. AcknowledgeJoin(n, q, m.group, groups[n],
                        Deliver(Consume(n, p), n, Relays(n, m), m),
                        Relays(n, m), joinTimers[n])
    BY <1>6 DEF HandleJoinNotif
  <2>6. groups[n] \in [GroupId -> Group] /\ joinTimers[n] \in SUBSET Peer
    BY DEF IInv, TypeOK
  <2>7. /\ peers' \in [Node -> SUBSET Peer]
        /\ groups' \in [Node -> [GroupId -> Group]]
        /\ inbox' \in Inboxes
        /\ reset' \in [Node -> SUBSET Peer]
        /\ joinTimers' \in [Node -> SUBSET Peer]
    <3> HIDE DEF m, q
    <3> QED BY <2>3, <2>4, <2>5, <2>6, AcknowledgeJoinType
  <2>8. /\ joinToken' = [joinToken EXCEPT ![n] = FALSE]
        /\ conns' = [conns EXCEPT ![n] = @ \cup {q}]
        /\ backlog' = [backlog EXCEPT ![m.port] = @ \cup {<<n, "caller">>}]
        /\ peerState' = [peerState EXCEPT ![n][q] = "JOINING"]
        /\ UNCHANGED <<procVars, state, newPeers, readyTimers, localGroup,
                       groupIds, markers>>
    BY <1>6 DEF HandleJoinNotif, Identified
  <2> HIDE DEF m, q
  <2>9. conns' \in [Node -> SUBSET Peer]
    BY <2>3, <2>8 DEF IInv, TypeOK
  <2>10. backlog' \in [Node -> SUBSET Peer]
    BY <2>1, <2>3, <2>8 DEF IInv, TypeOK, m
  <2>11. peerState' \in [Node -> [Peer -> PeerState]]
    BY <2>3, <2>8 DEF IInv, TypeOK, PeerState
  <2>12. joinToken' \in [Node -> BOOLEAN]
    BY <2>8 DEF IInv, TypeOK
  <2>13. QED
    BY <2>4, <2>7, <2>8, <2>9, <2>10, <2>11, <2>12
       DEF IInv, TypeOK, LogsType, Inboxes
<1>7. QED
  BY <1>1, <1>2, <1>3, <1>4, <1>5, <1>6

\* The handlers of JOIN Acknowledgements and of READY keep the types.
LEMMA EntryHandlersTypeOK ==
    ASSUME IInv, NEW n \in Node, NEW p \in Peer
    PROVE  /\ HandleJoinAck(n, p) => TypeOK' /\ LogsFinite'
           /\ HandleReady(n, p) => TypeOK' /\ LogsFinite'
<1> USE DEF joinVars, viewVars, groupVars, netVars, procVars
<1>1. ASSUME HandleJoinAck(n, p)
      PROVE  TypeOK' /\ LogsFinite'
  <2> DEFINE h == Head(inbox[n][p]).group
             first == h \notin groupIds[n] /\ localGroup[n] = NoGroup
             g == CASE h \in groupIds[n] -> groups[n][h]
                    [] first -> NewGroup
                    [] OTHER -> AddGroupToRings(NewGroup,
                                                groups[n][localGroup[n]])
  <2>1. /\ Head(inbox[n][p]) \in Message /\ Head(inbox[n][p]).type = "JOIN_ACK"
        /\ Consume(n, p) \in Inboxes
    BY <1>1, ReadType DEF HandleJoinAck, Reads, IInv
  <2>2. h \in GroupId
    BY <2>1, MessageFields
  <2>3. g \in Group
    <3>1. NewGroup \in Group
      BY DEF NewGroup, Group
    <3>2. ASSUME localGroup[n] # NoGroup
          PROVE  AddGroupToRings(NewGroup, groups[n][localGroup[n]]) \in Group
      <4>1. groups[n][localGroup[n]] \in Group
        BY <3>2 DEF IInv, TypeOK
      <4>2. QED
        BY <3>1, <4>1 DEF AddGroupToRings, Group, PutAll
    <3>3. groups[n][h] \in Group
      BY <2>2 DEF IInv, TypeOK
    <3>4. QED
      BY <3>1, <3>2, <3>3
  <2>4. AddPeer(g, p) \in Group
    <3> HIDE DEF g
    <3> QED BY <2>3, GroupOperationsType
  <2>5. /\ localGroup' \in [Node -> GroupId \cup {NoGroup}]
        /\ markers' \in [Node -> SUBSET GroupId]
    <3>1. \/ /\ localGroup' = [localGroup EXCEPT ![n] = h]
             /\ markers' = [markers EXCEPT ![n] = @ \cup {h}]
          \/ UNCHANGED <<localGroup, markers>>
      BY <1>1 DEF HandleJoinAck, MapMarker
    <3> HIDE DEF h, first, g
    <3>2. CASE UNCHANGED <<localGroup, markers>>
      BY <3>2 DEF IInv, TypeOK
    <3>3. CASE /\ localGroup' = [localGroup EXCEPT ![n] = h]
               /\ markers' = [markers EXCEPT ![n] = @ \cup {h}]
      BY <2>2, <3>3 DEF IInv, TypeOK
    <3>4. QED
      BY <3>1, <3>2, <3>3
  <2>6. /\ groupIds' = [groupIds EXCEPT ![n] = @ \cup {h}]
        /\ groups' = [groups EXCEPT ![n][h] = AddPeer(g, p)]
        /\ peerState' = [peerState EXCEPT ![n][p] = "CONNECTED"]
        /\ newPeers' = [newPeers EXCEPT ![n][AddrOfPeer(p)] = NoEntry]
        /\ peers' = [peers EXCEPT ![n] = Put(@, p)]
        /\ inbox' = Consume(n, p)
        /\ UNCHANGED <<procVars, state, joinToken, readyTimers, joinTimers,
                       logs, conns, backlog, reset>>
    BY <1>1 DEF HandleJoinAck, Identified
  <2>7. NoEntry \in NewPeerEntry
    BY EntryType
  <2> HIDE DEF h, first, g
  <2>8. /\ groups' \in [Node -> [GroupId -> Group]]
        /\ newPeers' \in [Node -> [Addr -> NewPeerEntry]]
        /\ peers' \in [Node -> SUBSET Peer]
    BY <2>2, <2>4, <2>6, <2>7 DEF IInv, TypeOK, Put
  <2>9. QED
    BY <2>1, <2>2, <2>5, <2>6, <2>8
       DEF IInv, TypeOK, LogsFinite, Inboxes, PeerState
<1>2. ASSUME HandleReady(n, p)
      PROVE  TypeOK' /\ LogsFinite'
  <2> DEFINE entered == [g \in GroupId |->
                           IF g \in ToEnter(n) THEN EnterRings(groups[n][g], n)
                           ELSE groups[n][g]]
             directs == UNION {Neighbours(entered[g]) : g \in ToEnter(n)}
  <2>1. Consume(n, p) \in Inboxes
    BY <1>2, ReadType DEF HandleReady, Reads, IInv
  <2>2. \A g \in GroupId : EnterRings(groups[n][g], n) \in Group
    <3>1. Local(n) \in Peer
      BY DEF Local, Peer, PeerKind
    <3>2. \A g \in GroupId : groups[n][g] \in Group
      BY DEF IInv, TypeOK
    <3>3. \A g \in GroupId : AddToRings(groups[n][g], Local(n)) \in Group
      BY <3>1, <3>2, GroupOperationsType
    <3>4. QED
      BY <3>3, GroupOperationsType DEF EnterRings
  <2>3. entered \in [GroupId -> Group]
    BY <2>2 DEF IInv, TypeOK
  <2>4. /\ groups' = [groups EXCEPT ![n] = entered]
        /\ state' = IF localGroup[n] \in groupIds[n]
                    THEN [state EXCEPT ![n] = "CONNECTED"] ELSE state
        /\ inbox' = Deliver(Consume(n, p), n, directs, ReadyNotifMsg)
        /\ reset' = [reset EXCEPT ![n] = @ \cup Bounced(directs)]
        /\ UNCHANGED <<procVars, joinVars, viewVars, localGroup, groupIds,
                       markers, logs, conns, backlog>>
    BY <1>2 DEF HandleReady
  <2>5. directs \in SUBSET Peer
    <3> HIDE DEF entered
    <3>1. \A g \in ToEnter(n) : g \in GroupId
      BY DEF ToEnter, IInv, TypeOK
    <3>2. \A g \in GroupId : Neighbours(entered[g]) \in SUBSET Peer
      BY <2>3 DEF Neighbours, Group
    <3>3. QED
      BY <3>1, <3>2
  <2> HIDE DEF entered, directs
  <2>6. inbox' \in Inboxes
    BY <2>1, <2>4, DeliverType DEF Message
  <2>7. reset' \in [Node -> SUBSET Peer]
    BY <2>4, <2>5 DEF IInv, TypeOK, Bounced
  <2>8. QED
    BY <2>3, <2>4, <2>6, <2>7 DEF IInv, TypeOK, LogsFinite, Inboxes, PeerState
<1>3. QED
  BY <1>1, <1>2

\* The handler of READY Notifications and the timers keep the types.
LEMMA ReadyHandlersTypeOK ==
    ASSUME IInv, NEW n \in Node, NEW p \in Peer
    PROVE  /\ HandleReadyNotif(n, p) => TypeOK' /\ LogsFinite'
           /\ HandleReadyNotifThrows(n, p) => TypeOK' /\ LogsFinite'
           /\ HandleReadyNotifCrash(n, p) => TypeOK' /\ LogsFinite'
           /\ TimerExpires(n, p) => TypeOK' /\ LogsFinite'
<1> USE DEF joinVars, viewVars, groupVars, netVars, procVars
<1> DEFINE states == [peerState[n] EXCEPT ![p] = "CONNECTED"]
<1>1. [peerState EXCEPT ![n] = states] \in [Node -> [Peer -> PeerState]]
  BY DEF IInv, TypeOK, PeerState
<1>2. ASSUME HandleReadyNotif(n, p)
      PROVE  TypeOK' /\ LogsFinite'
  <2>1. Consume(n, p) \in Inboxes /\ joinTimers[n] \in SUBSET Peer
    BY <1>2, ReadType DEF HandleReadyNotif, Reads, IInv, TypeOK
  <2>2. /\ CheckForNewPeers(n, states, Consume(n, p), joinTimers[n])
        /\ peerState' = [peerState EXCEPT ![n] = states]
        /\ UNCHANGED <<procVars, state, localGroup, groupIds, markers, conns,
                       backlog>>
    BY <1>2 DEF HandleReadyNotif
  <2> HIDE DEF states
  <2>3. QED
    BY <1>1, <2>1, <2>2, CheckForNewPeersType
       DEF IInv, TypeOK, LogsType, Inboxes
<1>3. ASSUME HandleReadyNotifThrows(n, p)
      PROVE  TypeOK' /\ LogsFinite'
  <2>1. Consume(n, p) \in Inboxes
    BY <1>3, ReadType DEF HandleReadyNotifThrows, Reads, IInv
  <2>2. QED
    BY <1>3, <2>1
       DEF HandleReadyNotifThrows, IInv, TypeOK, LogsFinite, Inboxes, PeerState
<1>4. ASSUME SendReady(n, p)
      PROVE  TypeOK' /\ LogsFinite'
  <2>1. inbox' \in Inboxes
    BY <1>4, DeliverType DEF SendReady, IInv, TypeOK, Inboxes, Message
  <2>2. /\ readyTimers' \in [Node -> SUBSET Peer]
        /\ reset' \in [Node -> SUBSET Peer]
    BY <1>4 DEF SendReady, IInv, TypeOK, EraseId, Bounced
  <2>3. QED
    BY <1>4, <2>1, <2>2 DEF SendReady, IInv, TypeOK, LogsFinite, Inboxes
<1>5. ASSUME CompleteJoin(n, p)
      PROVE  TypeOK' /\ LogsFinite'
  <2>1. EraseId(joinTimers[n], Id(p)) \in SUBSET Peer /\ inbox \in Inboxes
    BY DEF IInv, TypeOK, EraseId, Inboxes
  <2>2. /\ CheckForNewPeers(n, states, inbox, EraseId(joinTimers[n], Id(p)))
        /\ peerState' = [peerState EXCEPT ![n] = states]
        /\ UNCHANGED <<procVars, state, localGroup, groupIds, markers, conns,
                       backlog>>
    BY <1>5 DEF CompleteJoin
  <2> HIDE DEF states
  <2>3. QED
    BY <1>1, <2>1, <2>2, CheckForNewPeersType
       DEF IInv, TypeOK, LogsType, Inboxes
<1>6. ASSUME HandleReadyNotifCrash(n, p) \/ CompleteJoinCrash(n, p)
      PROVE  TypeOK' /\ LogsFinite'
  BY <1>6, ExitType DEF HandleReadyNotifCrash, CompleteJoinCrash, Crash
<1>7. QED
  BY <1>2, <1>3, <1>4, <1>5, <1>6 DEF TimerExpires

\* A new connection, and the end of one, keep the types.
LEMMA ConnectionsTypeOK ==
    ASSUME IInv, NEW n \in Node, NEW p \in Peer
    PROVE  /\ Accept(n, p) => TypeOK' /\ LogsFinite'
           /\ HandleDisconnect(n, p) => TypeOK' /\ LogsFinite'
           /\ HandleDisconnectHangs(n, p) => TypeOK' /\ LogsFinite'
           /\ HandleDisconnectCrash(n, p) => TypeOK' /\ LogsFinite'
           /\ HandleReadError(n, p) => TypeOK' /\ LogsFinite'
           /\ HandleText(n, p) => TypeOK' /\ LogsFinite'
           /\ ReadTogether(n, p) => TypeOK' /\ LogsFinite'
<1> USE DEF joinVars, viewVars, groupVars, netVars, procVars
<1>1. ASSUME Accept(n, p)
      PROVE  TypeOK' /\ LogsFinite'
  <2>1. AddrOfPeer(p) \in Addr /\ [peer |-> p, port |-> NoNode] \in NewPeerEntry
    BY EntryType
  <2>2. QED
    BY <1>1, <2>1 DEF Accept, IInv, TypeOK, LogsFinite, PeerState
<1>2. ASSUME HandleDisconnect(n, p)
      PROVE  TypeOK' /\ LogsFinite'
  <2> DEFINE view == IF Erasable(n, p) THEN EraseId(peers[n], Id(p)) ELSE peers[n]
             pending == IF Erasable(n, p) THEN newPeers[n]
                        ELSE [newPeers[n] EXCEPT ![AddrOfPeer(p)] = NoEntry]
             gs == IF Erasable(n, p) THEN GroupsWithout(n, p) ELSE groups[n]
  <2>1. Consume(n, p) \in Inboxes
    BY <1>2, ReadType DEF HandleDisconnect, Reads, IInv
  <2>2. view \in SUBSET Peer
    BY DEF IInv, TypeOK, EraseId
  <2>3. pending \in [Addr -> NewPeerEntry]
    BY EntryType DEF IInv, TypeOK
  <2>4. gs \in [GroupId -> Group]
    <3>1. \A g \in GroupId : /\ groups[n][g] \in Group
                             /\ RemovePeer(groups[n][g], p) \in Group
                             /\ UpdateNeighbours(RemovePeer(groups[n][g], p), n)
                                   \in Group
      <4>1. \A g \in GroupId : groups[n][g] \in Group
        BY DEF IInv, TypeOK
      <4>2. \A g \in GroupId : RemovePeer(groups[n][g], p) \in Group
        BY <4>1, GroupOperationsType
      <4>3. QED
        BY <4>1, <4>2, GroupOperationsType
    <3>2. GroupsWithout(n, p) \in [GroupId -> Group]
      BY <3>1 DEF GroupsWithout
    <3>3. groups[n] \in [GroupId -> Group]
      BY DEF IInv, TypeOK
    <3>4. QED
      BY <3>2, <3>3
  <2>5. /\ peers' = [peers EXCEPT ![n] = view]
        /\ newPeers' = [newPeers EXCEPT ![n] = pending]
        /\ LeaveGroups(n, view, pending, gs)
        /\ conns' = [conns EXCEPT ![n] = @ \ {p}]
        /\ inbox' = Consume(n, p)
        /\ UNCHANGED <<procVars, joinToken, readyTimers, joinTimers, peerState,
                       markers, logs, backlog, reset>>
    BY <1>2 DEF HandleDisconnect
  <2> HIDE DEF view, pending, gs
  <2>6. [g \in GroupId |-> NewGroup] \in [GroupId -> Group]
    BY DEF NewGroup, Group
  <2>7. /\ groups' \in [Node -> [GroupId -> Group]]
        /\ groupIds' \in [Node -> SUBSET GroupId]
        /\ localGroup' \in [Node -> GroupId \cup {NoGroup}]
        /\ state' \in [Node -> PeerState]
    <3>1. CASE /\ groupIds' = [groupIds EXCEPT ![n] = {}]
               /\ groups' = [groups EXCEPT ![n] = [g \in GroupId |-> NewGroup]]
               /\ localGroup' = [localGroup EXCEPT ![n] = NoGroup]
               /\ state' = [state EXCEPT ![n] = "NEW"]
      BY <2>6, <3>1 DEF IInv, TypeOK, PeerState
    <3>2. CASE /\ groups' = [groups EXCEPT ![n] = gs]
               /\ UNCHANGED <<groupIds, localGroup, state>>
      BY <2>4, <3>2 DEF IInv, TypeOK
    <3>3. QED
      BY <2>5, <3>1, <3>2 DEF LeaveGroups
  <2>8. QED
    BY <2>1, <2>2, <2>3, <2>5, <2>7 DEF IInv, TypeOK, LogsFinite, Inboxes
<1>3. ASSUME HandleDisconnectHangs(n, p)
      PROVE  TypeOK' /\ LogsFinite'
  BY <1>3 DEF HandleDisconnectHangs, IInv, TypeOK, LogsFinite
<1>4. ASSUME HandleDisconnectCrash(n, p)
      PROVE  TypeOK' /\ LogsFinite'
  BY <1>4, ExitType DEF HandleDisconnectCrash, Crash
<1>5. ASSUME HandleReadError(n, p)
      PROVE  TypeOK' /\ LogsFinite'
  <2>1. Consume(n, p) \in Inboxes
    BY <1>5, ReadType DEF HandleReadError, Reads, IInv
  <2>2. QED
    BY <1>5, <2>1 DEF HandleReadError, IInv, TypeOK, LogsFinite, Inboxes
<1>6. ASSUME HandleText(n, p)
      PROVE  TypeOK' /\ LogsFinite'
  <2>1. Consume(n, p) \in Inboxes
    BY <1>6, ReadType DEF HandleText, Reads, IInv
  <2>2. QED
    BY <1>6, <2>1 DEF HandleText, IInv, TypeOK, LogsFinite, Inboxes
<1>7. ASSUME ReadTogether(n, p)
      PROVE  TypeOK' /\ LogsFinite'
  <2>1. inbox[n][p] \in Seq(Message) /\ Len(inbox[n][p]) >= 2
    BY <1>7 DEF ReadTogether, IInv, TypeOK
  <2>2. JoinedWithNext(inbox[n][p]) \in Seq(Message)
    BY <2>1, JoinedType
  <2>3. inbox' \in Inboxes
    BY <1>7, <2>2 DEF ReadTogether, IInv, TypeOK, Inboxes
  <2>4. QED
    BY <1>7, <2>3 DEF ReadTogether, IInv, TypeOK, LogsFinite, Inboxes
<1>8. QED
  BY <1>1, <1>2, <1>3, <1>4, <1>5, <1>6, <1>7

\* Every step keeps the types and the logs finite.
LEMMA TypeStep == IInv /\ [Next]_vars => TypeOK' /\ LogsFinite'
<1> SUFFICES ASSUME IInv, [Next]_vars
             PROVE  TypeOK' /\ LogsFinite'
  OBVIOUS
<1>1. CASE UNCHANGED vars
  BY <1>1 DEF vars, procVars, joinVars, viewVars, groupVars, netVars, IInv,
              TypeOK, LogsFinite
<1>2. ASSUME NEW n \in Node, NEW p \in Peer, IOStep(n, p)
      PROVE  TypeOK' /\ LogsFinite'
  BY <1>2, HandleJoinTypeOK, BroadcastHandlersTypeOK, EntryHandlersTypeOK,
     ReadyHandlersTypeOK, ConnectionsTypeOK DEF IOStep, Receive
<1>3. QED
  BY <1>1, <1>2, UITypeOK, ConnectionsTypeOK DEF Next

\* The broadcast command has one message to log at most.
LEMMA OutgoingStep == IInv /\ [Next]_vars => OutgoingKept'
<1> SUFFICES ASSUME IInv, [Next]_vars
             PROVE  OutgoingKept'
  OBVIOUS
<1>1. ASSUME outgoing' = outgoing, ui' = ui
      PROVE  OutgoingKept'
  BY <1>1 DEF IInv, OutgoingKept, OutgoingAt
<1>2. ASSUME NEW n \in Node, OutgoingAt(n)',
             \A r \in Node \ {n} : outgoing'[r] = outgoing[r] /\ ui'[r] = ui[r]
      PROVE  OutgoingKept'
  BY <1>2 DEF IInv, OutgoingKept, OutgoingAt
<1>3. ASSUME NEW n \in Node, UIBroadcast(n)
      PROVE  OutgoingKept'
  <2> DEFINE data == DataMsg(localGroup[n], n, Cardinality(SentData(n)) + 1)
  <2>1. data \in BCastMessage /\ data.type = "DATA" /\ data.from = n
    <3>1. localGroup[n] \in GroupId
      BY <1>3 DEF UIBroadcast, IInv, TypeOK
    <3>2. Cardinality(SentData(n)) + 1 \in Nat \ {0}
      BY SentDataFinite
    <3>3. QED
      BY <3>1, <3>2, MessageTypes DEF DataMsg
  <2>2. /\ ui' = [ui EXCEPT ![n] = "log"]
        /\ outgoing' = [outgoing EXCEPT ![n] = {data}]
    BY <1>3 DEF UIBroadcast
  <2> HIDE DEF data
  <2>3. QED
    BY <1>2, <2>1, <2>2 DEF IInv, TypeOK, OutgoingAt
<1>4. ASSUME NEW n \in Node, UIBroadcastLog(n)
      PROVE  OutgoingKept'
  BY <1>2, <1>4 DEF UIBroadcastLog, IInv, TypeOK, OutgoingAt
<1>5. ASSUME NEW n \in Node,
             \/ \E m \in JoinTo[n] : UIJoinConnect(n, m)
             \/ UIBroadcastCheck(n)
             \/ UIJoinMark(n) \/ UIJoinSend(n) \/ UIJoinThrows(n)
      PROVE  OutgoingKept'
  <2>1. /\ outgoing' = outgoing /\ ui[n] # "log"
        /\ \E c : ui' = [ui EXCEPT ![n] = c]
    BY <1>5 DEF UIJoinConnect, UIBroadcastCheck, UIJoinMark, UIJoinSend, UIJoinThrows
  <2>2. QED
    BY <1>2, <2>1 DEF IInv, TypeOK, OutgoingKept, OutgoingAt
<1> USE DEF procVars
<1>6. ASSUME NEW n \in Node, UIBroadcastCrash(n) \/ UISend(n) \/ Quit(n)
      PROVE  outgoing' = outgoing /\ ui' = ui
  BY <1>6 DEF UIBroadcastCrash, UISend, Quit, Crash, Exit
<1>7. ASSUME NEW n \in Node, NEW p \in Peer, IOStep(n, p) \/ ReadTogether(n, p)
      PROVE  outgoing' = outgoing /\ ui' = ui
  <2>1. CASE \/ Accept(n, p) \/ HandleJoin(n, p) \/ HandleDuplicate(n, p)
             \/ HandleData(n, p) \/ HandleForeignNotif(n, p)
             \/ HandleNotifRefused(n, p) \/ HandleJoinNotif(n, p)
             \/ HandleJoinAck(n, p) \/ HandleReady(n, p)
             \/ HandleReadyNotif(n, p) \/ HandleReadyNotifThrows(n, p)
             \/ HandleText(n, p) \/ HandleDisconnect(n, p)
             \/ HandleReadError(n, p) \/ SendReady(n, p) \/ CompleteJoin(n, p)
             \/ ReadTogether(n, p)
    BY <2>1
       DEF Accept, HandleJoin, HandleDuplicate, HandleData, HandleForeignNotif,
           HandleNotifRefused, HandleJoinNotif, HandleJoinAck, HandleReady,
           HandleReadyNotif, HandleReadyNotifThrows, HandleText,
           HandleDisconnect, HandleReadError, SendReady, CompleteJoin,
           ReadTogether
  <2>2. CASE \/ HandleMisrouted(n, p) \/ HandleReadyNotifCrash(n, p)
             \/ HandleDisconnectHangs(n, p) \/ HandleDisconnectCrash(n, p)
             \/ CompleteJoinCrash(n, p)
    BY <2>2
       DEF HandleMisrouted, HandleReadyNotifCrash, HandleDisconnectHangs,
           HandleDisconnectCrash, CompleteJoinCrash, Crash, Exit
  <2>3. QED
    BY <1>7, <2>1, <2>2 DEF IOStep, Receive, TimerExpires
<1>8. CASE UNCHANGED vars
  BY <1>1, <1>8 DEF vars
<1>9. QED
  BY <1>1, <1>3, <1>4, <1>5, <1>6, <1>7, <1>8 DEF Next, UIStep

\* A process starts without a group, a peer or a join request.
LEMMA TypeInit == Init => IInv
<1> SUFFICES ASSUME Init
             PROVE  IInv
  OBVIOUS
<1>1. NoEntry \in NewPeerEntry /\ NewGroup \in Group
  BY DEF NoEntry, NewPeerEntry, NewGroup, Group
<1>2. TypeOK
  BY <1>1 DEF Init, TypeOK, PeerState
<1>3. LogsFinite /\ OutgoingKept
  BY FS_EmptySet DEF Init, LogsFinite, OutgoingKept, OutgoingAt
<1>4. LocalGroupKept
  BY DEF Init, LocalGroupKept, KeptAt, Waiting, NoEntry
<1>5. QED
  BY <1>2, <1>3, <1>4 DEF IInv

-----------------------------------------------------------------------------
\* What the steps that let a node in change of the local bookkeeping
LEMMA AnswerEffects ==
    ASSUME NEW n, NEW p, NEW port, NEW gid, NEW gs, NEW box, NEW timers,
           AnswerJoinRequest(n, p, port, gid, gs, box, timers)
    PROVE  /\ joinToken' = [joinToken EXCEPT ![n] = FALSE]
           /\ newPeers' = [newPeers EXCEPT ![n][AddrOfPeer(p)] = NoEntry]
           /\ peers' = [peers EXCEPT ![n] = Put(@, p)]
  BY DEF AnswerJoinRequest, AcknowledgeJoin

LEMMA CheckEffects ==
    ASSUME IInv, NEW n \in Node, NEW states, NEW box, NEW timers,
           CheckForNewPeers(n, states, box, timers)
    PROVE  \/ /\ localGroup[n] # NoGroup
              /\ joinToken' = [joinToken EXCEPT ![n] = FALSE]
              /\ \E q \in Peer :
                    /\ newPeers' = [newPeers EXCEPT ![n][AddrOfPeer(q)] = NoEntry]
                    /\ peers' = [peers EXCEPT ![n] = Put(@, q)]
           \/ /\ Pending(n, states) = {}
              /\ joinToken' = [joinToken EXCEPT ![n] = TRUE]
              /\ UNCHANGED <<newPeers, peers>>
<1>1. ASSUME ~DereferencesNull(n, states), NEW a \in Pending(n, states),
             AnswerJoinRequest(n, newPeers[n][a].peer, newPeers[n][a].port,
                               localGroup[n], groups[n], box, timers)
      PROVE  /\ localGroup[n] # NoGroup
             /\ joinToken' = [joinToken EXCEPT ![n] = FALSE]
             /\ \E q \in Peer :
                   /\ newPeers' = [newPeers EXCEPT ![n][AddrOfPeer(q)] = NoEntry]
                   /\ peers' = [peers EXCEPT ![n] = Put(@, q)]
  <2>1. newPeers[n][a].peer \in Peer /\ localGroup[n] \in GroupId
    BY <1>1, PendingType
  <2>2. QED
    BY <1>1, <2>1, AnswerEffects, NetworkAssumption
<1>2. QED
  BY <1>1 DEF CheckForNewPeers

\* Nobody starts to wait when an entry of new_peers goes, when one is replaced
\* by a Peer that is NEW, or when a Peer becomes CONNECTED.
LEMMA NobodyStartsToWait ==
    ASSUME IInv, NEW n \in Node, NEW a \in Addr, NEW p \in Peer,
           \/ newPeers' = newPeers
           \/ newPeers' = [newPeers EXCEPT ![n][a] = NoEntry]
           \/ /\ peerState' = [peerState EXCEPT ![n][p] = "NEW"]
              /\ newPeers' = [newPeers EXCEPT ![n][a] =
                                [peer |-> p, port |-> NoNode]],
           \/ peerState' = peerState
           \/ peerState' = [peerState EXCEPT ![n][p] = "NEW"]
           \/ peerState' = [peerState EXCEPT ![n][p] = "CONNECTED"]
    PROVE  \A r \in Node : Waiting(r)' \subseteq Waiting(r)
<1> SUFFICES ASSUME NEW r \in Node, NEW b \in Addr,
                    newPeers'[r][b].peer # NoPeer,
                    peerState'[r][newPeers'[r][b].peer] = "JOINING"
             PROVE  /\ newPeers[r][b].peer # NoPeer
                    /\ peerState[r][newPeers[r][b].peer] = "JOINING"
  BY DEF Waiting
<1>1. /\ newPeers \in [Node -> [Addr -> NewPeerEntry]]
      /\ peerState \in [Node -> [Peer -> PeerState]]
  BY DEF IInv, TypeOK
<1>2. \A q \in Peer : peerState'[r][q] = "JOINING" => peerState[r][q] = "JOINING"
  BY <1>1
<1>3. newPeers'[r][b] = newPeers[r][b]
  BY <1>1 DEF NoEntry
<1>4. newPeers[r][b].peer \in Peer \cup {NoPeer}
  BY <1>1 DEF NewPeerEntry
<1>5. QED
  BY <1>2, <1>3, <1>4

-----------------------------------------------------------------------------
localVars(r) ==
    <<localGroup[r], groupIds[r], markers[r], state[r], peers[r], newPeers[r],
      peerState[r]>>

\* A step of node n leaves the others' bookkeeping alone.
LEMMA OthersKept ==
    ASSUME IInv, NEW n \in Node, KeptAt(n)',
           \A r \in Node \ {n} : UNCHANGED localVars(r)
    PROVE  LocalGroupKept'
<1>1. ASSUME NEW r \in Node \ {n}
      PROVE  KeptAt(r)'
  <2>1. UNCHANGED localVars(r) /\ KeptAt(r)
    BY <1>1 DEF IInv, LocalGroupKept
  <2>2. Waiting(r)' = Waiting(r)
    BY <2>1 DEF Waiting, localVars
  <2>3. QED
    BY <2>1, <2>2 DEF KeptAt, localVars
<1>2. QED
  BY <1>1 DEF LocalGroupKept

\* A step that adds nothing that needs a local group where there is none
LEMMA NothingAdded ==
    ASSUME IInv, UNCHANGED <<localGroup, groupIds, markers>>,
           \A r \in Node : /\ state'[r] = "CONNECTED" => state[r] = "CONNECTED"
                           /\ peers[r] = {} => peers'[r] = {}
                           /\ Waiting(r)' \subseteq Waiting(r)
    PROVE  LocalGroupKept'
  BY DEF IInv, LocalGroupKept, KeptAt

\* The commands of the main thread keep the local group.
LEMMA UILocalGroup ==
    ASSUME IInv, NEW n \in Node
    PROVE  /\ \A m \in JoinTo[n] : UIJoinConnect(n, m) => LocalGroupKept'
           /\ UIBroadcastCheck(n) => LocalGroupKept'
           /\ UIStep(n) => LocalGroupKept'
           /\ UISend(n) => LocalGroupKept'
           /\ Quit(n) => LocalGroupKept'
<1> USE DEF joinVars, viewVars, groupVars
<1>1. ASSUME UNCHANGED <<state, newPeers, viewVars, groupVars>>
      PROVE  LocalGroupKept'
  BY <1>1, NothingAdded DEF Waiting
<1>2. ASSUME UIJoinSend(n)
      PROVE  LocalGroupKept'
  <2>1. <<entry[n], "entry">> \in Peer
    BY DEF Peer, PeerKind, IInv, TypeOK
  <2>2. \A r \in Node : Waiting(r)' \subseteq Waiting(r)
    BY <1>2, <2>1, EntryType, NobodyStartsToWait DEF UIJoinSend
  <2>3. QED
    BY <1>2, <2>2, NothingAdded DEF UIJoinSend, IInv, TypeOK
<1>3. ASSUME UIJoinThrows(n)
      PROVE  LocalGroupKept'
  BY <1>3, NothingAdded DEF UIJoinThrows, Waiting, IInv, TypeOK
<1>4. ASSUME UIJoinMark(n)
      PROVE  LocalGroupKept'
  BY <1>4, NothingAdded DEF UIJoinMark, Waiting, IInv, TypeOK
<1>5. QED
  BY <1>1, <1>2, <1>3, <1>4
     DEF UIStep, UIJoinConnect, UIBroadcastCheck, UIBroadcast, UIBroadcastLog,
         UIBroadcastCrash, UISend, Quit, Crash, Exit

\* The JOIN handler leaves the node with a local group.
LEMMA HandleJoinLocalGroup ==
    ASSUME IInv, NEW n \in Node, NEW p \in Peer, HandleJoin(n, p)
    PROVE  LocalGroupKept'
<1>1. /\ localGroup'[n] # NoGroup
      /\ localGroup'[n] \in groupIds'[n] \cap markers'[n]
      /\ \A r \in Node \ {n} : UNCHANGED <<localGroup[r], groupIds[r],
                                           markers[r], state[r]>>
  <2>1. CASE state[n] = "CONNECTED"
    BY <2>1 DEF HandleJoin, IInv, LocalGroupKept, KeptAt
  <2>2. CASE state[n] # "CONNECTED"
    <3> DEFINE gid == NewGroupId(n)
    <3>1. /\ gid \in GroupId
          /\ state' = [state EXCEPT ![n] = "CONNECTED"]
          /\ localGroup' = [localGroup EXCEPT ![n] = gid]
          /\ groupIds' = [groupIds EXCEPT ![n] = @ \cup {gid}]
          /\ markers' = [markers EXCEPT ![n] = @ \cup {gid}]
      BY <2>2 DEF HandleJoin, FoundGroup, MapMarker
    <3> HIDE DEF gid
    <3>2. QED
      BY <3>1, NetworkAssumption DEF IInv, TypeOK
  <2>3. QED
    BY <2>1, <2>2
<1>2. \A r \in Node \ {n} : peers'[r] = peers[r] /\ newPeers'[r] = newPeers[r]
  <2>1. ASSUME NEW gs, NEW gid,
               AnswerJoinRequest(n, p, Id(p), gid, gs, Consume(n, p),
                                 joinTimers[n])
        PROVE  \A r \in Node \ {n} : /\ peers'[r] = peers[r]
                                     /\ newPeers'[r] = newPeers[r]
    BY <2>1, AnswerEffects DEF IInv, TypeOK
  <2>2. ASSUME newPeers' = [newPeers EXCEPT ![n][AddrOfPeer(p)].port = Id(p)],
               peers' = peers
        PROVE  \A r \in Node \ {n} : /\ peers'[r] = peers[r]
                                     /\ newPeers'[r] = newPeers[r]
    BY <2>2 DEF IInv, TypeOK
  <2>3. QED
    BY <2>1, <2>2 DEF HandleJoin
<1>3. \A r \in Node \ {n} : peerState'[r] = peerState[r]
  BY DEF HandleJoin, Identified, IInv, TypeOK
<1>4. QED
  BY <1>1, <1>2, <1>3, OthersKept DEF KeptAt, localVars

\* The other handlers of messages keep the local group: an acknowledgement
\* decides it, a notification is for it, and READY needs it.
LEMMA MessagesLocalGroup ==
    ASSUME IInv, NEW n \in Node, NEW p \in Peer
    PROVE  /\ HandleJoinNotif(n, p) => LocalGroupKept'
           /\ HandleJoinAck(n, p) => LocalGroupKept'
           /\ HandleReady(n, p) => LocalGroupKept'
<1> USE DEF joinVars, viewVars, groupVars
<1>1. ASSUME HandleJoinNotif(n, p)
      PROVE  LocalGroupKept'
  <2> DEFINE m == Head(inbox[n][p])
             q == <<m.peer, "called">>
  <2>1. m.group = localGroup[n] /\ m.group \in groupIds[n]
    BY <1>1 DEF HandleJoinNotif, Ours
  <2>2. localGroup[n] # NoGroup
    BY <2>1, NetworkAssumption DEF IInv, TypeOK
  <2>3. /\ peers' = [peers EXCEPT ![n] = Put(@, q)]
        /\ peerState' = [peerState EXCEPT ![n][q] = "JOINING"]
        /\ UNCHANGED <<state, newPeers, localGroup, groupIds, markers>>
    BY <1>1 DEF HandleJoinNotif, AcknowledgeJoin, Identified
  <2> HIDE DEF q
  <2>4. KeptAt(n)'
    BY <2>2, <2>3 DEF IInv, LocalGroupKept, KeptAt
  <2>5. QED
    BY <2>3, <2>4, OthersKept DEF localVars, IInv, TypeOK
<1>2. ASSUME HandleJoinAck(n, p)
      PROVE  LocalGroupKept'
  <2> DEFINE h == Head(inbox[n][p]).group
             first == h \notin groupIds[n] /\ localGroup[n] = NoGroup
  <2>1. /\ \/ /\ first
              /\ localGroup' = [localGroup EXCEPT ![n] = h]
              /\ markers' = [markers EXCEPT ![n] = @ \cup {h}]
           \/ ~first /\ UNCHANGED <<localGroup, markers>>
        /\ groupIds' = [groupIds EXCEPT ![n] = @ \cup {h}]
        /\ peerState' = [peerState EXCEPT ![n][p] = "CONNECTED"]
        /\ newPeers' = [newPeers EXCEPT ![n][AddrOfPeer(p)] = NoEntry]
        /\ peers' = [peers EXCEPT ![n] = Put(@, p)]
        /\ state' = state
    BY <1>2 DEF HandleJoinAck, MapMarker, Identified
  <2>2. h # NoGroup
    <3>1. Head(inbox[n][p]) \in Message /\ Head(inbox[n][p]).type = "JOIN_ACK"
      BY <1>2, ReadType DEF HandleJoinAck, Reads, IInv
    <3>2. QED
      BY <3>1, MessageFields, NetworkAssumption
  <2> HIDE DEF h
  <2>3. /\ localGroup'[n] # NoGroup
        /\ localGroup'[n] \in groupIds'[n] \cap markers'[n]
    BY <2>1, <2>2 DEF IInv, TypeOK, LocalGroupKept, KeptAt
  <2>4. \A r \in Node \ {n} : UNCHANGED localVars(r)
    BY <2>1 DEF localVars, IInv, TypeOK
  <2>5. QED
    BY <2>3, <2>4, OthersKept DEF KeptAt
<1>3. ASSUME HandleReady(n, p)
      PROVE  LocalGroupKept'
  <2>1. /\ state' = IF localGroup[n] \in groupIds[n]
                    THEN [state EXCEPT ![n] = "CONNECTED"] ELSE state
        /\ UNCHANGED <<newPeers, viewVars, localGroup, groupIds, markers>>
    BY <1>3 DEF HandleReady
  <2>2. localGroup[n] \in groupIds[n] => localGroup[n] # NoGroup
    BY NetworkAssumption DEF IInv, TypeOK
  <2>3. KeptAt(n)'
    BY <2>1, <2>2 DEF IInv, LocalGroupKept, KeptAt, Waiting
  <2>4. QED
    BY <2>1, <2>3, OthersKept DEF localVars, IInv, TypeOK
<1>4. QED
  BY <1>1, <1>2, <1>3

\* The handlers that call check_for_new_peers keep the local group.
LEMMA CheckLocalGroup ==
    ASSUME IInv, NEW n \in Node, NEW p \in Peer, NEW box, NEW timers,
           CheckForNewPeers(n, [peerState[n] EXCEPT ![p] = "CONNECTED"], box,
                            timers),
           peerState' = [peerState EXCEPT ![n] =
                            [peerState[n] EXCEPT ![p] = "CONNECTED"]],
           UNCHANGED <<state, localGroup, groupIds, markers>>
    PROVE  LocalGroupKept'
<1>1. peerState' = [peerState EXCEPT ![n][p] = "CONNECTED"]
  OBVIOUS
<1>2. CASE /\ localGroup[n] # NoGroup
           /\ \E q \in Peer :
                 /\ newPeers' = [newPeers EXCEPT ![n][AddrOfPeer(q)] = NoEntry]
                 /\ peers' = [peers EXCEPT ![n] = Put(@, q)]
  <2>1. KeptAt(n)'
    BY <1>2 DEF IInv, LocalGroupKept, KeptAt
  <2>2. QED
    BY <1>1, <1>2, <2>1, OthersKept DEF localVars, IInv, TypeOK
<1>3. CASE UNCHANGED <<newPeers, peers>>
  <2>1. \A r \in Node : Waiting(r)' \subseteq Waiting(r)
    BY <1>1, <1>3, EntryType, NobodyStartsToWait
  <2>2. QED
    BY <1>3, <2>1, NothingAdded
<1>4. QED
  BY <1>2, <1>3, CheckEffects

\* A node that is left alone has no join request either, so that it may forget
\* its group; a peer it has is one it has a group with.
LEMMA DisconnectLocalGroup ==
    ASSUME IInv, NEW n \in Node, NEW p \in Peer, HandleDisconnect(n, p)
    PROVE  LocalGroupKept'
<1> DEFINE view == IF Erasable(n, p) THEN EraseId(peers[n], Id(p)) ELSE peers[n]
           pending == IF Erasable(n, p) THEN newPeers[n]
                      ELSE [newPeers[n] EXCEPT ![AddrOfPeer(p)] = NoEntry]
           gs == IF Erasable(n, p) THEN GroupsWithout(n, p) ELSE groups[n]
<1>1. /\ peers' = [peers EXCEPT ![n] = view]
      /\ newPeers' = [newPeers EXCEPT ![n] = pending]
      /\ LeaveGroups(n, view, pending, gs)
      /\ peerState' = peerState /\ markers' = markers
  BY DEF HandleDisconnect
<1>2. \A r \in Node : Waiting(r)' \subseteq Waiting(r)
  <2>1. \/ newPeers' = newPeers
        \/ newPeers' = [newPeers EXCEPT ![n][AddrOfPeer(p)] = NoEntry]
    BY <1>1 DEF IInv, TypeOK
  <2>2. QED
    BY <1>1, <2>1, EntryType, NobodyStartsToWait
<1>3. view \subseteq peers[n]
  BY DEF EraseId
<1> HIDE DEF view, pending, gs
<1>4. CASE UNCHANGED <<groupIds, localGroup, state>>
  BY <1>1, <1>2, <1>3, <1>4, NothingAdded DEF IInv, TypeOK
<1>5. CASE /\ view = {} /\ \A a \in Addr : pending[a] = NoEntry
           /\ groupIds' = [groupIds EXCEPT ![n] = {}]
           /\ localGroup' = [localGroup EXCEPT ![n] = NoGroup]
           /\ state' = [state EXCEPT ![n] = "NEW"]
  <2>1. Waiting(n)' = {}
    BY <1>1, <1>5 DEF Waiting, NoEntry, IInv, TypeOK
  <2>2. KeptAt(n)'
    BY <1>1, <1>5, <2>1 DEF KeptAt, IInv, TypeOK
  <2>3. QED
    BY <1>1, <1>5, <2>2, OthersKept DEF localVars, IInv, TypeOK
<1>6. QED
  BY <1>1, <1>4, <1>5 DEF LeaveGroups

\* Every step keeps the local group.
LEMMA LocalGroupStep == IInv /\ [Next]_vars => LocalGroupKept'
<1> SUFFICES ASSUME IInv, [Next]_vars
             PROVE  LocalGroupKept'
  OBVIOUS
<1> USE DEF joinVars, viewVars, groupVars
<1>1. ASSUME UNCHANGED <<state, newPeers, viewVars, groupIds, localGroup,
                         markers>>
      PROVE  LocalGroupKept'
  BY <1>1, NothingAdded DEF Waiting
<1>2. CASE UNCHANGED vars
  BY <1>1, <1>2 DEF vars
<1>3. ASSUME NEW n \in Node, NEW p \in Peer, IOStep(n, p)
      PROVE  LocalGroupKept'
  <2>1. CASE \/ HandleDuplicate(n, p) \/ HandleMisrouted(n, p)
             \/ HandleData(n, p) \/ HandleForeignNotif(n, p)
             \/ HandleNotifRefused(n, p) \/ HandleReadyNotifCrash(n, p)
             \/ HandleDisconnectHangs(n, p) \/ HandleDisconnectCrash(n, p)
             \/ HandleReadError(n, p) \/ SendReady(n, p)
             \/ CompleteJoinCrash(n, p) \/ HandleText(n, p)
    BY <1>1, <2>1
       DEF HandleText, HandleDuplicate, HandleMisrouted, HandleData, HandleForeignNotif,
           HandleNotifRefused, HandleReadyNotifCrash, HandleDisconnectHangs,
           HandleDisconnectCrash, HandleReadError, SendReady,
           CompleteJoinCrash, Crash, Exit
  <2>2. CASE Accept(n, p) \/ HandleReadyNotifThrows(n, p)
    <3>1. CASE Accept(n, p)
      BY <3>1, <2>2, EntryType, NobodyStartsToWait, NothingAdded DEF Accept
    <3>2. CASE HandleReadyNotifThrows(n, p)
      BY <3>2, <2>2, EntryType, NobodyStartsToWait, NothingAdded
         DEF HandleReadyNotifThrows
    <3>3. QED
      BY <2>2, <3>1, <3>2
  <2>3. CASE HandleReadyNotif(n, p) \/ CompleteJoin(n, p)
    BY <2>3, CheckLocalGroup DEF HandleReadyNotif, CompleteJoin
  <2>4. QED
    BY <1>3, <2>1, <2>2, <2>3, HandleJoinLocalGroup, MessagesLocalGroup,
       DisconnectLocalGroup DEF IOStep, Receive, TimerExpires
<1>4. ASSUME NEW n \in Node, NEW p \in Peer, ReadTogether(n, p)
      PROVE  LocalGroupKept'
  BY <1>1, <1>4 DEF ReadTogether
<1>5. QED
  BY <1>2, <1>3, <1>4, UILocalGroup DEF Next

-----------------------------------------------------------------------------
\* The invariant holds in every state.
LEMMA Invariant == Spec => []IInv
<1>1. Init => IInv
  BY TypeInit
<1>2. IInv /\ [Next]_vars => IInv'
  BY TypeStep, OutgoingStep, LocalGroupStep DEF IInv
<1>3. QED
  BY <1>1, <1>2, PTL DEF Spec

\* Type correctness: every variable has its type, and every message that is made
\* carries the ID of a group that exists (broadcast_data, answer_join_request
\* and acknowledge_join dereference local_group).
THEOREM TypeCorrect == Spec => []TypeOK
<1>1. IInv => TypeOK
  BY DEF IInv
<1>2. QED
  BY <1>1, Invariant, PTL

\* local_group is one of the groups, and its marker is mapped, wherever a
\* handler dereferences it without a check: handle_disconnect with peers,
\* answer_join_request with a join request, broadcast when CONNECTED.
THEOREM LocalGroupIsSound == Spec => []LocalGroupSound
<1>1. IInv => LocalGroupSound
  BY DEF IInv, LocalGroupKept, KeptAt, LocalGroupSound
<1>2. QED
  BY <1>1, Invariant, PTL
=============================================================================
