------------------------ MODULE Bookkeeping_proof -------------------------
(***************************************************************************)
(* What the handlers of a node keep, whatever the other nodes do: the      *)
(* neighbours in each group through joins, acknowledgements and            *)
(* disconnections, the logs, and the rings, each of which is one cycle.    *)
(* The system implements Broadcast: for any nodes, entry points, delays,   *)
(* departures and reads, the data in the logs is what its authors have     *)
(* broadcast, each message once.                                           *)
(***************************************************************************)
EXTENDS Network_proof

\* A node's neighbours are in the rings, and the rings of its local group hold
\* members only: handle_disconnect takes a Peer that is no member off these
\* rings and does not look for the neighbours again.
SoundAt(n, gs) == \A g \in GroupId : Sound(gs[g], n)

RingsInv ==
    \A n \in Node :
        /\ SoundAt(n, groups[n])
        /\ localGroup[n] # NoGroup => Covered(groups[n][localGroup[n]], n)

\* A step of node n leaves the others' rings alone.
LEMMA RingsOfOthers ==
    ASSUME RingsInv, NEW n \in Node, SoundAt(n, groups'[n]),
           localGroup'[n] # NoGroup => Covered(groups'[n][localGroup'[n]], n),
           \A r \in Node \ {n} : UNCHANGED <<groups[r], localGroup[r]>>
    PROVE  RingsInv'
  BY DEF RingsInv, SoundAt

\* acknowledge_join updates the neighbours of the group the peer enters.
LEMMA AcknowledgeJoinRings ==
    ASSUME IInv, NEW n \in Node, NEW p \in Peer, NEW gid \in GroupId,
           NEW gs \in [GroupId -> Group], NEW box, NEW written, NEW timers,
           SoundAt(n, gs), Covered(gs[gid], n),
           AcknowledgeJoin(n, p, gid, gs, box, written, timers)
    PROVE  /\ SoundAt(n, groups'[n])
           /\ Covered(groups'[n][gid], n)
           /\ \A r \in Node \ {n} : groups'[r] = groups[r]
<1> DEFINE g == UpdateNeighbours(AddPeer(gs[gid], p), n)
<1>1. AddPeer(gs[gid], p) \in Group /\ Covered(AddPeer(gs[gid], p), n)
  BY GroupOperationsType, OperationsKeepCovered
<1>2. g \in Group /\ Sound(g, n) /\ Covered(g, n)
  BY <1>1, UpdateNeighboursSound, GroupOperationsType, OperationsKeepCovered
<1>3. groups' = [groups EXCEPT ![n] = [gs EXCEPT ![gid] = g]]
  BY DEF AcknowledgeJoin
<1> HIDE DEF g
<1>4. groups'[n] = [gs EXCEPT ![gid] = g]
  BY <1>3 DEF IInv, TypeOK
<1>5. \A r \in Node \ {n} : groups'[r] = groups[r]
  BY <1>3 DEF IInv, TypeOK
<1>6. QED
  BY <1>2, <1>4, <1>5 DEF SoundAt

\* check_for_new_peers lets a peer in the local group, or changes no group.
LEMMA CheckRings ==
    ASSUME IInv, RingsInv, NEW n \in Node, NEW states, NEW box, NEW timers,
           CheckForNewPeers(n, states, box, timers), localGroup' = localGroup
    PROVE  RingsInv'
<1>1. CASE groups' = groups
  BY <1>1 DEF RingsInv
<1>2. ASSUME ~DereferencesNull(n, states), NEW a \in Pending(n, states),
             AnswerJoinRequest(n, newPeers[n][a].peer, newPeers[n][a].port,
                               localGroup[n], groups[n], box, timers)
      PROVE  RingsInv'
  <2> DEFINE p == newPeers[n][a].peer
             notif == NotifMsg(localGroup[n], n, Id(p), newPeers[n][a].port)
             succs == groups[n][localGroup[n]].succs
             after == Deliver(box, n, succs, notif)
  <2>1. p \in Peer /\ localGroup[n] \in GroupId
    BY <1>2, PendingType
  <2>2. groups[n] \in [GroupId -> Group] /\ localGroup[n] # NoGroup
    BY <2>1, NetworkAssumption DEF IInv, TypeOK
  <2>3. AcknowledgeJoin(n, p, localGroup[n], groups[n], after, succs, timers)
    BY <1>2 DEF AnswerJoinRequest
  <2>4. SoundAt(n, groups[n]) /\ Covered(groups[n][localGroup[n]], n)
    BY <2>2 DEF RingsInv
  <2> HIDE DEF p, after, succs
  <2>5. /\ SoundAt(n, groups'[n])
        /\ Covered(groups'[n][localGroup[n]], n)
        /\ \A r \in Node \ {n} : groups'[r] = groups[r]
    BY <2>1, <2>2, <2>3, <2>4, AcknowledgeJoinRings
  <2>6. QED
    BY <2>5, RingsOfOthers
<1>3. QED
  BY <1>1, <1>2 DEF CheckForNewPeers

\* The founder of a group is alone in its rings before the peer is answered.
LEMMA HandleJoinRings ==
    ASSUME IInv, RingsInv, NEW n \in Node, NEW p \in Peer, HandleJoin(n, p)
    PROVE  RingsInv'
<1> DEFINE gid == localGroup'[n]
           own == AddToRings(NewGroup, Local(n))
           gs == IF state[n] = "CONNECTED" THEN groups[n]
                 ELSE [groups[n] EXCEPT ![gid] = own]
<1>1. /\ gid \in GroupId
      /\ state[n] = "CONNECTED" => gid = localGroup[n]
      /\ \A r \in Node \ {n} : localGroup'[r] = localGroup[r]
  <2>1. CASE state[n] = "CONNECTED"
    <3>1. localGroup' = localGroup /\ localGroup[n] \in GroupId
      BY <2>1 DEF HandleJoin, IInv, TypeOK, LocalGroupKept, KeptAt
    <3>2. QED
      BY <3>1
  <2>2. CASE state[n] # "CONNECTED"
    <3> DEFINE new == NewGroupId(n)
    <3>1. /\ new \in GroupId
          /\ localGroup' = [localGroup EXCEPT ![n] = new]
      BY <2>2 DEF HandleJoin, FoundGroup
    <3> HIDE DEF new
    <3>2. QED
      BY <2>2, <3>1 DEF IInv, TypeOK
  <2>3. QED
    BY <2>1, <2>2
<1>2. own \in Group /\ Sound(own, n) /\ Covered(own, n)
  <2>1. Local(n) \in Peer
    BY DEF Local, Peer, PeerKind
  <2>2. NewGroup \in Group /\ Sound(NewGroup, n) /\ Covered(NewGroup, n)
    BY DEF NewGroup, Group, Sound, Covered, Neighbours, Ids
  <2>3. QED
    BY <2>1, <2>2, GroupOperationsType, GrowingKeepsSound,
       OperationsKeepCovered
<1>3. groups[n] \in [GroupId -> Group] /\ SoundAt(n, groups[n])
  BY DEF IInv, TypeOK, RingsInv
<1>4. gs \in [GroupId -> Group] /\ SoundAt(n, gs) /\ Covered(gs[gid], n)
  <2>1. CASE state[n] = "CONNECTED"
    <3>1. localGroup[n] # NoGroup
      BY <2>1, <1>1, NetworkAssumption
    <3>2. QED
      BY <2>1, <3>1, <1>1, <1>3 DEF RingsInv
  <2>2. CASE state[n] # "CONNECTED"
    <3> HIDE DEF gid, own
    <3>1. gs = [groups[n] EXCEPT ![gid] = own]
      BY <2>2
    <3> HIDE DEF gs
    <3>2. QED
      BY <3>1, <1>1, <1>2, <1>3 DEF SoundAt
  <2>3. QED
    BY <2>1, <2>2
<1>5. \/ AnswerJoinRequest(n, p, Id(p), gid, gs, Consume(n, p), joinTimers[n])
      \/ groups' = [groups EXCEPT ![n] = gs]
  BY DEF HandleJoin
<1>6. /\ SoundAt(n, groups'[n]) /\ Covered(groups'[n][gid], n)
      /\ \A r \in Node \ {n} : groups'[r] = groups[r]
  <2> HIDE DEF gs, gid
  <2>1. CASE groups' = [groups EXCEPT ![n] = gs]
    BY <2>1, <1>4 DEF IInv, TypeOK
  <2>2. CASE AnswerJoinRequest(n, p, Id(p), gid, gs, Consume(n, p),
                               joinTimers[n])
    <3> DEFINE succs == gs[gid].succs
               after == Deliver(Consume(n, p), n, succs,
                                NotifMsg(gid, n, Id(p), Id(p)))
    <3>1. AcknowledgeJoin(n, p, gid, gs, after, succs, joinTimers[n])
      BY <2>2 DEF AnswerJoinRequest
    <3>2. gid \in GroupId
      BY <1>1 DEF gid
    <3> HIDE DEF succs, after
    <3>3. QED
      BY <3>1, <3>2, <1>4, AcknowledgeJoinRings
  <2>3. QED
    BY <1>5, <2>1, <2>2
<1>7. QED
  BY <1>1, <1>6, RingsOfOthers

\* A member that calls a joining node updates its neighbours.
LEMMA HandleJoinNotifRings ==
    ASSUME IInv, RingsInv, NEW n \in Node, NEW p \in Peer, HandleJoinNotif(n, p)
    PROVE  RingsInv'
<1> DEFINE m == Head(inbox[n][p])
           q == <<m.peer, "called">>
           after == Deliver(Consume(n, p), n, Relays(n, m), m)
           written == Relays(n, m)
<1>1. m \in Message /\ m.type = "JOIN_NOTIF" /\ m.group = localGroup[n]
  BY ReadType DEF HandleJoinNotif, ReadsNotif, Reads, Ours, IInv
<1>2. m.group \in GroupId /\ q \in Peer
  BY <1>1, MessageFields DEF Peer, PeerKind
<1>3. /\ AcknowledgeJoin(n, q, m.group, groups[n], after, written, joinTimers[n])
      /\ localGroup' = localGroup
  BY DEF HandleJoinNotif
<1>4. /\ groups[n] \in [GroupId -> Group] /\ SoundAt(n, groups[n])
      /\ Covered(groups[n][m.group], n)
  BY <1>1, <1>2, NetworkAssumption DEF IInv, TypeOK, RingsInv
<1> HIDE DEF m, q, after, written
<1>5. /\ SoundAt(n, groups'[n]) /\ Covered(groups'[n][m.group], n)
      /\ \A r \in Node \ {n} : groups'[r] = groups[r]
  BY <1>2, <1>3, <1>4, AcknowledgeJoinRings
<1>6. QED
  BY <1>1, <1>3, <1>5, RingsOfOthers

\* An acknowledgement makes the rings of its group grow; those of a new group
\* have no neighbours yet.
LEMMA HandleJoinAckRings ==
    ASSUME IInv, RingsInv, NEW n \in Node, NEW p \in Peer, HandleJoinAck(n, p)
    PROVE  RingsInv'
<1> DEFINE h == Head(inbox[n][p]).group
           first == h \notin groupIds[n] /\ localGroup[n] = NoGroup
           g == CASE h \in groupIds[n] -> groups[n][h]
                  [] first -> NewGroup
                  [] OTHER -> AddGroupToRings(NewGroup, groups[n][localGroup[n]])
<1>1. h \in GroupId
  <2>1. Head(inbox[n][p]) \in Message /\ Head(inbox[n][p]).type = "JOIN_ACK"
    BY ReadType DEF HandleJoinAck, Reads, IInv
  <2>2. QED
    BY <2>1, MessageFields
<1>2. /\ groups' = [groups EXCEPT ![n][h] = AddPeer(g, p)]
      /\ \/ first /\ localGroup' = [localGroup EXCEPT ![n] = h]
         \/ ~first /\ localGroup' = localGroup
  BY DEF HandleJoinAck
<1>3. groups[n] \in [GroupId -> Group] /\ SoundAt(n, groups[n])
  BY DEF IInv, TypeOK, RingsInv
<1>4. NewGroup \in Group /\ Sound(NewGroup, n) /\ Covered(NewGroup, n)
  BY DEF NewGroup, Group, Sound, Covered, Neighbours, Ids
<1>5. g \in Group /\ Sound(g, n)
  <2>1. CASE h \in groupIds[n]
    BY <2>1, <1>1, <1>3 DEF SoundAt
  <2>2. CASE first
    BY <2>2, <1>4
  <2>3. CASE h \notin groupIds[n] /\ ~first
    <3> DEFINE other == groups[n][localGroup[n]]
    <3>1. other \in Group
      BY <2>3, <1>3 DEF IInv, TypeOK
    <3>2. /\ AddGroupToRings(NewGroup, other) \in Group
          /\ Neighbours(AddGroupToRings(NewGroup, other)) = {}
      BY <3>1, <1>4 DEF AddGroupToRings, NewGroup, Group, PutAll, Neighbours
    <3>3. Sound(AddGroupToRings(NewGroup, other), n)
      BY <3>2 DEF Sound, Ids
    <3>4. QED
      BY <2>3, <3>2, <3>3
  <2>4. QED
    BY <2>1, <2>2, <2>3
<1>6. h = localGroup'[n] => Covered(g, n)
  <2>1. CASE first
    BY <2>1, <1>4
  <2>2. CASE ~first
    <3>1. ASSUME h = localGroup[n]
          PROVE  Covered(g, n)
      BY <3>1, <1>1, NetworkAssumption
         DEF RingsInv, IInv, LocalGroupKept, KeptAt
    <3>2. QED
      BY <2>2, <3>1, <1>2
  <2>3. QED
    BY <2>1, <2>2
<1>7. h # localGroup'[n] => localGroup'[n] = localGroup[n]
  BY <1>2 DEF IInv, TypeOK
<1>8. /\ AddPeer(g, p) \in Group /\ Sound(AddPeer(g, p), n)
      /\ Covered(g, n) => Covered(AddPeer(g, p), n)
  <2> HIDE DEF g
  <2> QED
    BY <1>5, GroupOperationsType, GrowingKeepsSound, OperationsKeepCovered
<1> HIDE DEF h, g, first
<1>9. /\ groups'[n] = [groups[n] EXCEPT ![h] = AddPeer(g, p)]
      /\ \A r \in Node \ {n} : UNCHANGED <<groups[r], localGroup[r]>>
  BY <1>2 DEF IInv, TypeOK
<1>10. SoundAt(n, groups'[n])
  BY <1>1, <1>3, <1>8, <1>9 DEF SoundAt
<1>11. localGroup'[n] # NoGroup => Covered(groups'[n][localGroup'[n]], n)
  <2>1. CASE h = localGroup'[n]
    BY <2>1, <1>1, <1>3, <1>6, <1>8, <1>9
  <2>2. CASE h # localGroup'[n] /\ localGroup[n] # NoGroup
    <3>1. localGroup[n] \in GroupId
      BY <2>2 DEF IInv, TypeOK
    <3>2. groups'[n][localGroup[n]] = groups[n][localGroup[n]]
      BY <2>2, <3>1, <1>1, <1>3, <1>7, <1>9
    <3>3. QED
      BY <2>2, <3>2, <1>7 DEF RingsInv
  <2>3. QED
    BY <2>1, <2>2, <1>7
<1>12. QED
  BY <1>9, <1>10, <1>11, RingsOfOthers

\* A node that enters the rings looks for its neighbours there.
LEMMA HandleReadyRings ==
    ASSUME IInv, RingsInv, NEW n \in Node, NEW p \in Peer, HandleReady(n, p)
    PROVE  RingsInv'
<1> DEFINE entered == [g \in GroupId |->
                         IF g \in ToEnter(n) THEN EnterRings(groups[n][g], n)
                         ELSE groups[n][g]]
<1>1. groups' = [groups EXCEPT ![n] = entered] /\ localGroup' = localGroup
  BY DEF HandleReady
<1>2. groups[n] \in [GroupId -> Group]
  BY DEF IInv, TypeOK
<1>3. ASSUME NEW g \in GroupId
      PROVE  /\ Sound(EnterRings(groups[n][g], n), n)
             /\ Covered(groups[n][g], n) =>
                   Covered(EnterRings(groups[n][g], n), n)
  <2>1. Local(n) \in Peer
    BY DEF Local, Peer, PeerKind
  <2>2. groups[n][g] \in Group /\ AddToRings(groups[n][g], Local(n)) \in Group
    BY <2>1, <1>2, GroupOperationsType
  <2>3. QED
    BY <2>1, <2>2, UpdateNeighboursSound, OperationsKeepCovered DEF EnterRings
<1>4. SoundAt(n, entered)
  BY <1>3 DEF SoundAt, RingsInv
<1>5. localGroup[n] # NoGroup => Covered(entered[localGroup[n]], n)
  <2>1. localGroup[n] # NoGroup => localGroup[n] \in GroupId
    BY DEF IInv, TypeOK
  <2>2. QED
    BY <2>1, <1>3 DEF RingsInv
<1> HIDE DEF entered
<1>6. groups'[n] = entered /\ \A r \in Node \ {n} : groups'[r] = groups[r]
  BY <1>1 DEF IInv, TypeOK
<1>7. QED
  BY <1>1, <1>4, <1>5, <1>6, RingsOfOthers

\* A peer that leaves is a member of the groups whose neighbours are not looked
\* for again, or no neighbour in them.
LEMMA DisconnectRings ==
    ASSUME IInv, RingsInv, NEW n \in Node, NEW p \in Peer, HandleDisconnect(n, p)
    PROVE  RingsInv'
<1> DEFINE gs == IF Erasable(n, p) THEN GroupsWithout(n, p) ELSE groups[n]
<1>1. \/ /\ groups' = [groups EXCEPT ![n] = [g \in GroupId |-> NewGroup]]
         /\ localGroup' = [localGroup EXCEPT ![n] = NoGroup]
      \/ /\ groups' = [groups EXCEPT ![n] = gs]
         /\ localGroup' = localGroup
  BY DEF HandleDisconnect, LeaveGroups
<1>2. \A g \in GroupId : groups[n][g] \in Group /\ Sound(groups[n][g], n)
  BY DEF IInv, TypeOK, RingsInv, SoundAt
<1>3. localGroup[n] # NoGroup =>
         /\ localGroup[n] \in GroupId /\ localGroup[n] \in groupIds[n]
         /\ Covered(groups[n][localGroup[n]], n)
  BY DEF IInv, TypeOK, LocalGroupKept, KeptAt, RingsInv
<1>4. ASSUME NEW g \in GroupId
      PROVE  /\ Sound(GroupsWithout(n, p)[g], n)
             /\ g = localGroup[n] => Covered(GroupsWithout(n, p)[g], n)
  <2> DEFINE without == RemovePeer(groups[n][g], p)
  <2>1. groups[n][g] \in Group /\ without \in Group /\ Sound(groups[n][g], n)
    BY <1>2, GroupOperationsType
  <2>2. g = localGroup[n] => Covered(groups[n][g], n) /\ Covered(without, n)
    BY <2>1, <1>3, OperationsKeepCovered, NetworkAssumption
  <2>3. Covered(without, n) => Covered(UpdateNeighbours(without, n), n)
    <3> HIDE DEF without
    <3> QED BY <2>1, OperationsKeepCovered
  <2>4. Sound(UpdateNeighbours(without, n), n)
    <3> HIDE DEF without
    <3> QED BY <2>1, UpdateNeighboursSound
  <2>5. CASE g \in GroupsToUpdate(n, p)
    BY <2>2, <2>3, <2>4, <2>5 DEF GroupsWithout
  <2>6. CASE g \notin GroupsToUpdate(n, p) /\ g = localGroup[n]
    <3>1. ~HasMember(groups[n][g], p)
      BY <2>6, <1>3, NetworkAssumption DEF GroupsToUpdate
    <3>2. Sound(without, n)
      BY <3>1, <2>1, <2>2, <2>6, OutsiderIsNoNeighbour
    <3>3. GroupsWithout(n, p)[g] = without
      BY <2>6 DEF GroupsWithout
    <3>4. QED
      BY <3>2, <3>3, <2>2
  <2>7. CASE g \notin GroupsToUpdate(n, p) /\ g # localGroup[n]
    BY <2>1, <2>7 DEF GroupsWithout
  <2>8. QED
    BY <2>5, <2>6, <2>7
<1>5. /\ SoundAt(n, gs)
      /\ localGroup[n] # NoGroup => Covered(gs[localGroup[n]], n)
  BY <1>2, <1>3, <1>4 DEF SoundAt
<1> HIDE DEF gs
<1>6. CASE /\ groups' = [groups EXCEPT ![n] = gs]
           /\ localGroup' = localGroup
  <2>1. groups'[n] = gs /\ \A r \in Node \ {n} : groups'[r] = groups[r]
    BY <1>6 DEF IInv, TypeOK
  <2>2. QED
    BY <1>5, <1>6, <2>1, RingsOfOthers
<1>7. CASE /\ groups' = [groups EXCEPT ![n] = [g \in GroupId |-> NewGroup]]
           /\ localGroup' = [localGroup EXCEPT ![n] = NoGroup]
  <2>1. /\ groups'[n] = [g \in GroupId |-> NewGroup]
        /\ localGroup'[n] = NoGroup
        /\ \A r \in Node \ {n} : UNCHANGED <<groups[r], localGroup[r]>>
    BY <1>7 DEF IInv, TypeOK
  <2>2. SoundAt(n, groups'[n])
    BY <2>1 DEF SoundAt, Sound, NewGroup, Neighbours, Ids
  <2>3. QED
    BY <2>1, <2>2, RingsOfOthers
<1>8. QED
  BY <1>1, <1>6, <1>7

\* Every step keeps the neighbours in the rings.
LEMMA RingsStep == IInv /\ RingsInv /\ [Next]_vars => RingsInv'
<1> SUFFICES ASSUME IInv, RingsInv, [Next]_vars
             PROVE  RingsInv'
  OBVIOUS
<1> USE DEF groupVars
<1>1. ASSUME UNCHANGED <<groups, localGroup>>
      PROVE  RingsInv'
  BY <1>1 DEF RingsInv
<1>2. CASE UNCHANGED vars
  BY <1>1, <1>2 DEF vars
<1>3. ASSUME NEW n \in Node,
             \/ \E m \in JoinTo[n] : UIJoinConnect(n, m)
             \/ UIBroadcastCheck(n) \/ UIStep(n) \/ UISend(n) \/ Quit(n)
      PROVE  RingsInv'
  BY <1>1, <1>3
     DEF UIJoinConnect, UIBroadcastCheck, UIStep, UIJoinMark, UIJoinSend,
         UIJoinThrows, UIBroadcast, UIBroadcastLog, UIBroadcastCrash, UISend, Quit,
         Crash, Exit
<1>4. ASSUME NEW n \in Node, NEW p \in Peer, IOStep(n, p)
      PROVE  RingsInv'
  <2>1. CASE \/ Accept(n, p)
             \/ HandleDuplicate(n, p) \/ HandleMisrouted(n, p)
             \/ HandleData(n, p) \/ HandleForeignNotif(n, p)
             \/ HandleNotifRefused(n, p) \/ HandleReadyNotifThrows(n, p)
             \/ HandleReadyNotifCrash(n, p)
             \/ HandleDisconnectHangs(n, p) \/ HandleDisconnectCrash(n, p)
             \/ HandleReadError(n, p) \/ SendReady(n, p)
             \/ CompleteJoinCrash(n, p) \/ HandleText(n, p)
    BY <1>1, <2>1
       DEF HandleText, Accept, HandleDuplicate, HandleMisrouted, HandleData,
           HandleForeignNotif, HandleNotifRefused, HandleReadyNotifThrows,
           HandleReadyNotifCrash, HandleDisconnectHangs, HandleDisconnectCrash,
           HandleReadError, SendReady, CompleteJoinCrash, Crash, Exit
  <2>2. CASE HandleReadyNotif(n, p) \/ CompleteJoin(n, p)
    BY <2>2, CheckRings DEF HandleReadyNotif, CompleteJoin
  <2>3. QED
    BY <1>4, <2>1, <2>2, HandleJoinRings, HandleJoinNotifRings,
       HandleJoinAckRings, HandleReadyRings, DisconnectRings
       DEF IOStep, Receive, TimerExpires
<1>5. ASSUME NEW n \in Node, NEW p \in Peer, ReadTogether(n, p)
      PROVE  RingsInv'
  BY <1>1, <1>5 DEF ReadTogether
<1>6. QED
  BY <1>2, <1>3, <1>4, <1>5 DEF Next

\* A node relays only to other peers of the rings (update_neighbours), never to
\* the local Peer, which has no socket: also where handle_disconnect removes a
\* peer from the rings and does not look for the neighbours again.
THEOREM NeighboursAreInRings == Spec => []NeighboursInRings
<1>1. Init => RingsInv
  BY DEF Init, RingsInv, SoundAt, Sound, NewGroup, Neighbours, Ids
<1>2. IInv /\ RingsInv /\ [Next]_vars => RingsInv'
  BY RingsStep
<1>3. RingsInv => NeighboursInRings
  BY DEF RingsInv, SoundAt, Sound, NeighboursInRings
<1>4. QED
  BY <1>1, <1>2, <1>3, Invariant, PTL DEF Spec

-----------------------------------------------------------------------------
(* What is broadcast and what is logged                                    *)

\* Every data message on its way is one that its author has broadcast.
DataKnown(box) ==
    \A r \in Node, q \in Peer : \A m \in Range(box[r][q]) :
        m.type = "DATA" => m \in SentData(m.from)

\* So is every data message in a log, and no message of an author counts
\* further than the author has counted.
DataInv ==
    /\ DataKnown(inbox)
    /\ \A r \in Node : \A m \in logs[r] : m.type = "DATA" => m \in SentData(m.from)
    /\ \A r \in Node : \A m \in SentData(r) : m.seq <= Cardinality(SentData(r))

\* The refinement mapping
sentNow == [n \in Node |-> Cardinality(SentData(n))]
gotBy(n) == {<<m.from, m.seq>> : m \in {l \in logs[n] : l.type = "DATA"}}
gotNow == [n \in Node |-> gotBy(n)]

-----------------------------------------------------------------------------
(* What is on its way after a message is sent, read or lost                *)

LEMMA RangeOfSeq ==
    ASSUME NEW S, NEW ms \in Seq(S), NEW x
    PROVE  /\ x \in Range(ms) <=> \E i \in 1 .. Len(ms) : x = ms[i]
           /\ Range(Append(ms, x)) \subseteq Range(ms) \cup {x}
           /\ ms # <<>> => Head(ms) \in Range(ms) /\ Range(Tail(ms)) \subseteq Range(ms)
<1>1. x \in Range(ms) <=> \E i \in 1 .. Len(ms) : x = ms[i]
  BY DEF Range
<1>2. Range(Append(ms, x)) \subseteq Range(ms) \cup {x}
  <2>1. /\ DOMAIN Append(ms, x) = 1 .. Len(ms) + 1
        /\ \A i \in 1 .. Len(ms) + 1 :
              Append(ms, x)[i] = IF i = Len(ms) + 1 THEN x ELSE ms[i]
    OBVIOUS
  <2>2. QED
    BY <2>1 DEF Range
<1>3. ASSUME ms # <<>>
      PROVE  Head(ms) \in Range(ms) /\ Range(Tail(ms)) \subseteq Range(ms)
  <2>1. /\ Tail(ms) \in Seq(S) /\ Len(Tail(ms)) = Len(ms) - 1
        /\ \A i \in 1 .. Len(ms) - 1 : Tail(ms)[i] = ms[i + 1]
        /\ Head(ms) = ms[1] /\ Len(ms) >= 1
    BY <1>3
  <2>2. QED
    BY <2>1 DEF Range
<1>4. QED
  BY <1>1, <1>2, <1>3

\* Sending what is no data, or data its author has logged
LEMMA DeliverData ==
    ASSUME NEW box \in Inboxes, DataKnown(box), NEW n \in Node, NEW M,
           NEW m \in Message, m.type = "DATA" => m \in SentData(m.from)
    PROVE  DataKnown(Deliver(box, n, M, m))
<1> SUFFICES ASSUME NEW r \in Node, NEW q \in Peer,
                    NEW x \in Range(Deliver(box, n, M, m)[r][q]),
                    x.type = "DATA"
             PROVE  x \in SentData(x.from)
  BY DEF DataKnown
<1>1. /\ Deliver(box, n, M, m)[r][q] \in {box[r][q], Append(box[r][q], m)}
      /\ box[r][q] \in Seq(Message)
  BY DEF Deliver, Inboxes
<1>2. x \in Range(box[r][q]) \cup {m}
  BY <1>1, RangeOfSeq
<1>3. QED
  BY <1>2 DEF DataKnown

\* Reading a message, which is one that was on its way
LEMMA ConsumeData ==
    ASSUME IInv, DataInv, NEW n \in Node, NEW p \in Peer, inbox[n][p] # <<>>
    PROVE  /\ Consume(n, p) \in Inboxes /\ DataKnown(Consume(n, p))
           /\ Head(inbox[n][p]) \in Message
           /\ Head(inbox[n][p]).type = "DATA" =>
                 Head(inbox[n][p]) \in SentData(Head(inbox[n][p]).from)
<1>1. inbox[n][p] \in Seq(Message) /\ inbox \in Inboxes
  BY DEF IInv, TypeOK, Inboxes
<1>2. /\ Head(inbox[n][p]) \in Range(inbox[n][p])
      /\ Range(Tail(inbox[n][p])) \subseteq Range(inbox[n][p])
  BY <1>1, RangeOfSeq
<1>3. \A r \in Node, q \in Peer :
         Consume(n, p)[r][q] = IF r = n /\ q = p THEN Tail(inbox[n][p])
                               ELSE inbox[r][q]
  BY <1>1 DEF Consume, Inboxes
<1>4. DataKnown(Consume(n, p))
  BY <1>2, <1>3 DEF DataKnown, DataInv
<1>5. QED
  BY <1>2, <1>4, ReadType DEF DataKnown, DataInv, IInv

-----------------------------------------------------------------------------
(* The steps of the logs                                                   *)

\* A step that logs nothing, or a message that is no data or that its author
\* has broadcast, is a step of Broadcast that records it, or a stutter.
LEMMA RecordStep ==
    ASSUME IInv, DataInv, TypeOK', DataKnown(inbox'), NEW n \in Node,
           NEW m \in BCastMessage, m.type = "DATA" => m \in SentData(m.from),
           logs' = logs \/ logs' = [logs EXCEPT ![n] = @ \cup {m}],
           \/ outgoing' = outgoing
           \/ /\ logs' = [logs EXCEPT ![n] = @ \cup {m}]
              /\ outgoing[n] = {m} /\ outgoing' = [outgoing EXCEPT ![n] = {}]
    PROVE  /\ DataInv'
           /\ \/ UNCHANGED <<sentNow, gotNow>>
              \/ \E a \in Node : \E k \in 1 .. sentNow[a] :
                    /\ <<a, k>> \notin gotNow[n]
                    /\ gotNow' = [gotNow EXCEPT ![n] = @ \cup {<<a, k>>}]
                    /\ UNCHANGED sentNow
<1>1. /\ \A r \in Node : logs[r] \subseteq logs'[r] /\ logs'[r] \subseteq logs[r] \cup {m}
      /\ \A r \in Node \ {n} : logs'[r] = logs[r]
      /\ \A r \in Node : \A l \in logs'[r] \ logs[r] : l = m
  <2>1. logs \in [Node -> SUBSET BCastMessage]
    BY DEF IInv, TypeOK
  <2>2. CASE logs' = logs
    BY <2>2
  <2>3. CASE logs' = [logs EXCEPT ![n] = @ \cup {m}]
    <3>1. /\ logs'[n] = logs[n] \cup {m}
          /\ \A r \in Node \ {n} : logs'[r] = logs[r]
      BY <2>1, <2>3
    <3>2. QED
      BY <3>1
  <2>4. QED
    BY <2>2, <2>3
<1>2. \A r \in Node : SentData(r)' = SentData(r)
  <2>1. \A r \in Node :
           /\ logs[r] \cup outgoing[r] \subseteq logs'[r] \cup outgoing'[r]
           /\ \A l \in (logs'[r] \cup outgoing'[r]) \ (logs[r] \cup outgoing[r]) :
                 l = m
    BY <1>1 DEF IInv, TypeOK
  <2> SUFFICES ASSUME NEW r \in Node, NEW l \in logs'[r] \cup outgoing'[r],
                      l.type = "DATA", l.from = r
               PROVE  l \in SentData(r)
    BY <2>1 DEF SentData
  <2>2. CASE l = m
    BY <2>2
  <2>3. CASE l # m
    BY <2>1, <2>3 DEF SentData
  <2>4. QED
    BY <2>2, <2>3
<1>3. sentNow' = sentNow
  BY <1>2 DEF sentNow
<1>4. DataInv'
  <2>1. ASSUME NEW r \in Node, NEW l \in logs'[r], l.type = "DATA"
        PROVE  l \in SentData(l.from)'
    <3>1. l \in SentData(l.from)
      <4>1. CASE l = m
        BY <2>1, <4>1
      <4>2. CASE l # m
        BY <1>1, <2>1, <4>2 DEF DataInv
      <4>3. QED
        BY <4>1, <4>2
    <3>2. l.from \in Node
      BY <2>1, <1>1 DEF BCastMessage, IInv, TypeOK
    <3>3. QED
      BY <1>2, <3>1, <3>2
  <2>2. ASSUME NEW r \in Node, NEW q \in Peer, NEW x \in Range(inbox'[r][q]),
               x.type = "DATA"
        PROVE  x \in SentData(x.from)'
    <3>1. x \in SentData(x.from)
      BY <2>2 DEF DataKnown
    <3>2. x \in Message
      <4>1. inbox'[r][q] \in Seq(Message)
        BY DEF TypeOK
      <4>2. QED
        BY <4>1, RangeOfSeq
    <3>3. x.from \in Node
      BY <2>2, <3>2, MessageFields DEF BCastMessage
    <3>4. QED
      BY <1>2, <3>1, <3>3
  <2>3. QED
    BY <1>2, <2>1, <2>2 DEF DataInv, DataKnown
<1>5. CASE logs' = logs \/ m.type # "DATA"
  <2>1. \A r \in Node : {l \in logs'[r] : l.type = "DATA"} = {l \in logs[r] : l.type = "DATA"}
    BY <1>1, <1>5
  <2>2. gotNow' = gotNow
    BY <2>1 DEF gotNow, gotBy
  <2>3. QED
    BY <1>3, <1>4, <2>2
<1>6. CASE logs' = [logs EXCEPT ![n] = @ \cup {m}] /\ m.type = "DATA"
  <2>1. m.from \in Node /\ m.seq \in Nat \ {0} /\ m \in SentData(m.from)
    BY <1>6 DEF BCastMessage
  <2>2. m.seq <= Cardinality(SentData(m.from)) /\ Cardinality(SentData(m.from)) \in Nat
    BY <2>1, SentDataFinite DEF DataInv
  <2>3. m.seq \in 1 .. sentNow[m.from]
    BY <2>1, <2>2 DEF sentNow
  <2>4. gotBy(n)' = gotBy(n) \cup {<<m.from, m.seq>>}
    <3>1. {l \in logs'[n] : l.type = "DATA"} = {l \in logs[n] : l.type = "DATA"} \cup {m}
      BY <1>6 DEF IInv, TypeOK
    <3>2. QED
      BY <3>1 DEF gotBy
  <2>5. \A r \in Node \ {n} : gotBy(r)' = gotBy(r)
    BY <1>1 DEF gotBy
  <2>6. gotNow' = [gotNow EXCEPT ![n] = @ \cup {<<m.from, m.seq>>}]
    BY <2>4, <2>5 DEF gotNow
  <2>7. CASE <<m.from, m.seq>> \in gotNow[n]
    <3>1. gotBy(n)' = gotBy(n)
      BY <2>4, <2>7 DEF gotNow
    <3>2. gotNow' = gotNow
      BY <2>5, <3>1 DEF gotNow
    <3>3. QED
      BY <1>3, <1>4, <3>2
  <2>8. QED
    BY <1>3, <1>4, <2>1, <2>3, <2>6, <2>7
<1>7. QED
  BY <1>5, <1>6

-----------------------------------------------------------------------------
(* The steps of the system                                                 *)

\* What every step but the author's own does to the data
Recorded ==
    /\ DataKnown(inbox')
    /\ outgoing' = outgoing
    /\ \/ logs' = logs
       \/ \E n \in Node, m \in BCastMessage :
             /\ m.type = "DATA" => m \in SentData(m.from)
             /\ logs' = [logs EXCEPT ![n] = @ \cup {m}]

\* To answer a join request, which logs a JOIN Notification
LEMMA AnswerRecorded ==
    ASSUME IInv, NEW n \in Node, NEW p \in Peer,
           NEW port \in Node \cup {NoNode}, NEW gid \in GroupId, NEW gs,
           NEW box \in Inboxes, DataKnown(box), NEW timers,
           AnswerJoinRequest(n, p, port, gid, gs, box, timers),
           outgoing' = outgoing
    PROVE  Recorded
<1> DEFINE notif == NotifMsg(gid, n, Id(p), port)
           after == Deliver(box, n, gs[gid].succs, notif)
<1>1. /\ notif \in BCastMessage /\ notif \in Message /\ notif.type = "JOIN_NOTIF"
      /\ AckMsg(gid) \in Message /\ AckMsg(gid).type = "JOIN_ACK"
  BY EntryType, MessageTypes DEF NotifMsg, AckMsg
<1>2. /\ logs' = [logs EXCEPT ![n] = @ \cup {notif}]
      /\ inbox' = Deliver(after, n, {p}, AckMsg(gid))
  BY DEF AnswerJoinRequest, AcknowledgeJoin
<1> HIDE DEF notif
<1>3. after \in Inboxes /\ DataKnown(after)
  BY <1>1, DeliverType, DeliverData
<1> HIDE DEF after
<1>4. DataKnown(inbox')
  BY <1>1, <1>2, <1>3, DeliverData
<1>5. QED
  BY <1>1, <1>2, <1>4 DEF Recorded

\* To look for the next join request
LEMMA CheckRecorded ==
    ASSUME IInv, NEW n \in Node, NEW states, NEW box \in Inboxes,
           DataKnown(box), NEW timers, CheckForNewPeers(n, states, box, timers),
           outgoing' = outgoing
    PROVE  Recorded
<1>1. CASE ~DereferencesNull(n, states) /\ Pending(n, states) # {}
  <2>1. PICK a \in Pending(n, states) :
           AnswerJoinRequest(n, newPeers[n][a].peer, newPeers[n][a].port,
                             localGroup[n], groups[n], box, timers)
    BY <1>1 DEF CheckForNewPeers
  <2>2. QED
    BY <1>1, <2>1, PendingType, AnswerRecorded
<1>2. CASE inbox' = box /\ logs' = logs
  BY <1>2 DEF Recorded
<1>3. QED
  BY <1>1, <1>2 DEF CheckForNewPeers

\* A process that ends adds no data to what is on its way.
LEMMA ExitRecorded ==
    ASSUME IInv, DataInv, NEW n \in Node, NEW how, Exit(n, how)
    PROVE  Recorded
<1>1. logs' = logs /\ outgoing' = outgoing
  BY DEF Exit
<1>2. ASSUME NEW r \in Node, NEW q \in Peer, NEW m \in Range(inbox'[r][q]),
             m.type = "DATA"
      PROVE  m \in SentData(m.from)
  <2>1. inbox'[r][q] \in {inbox[r][q], Append(inbox[r][q], Eof),
                          Append(inbox[r][q], Rst)}
    BY DEF Exit
  <2>2. inbox[r][q] \in Seq(Message)
    BY DEF IInv, TypeOK
  <2>3. m \in Range(inbox[r][q]) \cup {Eof, Rst}
    <3>1. Range(Append(inbox[r][q], Eof)) \subseteq Range(inbox[r][q]) \cup {Eof}
      BY <2>2, RangeOfSeq
    <3>2. Range(Append(inbox[r][q], Rst)) \subseteq Range(inbox[r][q]) \cup {Rst}
      BY <2>2, RangeOfSeq
    <3>3. QED
      BY <2>1, <3>1, <3>2
  <2>4. m \in Range(inbox[r][q])
    BY <1>2, <2>3 DEF Eof, Rst
  <2>5. QED
    BY <1>2, <2>4 DEF DataInv, DataKnown
<1>3. DataKnown(inbox')
  BY <1>2 DEF DataKnown
<1>4. QED
  BY <1>1, <1>3 DEF Recorded

\* To log and to forward what was read
LEMMA ForwardRecorded ==
    ASSUME IInv, DataInv, NEW n \in Node, NEW p \in Peer,
           Reads(n, p, "JOIN_NOTIF") \/ Reads(n, p, "DATA")
    PROVE  LET m == Head(inbox[n][p])
               after == Deliver(Consume(n, p), n, Relays(n, m), m)
           IN  /\ after \in Inboxes /\ DataKnown(after)
               /\ LogForwarded(n, m) =>
                     \/ logs' = logs
                     \/ \E r \in Node, l \in BCastMessage :
                           /\ l.type = "DATA" => l \in SentData(l.from)
                           /\ logs' = [logs EXCEPT ![r] = @ \cup {l}]
<1> DEFINE m == Head(inbox[n][p])
           after == Deliver(Consume(n, p), n, Relays(n, m), m)
<1>1. /\ Consume(n, p) \in Inboxes /\ DataKnown(Consume(n, p))
      /\ m \in Message /\ (m.type = "DATA" => m \in SentData(m.from))
  BY ConsumeData DEF Reads
<1>2. m \in BCastMessage
  BY <1>1, MessageFields DEF Reads
<1> HIDE DEF m
<1>3. after \in Inboxes /\ DataKnown(after)
  BY <1>1, DeliverType, DeliverData
<1>4. LogForwarded(n, m) => logs' \in {logs, [logs EXCEPT ![n] = @ \cup {m}]}
  BY DEF LogForwarded
<1>5. QED
  BY <1>1, <1>2, <1>3, <1>4 DEF m

\* The commands other than broadcast
LEMMA UIRecorded ==
    ASSUME IInv, DataInv, NEW n \in Node
    PROVE  /\ \A m \in JoinTo[n] : UIJoinConnect(n, m) => Recorded
           /\ UIBroadcastCheck(n) => Recorded
           /\ UIJoinMark(n) => Recorded
           /\ UIJoinSend(n) => Recorded
           /\ UIJoinThrows(n) => Recorded
           /\ UIBroadcastCrash(n) => Recorded
           /\ UISend(n) => Recorded
           /\ Quit(n) => Recorded
<1>1. inbox \in Inboxes /\ DataKnown(inbox)
  BY DEF IInv, TypeOK, Inboxes, DataInv
<1>2. ASSUME UNCHANGED <<logs, inbox, outgoing>>
      PROVE  Recorded
  BY <1>1, <1>2 DEF Recorded, DataKnown
<1>3. {JoinMsg, Text} \subseteq Message /\ JoinMsg.type # "DATA" /\ Text.type # "DATA"
  BY DEF Message, JoinMsg, Text
<1>4. ASSUME UIJoinSend(n)
      PROVE  Recorded
  <2>1. /\ logs' = logs /\ outgoing' = outgoing
        /\ inbox' = Deliver(inbox, n, {<<entry[n], "entry">>}, JoinMsg)
    BY <1>4 DEF UIJoinSend
  <2>2. DataKnown(inbox')
    BY <1>1, <1>3, <2>1, DeliverData
  <2>3. QED
    BY <2>1, <2>2 DEF Recorded
<1>5. ASSUME UISend(n)
      PROVE  Recorded
  <2>1. /\ logs' = logs /\ outgoing' = outgoing
        /\ \E M : inbox' = Deliver(inbox, n, M, Text)
    BY <1>5 DEF UISend, procVars
  <2>2. DataKnown(inbox')
    BY <1>1, <1>3, <2>1, DeliverData
  <2>3. QED
    BY <2>1, <2>2 DEF Recorded
<1>6. ASSUME UIJoinThrows(n)
      PROVE  Recorded
  <2> DEFINE e == <<entry[n], "entry">>
  <2>1. /\ logs' = logs /\ outgoing' = outgoing
        /\ inbox' = [inbox EXCEPT ![n][e] = <<>>]
    BY <1>6 DEF UIJoinThrows
  <2> HIDE DEF e
  <2>2. \A r \in Node, q \in Peer : inbox'[r][q] = inbox[r][q] \/ inbox'[r][q] = <<>>
    BY <1>1, <2>1 DEF Inboxes
  <2>3. Range(<<>>) = {}
    BY DEF Range
  <2>4. DataKnown(inbox')
    BY <1>1, <2>2, <2>3 DEF DataKnown
  <2>5. QED
    BY <2>1, <2>4 DEF Recorded
<1>7. QED
  BY <1>2, <1>4, <1>5, <1>6, ExitRecorded
     DEF UIJoinConnect, UIBroadcastCheck, UIJoinMark, UIBroadcastCrash, Quit,
         Crash, netVars

\* The handlers of the io_service thread
LEMMA IORecorded ==
    ASSUME IInv, DataInv, NEW n \in Node, NEW p \in Peer, IOStep(n, p)
    PROVE  Recorded
<1> USE DEF procVars
<1>1. inbox \in Inboxes /\ DataKnown(inbox)
  BY DEF IInv, TypeOK, Inboxes, DataInv
<1>2. ASSUME logs' = logs, outgoing' = outgoing, inbox' = inbox
      PROVE  Recorded
  BY <1>1, <1>2 DEF Recorded, DataKnown
<1>3. ASSUME logs' = logs, outgoing' = outgoing, inbox[n][p] # <<>>, inbox' = Consume(n, p)
      PROVE  Recorded
  BY <1>3, ConsumeData DEF Recorded, DataKnown
<1>4. CASE \/ Accept(n, p) \/ HandleDisconnectHangs(n, p)
  BY <1>2, <1>4 DEF Accept, HandleDisconnectHangs, netVars
<1>5. CASE \/ HandleMisrouted(n, p) \/ HandleReadyNotifCrash(n, p)
           \/ HandleDisconnectCrash(n, p) \/ CompleteJoinCrash(n, p)
  BY <1>5, ExitRecorded
     DEF HandleMisrouted, HandleReadyNotifCrash, HandleDisconnectCrash,
         CompleteJoinCrash, Crash
<1>6. CASE \/ HandleDuplicate(n, p) \/ HandleJoinAck(n, p)
           \/ HandleReadyNotifThrows(n, p) \/ HandleText(n, p)
           \/ HandleDisconnect(n, p) \/ HandleReadError(n, p)
  BY <1>3, <1>6
     DEF HandleDuplicate, HandleJoinAck, HandleReadyNotifThrows, HandleText,
         HandleDisconnect, HandleReadError, Reads
<1>7. CASE HandleJoin(n, p)
  <2>1. inbox[n][p] # <<>>
    BY <1>7 DEF HandleJoin, Reads
  <2>2. Consume(n, p) \in Inboxes /\ DataKnown(Consume(n, p))
    BY <2>1, ConsumeData
  <2>3. localGroup'[n] \in GroupId
    <3>1. CASE state[n] = "CONNECTED"
      BY <1>7, <3>1 DEF HandleJoin, IInv, TypeOK, LocalGroupKept, KeptAt
    <3>2. CASE state[n] # "CONNECTED"
      <4>1. /\ NewGroupId(n) \in GroupId
            /\ localGroup' = [localGroup EXCEPT ![n] = NewGroupId(n)]
        BY <1>7, <3>2 DEF HandleJoin, FoundGroup
      <4>2. QED
        BY <4>1 DEF IInv, TypeOK
    <3>3. QED
      BY <3>1, <3>2
  <2>4. \/ \E gs : AnswerJoinRequest(n, p, Id(p), localGroup'[n], gs,
                                     Consume(n, p), joinTimers[n])
        \/ inbox' = Consume(n, p) /\ logs' = logs
    BY <1>7 DEF HandleJoin
  <2>5. outgoing' = outgoing
    BY <1>7 DEF HandleJoin
  <2>6. QED
    BY <1>3, <2>1, <2>2, <2>3, <2>4, <2>5, EntryType, AnswerRecorded
<1>8. CASE HandleData(n, p) \/ HandleForeignNotif(n, p) \/ HandleNotifRefused(n, p)
  <2> DEFINE m == Head(inbox[n][p])
  <2>1. /\ Reads(n, p, "JOIN_NOTIF") \/ Reads(n, p, "DATA")
        /\ LogForwarded(n, m) /\ outgoing' = outgoing
        /\ inbox' = Deliver(Consume(n, p), n, Relays(n, m), m)
    BY <1>8 DEF HandleData, HandleForeignNotif, HandleNotifRefused, ReadsNotif
  <2>2. QED
    BY <2>1, ForwardRecorded DEF Recorded
<1>9. CASE HandleJoinNotif(n, p)
  <2> DEFINE m == Head(inbox[n][p])
             after == Deliver(Consume(n, p), n, Relays(n, m), m)
  <2>1. /\ Reads(n, p, "JOIN_NOTIF") /\ LogForwarded(n, m)
        /\ outgoing' = outgoing
        /\ inbox' = Deliver(after, n, {<<m.peer, "called">>}, AckMsg(m.group))
    BY <1>9 DEF HandleJoinNotif, ReadsNotif, AcknowledgeJoin
  <2>2. AckMsg(m.group) \in Message /\ AckMsg(m.group).type = "JOIN_ACK"
    BY <2>1, ForwardType DEF AckMsg, Message
  <2>3. after \in Inboxes /\ DataKnown(after)
    BY <2>1, ForwardRecorded
  <2> HIDE DEF after
  <2>4. DataKnown(inbox')
    BY <2>1, <2>2, <2>3, DeliverData
  <2>5. QED
    BY <2>1, <2>4, ForwardRecorded DEF Recorded
<1>10. CASE HandleReady(n, p) \/ SendReady(n, p)
  <2>1. /\ logs' = logs /\ outgoing' = outgoing
        /\ \E M : \/ /\ inbox[n][p] # <<>>
                     /\ inbox' = Deliver(Consume(n, p), n, M, ReadyNotifMsg)
                  \/ inbox' = Deliver(inbox, n, M, ReadyMsg)
    BY <1>10 DEF HandleReady, SendReady, Reads
  <2>2. /\ {ReadyMsg, ReadyNotifMsg} \subseteq Message
        /\ ReadyMsg.type # "DATA" /\ ReadyNotifMsg.type # "DATA"
    BY DEF Message, ReadyMsg, ReadyNotifMsg
  <2>3. DataKnown(inbox')
    BY <1>1, <2>1, <2>2, ConsumeData, DeliverData
  <2>4. QED
    BY <2>1, <2>3 DEF Recorded
<1>11. CASE HandleReadyNotif(n, p) \/ CompleteJoin(n, p)
  <2>1. \E box, states, timers :
           /\ \/ box = inbox
              \/ box = Consume(n, p) /\ inbox[n][p] # <<>>
           /\ CheckForNewPeers(n, states, box, timers)
           /\ outgoing' = outgoing
    BY <1>11 DEF HandleReadyNotif, CompleteJoin, Reads
  <2>2. QED
    BY <1>1, <2>1, ConsumeData, CheckRecorded
<1>12. QED
  BY <1>4, <1>5, <1>6, <1>7, <1>8, <1>9, <1>10, <1>11
     DEF IOStep, Receive, TimerExpires

\* Two messages read at once are one that is kept and one that is lost.
LEMMA ReadTogetherRecorded ==
    ASSUME IInv, DataInv, NEW n \in Node, NEW p \in Peer, ReadTogether(n, p)
    PROVE  Recorded
<1> DEFINE left == JoinedWithNext(inbox[n][p])
<1>1. /\ logs' = logs /\ outgoing' = outgoing
      /\ inbox' = [inbox EXCEPT ![n][p] = left]
      /\ Len(inbox[n][p]) >= 2
  BY DEF ReadTogether, procVars
<1>2. Range(left) \subseteq Range(inbox[n][p])
  BY <1>1, JoinedType DEF IInv, TypeOK
<1> HIDE DEF left
<1>3. \A r \in Node, q \in Peer : Range(inbox'[r][q]) \subseteq Range(inbox[r][q])
  BY <1>1, <1>2 DEF IInv, TypeOK
<1>4. QED
  BY <1>1, <1>3 DEF Recorded, DataKnown, DataInv

-----------------------------------------------------------------------------
\* broadcast_data numbers a message and sends it, before it is logged: a Send of
\* Broadcast.
LEMMA SendStep ==
    ASSUME IInv, DataInv, TypeOK', NEW n \in Node, UIBroadcast(n)
    PROVE  /\ DataInv'
           /\ sentNow' = [sentNow EXCEPT ![n] = @ + 1]
           /\ gotNow' = gotNow
<1> DEFINE k == Cardinality(SentData(n)) + 1
           data == DataMsg(localGroup[n], n, k)
<1>1. IsFiniteSet(SentData(n)) /\ Cardinality(SentData(n)) \in Nat
  BY SentDataFinite
<1>2. k \in Nat \ {0}
  BY <1>1
<1>3. /\ data.type = "DATA" /\ data.from = n /\ data.seq = k
      /\ data \in BCastMessage \cap Message
  <2>1. localGroup[n] \in GroupId
    BY DEF UIBroadcast, IInv, TypeOK
  <2> HIDE DEF k
  <2>2. QED
    BY <1>2, <2>1, MessageTypes DEF DataMsg
<1>4. /\ logs' = logs
      /\ outgoing' = [outgoing EXCEPT ![n] = {data}]
      /\ \E M : inbox' = Deliver(inbox, n, M, data)
  BY DEF UIBroadcast
<1>5. data \notin SentData(n)
  BY <1>1, <1>3 DEF DataInv
<1> HIDE DEF data
<1>6. /\ \A r \in Node \ {n} : outgoing'[r] = outgoing[r]
      /\ outgoing[n] = {} /\ outgoing'[n] = {data}
  <2>1. outgoing[n] = {}
    BY DEF IInv, OutgoingKept, OutgoingAt, UIBroadcast
  <2>2. outgoing \in [Node -> SUBSET BCastMessage]
    BY DEF IInv, TypeOK
  <2>3. QED
    BY <1>4, <2>1, <2>2
<1>7. /\ \A r \in Node \ {n} : SentData(r)' = SentData(r)
      /\ SentData(n)' = SentData(n) \cup {data}
  BY <1>3, <1>4, <1>6 DEF SentData
<1>8. Cardinality(SentData(n)') = k
  BY <1>1, <1>5, <1>7, FS_AddElement
<1>9. sentNow' = [sentNow EXCEPT ![n] = @ + 1]
  BY <1>7, <1>8 DEF sentNow
<1>10. gotNow' = gotNow
  BY <1>4 DEF gotNow, gotBy
<1>11. ASSUME NEW x, x.from \in Node, x \in SentData(x.from) \cup {data}
       PROVE  x \in SentData(x.from)'
  <2>1. CASE x = data
    <3>1. x.from = n
      BY <1>3, <2>1
    <3>2. x \in SentData(n)'
      BY <1>7, <2>1
    <3>3. QED
      BY <3>1, <3>2
  <2>2. CASE x \in SentData(x.from)
    <3>1. CASE x.from = n
      <4>1. x \in SentData(n)'
        BY <1>7, <2>2, <3>1
      <4>2. QED
        BY <3>1, <4>1
    <3>2. CASE x.from # n
      BY <1>7, <1>11, <2>2, <3>2
    <3>3. QED
      BY <3>1, <3>2
  <2>3. QED
    BY <1>11, <2>1, <2>2
<1>12. DataInv'
  <2>1. ASSUME NEW r \in Node, NEW l \in logs'[r], l.type = "DATA"
        PROVE  l \in SentData(l.from)'
    <3>1. l \in SentData(l.from) /\ l.from \in Node
      BY <1>4, <2>1 DEF DataInv, BCastMessage, IInv, TypeOK
    <3>2. QED
      BY <1>11, <3>1
  <2>2. ASSUME NEW r \in Node, NEW q \in Peer, NEW x \in Range(inbox'[r][q]),
               x.type = "DATA"
        PROVE  x \in SentData(x.from)'
    <3>1. /\ inbox'[r][q] \in {inbox[r][q], Append(inbox[r][q], data)}
          /\ inbox[r][q] \in Seq(Message)
      BY <1>4 DEF Deliver, IInv, TypeOK
    <3>2. x \in Range(inbox[r][q]) \cup {data}
      BY <3>1, RangeOfSeq
    <3>3. CASE x = data
      <4>1. x.from \in Node
        BY <1>3, <3>3
      <4>2. QED
        BY <1>11, <3>3, <4>1
    <3>4. CASE x # data
      <4>1. x \in SentData(x.from) /\ x \in Message
        BY <2>2, <3>1, <3>2, <3>4, RangeOfSeq DEF DataInv, DataKnown
      <4>2. x.from \in Node
        BY <2>2, <4>1, MessageFields DEF BCastMessage
      <4>3. QED
        BY <1>11, <4>1, <4>2
    <3>5. QED
      BY <3>3, <3>4
  <2>3. \A r \in Node \ {n} : \A m \in SentData(r)' : m.seq <= Cardinality(SentData(r)')
    BY <1>7 DEF DataInv
  <2>4. \A m \in SentData(n)' : m.seq <= Cardinality(SentData(n)')
    <3> SUFFICES ASSUME NEW m \in SentData(n) \cup {data}
                 PROVE  m.seq <= k
      BY <1>7, <1>8
    <3>1. CASE m = data
      BY <1>2, <1>3, <3>1
    <3>2. CASE m \in SentData(n)
      <4>1. m.seq <= Cardinality(SentData(n))
        BY <3>2 DEF DataInv
      <4>2. m.seq \in Nat
        BY <3>2 DEF SentData, BCastMessage, IInv, TypeOK
      <4>3. QED
        BY <1>1, <4>1, <4>2
    <3>3. QED
      BY <3>1, <3>2
  <2>5. QED
    BY <2>1, <2>2, <2>3, <2>4 DEF DataInv, DataKnown
<1>13. QED
  BY <1>9, <1>10, <1>12

\* What RecordStep concludes: a Record of Broadcast, or a stutter
RecordsOne ==
    \/ UNCHANGED <<sentNow, gotNow>>
    \/ \E n, a \in Node : \E k \in 1 .. sentNow[a] :
          /\ <<a, k>> \notin gotNow[n]
          /\ gotNow' = [gotNow EXCEPT ![n] = @ \cup {<<a, k>>}]
          /\ UNCHANGED sentNow

\* A step in which nobody has sent
LEMMA RecordedStep ==
    ASSUME IInv, DataInv, TypeOK', Recorded
    PROVE  DataInv' /\ RecordsOne
<1>1. CASE logs' = logs
  <2>1. \A x : SentData(x)' = SentData(x) /\ gotBy(x)' = gotBy(x)
    BY <1>1 DEF SentData, gotBy, Recorded
  <2>2. UNCHANGED <<sentNow, gotNow>>
    BY <2>1 DEF sentNow, gotNow
  <2>3. DataInv'
    BY <1>1, <2>1 DEF Recorded, DataInv, DataKnown
  <2>4. QED
    BY <2>2, <2>3 DEF RecordsOne
<1>2. CASE logs' # logs
  <2>1. PICK n \in Node, m \in BCastMessage :
           /\ m.type = "DATA" => m \in SentData(m.from)
           /\ logs' = [logs EXCEPT ![n] = @ \cup {m}]
    BY <1>2 DEF Recorded
  <2>2. DataKnown(inbox') /\ outgoing' = outgoing
    BY DEF Recorded
  <2>3. QED
    BY <2>1, <2>2, RecordStep DEF RecordsOne
<1>3. QED
  BY <1>1, <1>2

\* The author logs what it has sent, like the others.
LEMMA LogStep ==
    ASSUME IInv, DataInv, TypeOK', NEW n \in Node, UIBroadcastLog(n)
    PROVE  DataInv' /\ RecordsOne
<1>1. /\ logs' = [logs EXCEPT ![n] = @ \cup outgoing[n]]
      /\ outgoing' = [outgoing EXCEPT ![n] = {}]
      /\ inbox' = inbox
  BY DEF UIBroadcastLog, netVars
<1>2. DataKnown(inbox')
  BY <1>1 DEF DataInv, DataKnown
<1>3. CASE outgoing[n] = {}
  <2>1. outgoing' = outgoing /\ logs' = logs
    BY <1>1, <1>3 DEF IInv, TypeOK
  <2>2. Recorded
    BY <1>2, <2>1 DEF Recorded
  <2>3. QED
    BY <2>2, RecordedStep
<1>4. CASE outgoing[n] # {}
  <2>1. PICK m \in BCastMessage : outgoing[n] = {m} /\ m.type = "DATA" /\ m.from = n
    BY <1>4 DEF IInv, OutgoingKept, OutgoingAt
  <2>2. m \in SentData(m.from)
    BY <2>1 DEF SentData
  <2>3. logs' = [logs EXCEPT ![n] = @ \cup {m}]
    BY <1>1, <2>1
  <2>4. /\ logs' = [logs EXCEPT ![n] = @ \cup {m}]
        /\ outgoing[n] = {m} /\ outgoing' = [outgoing EXCEPT ![n] = {}]
    BY <1>1, <2>1, <2>3
  <2>5. /\ DataInv'
        /\ \/ UNCHANGED <<sentNow, gotNow>>
           \/ \E a \in Node : \E k \in 1 .. sentNow[a] :
                 /\ <<a, k>> \notin gotNow[n]
                 /\ gotNow' = [gotNow EXCEPT ![n] = @ \cup {<<a, k>>}]
                 /\ UNCHANGED sentNow
    BY <1>2, <2>1, <2>2, <2>4, RecordStep
  <2>6. QED
    BY <2>5 DEF RecordsOne
<1>5. QED
  BY <1>3, <1>4

\* Every step keeps the invariant and is a step of Broadcast, or none.
LEMMA BroadcastStep ==
    ASSUME IInv, DataInv, TypeOK', [Next]_vars
    PROVE  DataInv' /\ [DataBroadcast!Next]_(DataBroadcast!vars)
<1>1. ASSUME RecordsOne
      PROVE  [DataBroadcast!Next]_(DataBroadcast!vars)
  <2>1. CASE UNCHANGED <<sentNow, gotNow>>
    BY <2>1 DEF DataBroadcast!vars, sentNow, gotNow, gotBy
  <2>2. ASSUME NEW n \in Node, NEW a \in Node, NEW k \in 1 .. sentNow[a],
               <<a, k>> \notin gotNow[n],
               gotNow' = [gotNow EXCEPT ![n] = @ \cup {<<a, k>>}],
               UNCHANGED sentNow
        PROVE  DataBroadcast!Next
    <3>1. DataBroadcast!Record(n, a, k)
      BY <2>2 DEF DataBroadcast!Record, sentNow, gotNow, gotBy
    <3>2. QED
      BY <2>2, <3>1 DEF DataBroadcast!Next, sentNow
  <2>3. QED
    BY <1>1, <2>1, <2>2 DEF RecordsOne
<1>2. CASE UNCHANGED vars
  <2>1. Recorded
    BY <1>2 DEF vars, procVars, netVars, Recorded, DataInv, DataKnown
  <2>2. QED
    BY <1>1, <2>1, RecordedStep
<1>3. CASE \E n \in Node : UIBroadcast(n)
  <2>1. PICK n \in Node : UIBroadcast(n)
    BY <1>3
  <2>2. DataInv' /\ DataBroadcast!Send(n)
    BY <2>1, SendStep DEF DataBroadcast!Send, sentNow, gotNow, gotBy
  <2>3. QED
    BY <2>2 DEF DataBroadcast!Next
<1>4. CASE \E n \in Node : UIBroadcastLog(n)
  BY <1>1, <1>4, LogStep
<1>5. CASE /\ Next
           /\ ~ \E n \in Node : UIBroadcast(n) \/ UIBroadcastLog(n)
  <2>1. Recorded
    BY <1>5, UIRecorded, IORecorded, ReadTogetherRecorded DEF Next, UIStep
  <2>2. QED
    BY <1>1, <2>1, RecordedStep
<1>6. QED
  BY <1>2, <1>3, <1>4, <1>5

\* Nothing has been sent at first.
LEMMA BroadcastInit == Init => DataInv /\ DataBroadcast!Init
<1> SUFFICES ASSUME Init
             PROVE  DataInv /\ DataBroadcast!Init
  OBVIOUS
<1>1. \A n \in Node : logs[n] = {} /\ SentData(n) = {}
  BY DEF Init, SentData
<1>2. Range(<<>>) = {}
  BY DEF Range
<1>3. DataInv
  BY <1>1, <1>2 DEF Init, DataInv, DataKnown
<1>4. DataBroadcast!Init
  BY <1>1, FS_EmptySet DEF DataBroadcast!Init
<1>5. QED
  BY <1>3, <1>4

\* The system implements Broadcast: whoever relays, whatever is lost and whoever
\* leaves, a node logs only what its author has broadcast, each message once
\* (broadcast_data, broadcast, log_message).
THEOREM BroadcastIsImplemented == Spec => ImplementsBroadcast
<1>1. Init => DataInv /\ DataBroadcast!Init
  BY BroadcastInit
<1>2. IInv => TypeOK
  BY DEF IInv
<1>3. IInv /\ TypeOK' /\ DataInv /\ [Next]_vars
         => DataInv' /\ [DataBroadcast!Next]_(DataBroadcast!vars)
  BY BroadcastStep
<1>4. QED
  BY <1>1, <1>2, <1>3, Invariant, PTL DEF Spec, ImplementsBroadcast, DataBroadcast!Spec

-----------------------------------------------------------------------------
(* The peer maps of the system are maps                                    *)

\* What module Ring says of a peer map goes for the members and the rings of a
\* group.
Mapped(g) == IsPeerMap(g.members) /\ IsPeerMap(g.ring)

MapsInv ==
    \A n \in Node :
        IsPeerMap(peers[n]) /\ \A g \in GroupId : Mapped(groups[n][g])

\* insert keeps a map one, and so does entering every peer of another.
LEMMA InsertIsPeerMap ==
    ASSUME NEW R, IsPeerMap(R), NEW S, IsPeerMap(S), NEW p \in Peer
    PROVE  IsPeerMap(InsertNew(R, p)) /\ IsPeerMap(PutAll(R, S))
<1>1. IsPeerMap(InsertNew(R, p))
  BY DEF IsPeerMap, InsertNew, Ids
<1>2. IsPeerMap(PutAll(R, S))
  BY DEF IsPeerMap, PutAll, Ids
<1>3. QED
  BY <1>1, <1>2

\* Each operation of Group leaves maps behind.
LEMMA OperationsKeepMapped ==
    ASSUME NEW g \in Group, Mapped(g), NEW h \in Group, Mapped(h),
           NEW p \in Peer, NEW n \in Node
    PROVE  /\ Mapped(AddToRings(g, p))
           /\ Mapped(AddGroupToRings(g, h))
           /\ Mapped(AddPeer(g, p))
           /\ Mapped(RemovePeer(g, p))
           /\ Mapped(UpdateNeighbours(g, n))
<1>1. /\ AddToRings(g, p).ring = Put(g.ring, p)
      /\ AddToRings(g, p).members = g.members
      /\ AddPeer(g, p).ring = Put(g.ring, p)
      /\ AddPeer(g, p).members = InsertNew(g.members, p)
  BY DEF AddToRings, AddPeer, Group
<1>2. /\ AddGroupToRings(g, h).ring = PutAll(g.ring, h.members)
      /\ AddGroupToRings(g, h).members = g.members
      /\ RemovePeer(g, p).ring = EraseId(g.ring, Id(p))
      /\ RemovePeer(g, p).members = EraseId(g.members, Id(p))
  BY DEF AddGroupToRings, RemovePeer, Group
<1>3. /\ UpdateNeighbours(g, n).ring = g.ring
      /\ UpdateNeighbours(g, n).members = g.members
  BY DEF UpdateNeighbours, Group
<1>4. Id(p) \in Node
  BY DEF Id, Peer
<1>5. QED
  BY <1>1, <1>2, <1>3, <1>4, PutIsPeerMap, EraseIsPeerMap, InsertIsPeerMap
     DEF Mapped

LEMMA NewIsMapped == NewGroup \in Group /\ Mapped(NewGroup)
  BY DEF NewGroup, Group, Mapped, IsPeerMap

\* A step of node n leaves the others' maps alone.
LEMMA MapsOfOthers ==
    ASSUME MapsInv, NEW n \in Node, IsPeerMap(peers'[n]),
           \A g \in GroupId : Mapped(groups'[n][g]),
           \A r \in Node \ {n} : UNCHANGED <<peers[r], groups[r]>>
    PROVE  MapsInv'
  BY DEF MapsInv, Mapped

\* acknowledge_join adds one peer to peers and to one group.
LEMMA AcknowledgeMapped ==
    ASSUME IInv, MapsInv, NEW n \in Node, NEW p \in Peer, NEW gid \in GroupId,
           NEW gs \in [GroupId -> Group], \A g \in GroupId : Mapped(gs[g]),
           NEW box, NEW written, NEW timers,
           AcknowledgeJoin(n, p, gid, gs, box, written, timers)
    PROVE  MapsInv'
<1> DEFINE added == AddPeer(gs[gid], p)
           g == UpdateNeighbours(added, n)
<1>1. added \in Group /\ Mapped(added)
  BY GroupOperationsType, OperationsKeepMapped
<1>2. Mapped(g)
  <2> HIDE DEF added
  <2> QED
    BY <1>1, OperationsKeepMapped, NewIsMapped
<1>3. /\ groups' = [groups EXCEPT ![n] = [gs EXCEPT ![gid] = g]]
      /\ peers' = [peers EXCEPT ![n] = Put(@, p)]
  BY DEF AcknowledgeJoin
<1> HIDE DEF g
<1>4. /\ groups'[n] = [gs EXCEPT ![gid] = g]
      /\ peers'[n] = Put(peers[n], p)
      /\ \A r \in Node \ {n} : UNCHANGED <<peers[r], groups[r]>>
  BY <1>3 DEF IInv, TypeOK
<1>5. IsPeerMap(peers'[n])
  BY <1>4, PutIsPeerMap DEF MapsInv
<1>6. \A k \in GroupId : Mapped(groups'[n][k])
  BY <1>2, <1>4
<1>7. QED
  BY <1>4, <1>5, <1>6, MapsOfOthers

LEMMA AnswerMapped ==
    ASSUME IInv, MapsInv, NEW n \in Node, NEW p \in Peer, NEW port,
           NEW gid \in GroupId, NEW gs \in [GroupId -> Group],
           \A g \in GroupId : Mapped(gs[g]), NEW box, NEW timers,
           AnswerJoinRequest(n, p, port, gid, gs, box, timers)
    PROVE  MapsInv'
<1> DEFINE succs == gs[gid].succs
           after == Deliver(box, n, succs, NotifMsg(gid, n, Id(p), port))
<1>1. AcknowledgeJoin(n, p, gid, gs, after, succs, timers)
  BY DEF AnswerJoinRequest
<1> HIDE DEF succs, after
<1>2. QED
  BY <1>1, AcknowledgeMapped

\* check_for_new_peers lets a peer in the local group, or changes no map.
LEMMA CheckMapped ==
    ASSUME IInv, MapsInv, NEW n \in Node, NEW states, NEW box, NEW timers,
           CheckForNewPeers(n, states, box, timers)
    PROVE  MapsInv'
<1>1. CASE UNCHANGED <<peers, groups>>
  BY <1>1 DEF MapsInv, Mapped
<1>2. ASSUME NEW a \in Pending(n, states),
             AnswerJoinRequest(n, newPeers[n][a].peer, newPeers[n][a].port,
                               localGroup[n], groups[n], box, timers),
             ~DereferencesNull(n, states)
      PROVE  MapsInv'
  <2>1. newPeers[n][a].peer \in Peer /\ localGroup[n] \in GroupId
    BY <1>2, PendingType
  <2>2. /\ groups[n] \in [GroupId -> Group]
        /\ \A g \in GroupId : Mapped(groups[n][g])
    BY DEF IInv, TypeOK, MapsInv
  <2>3. QED
    BY <1>2, <2>1, <2>2, AnswerMapped
<1>3. QED
  BY <1>1, <1>2 DEF CheckForNewPeers

\* The founder of a group is alone in its rings before the peer is answered.
LEMMA HandleJoinMapped ==
    ASSUME IInv, MapsInv, NEW n \in Node, NEW p \in Peer, HandleJoin(n, p)
    PROVE  MapsInv'
<1> DEFINE gid == localGroup'[n]
           own == AddToRings(NewGroup, Local(n))
           gs == IF state[n] = "CONNECTED" THEN groups[n]
                 ELSE [groups[n] EXCEPT ![gid] = own]
<1>1. gid \in GroupId
  <2>1. CASE state[n] = "CONNECTED"
    BY <2>1 DEF HandleJoin, IInv, TypeOK, LocalGroupKept, KeptAt
  <2>2. CASE state[n] # "CONNECTED"
    <3> DEFINE new == NewGroupId(n)
    <3>1. new \in GroupId /\ localGroup' = [localGroup EXCEPT ![n] = new]
      BY <2>2 DEF HandleJoin, FoundGroup
    <3> HIDE DEF new
    <3>2. QED
      BY <3>1 DEF IInv, TypeOK
  <2>3. QED
    BY <2>1, <2>2
<1>2. own \in Group /\ Mapped(own)
  <2>1. Local(n) \in Peer
    BY DEF Local, Peer, PeerKind
  <2>2. QED
    BY <2>1, NewIsMapped, GroupOperationsType, OperationsKeepMapped
<1>3. /\ groups[n] \in [GroupId -> Group]
      /\ \A g \in GroupId : Mapped(groups[n][g])
  BY DEF IInv, TypeOK, MapsInv
<1> HIDE DEF gid, own
<1>4. gs \in [GroupId -> Group] /\ \A g \in GroupId : Mapped(gs[g])
  BY <1>1, <1>2, <1>3
<1>5. \/ AnswerJoinRequest(n, p, Id(p), gid, gs, Consume(n, p), joinTimers[n])
      \/ groups' = [groups EXCEPT ![n] = gs] /\ peers' = peers
  BY DEF HandleJoin, gid, own
<1> HIDE DEF gs
<1>6. CASE AnswerJoinRequest(n, p, Id(p), gid, gs, Consume(n, p),
                             joinTimers[n])
  <2> DEFINE box == Consume(n, p)
             port == Id(p)
  <2>1. AnswerJoinRequest(n, p, port, gid, gs, box, joinTimers[n])
    BY <1>6
  <2> HIDE DEF box, port
  <2>2. QED
    BY <2>1, <1>1, <1>4, AnswerMapped
<1>7. CASE groups' = [groups EXCEPT ![n] = gs] /\ peers' = peers
  <2>1. /\ groups'[n] = gs /\ IsPeerMap(peers'[n])
        /\ \A r \in Node \ {n} : UNCHANGED <<peers[r], groups[r]>>
    BY <1>7 DEF IInv, TypeOK, MapsInv
  <2>2. QED
    BY <2>1, <1>4, MapsOfOthers
<1>8. QED
  BY <1>5, <1>6, <1>7

\* A member that calls a joining node enters the Peer of that call.
LEMMA HandleJoinNotifMapped ==
    ASSUME IInv, MapsInv, NEW n \in Node, NEW p \in Peer, HandleJoinNotif(n, p)
    PROVE  MapsInv'
<1> DEFINE m == Head(inbox[n][p])
           q == <<m.peer, "called">>
           after == Deliver(Consume(n, p), n, Relays(n, m), m)
           written == Relays(n, m)
<1>1. m \in Message /\ m.type = "JOIN_NOTIF" /\ m.group = localGroup[n]
  BY ReadType DEF HandleJoinNotif, ReadsNotif, Reads, Ours, IInv
<1>2. m.group \in GroupId /\ q \in Peer
  BY <1>1, MessageFields DEF Peer, PeerKind
<1>3. AcknowledgeJoin(n, q, m.group, groups[n], after, written, joinTimers[n])
  BY DEF HandleJoinNotif
<1>4. /\ groups[n] \in [GroupId -> Group]
      /\ \A g \in GroupId : Mapped(groups[n][g])
  BY DEF IInv, TypeOK, MapsInv
<1> HIDE DEF m, q, after, written
<1>5. QED
  BY <1>2, <1>3, <1>4, AcknowledgeMapped

\* The author of an acknowledgement enters both, the known members the rings of
\* a new group.
LEMMA HandleJoinAckMapped ==
    ASSUME IInv, MapsInv, NEW n \in Node, NEW p \in Peer, HandleJoinAck(n, p)
    PROVE  MapsInv'
<1> DEFINE h == Head(inbox[n][p]).group
           first == h \notin groupIds[n] /\ localGroup[n] = NoGroup
           g == CASE h \in groupIds[n] -> groups[n][h]
                  [] first -> NewGroup
                  [] OTHER -> AddGroupToRings(NewGroup, groups[n][localGroup[n]])
<1>1. h \in GroupId
  <2>1. Head(inbox[n][p]) \in Message /\ Head(inbox[n][p]).type = "JOIN_ACK"
    BY ReadType DEF HandleJoinAck, Reads, IInv
  <2>2. QED
    BY <2>1, MessageFields
<1>2. /\ groups' = [groups EXCEPT ![n][h] = AddPeer(g, p)]
      /\ peers' = [peers EXCEPT ![n] = Put(@, p)]
  BY DEF HandleJoinAck
<1>3. /\ groups[n] \in [GroupId -> Group]
      /\ \A k \in GroupId : Mapped(groups[n][k])
  BY DEF IInv, TypeOK, MapsInv
<1>4. g \in Group /\ Mapped(g)
  <2>1. CASE h \in groupIds[n]
    BY <2>1, <1>1, <1>3
  <2>2. CASE first
    BY <2>2, NewIsMapped
  <2>3. CASE h \notin groupIds[n] /\ ~first
    <3> DEFINE other == groups[n][localGroup[n]]
    <3>1. other \in Group /\ Mapped(other)
      BY <2>3, <1>3 DEF IInv, TypeOK
    <3> HIDE DEF other
    <3>2. /\ AddGroupToRings(NewGroup, other) \in Group
          /\ Mapped(AddGroupToRings(NewGroup, other))
      <4>1. Local(n) \in Peer
        BY DEF Local, Peer, PeerKind
      <4>2. QED
        BY <4>1, <3>1, NewIsMapped, GroupOperationsType, OperationsKeepMapped
    <3>3. g = AddGroupToRings(NewGroup, other)
      BY <2>3 DEF other
    <3>4. QED
      BY <3>2, <3>3
  <2>4. QED
    BY <2>1, <2>2, <2>3
<1> HIDE DEF h, g, first
<1>5. Mapped(AddPeer(g, p))
  BY <1>4, OperationsKeepMapped
<1>6. /\ groups'[n] = [groups[n] EXCEPT ![h] = AddPeer(g, p)]
      /\ peers'[n] = Put(peers[n], p)
      /\ \A r \in Node \ {n} : UNCHANGED <<peers[r], groups[r]>>
  BY <1>2 DEF IInv, TypeOK
<1>7. IsPeerMap(peers'[n])
  BY <1>6, PutIsPeerMap DEF MapsInv
<1>8. \A k \in GroupId : Mapped(groups'[n][k])
  BY <1>3, <1>5, <1>6
<1>9. QED
  BY <1>6, <1>7, <1>8, MapsOfOthers

\* A node enters the rings as its local Peer.
LEMMA HandleReadyMapped ==
    ASSUME IInv, MapsInv, NEW n \in Node, NEW p \in Peer, HandleReady(n, p)
    PROVE  MapsInv'
<1> DEFINE entered == [g \in GroupId |->
                         IF g \in ToEnter(n) THEN EnterRings(groups[n][g], n)
                         ELSE groups[n][g]]
<1>1. groups' = [groups EXCEPT ![n] = entered] /\ peers' = peers
  BY DEF HandleReady, viewVars
<1>2. ASSUME NEW g \in GroupId
      PROVE  Mapped(EnterRings(groups[n][g], n)) /\ Mapped(groups[n][g])
  <2>1. Local(n) \in Peer
    BY DEF Local, Peer, PeerKind
  <2>2. groups[n][g] \in Group /\ Mapped(groups[n][g])
    BY DEF IInv, TypeOK, MapsInv
  <2>3. /\ AddToRings(groups[n][g], Local(n)) \in Group
        /\ Mapped(AddToRings(groups[n][g], Local(n)))
    BY <2>1, <2>2, GroupOperationsType, OperationsKeepMapped
  <2>4. QED
    BY <2>1, <2>2, <2>3, OperationsKeepMapped DEF EnterRings
<1>3. \A g \in GroupId : Mapped(entered[g])
  BY <1>2
<1> HIDE DEF entered
<1>4. /\ groups'[n] = entered /\ IsPeerMap(peers'[n])
      /\ \A r \in Node \ {n} : UNCHANGED <<peers[r], groups[r]>>
  BY <1>1 DEF IInv, TypeOK, MapsInv
<1>5. QED
  BY <1>3, <1>4, MapsOfOthers

\* Whoever leaves is erased, and who is left alone has no groups.
LEMMA DisconnectMapped ==
    ASSUME IInv, MapsInv, NEW n \in Node, NEW p \in Peer, HandleDisconnect(n, p)
    PROVE  MapsInv'
<1> DEFINE gs == IF Erasable(n, p) THEN GroupsWithout(n, p) ELSE groups[n]
           view == IF Erasable(n, p) THEN EraseId(peers[n], Id(p)) ELSE peers[n]
<1>1. /\ peers' = [peers EXCEPT ![n] = view]
      /\ \/ groups' = [groups EXCEPT ![n] = [g \in GroupId |-> NewGroup]]
         \/ groups' = [groups EXCEPT ![n] = gs]
  BY DEF HandleDisconnect, LeaveGroups
<1>2. IsPeerMap(view)
  <2>1. IsPeerMap(peers[n]) /\ Id(p) \in Node
    BY DEF MapsInv, Id, Peer
  <2>2. QED
    BY <2>1, EraseIsPeerMap
<1>3. ASSUME NEW g \in GroupId
      PROVE  Mapped(gs[g])
  <2> DEFINE without == RemovePeer(groups[n][g], p)
  <2>1. groups[n][g] \in Group /\ Mapped(groups[n][g])
    BY DEF IInv, TypeOK, MapsInv
  <2>2. without \in Group /\ Mapped(without)
    BY <2>1, GroupOperationsType, OperationsKeepMapped
  <2>3. Mapped(UpdateNeighbours(without, n))
    <3> HIDE DEF without
    <3> QED
      BY <2>2, OperationsKeepMapped
  <2>4. GroupsWithout(n, p)[g] \in
           {UpdateNeighbours(without, n), without, groups[n][g]}
    BY DEF GroupsWithout
  <2> HIDE DEF without
  <2>5. QED
    BY <2>1, <2>2, <2>3, <2>4
<1> HIDE DEF gs, view
<1>4. /\ peers'[n] = view
      /\ groups'[n] = gs \/ groups'[n] = [g \in GroupId |-> NewGroup]
      /\ \A r \in Node \ {n} : UNCHANGED <<peers[r], groups[r]>>
  BY <1>1 DEF IInv, TypeOK
<1>5. IsPeerMap(peers'[n]) /\ \A g \in GroupId : Mapped(groups'[n][g])
  BY <1>2, <1>3, <1>4, NewIsMapped
<1>6. QED
  BY <1>4, <1>5, MapsOfOthers

\* Every step keeps the maps maps.
LEMMA MapsStep == IInv /\ MapsInv /\ [Next]_vars => MapsInv'
<1> SUFFICES ASSUME IInv, MapsInv, [Next]_vars
             PROVE  MapsInv'
  OBVIOUS
<1> USE DEF groupVars, viewVars
<1>1. ASSUME UNCHANGED <<peers, groups>>
      PROVE  MapsInv'
  BY <1>1 DEF MapsInv, Mapped
<1>2. CASE UNCHANGED vars
  BY <1>1, <1>2 DEF vars
<1>3. ASSUME NEW n \in Node,
             \/ \E m \in JoinTo[n] : UIJoinConnect(n, m)
             \/ UIBroadcastCheck(n) \/ UIStep(n) \/ UISend(n) \/ Quit(n)
      PROVE  MapsInv'
  BY <1>1, <1>3
     DEF UIJoinConnect, UIBroadcastCheck, UIStep, UIJoinMark, UIJoinSend,
         UIJoinThrows, UIBroadcast, UIBroadcastLog, UIBroadcastCrash, UISend, Quit,
         Crash, Exit
<1>4. ASSUME NEW n \in Node, NEW p \in Peer, IOStep(n, p)
      PROVE  MapsInv'
  <2>1. CASE \/ Accept(n, p)
             \/ HandleDuplicate(n, p) \/ HandleMisrouted(n, p)
             \/ HandleData(n, p) \/ HandleForeignNotif(n, p)
             \/ HandleNotifRefused(n, p) \/ HandleReadyNotifThrows(n, p)
             \/ HandleReadyNotifCrash(n, p)
             \/ HandleDisconnectHangs(n, p) \/ HandleDisconnectCrash(n, p)
             \/ HandleReadError(n, p) \/ SendReady(n, p)
             \/ CompleteJoinCrash(n, p) \/ HandleText(n, p)
    BY <1>1, <2>1
       DEF HandleText, Accept, HandleDuplicate, HandleMisrouted, HandleData,
           HandleForeignNotif, HandleNotifRefused, HandleReadyNotifThrows,
           HandleReadyNotifCrash, HandleDisconnectHangs, HandleDisconnectCrash,
           HandleReadError, SendReady, CompleteJoinCrash, Crash, Exit
  <2>2. CASE HandleReadyNotif(n, p) \/ CompleteJoin(n, p)
    BY <2>2, CheckMapped DEF HandleReadyNotif, CompleteJoin
  <2>3. QED
    BY <1>4, <2>1, <2>2, HandleJoinMapped, HandleJoinNotifMapped,
       HandleJoinAckMapped, HandleReadyMapped, DisconnectMapped
       DEF IOStep, Receive, TimerExpires
<1>5. ASSUME NEW n \in Node, NEW p \in Peer, ReadTogether(n, p)
      PROVE  MapsInv'
  BY <1>1, <1>5 DEF ReadTogether
<1>6. QED
  BY <1>2, <1>3, <1>4, <1>5 DEF Next

\* Each ring that a node keeps for one of its groups is one cycle, in which
\* get_predecessor is inverse to get_successor.
RingsAreCycles ==
    \A n \in Node, g \in GroupId, i \in RingIndex :
        LET R == groups[n][g].ring
        IN  /\ \A p, q \in R :
                  q \in GetSuccessor(i, R, p) <=> p \in GetPredecessor(i, R, q)
            /\ \A S \in (SUBSET R) \ {{}} :
                  (\A p \in S : GetSuccessor(i, R, p) \subseteq S) => S = R

\* What SingleRing says of one ring holds of all the rings of the system, in the
\* middle of joins and disconnections too: whichever Peers of a node a handler
\* has at hand, the rings never hold two of them (Ring::add_peer
\* replaces the one of the same digest, remove_peer erases it).
THEOREM EveryRingIsACycle == Spec => []RingsAreCycles
<1>1. Init => MapsInv
  BY NewIsMapped DEF Init, MapsInv, IsPeerMap
<1>2. IInv /\ MapsInv /\ [Next]_vars => MapsInv'
  BY MapsStep
<1>3. MapsInv => RingsAreCycles
  <2> SUFFICES ASSUME MapsInv, NEW n \in Node, NEW g \in GroupId,
                      NEW i \in RingIndex
               PROVE  LET R == groups[n][g].ring
                      IN  /\ \A p, q \in R : q \in GetSuccessor(i, R, p)
                                            <=> p \in GetPredecessor(i, R, q)
                          /\ \A S \in (SUBSET R) \ {{}} :
                                (\A p \in S : GetSuccessor(i, R, p) \subseteq S)
                                   => S = R
    BY DEF RingsAreCycles
  <2> DEFINE R == groups[n][g].ring
  <2>1. IsPeerMap(R)
    BY DEF MapsInv, Mapped
  <2> HIDE DEF R
  <2>2. /\ \A p, q \in R :
              q \in GetSuccessor(i, R, p) <=> p \in GetPredecessor(i, R, q)
        /\ \A S \in (SUBSET R) \ {{}} :
              (\A p \in S : GetSuccessor(i, R, p) \subseteq S) => S = R
    BY <2>1, GetInverse, GetClosedIsWhole
  <2>3. QED
    BY <2>2 DEF R
<1>4. QED
  BY <1>1, <1>2, <1>3, Invariant, PTL DEF Spec
=============================================================================
