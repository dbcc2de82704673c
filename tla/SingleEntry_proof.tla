-------------------------- MODULE SingleEntry_proof -------------------------
(***************************************************************************)
(* What holds where every join goes through the same entry point: one node *)
(* that waits idly, and is the entry_point option of the others.  Nobody   *)
(* else founds a group, the view of a node is its group, and no handler    *)
(* hangs, whoever quits.  Where addresses differ, no JOIN that has been    *)
(* read is forgotten.  Until somebody quits there is one group, no process *)
(* dies, and nobody relays on stale neighbours if delays are long.         *)
(***************************************************************************)
EXTENDS Connections_proof

\* Every join command names h.
EntryPoint(h) == \A n \in Node : JoinTo[n] \subseteq {h}

DistinctAddresses == \A m, n \in Node : AddrOf[m] = AddrOf[n] => m = n

-----------------------------------------------------------------------------
(* The entry point's group                                                 *)

\* The entry point joins nobody: it is CONNECTED when it has founded a group.
EntryKept(h) ==
    /\ \A n \in Node : entry[n] \in {n, h}
    /\ ui[h] \notin {"join", "joining"}
    /\ state[h] = "CONNECTED" <=> localGroup[h] # NoGroup

\* Only the entry point reads a JOIN.
LEMMA JoinsAtEntry ==
    ASSUME IInv, CInv, NEW h \in Node, EntryKept(h),
           NEW n \in Node, NEW p \in Peer, Reads(n, p, "JOIN")
    PROVE  n = h
<1>1. JoinMsg \in Range(inbox[n][p])
  BY ReadParts DEF IInv
<1>2. p[2] = "joiner"
  BY <1>1, CInvAt DEF JoinFirst
<1>3. p = <<Id(p), "joiner">> /\ Id(p) \in Node
  BY <1>2, Kinds
<1>4. entry[Id(p)] = n /\ n # Id(p)
  BY <1>1, <1>3, CInvNodes DEF JoinerAt
<1>5. QED
  BY <1>3, <1>4 DEF EntryKept

\* Who reads a JOIN Acknowledgement has asked for it.
LEMMA AckParts ==
    ASSUME IInv, CInv, NEW n \in Node, NEW p \in Peer, Reads(n, p, "JOIN_ACK")
    PROVE  /\ Head(inbox[n][p]) \in Message
           /\ Head(inbox[n][p]) \in Range(inbox[n][p])
           /\ Head(inbox[n][p]).type = "JOIN_ACK"
           /\ Consume(n, p) \in Inboxes
           /\ Running(n) /\ p \in conns[n] /\ inbox[n][p] # <<>>
           /\ p[2] \in Asking
<1>1. /\ Running(n) /\ p \in conns[n] /\ inbox[n][p] # <<>>
      /\ Head(inbox[n][p]).type = "JOIN_ACK"
  BY DEF Reads
<1>2. inbox[n][p] \in Seq(Message)
  BY DEF IInv, TypeOK
<1>3. Head(inbox[n][p]) \in Range(inbox[n][p])
  BY <1>1, <1>2, TailParts
<1>4. Head(inbox[n][p]) \in Message /\ Consume(n, p) \in Inboxes
  BY <1>1, ReadType DEF IInv
<1>5. p[2] \notin Answering
  BY <1>1, <1>3, CInvAt DEF AnsweredAt
<1>6. p[2] # "local" /\ p[2] \in PeerKind
  BY <1>1, CInvAt, Kinds DEF OpenAt
<1>7. p[2] \in Asking
  BY <1>5, <1>6 DEF Answering, Asking, PeerKind
<1>8. QED
  BY <1>1, <1>3, <1>4, <1>7

\* Nobody acknowledges the entry point: nobody has heard of it.
LEMMA NoAckAtEntry ==
    ASSUME IInv, CInv, NEW h \in Node, EntryKept(h), NEW p \in Peer
    PROVE  ~Reads(h, p, "JOIN_ACK")
<1> SUFFICES ASSUME Reads(h, p, "JOIN_ACK")
             PROVE  FALSE
  OBVIOUS
<1>1. PICK m : m = Head(inbox[h][p])
  OBVIOUS
<1>2. /\ m \in Range(inbox[h][p]) /\ m.type = "JOIN_ACK"
      /\ Running(h) /\ p[2] \in Asking
  BY <1>1, AckParts
<1>3. PICK r \in Node : r = Id(p)
  BY Kinds
<1>4. PICK q \in Peer : q = OtherEnd(h, p)
  BY Kinds
<1>5. OtherEnd(r, q) = p /\ Id(q) = h
  BY <1>3, <1>4, Kinds
<1>6. q[2] \in Answering
  BY <1>2, <1>5, Kinds
<1>7. ~Heard(r, h)
  <2>1. entry[h] = h
    BY DEF EntryKept
  <2>2. Unheard(h)
    BY <1>2, <2>1, CInvNodes DEF BeforeJoin
  <2>3. QED
    BY <2>2, NotifsAre DEF Heard, Unheard
<1>8. Silent(inbox[h][p])
  BY <1>5, <1>6, <1>7, CInvAt DEF FreshAt
<1>9. QED
  BY <1>2, <1>8, Kinds DEF Silent, Failure

LEMMA EntryInit ==
    ASSUME NEW h \in Node
    PROVE  Init => EntryKept(h)
  BY DEF Init, EntryKept

\* Most steps leave the states and the local groups as they are.
LEMMA EntryElse ==
    ASSUME TypeOK, NEW h \in Node, EntryKept(h),
           UNCHANGED <<entry, state, localGroup>>, ui'[h] \notin {"join", "joining"}
    PROVE  EntryKept(h)'
  BY DEF EntryKept

GroupKeptStep ==
    \A n \in Node :
        localGroup'[n] # localGroup[n] => NoGroup \in {localGroup[n], localGroup'[n]}

LEMMA EntryPlain ==
    ASSUME IInv, NEW h \in Node, EntryKept(h), NEW a \in Node,
           \/ UIBroadcastCheck(a) \/ UIBroadcast(a) \/ UIBroadcastLog(a)
           \/ UIBroadcastCrash(a) \/ UISend(a) \/ Quit(a)
    PROVE  EntryKept(h)' /\ localGroup' = localGroup
<1>1. TypeOK
  BY DEF IInv
<1>2. UNCHANGED <<entry, state, localGroup>>
  BY DEF UIBroadcastCheck, UIBroadcast, UIBroadcastLog, UIBroadcastCrash, UISend,
         Quit, Crash, Exit, procVars, groupVars
<1>3. ui'[h] \notin {"join", "joining"}
  BY <1>1 DEF UIBroadcastCheck, UIBroadcast, UIBroadcastLog, UIBroadcastCrash,
              UISend, Quit, Crash, Exit, procVars, EntryKept, TypeOK
<1>4. QED
  BY <1>1, <1>2, <1>3, EntryElse

LEMMA EntryReads ==
    ASSUME IInv, NEW h \in Node, EntryKept(h), NEW a \in Node, NEW p \in Peer,
           \/ Accept(a, p) \/ HandleDuplicate(a, p) \/ HandleMisrouted(a, p)
           \/ HandleData(a, p) \/ HandleForeignNotif(a, p)
           \/ HandleNotifRefused(a, p) \/ HandleJoinNotif(a, p)
           \/ HandleReadyNotif(a, p) \/ HandleReadyNotifThrows(a, p)
           \/ HandleReadyNotifCrash(a, p) \/ HandleText(a, p)
           \/ HandleDisconnectHangs(a, p) \/ HandleDisconnectCrash(a, p)
           \/ HandleReadError(a, p) \/ SendReady(a, p) \/ CompleteJoin(a, p)
           \/ CompleteJoinCrash(a, p) \/ ReadTogether(a, p)
    PROVE  EntryKept(h)' /\ localGroup' = localGroup
<1>1. TypeOK
  BY DEF IInv
<1> USE DEF procVars, groupVars
<1>2. CASE \/ Accept(a, p) \/ HandleDuplicate(a, p) \/ HandleMisrouted(a, p)
           \/ HandleData(a, p) \/ HandleForeignNotif(a, p)
           \/ HandleNotifRefused(a, p) \/ HandleJoinNotif(a, p)
           \/ HandleReadyNotif(a, p) \/ HandleReadyNotifThrows(a, p)
  <2>1. UNCHANGED <<entry, ui, state, localGroup>>
    BY <1>2 DEF Accept, HandleDuplicate, HandleMisrouted, HandleData,
                HandleForeignNotif, HandleNotifRefused, HandleJoinNotif,
                HandleReadyNotif, HandleReadyNotifThrows, Crash, Exit
  <2>2. QED
    BY <1>1, <2>1, EntryElse DEF EntryKept
<1>3. CASE \/ HandleReadyNotifCrash(a, p) \/ HandleText(a, p)
           \/ HandleDisconnectHangs(a, p) \/ HandleDisconnectCrash(a, p)
           \/ HandleReadError(a, p) \/ SendReady(a, p) \/ CompleteJoin(a, p)
           \/ CompleteJoinCrash(a, p) \/ ReadTogether(a, p)
  <2>1. UNCHANGED <<entry, ui, state, localGroup>>
    BY <1>3 DEF HandleReadyNotifCrash, HandleText, HandleDisconnectHangs,
                HandleDisconnectCrash, HandleReadError, SendReady, CompleteJoin,
                CompleteJoinCrash, ReadTogether, Crash, Exit
  <2>2. QED
    BY <1>1, <2>1, EntryElse DEF EntryKept
<1>4. QED
  BY <1>2, <1>3

\* Commands of other nodes, JOIN Acknowledgements they read
LEMMA EntryElsewhere ==
    ASSUME TypeOK, NEW h \in Node, EntryKept(h), NEW a \in Node, a # h,
           entry'[a] \in {a, h},
           \A n \in Node \ {a} : /\ entry'[n] = entry[n] /\ ui'[n] = ui[n]
                                 /\ state'[n] = state[n]
                                 /\ localGroup'[n] = localGroup[n]
    PROVE  EntryKept(h)'
  BY DEF EntryKept

LEMMA EntryJoinCommand ==
    ASSUME IInv, NEW h \in Node, EntryPoint(h), EntryKept(h), NEW a \in Node,
           \/ \E m \in JoinTo[a] : UIJoinConnect(a, m)
           \/ UIJoinMark(a) \/ UIJoinSend(a) \/ UIJoinThrows(a)
    PROVE  EntryKept(h)' /\ localGroup' = localGroup
<1>1. TypeOK
  BY DEF IInv
<1>2. localGroup' = localGroup
  BY DEF UIJoinConnect, UIJoinMark, UIJoinSend, UIJoinThrows, groupVars
<1>3. a # h
  BY NetworkAssumption DEF UIJoinConnect, UIJoinMark, UIJoinSend, UIJoinThrows,
                           EntryPoint, EntryKept
<1>4. entry'[a] \in {a, h}
  BY <1>1 DEF UIJoinConnect, UIJoinMark, UIJoinSend, UIJoinThrows, EntryPoint,
              EntryKept, TypeOK
<1>5. \A n \in Node \ {a} : /\ entry'[n] = entry[n] /\ ui'[n] = ui[n]
                            /\ state'[n] = state[n]
  BY <1>1 DEF UIJoinConnect, UIJoinMark, UIJoinSend, UIJoinThrows, TypeOK
<1>6. QED
  BY <1>1, <1>2, <1>3, <1>4, <1>5, EntryElsewhere

LEMMA EntryStep ==
    ASSUME IInv, CInv, NEW h \in Node, EntryPoint(h), EntryKept(h), [Next]_vars
    PROVE  EntryKept(h)' /\ GroupKeptStep
<1>1. TypeOK
  BY DEF IInv
<1>2. CASE EntryKept(h)' /\ localGroup' = localGroup
  BY <1>2 DEF GroupKeptStep
<1>3. ASSUME NEW p \in Peer, NEW n \in Node, HandleJoin(n, p)
      PROVE  EntryKept(h)' /\ GroupKeptStep
  <2>1. n = h
    BY <1>3, JoinsAtEntry DEF HandleJoin
  <2>2. entry' = entry /\ ui' = ui
    BY <1>3 DEF HandleJoin, procVars
  <2>3. CASE state[h] # "CONNECTED"
    <3>1. localGroup[h] = NoGroup
      BY <2>3 DEF EntryKept
    <3>2. PICK gid \in GroupId : /\ state' = [state EXCEPT ![h] = "CONNECTED"]
                                 /\ localGroup' = [localGroup EXCEPT ![h] = gid]
      BY <1>3, <2>1, <2>3 DEF HandleJoin, FoundGroup
    <3>3. /\ state'[h] = "CONNECTED" /\ localGroup'[h] # NoGroup
          /\ \A r \in Node \ {h} : localGroup'[r] = localGroup[r]
      BY <1>1, <3>2, NetworkAssumption DEF TypeOK
    <3>4. QED
      BY <2>2, <3>1, <3>3 DEF EntryKept, GroupKeptStep
  <2>4. CASE state[h] = "CONNECTED"
    BY <1>2, <1>3, <2>1, <2>2, <2>4 DEF HandleJoin, EntryKept
  <2>5. QED
    BY <2>3, <2>4
<1>4. ASSUME NEW p \in Peer, NEW n \in Node, HandleJoinAck(n, p)
      PROVE  EntryKept(h)' /\ GroupKeptStep
  <2>1. n # h
    BY <1>4, NoAckAtEntry DEF HandleJoinAck
  <2>2. UNCHANGED <<entry, ui, state>>
    BY <1>4 DEF HandleJoinAck, procVars
  <2>3. \/ localGroup' = localGroup
        \/ localGroup[n] = NoGroup /\
              \E g : localGroup' = [localGroup EXCEPT ![n] = g]
    BY <1>4 DEF HandleJoinAck
  <2>4. \A r \in Node \ {n} : localGroup'[r] = localGroup[r]
    BY <1>1, <2>3 DEF TypeOK
  <2>5. EntryKept(h)'
    BY <1>1, <2>1, <2>2, <2>4, EntryElsewhere DEF EntryKept
  <2>6. GroupKeptStep
    BY <2>3, <2>4 DEF GroupKeptStep
  <2>7. QED
    BY <2>5, <2>6
<1>5. ASSUME NEW p \in Peer, NEW n \in Node, HandleReady(n, p)
      PROVE  EntryKept(h)' /\ GroupKeptStep
  <2>1. UNCHANGED <<entry, ui, localGroup>>
    BY <1>5 DEF HandleReady, procVars
  <2>2. state' = IF localGroup[n] \in groupIds[n]
                 THEN [state EXCEPT ![n] = "CONNECTED"] ELSE state
    BY <1>5 DEF HandleReady
  <2>3. groupIds[n] \subseteq GroupId
    BY <1>1 DEF TypeOK
  <2>4. state'[h] = "CONNECTED" <=> localGroup[h] # NoGroup
    BY <1>1, <2>2, <2>3, NetworkAssumption DEF EntryKept, TypeOK
  <2>5. QED
    BY <1>2, <2>1, <2>4 DEF EntryKept
<1>6. ASSUME NEW p \in Peer, NEW n \in Node, HandleDisconnect(n, p)
      PROVE  EntryKept(h)' /\ GroupKeptStep
  <2>1. UNCHANGED <<entry, ui>>
    BY <1>6 DEF HandleDisconnect, procVars
  <2>2. \/ /\ localGroup' = [localGroup EXCEPT ![n] = NoGroup]
           /\ state' = [state EXCEPT ![n] = "NEW"]
        \/ UNCHANGED <<localGroup, state>>
    BY <1>6 DEF HandleDisconnect, LeaveGroups
  <2>3. \A r \in Node : \/ localGroup'[r] = NoGroup /\ state'[r] = "NEW"
                        \/ localGroup'[r] = localGroup[r] /\ state'[r] = state[r]
    BY <1>1, <2>2 DEF TypeOK
  <2>4. QED
    BY <2>1, <2>3 DEF EntryKept, GroupKeptStep
<1>7. CASE UNCHANGED vars
  BY <1>1, <1>2, <1>7, EntryElse
     DEF vars, procVars, groupVars, EntryKept
<1>8. CASE Next
  BY <1>2, <1>3, <1>4, <1>5, <1>6, <1>8, EntryPlain, EntryReads,
     EntryJoinCommand DEF Next, UIStep, IOStep, Receive, TimerExpires
<1>9. QED
  BY <1>7, <1>8

\* A node that has a group keeps it, or is left alone (handle_disconnect): where
\* all join through one node, nobody founds a second group, and the group of the
\* first acknowledgement stays the local one (handlers of JOIN and JOIN_ACK).
THEOREM GroupIsKept ==
    ASSUME NEW h \in Node, EntryPoint(h)
    PROVE  Spec => GroupKept
<1>1. Init => EntryKept(h)
  BY EntryInit
<1>2. IInv /\ CInv /\ EntryKept(h) /\ [Next]_vars => EntryKept(h)' /\ GroupKeptStep
  BY EntryStep
<1>3. GroupKeptStep => [\A n \in Node :
          localGroup'[n] # localGroup[n] => NoGroup \in {localGroup[n], localGroup'[n]}
        ]_vars
  BY DEF GroupKeptStep
<1>4. QED
  BY <1>1, <1>2, <1>3, Invariant, ConnectionInvariant, PTL DEF Spec, GroupKept

-----------------------------------------------------------------------------
(* Until somebody quits: what is true of all nodes and messages then       *)

Quitted == \E m \in Node : status[m] = "quit"

AllRun == \A n \in Node : Running(n)

\* The messages of a group
Carries(m) == m.type \in {"JOIN_NOTIF", "DATA", "JOIN_ACK"}

InGroup(box, g) ==
    \A r \in Node, q \in Peer : \A m \in Range(box[r][q]) : Carries(m) => m.group = g

\* There is no group but the entry point's.
Grouped(h) ==
    \A n \in Node :
        /\ localGroup[n] \in {NoGroup, localGroup[h]}
        /\ groupIds[n] \subseteq {localGroup[h]}
        /\ markers[n] \subseteq groupIds[n]

Sends(h) ==
    /\ InGroup(inbox, localGroup[h])
    /\ \A n \in Node : \A m \in outgoing[n] : m.group = localGroup[h]

\* A node without a group knows nobody, and does not broadcast.
Belongs ==
    \A n \in Node : localGroup[n] = NoGroup =>
        /\ ui[n] \notin {"broadcast", "log"}
        /\ \A p \in Peer : ~Known(n, p)

\* No entry of new_peers has a null Peer, and who asks to join has an entry.
NoNullEntry ==
    \A n \in Node, k \in Addr :
        newPeers[n][k].peer = NoPeer => newPeers[n][k] = NoEntry

JoinersWait(h) ==
    \A p \in conns[h] :
        p[2] = "joiner" /\ ~Known(h, p) => newPeers[h][AddrOfPeer(p)].peer # NoPeer

\* peers is the peer map of the group.
Matched ==
    \A n \in Node : localGroup[n] # NoGroup =>
        Ids(peers[n]) = Ids(groups[n][localGroup[n]].members)

Peace(h) ==
    /\ AllRun /\ Grouped(h) /\ Sends(h) /\ Belongs
    /\ NoNullEntry /\ JoinersWait(h) /\ Matched

\* No socket has failed.
LEMMA NothingFails ==
    ASSUME CInv, IInv, AllRun, NEW n \in Node, NEW p \in Peer
    PROVE  /\ reset[n] = {} /\ ~MayBeReset(n, p)
           /\ ~Reads(n, p, "EOF") /\ ~Reads(n, p, "RST")
<1>1. \A r \in Node : Up(r)
  BY DEF AllRun, Running, Up
<1>2. \A q \in Peer : q \notin reset[n] /\ Range(inbox[n][q]) \cap Failure = {}
  BY <1>1, CInvAt, Kinds DEF FailedAt
<1>3. reset[n] = {}
  BY <1>2 DEF IInv, TypeOK
<1>4. ~MayBeReset(n, p)
  BY <1>2 DEF MayBeReset, Failure
<1>5. ~Reads(n, p, "EOF") /\ ~Reads(n, p, "RST")
  <2>1. TypeOK
    BY DEF IInv
  <2>2. ASSUME NEW t \in {"EOF", "RST"}, Reads(n, p, t)
        PROVE  FALSE
    <3>1. Head(inbox[n][p]) \in Range(inbox[n][p]) \cap Failure
      BY <2>1, <2>2, ReadParts DEF Failure
    <3>2. QED
      BY <1>2, <3>1
  <2>3. QED
    BY <2>2
<1>6. QED
  BY <1>3, <1>4, <1>5

\* A node with a group has the entry point's, with its marker.
LEMMA GroupAt ==
    ASSUME IInv, NEW h \in Node, Grouped(h), NEW n \in Node, localGroup[n] # NoGroup
    PROVE  /\ localGroup[n] = localGroup[h]
           /\ localGroup[h] \in GroupId /\ localGroup[h] # NoGroup
           /\ groupIds[n] = {localGroup[h]} /\ markers[n] = {localGroup[h]}
<1>1. /\ localGroup[n] \in groupIds[n] \cap markers[n]
      /\ localGroup[n] \in GroupId
  BY DEF IInv, LocalGroupKept, KeptAt, TypeOK
<1>2. QED
  BY <1>1 DEF Grouped

\* Nobody quits twice, and nothing else ends a process that has quit.
LEMMA QuittedStep ==
    ASSUME IInv, Quitted, [Next]_vars
    PROVE  Quitted'
<1> SUFFICES ASSUME NEW m \in Node, status[m] = "quit"
             PROVE  status'[m] = "quit"
  BY DEF Quitted
<1>1. DOMAIN status = Node
  BY DEF IInv, TypeOK
<1>2. CASE status' = status
  BY <1>2
<1>3. ASSUME NEW a \in Node, Running(a),
             \E how : status' = [status EXCEPT ![a] = how]
      PROVE  status'[m] = "quit"
  BY <1>1, <1>3 DEF Running
<1>4. ASSUME NEW a \in Node, NEW p \in Peer, Receive(a, p)
      PROVE  status'[m] = "quit"
  <2> USE DEF procVars
  <2>1. \/ status' = status
        \/ Running(a) /\ \E how : status' = [status EXCEPT ![a] = how]
    BY <1>4 DEF Receive, HandleJoin, HandleDuplicate, HandleMisrouted, HandleData,
        HandleForeignNotif, HandleNotifRefused, HandleJoinNotif, HandleJoinAck,
        HandleReady, HandleReadyNotif, HandleReadyNotifThrows,
        HandleReadyNotifCrash, HandleText, HandleDisconnect,
        HandleDisconnectHangs, HandleDisconnectCrash, HandleReadError, Crash, Exit,
        Reads
  <2>2. QED
    BY <1>2, <1>3, <2>1
<1>5. ASSUME NEW a \in Node,
             \/ \E k \in JoinTo[a] : UIJoinConnect(a, k)
             \/ UIBroadcastCheck(a) \/ UIStep(a) \/ UISend(a) \/ Quit(a)
             \/ \E p \in Peer : Accept(a, p) \/ TimerExpires(a, p) \/ ReadTogether(a, p)
      PROVE  status'[m] = "quit"
  <2> USE DEF procVars
  <2>1. \/ status' = status
        \/ Running(a) /\ \E how : status' = [status EXCEPT ![a] = how]
    BY <1>5 DEF UIJoinConnect, UIBroadcastCheck, UIStep, UISend, Quit, UIJoinMark,
        UIJoinSend, UIJoinThrows, UIBroadcast, UIBroadcastLog, UIBroadcastCrash, Accept,
        TimerExpires, SendReady, CompleteJoin, CompleteJoinCrash, ReadTogether,
        CompletesJoin, Crash, Exit
  <2>2. QED
    BY <1>2, <1>3, <2>1
<1>6. CASE UNCHANGED vars
  BY <1>6 DEF vars, procVars
<1>7. CASE Next
  BY <1>4, <1>5, <1>7 DEF Next, IOStep
<1>8. QED
  BY <1>6, <1>7

\* Nobody dies, hangs or has an exception.
LEMMA NothingCrashes ==
    ASSUME IInv, CInv, TimersKept, NEW h \in Node, Peace(h), NEW a \in Node,
           NEW p \in Peer
    PROVE  /\ ~UIBroadcastCrash(a) /\ ~UIJoinThrows(a)
           /\ ~HandleMisrouted(a, p)
           /\ ~HandleReadyNotifThrows(a, p) /\ ~HandleReadyNotifCrash(a, p)
           /\ ~HandleDisconnect(a, p) /\ ~HandleDisconnectHangs(a, p)
           /\ ~HandleDisconnectCrash(a, p) /\ ~HandleReadError(a, p)
           /\ ~CompleteJoinCrash(a, p)
<1>1. TypeOK
  BY DEF IInv
<1>2. ~UIBroadcastCrash(a)
  <2> SUFFICES ASSUME UIBroadcastCrash(a)
               PROVE  FALSE
    OBVIOUS
  <2>1. localGroup[a] # NoGroup
    BY DEF UIBroadcastCrash, Peace, Belongs
  <2>2. /\ groupIds[a] = {localGroup[h]} /\ markers[a] = {localGroup[h]}
        /\ \A m \in outgoing[a] : m.group = localGroup[h]
    BY <2>1, GroupAt DEF Peace, Sends
  <2>3. GroupsFound(a, outgoing[a])
    BY <2>2 DEF GroupsFound
  <2>4. QED
    BY <2>1, <2>3 DEF UIBroadcastCrash
<1>3. ~UIJoinThrows(a)
  <2>1. <<entry[a], "entry">> \in Peer
    BY <1>1 DEF Peer, PeerKind, TypeOK
  <2>2. QED
    BY <2>1, NothingFails DEF UIJoinThrows, Peace
<1>4. ASSUME Known(a, p)
      PROVE  localGroup[a] # NoGroup
  BY <1>4 DEF Peace, Belongs
<1>5. ~HandleMisrouted(a, p)
  <2> SUFFICES ASSUME HandleMisrouted(a, p)
               PROVE  FALSE
    OBVIOUS
  <2>1. PICK m : m = Head(inbox[a][p])
    OBVIOUS
  <2>2. m \in Range(inbox[a][p]) /\ Carries(m) /\ Known(a, p)
    <3>1. CASE Reads(a, p, "JOIN_NOTIF")
      BY <1>1, <2>1, <3>1, ReadParts DEF Carries
    <3>2. CASE Reads(a, p, "DATA")
      BY <1>1, <2>1, <3>2, ReadParts DEF Carries
    <3>3. QED
      BY <3>1, <3>2 DEF HandleMisrouted
  <2>3. m.group = localGroup[h]
    BY <2>2 DEF Peace, Sends, InGroup
  <2>4. groupIds[a] = {localGroup[h]} /\ markers[a] = {localGroup[h]}
    BY <1>4, <2>2, GroupAt DEF Peace
  <2>5. QED
    BY <2>1, <2>3, <2>4 DEF HandleMisrouted, Misrouted
<1>6. ASSUME Known(a, p)
      PROVE  ~DereferencesNull(a, [peerState[a] EXCEPT ![p] = "CONNECTED"])
  <2>1. NullEntries(a) = {}
    BY DEF NullEntries, Peace, NoNullEntry
  <2>2. QED
    BY <1>4, <1>6, <2>1 DEF DereferencesNull
<1>7. ~HandleReadyNotifCrash(a, p)
  BY <1>1, <1>6, ReadParts DEF HandleReadyNotifCrash
<1>8. ~CompleteJoinCrash(a, p)
  <2> SUFFICES ASSUME CompleteJoinCrash(a, p)
               PROVE  FALSE
    OBVIOUS
  <2>1. p \in joinTimers[a]
    BY DEF CompleteJoinCrash, CompletesJoin
  <2>2. p \in Written(a) /\ p # Local(a)
    BY <2>1 DEF Written, TimersKept
  <2>3. Known(a, p)
    BY <2>2, CInvAt DEF WrittenAt
  <2>4. QED
    BY <1>6, <2>3, NothingFails DEF CompleteJoinCrash, Peace
<1>9. /\ ~HandleReadyNotifThrows(a, p)
      /\ ~HandleDisconnect(a, p) /\ ~HandleDisconnectHangs(a, p)
      /\ ~HandleDisconnectCrash(a, p) /\ ~HandleReadError(a, p)
  BY NothingFails DEF HandleReadyNotifThrows, HandleDisconnect,
     HandleDisconnectHangs, HandleDisconnectCrash, HandleReadError, Peace
<1>10. QED
  BY <1>2, <1>3, <1>5, <1>7, <1>8, <1>9

-----------------------------------------------------------------------------
(* What is read and sent stays in the group                                *)

LEMMA ConsumeInGroup ==
    ASSUME TypeOK, NEW n \in Node, NEW p \in Peer, inbox[n][p] # <<>>,
           NEW g, InGroup(inbox, g)
    PROVE  InGroup(Consume(n, p), g) /\ Consume(n, p) \in Inboxes
<1>1. inbox[n][p] \in Seq(Message)
  BY DEF TypeOK
<1>2. Range(Tail(inbox[n][p])) \subseteq Range(inbox[n][p])
  BY <1>1, TailParts, EmptyParts
<1>3. \A r \in Node, q \in Peer :
         Consume(n, p)[r][q] = IF r = n /\ q = p THEN Tail(inbox[n][p])
                               ELSE inbox[r][q]
  BY DEF Consume, TypeOK
<1>4. Consume(n, p) \in Inboxes
  BY ReadType
<1>5. QED
  BY <1>2, <1>3, <1>4 DEF InGroup

LEMMA DeliverInGroup ==
    ASSUME NEW box \in Inboxes, NEW g, InGroup(box, g), NEW n \in Node, NEW M,
           NEW m \in Message, Carries(m) => m.group = g
    PROVE  InGroup(Deliver(box, n, M, m), g)
<1> SUFFICES ASSUME NEW r \in Node, NEW q \in Peer,
                    NEW e \in Range(Deliver(box, n, M, m)[r][q]), Carries(e)
             PROVE  e.group = g
  BY DEF InGroup
<1>1. PICK s \in Seq(Message) : s = box[r][q]
  BY DEF Inboxes
<1>2. \/ Deliver(box, n, M, m)[r][q] = Append(s, m)
      \/ Deliver(box, n, M, m)[r][q] = s
  BY <1>1 DEF Deliver
<1>3. Range(Append(s, m)) = Range(s) \cup {m}
  BY <1>1, AppendParts
<1>4. e \in Range(s) \/ e = m
  BY <1>2, <1>3
<1>5. QED
  BY <1>1, <1>4 DEF InGroup

\* The messages without a group
LEMMA PlainMessages ==
    /\ ~Carries(JoinMsg) /\ ~Carries(ReadyMsg) /\ ~Carries(ReadyNotifMsg)
    /\ ~Carries(Text)
  BY DEF Carries, JoinMsg, ReadyMsg, ReadyNotifMsg, Text

-----------------------------------------------------------------------------
(* What most steps leave alone                                             *)

\* Neither groups nor views change, and nobody becomes known.
LEMMA Still ==
    ASSUME NEW h \in Node, Peace(h),
           UNCHANGED <<status, newPeers, viewVars, groupVars>>,
           \A p \in conns'[h] : p[2] = "joiner" => p \in conns[h],
           InGroup(inbox', localGroup[h]),
           \A n \in Node : /\ \A m \in outgoing'[n] : m.group = localGroup[h]
                           /\ \/ ui'[n] \notin {"broadcast", "log"}
                              \/ ui[n] \in {"broadcast", "log"}
                              \/ localGroup[n] # NoGroup
    PROVE  Peace(h)'
<1> USE DEF viewVars, groupVars
<1>1. AllRun' /\ Grouped(h)'
  BY DEF Peace, AllRun, Running, Grouped
<1>2. Sends(h)'
  BY DEF Peace, Sends, InGroup
<1>3. Belongs'
  BY DEF Peace, Belongs, Known
<1>4. NoNullEntry' /\ JoinersWait(h)' /\ Matched'
  BY DEF Peace, NoNullEntry, JoinersWait, Matched, Known
<1>5. QED
  BY <1>1, <1>2, <1>3, <1>4 DEF Peace

\* The commands, but for the JOIN of the join command
LEMMA CommandsStill ==
    ASSUME IInv, NEW h \in Node, Peace(h), NEW a \in Node,
           \/ \E m \in JoinTo[a] : UIJoinConnect(a, m)
           \/ UIBroadcastCheck(a) \/ UIBroadcast(a) \/ UIBroadcastLog(a)
           \/ UIJoinMark(a) \/ UISend(a)
    PROVE  Peace(h)'
<1>1. TypeOK /\ Sends(h) /\ InGroup(inbox, localGroup[h]) /\ inbox \in Inboxes
  BY DEF IInv, TypeOK, Peace, Sends, Inboxes
<1> USE DEF procVars, viewVars, joinVars
<1>2. ASSUME NEW m \in JoinTo[a], UIJoinConnect(a, m)
      PROVE  Peace(h)'
  <2>1. /\ UNCHANGED <<status, newPeers, viewVars, groupVars, inbox, outgoing>>
        /\ ui' = [ui EXCEPT ![a] = "join"]
        /\ conns' = [conns EXCEPT ![a] = @ \cup {<<m, "entry">>}]
    BY <1>2 DEF UIJoinConnect
  <2>2. \A p \in conns'[h] : p[2] = "joiner" => p \in conns[h]
    BY <1>1, <2>1 DEF TypeOK
  <2>3. \A n \in Node : ui'[n] = ui[n] \/ ui'[n] \notin {"broadcast", "log"}
    BY <1>1, <2>1 DEF TypeOK
  <2>4. QED
    BY <1>1, <2>1, <2>2, <2>3, Still DEF Sends
<1>3. CASE UIBroadcastCheck(a)
  <2>1. /\ UNCHANGED <<status, newPeers, viewVars, groupVars, inbox, outgoing, conns>>
        /\ ui' = [ui EXCEPT ![a] = "broadcast"] /\ state[a] = "CONNECTED"
    BY <1>3 DEF UIBroadcastCheck, netVars
  <2>2. localGroup[a] # NoGroup
    BY <2>1 DEF IInv, LocalGroupKept, KeptAt
  <2>3. \A n \in Node : ui'[n] = ui[n] \/ localGroup[n] # NoGroup
    BY <1>1, <2>1, <2>2 DEF TypeOK
  <2>4. QED
    BY <1>1, <2>1, <2>3, Still DEF Sends
<1>4. CASE UIBroadcast(a)
  <2>1. PICK k : k = Cardinality(SentData(a)) + 1
    OBVIOUS
  <2>2. PICK m : m = DataMsg(localGroup[a], a, k)
    OBVIOUS
  <2>3. /\ UNCHANGED <<status, newPeers, viewVars, groupVars, conns>>
        /\ ui' = [ui EXCEPT ![a] = "log"] /\ localGroup[a] # NoGroup
        /\ outgoing' = [outgoing EXCEPT ![a] = {m}]
        /\ inbox' = Deliver(inbox, a, groups[a][localGroup[a]].succs, m)
    BY <1>4, <2>1, <2>2 DEF UIBroadcast
  <2>4. localGroup[a] = localGroup[h] /\ localGroup[a] \in GroupId
    BY <2>3, GroupAt DEF Peace
  <2>5. m \in Message /\ m.group = localGroup[h]
    <3>1. k \in Nat \ {0}
      <4>1. Cardinality(SentData(a)) \in Nat
        BY SentDataFinite, FS_CardinalityType
      <4>2. QED
        BY <2>1, <4>1
    <3>2. m \in Message
      BY <2>2, <2>4, <3>1, MessageTypes
    <3>3. QED
      BY <2>2, <2>4, <3>2 DEF DataMsg
  <2>6. InGroup(inbox', localGroup[h])
    BY <1>1, <2>3, <2>5, DeliverInGroup
  <2>7. \A n \in Node : /\ \A e \in outgoing'[n] : e = m \/ e \in outgoing[n]
                        /\ ui'[n] = ui[n] \/ localGroup[n] # NoGroup
    BY <1>1, <2>3 DEF TypeOK
  <2>8. QED
    BY <1>1, <2>3, <2>5, <2>6, <2>7, Still DEF Sends
<1>5. CASE UIBroadcastLog(a)
  <2>1. /\ UNCHANGED <<status, newPeers, viewVars, groupVars, inbox, conns>>
        /\ ui' = [ui EXCEPT ![a] = "idle"]
        /\ outgoing' = [outgoing EXCEPT ![a] = {}]
    BY <1>5 DEF UIBroadcastLog, netVars
  <2>2. \A n \in Node : /\ outgoing'[n] \subseteq outgoing[n]
                        /\ ui'[n] = ui[n] \/ ui'[n] \notin {"broadcast", "log"}
    BY <1>1, <2>1 DEF TypeOK
  <2>3. QED
    BY <1>1, <2>1, <2>2, Still DEF Sends
<1>6. CASE UISend(a)
  <2>1. /\ UNCHANGED <<status, newPeers, viewVars, groupVars, ui, outgoing, conns>>
        /\ inbox' = Deliver(inbox, a, peers[a], Text)
    BY <1>6 DEF UISend
  <2>2. Text \in Message
    BY DEF Message
  <2>3. InGroup(inbox', localGroup[h])
    BY <1>1, <2>1, <2>2, DeliverInGroup, PlainMessages
  <2>4. QED
    BY <1>1, <2>1, <2>3, Still DEF Sends
<1>7. CASE UIJoinMark(a)
  <2>1. /\ UNCHANGED <<status, newPeers, viewVars, groupVars, inbox, outgoing, conns>>
        /\ ui' = [ui EXCEPT ![a] = "joining"]
    BY <1>7 DEF UIJoinMark, netVars
  <2>2. \A n \in Node : ui'[n] = ui[n] \/ ui'[n] \notin {"broadcast", "log"}
    BY <1>1, <2>1 DEF TypeOK
  <2>3. QED
    BY <1>1, <2>1, <2>2, Still DEF Sends
<1>8. QED
  BY <1>2, <1>3, <1>4, <1>5, <1>6, <1>7

\* What is read only, or forwarded
LEMMA ReadsStill ==
    ASSUME IInv, CInv, NEW h \in Node, Peace(h), NEW a \in Node, NEW p \in Peer,
           \/ HandleDuplicate(a, p) \/ HandleData(a, p) \/ HandleForeignNotif(a, p)
           \/ HandleNotifRefused(a, p) \/ HandleText(a, p) \/ SendReady(a, p)
           \/ ReadTogether(a, p)
    PROVE  Peace(h)'
<1>1. TypeOK /\ Sends(h) /\ InGroup(inbox, localGroup[h]) /\ inbox \in Inboxes
  BY DEF IInv, TypeOK, Peace, Sends, Inboxes
<1> USE DEF procVars, viewVars, joinVars
<1>2. SUFFICES InGroup(inbox', localGroup[h])
  <2>1. /\ UNCHANGED <<status, newPeers, viewVars, groupVars, conns>>
        /\ UNCHANGED <<ui, outgoing>>
    BY DEF HandleDuplicate, HandleData, HandleForeignNotif, HandleNotifRefused,
           HandleText, SendReady, ReadTogether
  <2>2. QED
    BY <1>1, <1>2, <2>1, Still DEF Sends
<1>3. ASSUME inbox[a][p] # <<>>, inbox' = Consume(a, p)
      PROVE  InGroup(inbox', localGroup[h])
  BY <1>1, <1>3, ConsumeInGroup
<1>4. CASE HandleDuplicate(a, p) \/ HandleText(a, p)
  BY <1>3, <1>4 DEF HandleDuplicate, HandleText, Reads
<1>5. CASE HandleData(a, p) \/ HandleForeignNotif(a, p) \/ HandleNotifRefused(a, p)
  <2>1. PICK m : m = Head(inbox[a][p])
    OBVIOUS
  <2>2. inbox[a][p] # <<>> /\ inbox' = Deliver(Consume(a, p), a, Relays(a, m), m)
    BY <1>5, <2>1 DEF HandleData, HandleForeignNotif, HandleNotifRefused,
                      ReadsNotif, Reads
  <2>3. m \in Message /\ m \in Range(inbox[a][p])
    <3>1. inbox[a][p] \in Seq(Message)
      BY <1>1 DEF TypeOK
    <3>2. QED
      BY <2>1, <2>2, <3>1, TailParts, ReadType, <1>1
  <2>4. Carries(m) => m.group = localGroup[h]
    BY <1>1, <2>3 DEF InGroup
  <2>5. QED
    BY <1>1, <2>2, <2>3, <2>4, ConsumeInGroup, DeliverInGroup
<1>6. CASE SendReady(a, p)
  <2>1. inbox' = Deliver(inbox, a, {p}, ReadyMsg) /\ ReadyMsg \in Message
    BY <1>6 DEF SendReady, Message
  <2>2. QED
    BY <1>1, <2>1, DeliverInGroup, PlainMessages
<1>7. CASE ReadTogether(a, p)
  <2>1. inbox[a][p] \in Seq(Message) /\ Len(inbox[a][p]) >= 2
    BY <1>1, <1>7 DEF ReadTogether, TypeOK
  <2>2. inbox' = [inbox EXCEPT ![a][p] = JoinedWithNext(inbox[a][p])]
    BY <1>7 DEF ReadTogether
  <2>3. Range(JoinedWithNext(inbox[a][p])) \subseteq Range(inbox[a][p])
    BY <2>1, JoinedType
  <2>4. \A r \in Node, q \in Peer : Range(inbox'[r][q]) \subseteq Range(inbox[r][q])
    BY <1>1, <2>2, <2>3 DEF TypeOK
  <2>5. QED
    BY <1>1, <2>4 DEF InGroup
<1>8. QED
  BY <1>4, <1>5, <1>6, <1>7

\* Nobody founds or enters a group.
LEMMA SameGroup ==
    ASSUME NEW h \in Node, Peace(h),
           UNCHANGED <<status, localGroup, groupIds, markers, ui, outgoing>>,
           InGroup(inbox', localGroup[h]),
           \A n \in Node, p \in Peer : Known(n, p)' => localGroup[n] # NoGroup,
           NoNullEntry', JoinersWait(h)', Matched'
    PROVE  Peace(h)'
<1>1. AllRun' /\ Grouped(h)'
  BY DEF Peace, AllRun, Running, Grouped
<1>2. Sends(h)'
  BY DEF Peace, Sends, InGroup
<1>3. Belongs'
  BY DEF Peace, Belongs
<1>4. QED
  BY <1>1, <1>2, <1>3 DEF Peace

\* What the operations of a group do to its members
LEMMA MembersAre ==
    ASSUME NEW g \in Group, NEW n \in Node, NEW p \in Peer
    PROVE  /\ UpdateNeighbours(g, n).members = g.members
           /\ EnterRings(g, n).members = g.members
           /\ Ids(AddPeer(g, p).members) = Ids(g.members) \cup {Id(p)}
<1>1. \A e \in Group : UpdateNeighbours(e, n).members = e.members
  BY DEF UpdateNeighbours, Group
<1>2. AddToRings(g, Local(n)) \in Group /\ AddToRings(g, Local(n)).members = g.members
  <2>1. Local(n) \in Peer
    BY DEF Local, Peer, PeerKind
  <2>2. AddToRings(g, Local(n)) \in Group
    BY <2>1, GroupOperationsType
  <2>3. AddToRings(g, Local(n)).members = g.members
    BY DEF AddToRings, Group
  <2>4. QED
    BY <2>2, <2>3
<1>3. AddPeer(g, p).members = InsertNew(g.members, p)
  BY DEF AddPeer, AddToRings, Group
<1>4. QED
  BY <1>1, <1>2, <1>3 DEF EnterRings, InsertNew, Ids

\* Entering the rings adds no member.
LEMMA ReadyMatched ==
    ASSUME TypeOK, Matched, NEW a \in Node, NEW p \in Peer, HandleReady(a, p)
    PROVE  Matched'
<1>1. PICK entered : entered = [g \in GroupId |->
                       IF g \in ToEnter(a) THEN EnterRings(groups[a][g], a)
                       ELSE groups[a][g]]
  OBVIOUS
<1>2. groups' = [groups EXCEPT ![a] = entered] /\ UNCHANGED <<peers, localGroup>>
  BY <1>1 DEF HandleReady, viewVars
<1>3. \A n \in Node, g \in GroupId : groups'[n][g].members = groups[n][g].members
  <2>1. \A g \in GroupId : groups[a][g] \in Group
    BY DEF TypeOK
  <2>2. \A g \in GroupId : entered[g].members = groups[a][g].members
    BY <1>1, <2>1, MembersAre
  <2>3. \A n \in Node : groups'[n] = IF n = a THEN entered ELSE groups[n]
    BY <1>2 DEF TypeOK
  <2>4. QED
    BY <2>2, <2>3
<1>4. \A n \in Node : localGroup[n] # NoGroup => localGroup[n] \in GroupId
  BY DEF TypeOK
<1>5. QED
  BY <1>2, <1>3, <1>4 DEF Matched

LEMMA ReadyStill ==
    ASSUME IInv, NEW h \in Node, Peace(h), NEW a \in Node, NEW p \in Peer,
           HandleReady(a, p)
    PROVE  Peace(h)'
<1>1. TypeOK /\ InGroup(inbox, localGroup[h])
  BY DEF IInv, Peace, Sends
<1>2. PICK entered : entered = [g \in GroupId |->
                       IF g \in ToEnter(a) THEN EnterRings(groups[a][g], a)
                       ELSE groups[a][g]]
  OBVIOUS
<1>3. PICK D : D = UNION {Neighbours(entered[g]) : g \in ToEnter(a)}
  OBVIOUS
<1>4. /\ groups' = [groups EXCEPT ![a] = entered]
      /\ inbox' = Deliver(Consume(a, p), a, D, ReadyNotifMsg)
      /\ inbox[a][p] # <<>>
      /\ UNCHANGED <<status, ui, outgoing, newPeers, peers, peerState, conns,
                     localGroup, groupIds, markers>>
  BY <1>2, <1>3 DEF HandleReady, Reads, procVars, joinVars, viewVars
<1>5. InGroup(inbox', localGroup[h])
  <2>1. ReadyNotifMsg \in Message
    BY DEF Message
  <2>2. QED
    BY <1>1, <1>4, <2>1, ConsumeInGroup, DeliverInGroup, PlainMessages
<1>6. Matched'
  BY <1>1, ReadyMatched DEF Peace
<1>7. NoNullEntry' /\ JoinersWait(h)'
  BY <1>4 DEF Peace, NoNullEntry, JoinersWait, Known
<1>8. \A n \in Node, q \in Peer : Known(n, q)' => localGroup[n] # NoGroup
  BY <1>4 DEF Peace, Belongs, Known
<1>9. QED
  BY <1>4, <1>5, <1>6, <1>7, <1>8, SameGroup

\* The Peers that are put in new_peers
LEMMA EntersNewPeers ==
    ASSUME IInv, NEW h \in Node, Peace(h), NEW a \in Node, NEW p \in Peer,
           newPeers' = [newPeers EXCEPT ![a][AddrOfPeer(p)] =
                           [peer |-> p, port |-> NoNode]],
           peerState' = [peerState EXCEPT ![a][p] = "NEW"],
           \A q \in conns'[h] : q \in conns[h] \/ (a = h /\ q = p),
           ~Known(a, p),
           UNCHANGED <<status, outgoing, peers, groupVars>>,
           \A n \in Node : ui'[n] \in {"broadcast", "log"} => ui'[n] = ui[n],
           InGroup(inbox', localGroup[h])
    PROVE  Peace(h)'
<1>1. TypeOK /\ AddrOfPeer(p) \in Addr /\ p # NoPeer
  BY EntryType, NetworkAssumption DEF IInv
<1>2. \A n \in Node, k \in Addr :
         newPeers'[n][k] = IF n = a /\ k = AddrOfPeer(p)
                           THEN [peer |-> p, port |-> NoNode] ELSE newPeers[n][k]
  BY <1>1 DEF TypeOK
<1>3. \A n \in Node, q \in Peer : Known(n, q)' <=> Known(n, q)
  <2>1. \A n \in Node, q \in Peer :
           peerState'[n][q] = IF n = a /\ q = p THEN "NEW" ELSE peerState[n][q]
    BY <1>1 DEF TypeOK
  <2>2. QED
    BY <2>1 DEF Known
<1>4. AllRun' /\ Grouped(h)' /\ Matched'
  BY DEF Peace, AllRun, Running, Grouped, Matched, groupVars
<1>5. Sends(h)' /\ Belongs'
  BY <1>3 DEF Peace, Sends, InGroup, Belongs, groupVars
<1>6. NoNullEntry'
  BY <1>1, <1>2 DEF Peace, NoNullEntry
<1>7. JoinersWait(h)'
  <2> SUFFICES ASSUME NEW q \in conns'[h], q \in Peer, q[2] = "joiner", ~Known(h, q)'
               PROVE  newPeers'[h][AddrOfPeer(q)].peer # NoPeer
    <3>1. \A q \in conns'[h] : q \in Peer
      BY <1>1 DEF TypeOK
    <3>2. QED
      BY <3>1 DEF JoinersWait
  <2>1. AddrOfPeer(q) \in Addr
    BY EntryType
  <2>2. CASE a = h /\ AddrOfPeer(q) = AddrOfPeer(p)
    BY <1>1, <1>2, <2>1, <2>2
  <2>3. CASE ~(a = h /\ AddrOfPeer(q) = AddrOfPeer(p))
    BY <1>2, <1>3, <2>1, <2>3 DEF Peace, JoinersWait
  <2>4. QED
    BY <2>2, <2>3
<1>8. QED
  BY <1>4, <1>5, <1>6, <1>7 DEF Peace

\* add_new_peer, for the entry point and for whoever the listener accepts
LEMMA NewPeerStill ==
    ASSUME IInv, CInv, NEW h \in Node, Peace(h), NEW a \in Node,
           UIJoinSend(a) \/ \E p \in Peer : Accept(a, p)
    PROVE  Peace(h)'
<1>1. TypeOK /\ InGroup(inbox, localGroup[h]) /\ inbox \in Inboxes
  BY DEF IInv, TypeOK, Peace, Sends, Inboxes
<1>2. ASSUME NEW p \in Peer, Accept(a, p)
      PROVE  Peace(h)'
  <2>1. ~Known(a, p)
    BY <1>2, CInvAt DEF Accept, OpenAt
  <2>2. /\ UNCHANGED <<status, ui, outgoing, peers, groupVars, inbox>>
        /\ newPeers' = [newPeers EXCEPT ![a][AddrOfPeer(p)] =
                           [peer |-> p, port |-> NoNode]]
        /\ peerState' = [peerState EXCEPT ![a][p] = "NEW"]
        /\ conns' = [conns EXCEPT ![a] = @ \cup {p}]
    BY <1>2 DEF Accept, procVars
  <2>3. \A q \in conns'[h] : q \in conns[h] \/ (a = h /\ q = p)
    BY <1>1, <2>2 DEF TypeOK
  <2>4. QED
    BY <1>1, <2>1, <2>2, <2>3, EntersNewPeers
<1>3. CASE UIJoinSend(a)
  <2>1. PICK p \in Peer : p = <<entry[a], "entry">>
    BY <1>1 DEF TypeOK, Peer, PeerKind
  <2>2. /\ UNCHANGED <<status, outgoing, peers, groupVars, conns>>
        /\ newPeers' = [newPeers EXCEPT ![a][AddrOfPeer(p)] =
                           [peer |-> p, port |-> NoNode]]
        /\ peerState' = [peerState EXCEPT ![a][p] = "NEW"]
        /\ ui' = [ui EXCEPT ![a] = "idle"]
        /\ inbox' = Deliver(inbox, a, {p}, JoinMsg)
    BY <1>3, <2>1 DEF UIJoinSend
  <2>3. ~Known(a, p)
    <3>1. Running(a) /\ ui[a] = "joining"
      BY <1>3 DEF UIJoinSend
    <3>2. entry[a] \in Node
      BY <1>1 DEF TypeOK
    <3>3. QED
      BY <2>1, <3>1, <3>2, NotAsked
  <2>4. InGroup(inbox', localGroup[h])
    <3>1. JoinMsg \in Message
      BY DEF Message
    <3>2. QED
      BY <1>1, <2>2, <3>1, DeliverInGroup, PlainMessages
  <2>5. \A n \in Node : ui'[n] \in {"broadcast", "log"} => ui'[n] = ui[n]
    BY <1>1, <2>2 DEF TypeOK
  <2>6. QED
    BY <2>2, <2>3, <2>4, <2>5, EntersNewPeers
<1>4. QED
  BY <1>2, <1>3

-----------------------------------------------------------------------------
(* Whoever is let in                                                       *)

\* One node's view and groups change.
ElsewhereKept(a) ==
    \A n \in Node \ {a} : peers'[n] = peers[n] /\ groups'[n] = groups[n]

\* Peer c enters the view of a and its group, of which gs is the record so far.
LetsIn(a, c, gid, gs) ==
    /\ ElsewhereKept(a)
    /\ Ids(peers'[a]) = Ids(peers[a]) \cup {Id(c)}
    /\ groups'[a][gid] = UpdateNeighbours(AddPeer(gs[gid], c), a)
    /\ Ids(groups'[a][gid].members) = Ids(gs[gid].members) \cup {Id(c)}

\* acknowledge_join enters the Peer in the view and in the group.
LEMMA AcknowledgedMember ==
    ASSUME TypeOK, NEW a \in Node, NEW c \in Peer, NEW gid \in GroupId,
           NEW gs \in [GroupId -> Group], NEW box, NEW M, NEW timers,
           AcknowledgeJoin(a, c, gid, gs, box, M, timers)
    PROVE  LetsIn(a, c, gid, gs)
<1>1. PICK g : g = UpdateNeighbours(AddPeer(gs[gid], c), a)
  OBVIOUS
<1>2. /\ peers' = [peers EXCEPT ![a] = Put(@, c)]
      /\ groups' = [groups EXCEPT ![a] = [gs EXCEPT ![gid] = g]]
  BY <1>1 DEF AcknowledgeJoin
<1>3. /\ ElsewhereKept(a)
      /\ peers'[a] = Put(peers[a], c) /\ groups'[a][gid] = g
  BY <1>2 DEF TypeOK, ElsewhereKept
<1>4. Ids(peers'[a]) = Ids(peers[a]) \cup {Id(c)}
  BY <1>3 DEF Put, Ids
<1>5. AddPeer(gs[gid], c) \in Group
  BY GroupOperationsType
<1>6. Ids(g.members) = Ids(gs[gid].members) \cup {Id(c)}
  BY <1>1, <1>5, MembersAre
<1>7. QED
  BY <1>1, <1>3, <1>4, <1>6 DEF LetsIn

LEMMA AcknowledgedInGroup ==
    ASSUME TypeOK, NEW a \in Node, NEW c \in Peer, NEW gid \in GroupId,
           NEW gs \in [GroupId -> Group], NEW box \in Inboxes, InGroup(box, gid),
           NEW M, NEW timers, AcknowledgeJoin(a, c, gid, gs, box, M, timers)
    PROVE  InGroup(inbox', gid) /\ LetsIn(a, c, gid, gs)
<1>1. inbox' = Deliver(box, a, {c}, AckMsg(gid))
  BY DEF AcknowledgeJoin
<1>2. AckMsg(gid) \in Message /\ AckMsg(gid).group = gid
  BY MessageTypes DEF AckMsg
<1>3. InGroup(inbox', gid)
  BY <1>1, <1>2, DeliverInGroup
<1>4. QED
  BY <1>3, AcknowledgedMember

KnownGrows == \A n \in Node, p \in Peer : Known(n, p) => Known(n, p)'

\* answer_join_request erases the entry of whom it answers, and no other.
LEMMA AnsweredInGroup ==
    ASSUME IInv, NEW h \in Node, DistinctAddresses, Peace(h), NEW a \in Node,
           NEW c \in Peer, c[2] = "joiner", NEW port \in Node \cup {NoNode},
           NEW gid \in GroupId, NEW gs \in [GroupId -> Group],
           NEW box \in Inboxes, InGroup(box, gid), NEW timers,
           AnswerJoinRequest(a, c, port, gid, gs, box, timers),
           conns' = conns, Known(a, c)', KnownGrows
    PROVE  /\ InGroup(inbox', gid) /\ NoNullEntry' /\ JoinersWait(h)'
           /\ LetsIn(a, c, gid, gs)
<1>1. PICK notif : notif = NotifMsg(gid, a, Id(c), port)
  OBVIOUS
<1>2. PICK succs : succs = gs[gid].succs
  OBVIOUS
<1>3. PICK after : after = Deliver(box, a, succs, notif)
  OBVIOUS
<1>4. /\ newPeers' = [newPeers EXCEPT ![a][AddrOfPeer(c)] = NoEntry]
      /\ AcknowledgeJoin(a, c, gid, gs, after, succs, timers)
  BY <1>1, <1>2, <1>3 DEF AnswerJoinRequest
<1>5. TypeOK /\ Id(c) \in Node /\ AddrOfPeer(c) \in Addr
  BY EntryType DEF IInv
<1>6. notif \in Message /\ notif.group = gid
  BY <1>1, <1>5, MessageTypes DEF NotifMsg
<1>7. after \in Inboxes /\ InGroup(after, gid)
  BY <1>3, <1>6, DeliverType, DeliverInGroup
<1>8. \A n \in Node, k \in Addr :
         newPeers'[n][k] = IF n = a /\ k = AddrOfPeer(c) THEN NoEntry
                           ELSE newPeers[n][k]
  BY <1>4, <1>5 DEF TypeOK
<1>9. NoNullEntry'
  BY <1>8 DEF Peace, NoNullEntry
<1>10. JoinersWait(h)'
  <2> SUFFICES ASSUME NEW q \in conns[h], q \in Peer, q[2] = "joiner", ~Known(h, q)'
               PROVE  newPeers'[h][AddrOfPeer(q)].peer # NoPeer
    <3>1. \A q \in conns[h] : q \in Peer
      BY <1>5 DEF TypeOK
    <3>2. QED
      BY <3>1 DEF JoinersWait
  <2>1. newPeers[h][AddrOfPeer(q)].peer # NoPeer /\ AddrOfPeer(q) \in Addr
    BY EntryType DEF Peace, JoinersWait, KnownGrows
  <2>2. ~(h = a /\ AddrOfPeer(q) = AddrOfPeer(c))
    <3>1. SUFFICES ASSUME h = a, AddrOfPeer(q) = AddrOfPeer(c)
                   PROVE  FALSE
      OBVIOUS
    <3>2. Id(q) = Id(c)
      BY <1>5, <3>1, Kinds DEF AddrOfPeer, DistinctAddresses
    <3>3. q = c
      BY <3>2, Kinds
    <3>4. QED
      BY <3>1, <3>3
  <2>3. QED
    BY <1>8, <2>1, <2>2
<1>11. InGroup(inbox', gid) /\ LetsIn(a, c, gid, gs)
  BY <1>4, <1>5, <1>7, AcknowledgedInGroup
<1>12. QED
  BY <1>9, <1>10, <1>11

\* The view of one node and its group change together.
LEMMA MatchedAt ==
    ASSUME Matched, NEW a \in Node, ElsewhereKept(a),
           \A n \in Node \ {a} : localGroup'[n] = localGroup[n],
           NEW gid, gid = localGroup'[a],
           Ids(peers'[a]) = Ids(groups'[a][gid].members)
    PROVE  Matched'
  BY DEF Matched, ElsewhereKept

LEMMA NotifStill ==
    ASSUME IInv, CInv, NEW h \in Node, Peace(h), NEW a \in Node, NEW p \in Peer,
           HandleJoinNotif(a, p)
    PROVE  Peace(h)'
<1>1. TypeOK /\ InGroup(inbox, localGroup[h])
  BY DEF IInv, Peace, Sends
<1>2. PICK m : m = Head(inbox[a][p])
  OBVIOUS
<1>3. PICK box : box = Deliver(Consume(a, p), a, Relays(a, m), m)
  OBVIOUS
<1>4. PICK q : q = <<m.peer, "called">>
  OBVIOUS
<1>5. PICK gid : gid = m.group
  OBVIOUS
<1>6. PICK gs : gs = groups[a]
  OBVIOUS
<1>7. /\ Reads(a, p, "JOIN_NOTIF") /\ Ours(a, m)
      /\ conns' = [conns EXCEPT ![a] = @ \cup {q}]
      /\ peerState' = [peerState EXCEPT ![a][q] = "JOINING"]
      /\ AcknowledgeJoin(a, q, gid, gs, box, Relays(a, m), joinTimers[a])
      /\ UNCHANGED <<status, ui, outgoing, newPeers, localGroup, groupIds, markers>>
  BY <1>2, <1>3, <1>4, <1>5, <1>6
     DEF HandleJoinNotif, ReadsNotif, Identified, procVars
<1>8. /\ m \in Message /\ m \in Range(inbox[a][p]) /\ m.type = "JOIN_NOTIF"
      /\ inbox[a][p] # <<>>
  BY <1>1, <1>2, <1>7, ReadParts
<1>9. gid \in GroupId /\ q \in Peer /\ gs \in [GroupId -> Group]
  <2>1. m.group \in GroupId /\ m.peer \in Node
    BY <1>8, MessageFields
  <2>2. QED
    BY <1>1, <1>4, <1>5, <1>6, <2>1 DEF Peer, PeerKind, TypeOK
<1>10. /\ gid = localGroup[a] /\ localGroup[a] # NoGroup
       /\ gid = localGroup[h]
  <2>1. gid = localGroup[a] /\ localGroup[a] # NoGroup
    BY <1>5, <1>7, <1>9, NetworkAssumption DEF Ours
  <2>2. QED
    BY <2>1, GroupAt DEF Peace
<1>11. box \in Inboxes /\ InGroup(box, gid)
  BY <1>1, <1>3, <1>5, <1>8, <1>10, ConsumeInGroup, DeliverInGroup, DeliverType
<1>12. InGroup(inbox', gid) /\ LetsIn(a, q, gid, gs)
  BY <1>1, <1>7, <1>9, <1>11, AcknowledgedInGroup
<1>13. Matched'
  <2>1. Ids(peers[a]) = Ids(groups[a][localGroup[a]].members)
    BY <1>10 DEF Peace, Matched
  <2>2. Matched
    BY DEF Peace
  <2>3. ElsewhereKept(a) /\ Ids(peers'[a]) = Ids(groups'[a][gid].members)
    BY <1>6, <1>10, <1>12, <2>1 DEF LetsIn
  <2>4. localGroup' = localGroup
    BY <1>7
  <2>5. QED
    BY <1>10, <2>2, <2>3, <2>4, MatchedAt
<1>14. \A n \in Node, r \in Peer :
          /\ Known(n, r) => Known(n, r)'
          /\ Known(n, r)' => localGroup[n] # NoGroup
  <2>1. \A n \in Node, r \in Peer :
           peerState'[n][r] = IF n = a /\ r = q THEN "JOINING" ELSE peerState[n][r]
    BY <1>1, <1>7 DEF TypeOK
  <2>2. \A n \in Node, r \in Peer : Known(n, r)' <=> Known(n, r) \/ (n = a /\ r = q)
    BY <2>1 DEF Known
  <2>3. \A n \in Node, r \in Peer : Known(n, r) => localGroup[n] # NoGroup
    BY DEF Peace, Belongs
  <2>4. QED
    BY <1>10, <2>2, <2>3
<1>15. NoNullEntry' /\ JoinersWait(h)'
  <2>1. \A r \in conns'[h] : r[2] = "joiner" => r \in conns[h] /\ r \in Peer
    BY <1>1, <1>4, <1>7 DEF TypeOK
  <2>2. QED
    BY <1>7, <1>14, <2>1 DEF Peace, NoNullEntry, JoinersWait
<1>16. QED
  BY <1>7, <1>10, <1>12, <1>13, <1>14, <1>15, SameGroup

\* Who is acknowledged enters the entry point's group, if not there yet.
LEMMA AckStill ==
    ASSUME IInv, CInv, NEW h \in Node, EntryKept(h), Peace(h),
           NEW a \in Node, NEW p \in Peer, HandleJoinAck(a, p)
    PROVE  Peace(h)'
<1>1. TypeOK /\ InGroup(inbox, localGroup[h])
  BY DEF IInv, Peace, Sends
<1>2. PICK gid : gid = localGroup[h]
  OBVIOUS
<1>3. Reads(a, p, "JOIN_ACK") /\ a # h
  BY NoAckAtEntry DEF HandleJoinAck
<1>4. /\ Head(inbox[a][p]).group = gid /\ gid \in GroupId /\ gid # NoGroup
      /\ inbox[a][p] # <<>>
  <2>1. PICK m \in Message : /\ m = Head(inbox[a][p]) /\ m \in Range(inbox[a][p])
                             /\ m.type = "JOIN_ACK" /\ inbox[a][p] # <<>>
    BY <1>3, AckParts
  <2>2. m.group = gid
    BY <1>1, <1>2, <2>1 DEF InGroup, Carries
  <2>3. m.group \in GroupId
    BY <2>1, MessageFields
  <2>4. QED
    BY <2>1, <2>2, <2>3, NetworkAssumption
<1>5. \/ /\ localGroup[a] = NoGroup /\ groupIds[a] = {} /\ peers[a] = {}
         /\ markers[a] = {}
      \/ localGroup[a] = gid /\ groupIds[a] = {gid} /\ markers[a] = {gid}
  <2>1. CASE localGroup[a] = NoGroup
    BY <2>1 DEF IInv, LocalGroupKept, KeptAt, Peace, Grouped
  <2>2. CASE localGroup[a] # NoGroup
    BY <1>2, <2>2, GroupAt DEF Peace
  <2>3. QED
    BY <2>1, <2>2
<1>6. PICK g : g = IF localGroup[a] = NoGroup THEN NewGroup ELSE groups[a][gid]
  OBVIOUS
<1>7. /\ groups' = [groups EXCEPT ![a][gid] = AddPeer(g, p)]
      /\ groupIds' = [groupIds EXCEPT ![a] = @ \cup {gid}]
      /\ peerState' = [peerState EXCEPT ![a][p] = "CONNECTED"]
      /\ newPeers' = [newPeers EXCEPT ![a][AddrOfPeer(p)] = NoEntry]
      /\ peers' = [peers EXCEPT ![a] = Put(@, p)]
      /\ inbox' = Consume(a, p)
      /\ UNCHANGED <<status, ui, outgoing, conns>>
  BY <1>4, <1>5, <1>6 DEF HandleJoinAck, Identified, procVars
<1>8. /\ localGroup'[a] = gid /\ groupIds'[a] = {gid} /\ markers'[a] = {gid}
      /\ \A n \in Node \ {a} : /\ localGroup'[n] = localGroup[n]
                               /\ groupIds'[n] = groupIds[n]
                               /\ markers'[n] = markers[n]
                               /\ groups'[n] = groups[n] /\ peers'[n] = peers[n]
                               /\ newPeers'[n] = newPeers[n]
  <2>1. \/ /\ localGroup[a] = NoGroup /\ localGroup' = [localGroup EXCEPT ![a] = gid]
           /\ markers' = [markers EXCEPT ![a] = @ \cup {gid}]
        \/ localGroup[a] = gid /\ UNCHANGED <<localGroup, markers>>
    BY <1>4, <1>5 DEF HandleJoinAck, MapMarker
  <2>2. groupIds'[a] = {gid}
    BY <1>1, <1>5, <1>7 DEF TypeOK
  <2>3. localGroup'[a] = gid /\ markers'[a] = {gid}
    BY <1>1, <1>4, <1>5, <2>1 DEF TypeOK
  <2>4. \A n \in Node \ {a} : localGroup'[n] = localGroup[n] /\ markers'[n] = markers[n]
    BY <1>1, <2>1 DEF TypeOK
  <2>5. QED
    BY <1>1, <1>7, <2>2, <2>3, <2>4 DEF TypeOK
<1>9. AllRun' /\ Grouped(h)'
  BY <1>2, <1>3, <1>7, <1>8 DEF Peace, AllRun, Running, Grouped
<1>10. Sends(h)'
  <2>1. InGroup(Consume(a, p), gid)
    BY <1>1, <1>2, <1>4, ConsumeInGroup
  <2>2. localGroup'[h] = gid /\ outgoing' = outgoing
    BY <1>2, <1>3, <1>7, <1>8
  <2>3. QED
    BY <1>2, <1>7, <2>1, <2>2 DEF Peace, Sends, InGroup
<1>11. \A n \in Node, r \in Peer : Known(n, r)' <=> Known(n, r) \/ (n = a /\ r = p)
  <2>1. \A n \in Node, r \in Peer :
           peerState'[n][r] = IF n = a /\ r = p THEN "CONNECTED" ELSE peerState[n][r]
    BY <1>1, <1>7 DEF TypeOK
  <2>2. QED
    BY <2>1 DEF Known
<1>12. Belongs'
  BY <1>4, <1>7, <1>8, <1>11 DEF Peace, Belongs
<1>13. NoNullEntry'
  <2>1. \A n \in Node, k \in Addr :
           newPeers'[n][k] \in {newPeers[n][k], NoEntry}
    BY <1>1, <1>7 DEF TypeOK
  <2>2. QED
    BY <2>1 DEF Peace, NoNullEntry
<1>14. JoinersWait(h)'
  <2>1. newPeers'[h] = newPeers[h] /\ conns'[h] = conns[h] /\ conns[h] \subseteq Peer
    BY <1>1, <1>3, <1>7, <1>8 DEF TypeOK
  <2>2. \A q \in conns[h] : ~Known(h, q)' => ~Known(h, q)
    BY <1>11, <2>1
  <2>3. QED
    BY <2>1, <2>2 DEF Peace, JoinersWait
<1>15. Matched'
  <2>1. g \in Group
    BY <1>1, <1>4, <1>6, GroupOperationsType DEF TypeOK, NewGroup, Group
  <2>2. Ids(AddPeer(g, p).members) = Ids(g.members) \cup {Id(p)}
    BY <2>1, MembersAre
  <2>3. groups'[a][gid] = AddPeer(g, p) /\ peers'[a] = Put(peers[a], p)
    BY <1>1, <1>4, <1>7 DEF TypeOK
  <2>4. Ids(peers[a]) = Ids(g.members)
    <3>1. CASE localGroup[a] = NoGroup
      BY <1>4, <1>5, <1>6, <3>1 DEF NewGroup, Ids
    <3>2. CASE localGroup[a] # NoGroup
      BY <1>5, <1>6, <3>2 DEF Peace, Matched
    <3>3. QED
      BY <3>1, <3>2
  <2>5. Ids(Put(peers[a], p)) = Ids(peers[a]) \cup {Id(p)}
    BY DEF Put, Ids
  <2>6. Matched
    BY DEF Peace
  <2>7. ElsewhereKept(a) /\ Ids(peers'[a]) = Ids(groups'[a][gid].members)
    BY <1>8, <2>2, <2>3, <2>4, <2>5 DEF ElsewhereKept
  <2>8. \A n \in Node \ {a} : localGroup'[n] = localGroup[n]
    BY <1>8
  <2>9. QED
    BY <1>8, <2>6, <2>7, <2>8, MatchedAt
<1>16. QED
  BY <1>9, <1>10, <1>12, <1>13, <1>14, <1>15 DEF Peace

\* check_for_new_peers answers a joining node that has sent its JOIN.
LEMMA PendingJoiner ==
    ASSUME CInv, TypeOK, NEW a \in Node, NEW p \in Peer, Known(a, p),
           NEW states, states = [peerState[a] EXCEPT ![p] = "CONNECTED"],
           NEW k \in Pending(a, states), NEW c \in Peer, c = newPeers[a][k].peer
    PROVE  c[2] = "joiner" /\ Known(a, c) /\ k \in Addr /\ InNew(a, c)
<1>1. /\ k \in Addr /\ c # NoPeer /\ states[c] # "NEW"
  BY NetworkAssumption DEF Pending
<1>2. Known(a, c)
  BY <1>1 DEF Known, TypeOK
<1>3. NewPeerAt(a, k)
  BY <1>1, CInvNew
<1>4. c[2] = "joiner"
  BY <1>1, <1>2, <1>3 DEF NewPeerAt, Asking
<1>5. QED
  BY <1>1, <1>2, <1>4 DEF InNew

LEMMA CheckAnswers ==
    ASSUME IInv, CInv, NEW h \in Node, DistinctAddresses, Peace(h),
           NEW a \in Node, NEW p \in Peer, Known(a, p), NEW states,
           states = [peerState[a] EXCEPT ![p] = "CONNECTED"],
           ~DereferencesNull(a, states), NEW k \in Pending(a, states),
           NEW box \in Inboxes, InGroup(box, localGroup[h]), NEW timers,
           AnswerJoinRequest(a, newPeers[a][k].peer, newPeers[a][k].port,
                             localGroup[a], groups[a], box, timers),
           conns' = conns, KnownGrows
    PROVE  \E c \in Peer, port \in Node \cup {NoNode}, gid \in GroupId,
              gs \in [GroupId -> Group] :
              /\ AnswerJoinRequest(a, c, port, gid, gs, box, timers)
              /\ c[2] = "joiner" /\ Unheard(Id(c))
              /\ gid = localGroup[a] /\ gid = localGroup[h] /\ gid # NoGroup
              /\ gs = groups[a]
              /\ InGroup(inbox', gid) /\ NoNullEntry' /\ JoinersWait(h)'
              /\ LetsIn(a, c, gid, gs)
<1>1. TypeOK
  BY DEF IInv
<1>2. PICK c \in Peer : c = newPeers[a][k].peer
  BY PendingType
<1>3. PICK port \in Node \cup {NoNode} : port = newPeers[a][k].port
  BY PendingType
<1>4. PICK gid \in GroupId : gid = localGroup[a]
  BY PendingType
<1>5. PICK gs \in [GroupId -> Group] : gs = groups[a]
  BY <1>1 DEF TypeOK
<1>6. c[2] = "joiner" /\ Known(a, c) /\ InNew(a, c)
  BY <1>1, <1>2, PendingJoiner
<1>7. Unheard(Id(c))
  <2>1. c = <<Id(c), "joiner">> /\ Id(c) \in Node
    BY <1>6, Kinds
  <2>2. QED
    BY <1>6, <2>1, CInvNodes DEF JoinerAt
<1>8. gid # NoGroup /\ gid = localGroup[h]
  <2>1. localGroup[a] # NoGroup
    BY <1>6 DEF Peace, Belongs
  <2>2. QED
    BY <1>4, <2>1, GroupAt DEF Peace
<1>9. AnswerJoinRequest(a, c, port, gid, gs, box, timers)
  BY <1>2, <1>3, <1>4, <1>5
<1>10. /\ InGroup(inbox', gid) /\ NoNullEntry' /\ JoinersWait(h)'
       /\ LetsIn(a, c, gid, gs)
  <2>1. InGroup(box, gid) /\ Known(a, c)'
    BY <1>6, <1>8 DEF KnownGrows
  <2>2. QED
    BY <1>6, <1>9, <2>1, AnsweredInGroup
<1>11. QED
  BY <1>4, <1>5, <1>6, <1>7, <1>8, <1>9, <1>10

LEMMA CheckStill ==
    ASSUME IInv, CInv, NEW h \in Node, DistinctAddresses, Peace(h),
           NEW a \in Node, NEW p \in Peer, Known(a, p), NEW states,
           states = [peerState[a] EXCEPT ![p] = "CONNECTED"],
           peerState' = [peerState EXCEPT ![a] = states],
           NEW box \in Inboxes, InGroup(box, localGroup[h]), NEW timers,
           CheckForNewPeers(a, states, box, timers),
           UNCHANGED <<procVars, localGroup, groupIds, markers, conns>>
    PROVE  Peace(h)'
<1>1. TypeOK /\ UNCHANGED <<status, ui, outgoing>> /\ conns' = conns
  BY DEF IInv, procVars
<1>2. \A n \in Node, q \in Peer : /\ Known(n, q)' <=> Known(n, q)
                                  /\ Known(n, q) => localGroup[n] # NoGroup
  <2>1. \A n \in Node, q \in Peer :
           peerState'[n][q] = IF n = a /\ q = p THEN "CONNECTED" ELSE peerState[n][q]
    BY <1>1 DEF TypeOK
  <2>2. QED
    BY <2>1 DEF Known, Peace, Belongs
<1>3. ASSUME ~DereferencesNull(a, states), NEW k \in Pending(a, states),
             AnswerJoinRequest(a, newPeers[a][k].peer, newPeers[a][k].port,
                               localGroup[a], groups[a], box, timers)
      PROVE  Peace(h)'
  <2>1. KnownGrows
    BY <1>2 DEF KnownGrows
  <2>2. PICK c \in Peer, port \in Node \cup {NoNode}, gid \in GroupId,
             gs \in [GroupId -> Group] :
           /\ gid = localGroup[a] /\ gid = localGroup[h] /\ gid # NoGroup
           /\ gs = groups[a]
           /\ InGroup(inbox', gid) /\ NoNullEntry' /\ JoinersWait(h)'
           /\ LetsIn(a, c, gid, gs)
    BY <1>1, <1>3, <2>1, CheckAnswers
  <2>3. Matched'
    <3>1. Ids(peers[a]) = Ids(groups[a][gid].members)
      BY <2>2 DEF Peace, Matched
    <3>2. Matched
      BY DEF Peace
    <3>3. ElsewhereKept(a) /\ Ids(peers'[a]) = Ids(groups'[a][gid].members)
      BY <2>2, <3>1 DEF LetsIn
    <3>4. gid = localGroup'[a] /\ localGroup' = localGroup
      BY <2>2
    <3>5. QED
      BY <3>2, <3>3, <3>4, MatchedAt
  <2>4. InGroup(inbox', localGroup[h]) /\ NoNullEntry' /\ JoinersWait(h)'
    BY <2>2
  <2>5. QED
    BY <1>1, <1>2, <2>3, <2>4, SameGroup
<1>4. ASSUME inbox' = box, UNCHANGED <<newPeers, peers, groups>>
      PROVE  Peace(h)'
  <2>1. NoNullEntry' /\ JoinersWait(h)' /\ Matched'
    <3>1. \A q \in conns[h] : q \in Peer
      BY <1>1 DEF TypeOK
    <3>2. QED
      BY <1>2, <1>4, <3>1 DEF Peace, NoNullEntry, JoinersWait, Matched
  <2>2. QED
    BY <1>1, <1>2, <1>4, <2>1, SameGroup
<1>5. QED
  BY <1>3, <1>4 DEF CheckForNewPeers

LEMMA CheckersStill ==
    ASSUME IInv, CInv, TimersKept, NEW h \in Node, DistinctAddresses, Peace(h),
           NEW a \in Node, NEW p \in Peer,
           HandleReadyNotif(a, p) \/ CompleteJoin(a, p)
    PROVE  Peace(h)'
<1>1. TypeOK /\ InGroup(inbox, localGroup[h]) /\ inbox \in Inboxes
  BY DEF IInv, TypeOK, Inboxes, Peace, Sends
<1>2. PICK states : states = [peerState[a] EXCEPT ![p] = "CONNECTED"]
  OBVIOUS
<1>3. CASE HandleReadyNotif(a, p)
  <2>1. PICK box : box = Consume(a, p)
    OBVIOUS
  <2>2. Reads(a, p, "READY_NOTIF")
    BY <1>3 DEF HandleReadyNotif
  <2>3. Known(a, p) /\ inbox[a][p] # <<>>
    BY <1>1, <2>2, ReadParts
  <2>4. box \in Inboxes /\ InGroup(box, localGroup[h])
    BY <1>1, <2>1, <2>3, ConsumeInGroup
  <2>5. /\ peerState' = [peerState EXCEPT ![a] = states]
        /\ CheckForNewPeers(a, states, box, joinTimers[a])
        /\ UNCHANGED <<procVars, localGroup, groupIds, markers, conns>>
    BY <1>2, <1>3, <2>1 DEF HandleReadyNotif
  <2>6. QED
    BY <1>2, <2>3, <2>4, <2>5, CheckStill
<1>4. CASE CompleteJoin(a, p)
  <2>1. PICK timers : timers = EraseId(joinTimers[a], Id(p))
    OBVIOUS
  <2>2. p \in Written(a) /\ p # Local(a)
    BY <1>4 DEF CompleteJoin, CompletesJoin, Written, TimersKept
  <2>3. Known(a, p)
    BY <2>2, CInvAt DEF WrittenAt
  <2>4. /\ peerState' = [peerState EXCEPT ![a] = states]
        /\ CheckForNewPeers(a, states, inbox, timers)
        /\ UNCHANGED <<procVars, localGroup, groupIds, markers, conns>>
    BY <1>2, <1>4, <2>1 DEF CompleteJoin
  <2>5. PICK box \in Inboxes : box = inbox
    BY <1>1
  <2>6. CheckForNewPeers(a, states, box, timers) /\ InGroup(box, localGroup[h])
    BY <1>1, <2>4, <2>5
  <2>7. QED
    BY <1>2, <2>3, <2>4, <2>6, CheckStill
<1>5. QED
  BY <1>3, <1>4

\* The group the entry point has, or founds: nobody else has another one.
LEMMA JoinGroup ==
    ASSUME IInv, NEW h \in Node, EntryKept(h), Peace(h), NEW p \in Peer,
           HandleJoin(h, p), NEW gid, gid = localGroup'[h]
    PROVE  /\ gid \in GroupId /\ gid # NoGroup
           /\ groupIds'[h] = {gid} /\ markers'[h] = {gid}
           /\ \A n \in Node \ {h} : /\ localGroup'[n] = localGroup[n]
                                    /\ groupIds'[n] = groupIds[n]
                                    /\ markers'[n] = markers[n]
           /\ \A n \in Node : /\ localGroup[n] \in {NoGroup, gid}
                              /\ groupIds[n] \subseteq {gid}
                              /\ \A m \in outgoing[n] : m.group = gid
           /\ InGroup(inbox, gid)
<1>1. TypeOK /\ Grouped(h) /\ Sends(h)
  BY DEF IInv, Peace
<1>2. CASE state[h] = "CONNECTED"
  <2>1. UNCHANGED <<localGroup, groupIds, markers>>
    BY <1>2 DEF HandleJoin
  <2>2. localGroup[h] # NoGroup /\ gid = localGroup[h]
    BY <1>2, <2>1 DEF EntryKept
  <2>3. gid \in GroupId /\ groupIds[h] = {gid} /\ markers[h] = {gid}
    BY <1>1, <2>2, GroupAt
  <2>4. QED
    BY <1>1, <2>1, <2>2, <2>3 DEF Grouped, Sends
<1>3. CASE state[h] # "CONNECTED"
  <2>1. localGroup[h] = NoGroup
    BY <1>3 DEF EntryKept
  <2>2. groupIds[h] = {} /\ markers[h] = {}
    BY <1>1, <2>1 DEF IInv, LocalGroupKept, KeptAt, Grouped
  <2>3. PICK g \in GroupId : /\ localGroup' = [localGroup EXCEPT ![h] = g]
                             /\ groupIds' = [groupIds EXCEPT ![h] = @ \cup {g}]
                             /\ markers' = [markers EXCEPT ![h] = @ \cup {g}]
    BY <1>3 DEF HandleJoin, FoundGroup, MapMarker
  <2>4. /\ gid = g /\ g # NoGroup /\ groupIds'[h] = {g} /\ markers'[h] = {g}
        /\ \A n \in Node \ {h} : /\ localGroup'[n] = localGroup[n]
                                 /\ groupIds'[n] = groupIds[n]
                                 /\ markers'[n] = markers[n]
    BY <1>1, <2>2, <2>3, NetworkAssumption DEF TypeOK
  <2>5. \A n \in Node : localGroup[n] = NoGroup /\ groupIds[n] = {}
    BY <1>1, <2>1, NetworkAssumption DEF Grouped, TypeOK
  <2>6. \A n \in Node : outgoing[n] = {}
    <3>1. \A n \in Node : \A m \in outgoing[n] : m \in BCastMessage
      BY <1>1 DEF TypeOK
    <3>2. \A m \in BCastMessage : m.group \in GroupId
      BY DEF BCastMessage
    <3>3. QED
      BY <1>1, <2>1, <3>1, <3>2, NetworkAssumption DEF Sends
  <2>7. InGroup(inbox, g)
    <3> SUFFICES ASSUME NEW r \in Node, NEW q \in Peer,
                        NEW m \in Range(inbox[r][q]), Carries(m)
                 PROVE  FALSE
      BY DEF InGroup
    <3>1. m \in Message
      BY <1>1 DEF TypeOK, Range
    <3>2. m.group \in GroupId
      BY <3>1, MessageFields DEF Carries
    <3>3. m.group = NoGroup
      BY <1>1, <2>1 DEF Sends, InGroup
    <3>4. QED
      BY <3>2, <3>3, NetworkAssumption
  <2>8. QED
    BY <2>4, <2>5, <2>6, <2>7
<1>4. QED
  BY <1>2, <1>3

\* The record of the group that HandleJoin goes on with
Record(h, gid) ==
    IF state[h] = "CONNECTED" THEN groups[h]
    ELSE [groups[h] EXCEPT ![gid] = AddToRings(NewGroup, Local(h))]

LEMMA RecordMatched ==
    ASSUME IInv, NEW h \in Node, EntryKept(h), Matched, NEW p \in Peer,
           HandleJoin(h, p), NEW gid \in GroupId, gid = localGroup'[h], NEW gs,
           gs = Record(h, gid)
    PROVE  gs \in [GroupId -> Group] /\ Ids(peers[h]) = Ids(gs[gid].members)
<1> USE DEF Record
<1>1. groups[h] \in [GroupId -> Group]
  BY DEF IInv, TypeOK
<1>2. CASE state[h] = "CONNECTED"
  <2>1. localGroup[h] # NoGroup /\ gid = localGroup[h]
    BY <1>2 DEF EntryKept, HandleJoin
  <2>2. QED
    BY <1>1, <1>2, <2>1 DEF Matched
<1>3. CASE state[h] # "CONNECTED"
  <2>1. localGroup[h] = NoGroup
    BY <1>3 DEF EntryKept
  <2>2. peers[h] = {}
    BY <2>1 DEF IInv, LocalGroupKept, KeptAt
  <2>3. PICK g : g = AddToRings(NewGroup, Local(h))
    OBVIOUS
  <2>4. g \in Group /\ g.members = {}
    <3>1. Local(h) \in Peer
      BY DEF Local, Peer, PeerKind
    <3>2. NewGroup \in Group
      BY DEF NewGroup, Group
    <3>3. g \in Group
      BY <2>3, <3>1, <3>2, GroupOperationsType
    <3>4. QED
      BY <2>3, <3>3 DEF AddToRings, NewGroup
  <2>5. gs = [groups[h] EXCEPT ![gid] = g]
    BY <1>3, <2>3
  <2>6. gs \in [GroupId -> Group] /\ gs[gid] = g
    BY <1>1, <2>4, <2>5
  <2>7. QED
    BY <2>2, <2>4, <2>6
<1>4. QED
  BY <1>2, <1>3

LEMMA JoinRecord ==
    ASSUME IInv, NEW h \in Node, EntryKept(h), Peace(h), NEW p \in Peer,
           HandleJoin(h, p), NEW gid, gid = localGroup'[h], NEW gs,
           gs = Record(h, gid)
    PROVE  gs \in [GroupId -> Group] /\ Ids(peers[h]) = Ids(gs[gid].members)
<1>1. gid \in GroupId
  BY JoinGroup
<1>2. QED
  BY <1>1, RecordMatched DEF Peace

\* Who sends a JOIN while the token is free is let in.
LEMMA JoinAnswered ==
    ASSUME IInv, CInv, NEW h \in Node, DistinctAddresses, EntryKept(h), Peace(h),
           NEW p \in Peer, HandleJoin(h, p), joinToken[h],
           NEW gid, gid = localGroup'[h], NEW gs, gs = Record(h, gid),
           NEW box \in Inboxes, box = Consume(h, p), InGroup(box, gid)
    PROVE  /\ p[2] = "joiner"
           /\ \E port \in Node \cup {NoNode} :
                 AnswerJoinRequest(h, p, port, gid, gs, box, joinTimers[h])
           /\ InGroup(inbox', gid) /\ NoNullEntry' /\ JoinersWait(h)'
           /\ LetsIn(h, p, gid, gs)
<1>1. TypeOK /\ Reads(h, p, "JOIN")
  BY DEF IInv, HandleJoin
<1>2. p[2] = "joiner"
  BY <1>1, ReadParts, CInvAt DEF JoinFirst
<1>3. gid \in GroupId /\ gs \in [GroupId -> Group]
  BY JoinGroup, JoinRecord
<1>4. PICK port \in Node \cup {NoNode} : port = Id(p)
  BY <1>1, EntryType
<1>5. PICK timers : timers = joinTimers[h]
  OBVIOUS
<1>6. AnswerJoinRequest(h, p, port, gid, gs, box, timers)
  BY <1>4, <1>5 DEF HandleJoin, Record
<1>7. conns' = conns /\ Known(h, p)' /\ KnownGrows
  <2>1. conns' = conns /\ peerState' = [peerState EXCEPT ![h][p] = "JOINING"]
    BY DEF HandleJoin, Identified
  <2>2. \A n \in Node, r \in Peer :
           peerState'[n][r] = IF n = h /\ r = p THEN "JOINING" ELSE peerState[n][r]
    BY <1>1, <2>1 DEF TypeOK
  <2>3. QED
    BY <2>1, <2>2 DEF Known, KnownGrows
<1>8. /\ InGroup(inbox', gid) /\ NoNullEntry' /\ JoinersWait(h)'
      /\ LetsIn(h, p, gid, gs)
  BY <1>2, <1>3, <1>6, <1>7, AnsweredInGroup
<1>9. QED
  BY <1>2, <1>5, <1>6, <1>8

LEMMA JoinStill ==
    ASSUME IInv, CInv, NEW h \in Node, DistinctAddresses, EntryKept(h), Peace(h),
           NEW a \in Node, NEW p \in Peer, HandleJoin(a, p)
    PROVE  Peace(h)'
<1>1. TypeOK /\ AddrOfPeer(p) \in Addr /\ Id(p) \in Node
  BY EntryType DEF IInv
<1>2. a = h /\ Reads(h, p, "JOIN") /\ HandleJoin(h, p)
  <2>1. Reads(a, p, "JOIN")
    BY DEF HandleJoin
  <2>2. QED
    BY <2>1, JoinsAtEntry
<1>3. ~Known(h, p) /\ p[2] = "joiner" /\ p \in conns[h] /\ inbox[h][p] # <<>>
  <2>1. JoinMsg \in Range(inbox[h][p]) /\ p \in conns[h] /\ inbox[h][p] # <<>>
    BY <1>1, <1>2, ReadParts
  <2>2. QED
    BY <2>1, CInvAt DEF JoinFirst
<1>4. PICK gid : gid = localGroup'[h]
  OBVIOUS
<1>5. PICK gs : gs = Record(h, gid)
  OBVIOUS
<1>6. /\ gid \in GroupId /\ gid # NoGroup
      /\ groupIds'[h] = {gid} /\ markers'[h] = {gid}
      /\ \A n \in Node \ {h} : /\ localGroup'[n] = localGroup[n]
                               /\ groupIds'[n] = groupIds[n]
                               /\ markers'[n] = markers[n]
      /\ \A n \in Node : /\ localGroup[n] \in {NoGroup, gid}
                         /\ groupIds[n] \subseteq {gid}
                         /\ \A m \in outgoing[n] : m.group = gid
      /\ InGroup(inbox, gid)
  BY <1>2, <1>4, JoinGroup
<1>7. gs \in [GroupId -> Group] /\ Ids(peers[h]) = Ids(gs[gid].members)
  BY <1>2, <1>4, <1>5, JoinRecord
<1>8. /\ UNCHANGED <<status, ui, outgoing>> /\ conns' = conns
      /\ peerState' = [peerState EXCEPT ![h][p] = "JOINING"]
  BY <1>2 DEF HandleJoin, Identified, procVars
<1>9. \A n \in Node, r \in Peer : Known(n, r)' <=> Known(n, r) \/ (n = h /\ r = p)
  <2>1. \A n \in Node, r \in Peer :
           peerState'[n][r] = IF n = h /\ r = p THEN "JOINING" ELSE peerState[n][r]
    BY <1>1, <1>8 DEF TypeOK
  <2>2. QED
    BY <2>1 DEF Known
<1>10. InGroup(Consume(h, p), gid) /\ Consume(h, p) \in Inboxes
  BY <1>1, <1>3, <1>6, ConsumeInGroup
<1>11. /\ InGroup(inbox', gid) /\ NoNullEntry' /\ JoinersWait(h)'
       /\ ElsewhereKept(h) /\ Ids(peers'[h]) = Ids(groups'[h][gid].members)
  <2>1. CASE joinToken[h]
    <3>1. PICK box \in Inboxes : box = Consume(h, p)
      BY <1>10
    <3>2. /\ InGroup(inbox', gid) /\ NoNullEntry' /\ JoinersWait(h)'
          /\ LetsIn(h, p, gid, gs)
      BY <1>2, <1>4, <1>5, <1>10, <2>1, <3>1, JoinAnswered
    <3>3. QED
      BY <1>7, <3>2 DEF LetsIn
  <2>2. CASE ~joinToken[h]
    <3>1. /\ newPeers' = [newPeers EXCEPT ![h][AddrOfPeer(p)].port = Id(p)]
          /\ groups' = [groups EXCEPT ![h] = gs]
          /\ inbox' = Consume(h, p) /\ peers' = peers
      BY <1>2, <1>4, <1>5, <2>2 DEF HandleJoin, Record
    <3>2. \A n \in Node, k \in Addr :
             /\ newPeers'[n][k].peer = newPeers[n][k].peer
             /\ ~(n = h /\ k = AddrOfPeer(p)) => newPeers'[n][k] = newPeers[n][k]
      <4>1. PICK e : e = [newPeers[h][AddrOfPeer(p)] EXCEPT !.port = Id(p)]
        OBVIOUS
      <4>2. \A n \in Node, k \in Addr :
               newPeers'[n][k] = IF n = h /\ k = AddrOfPeer(p) THEN e
                                 ELSE newPeers[n][k]
        BY <1>1, <3>1, <4>1 DEF TypeOK
      <4>3. newPeers[h][AddrOfPeer(p)] \in NewPeerEntry
        BY <1>1 DEF TypeOK
      <4>4. e.peer = newPeers[h][AddrOfPeer(p)].peer
        BY <4>1, <4>3 DEF NewPeerEntry
      <4>5. QED
        BY <4>2, <4>4
    <3>3. newPeers[h][AddrOfPeer(p)].peer # NoPeer
      BY <1>3 DEF Peace, JoinersWait
    <3>4. NoNullEntry'
      BY <3>2, <3>3 DEF Peace, NoNullEntry
    <3>5. JoinersWait(h)'
      <4>1. \A q \in conns[h] : q \in Peer /\ AddrOfPeer(q) \in Addr
        BY <1>1, EntryType DEF TypeOK
      <4>2. QED
        BY <1>8, <1>9, <3>2, <4>1 DEF Peace, JoinersWait
    <3>6. ElsewhereKept(h) /\ peers'[h] = peers[h] /\ groups'[h] = gs
      BY <1>1, <3>1 DEF TypeOK, ElsewhereKept
    <3>7. QED
      BY <1>7, <1>10, <3>1, <3>4, <3>5, <3>6
  <2>3. QED
    BY <2>1, <2>2
<1>12. AllRun' /\ Grouped(h)'
  <2>1. AllRun'
    BY <1>8 DEF Peace, AllRun, Running
  <2>2. \A n \in Node : markers[n] \subseteq groupIds[n]
    BY DEF Peace, Grouped
  <2>3. QED
    BY <1>4, <1>6, <2>1, <2>2 DEF Grouped
<1>13. Sends(h)' /\ Belongs'
  <2>1. Sends(h)'
    BY <1>4, <1>6, <1>8, <1>11 DEF Sends, InGroup
  <2>2. \A n \in Node : localGroup'[n] = NoGroup => n # h /\ localGroup[n] = NoGroup
    BY <1>4, <1>6
  <2>3. Belongs'
    BY <1>8, <1>9, <2>2 DEF Peace, Belongs
  <2>4. QED
    BY <2>1, <2>3
<1>14. Matched'
  <2>1. Matched
    BY DEF Peace
  <2>2. QED
    BY <1>4, <1>6, <1>11, <2>1, MatchedAt
<1>15. QED
  BY <1>11, <1>12, <1>13, <1>14 DEF Peace

-----------------------------------------------------------------------------
(* Every step keeps the peace, until somebody quits                        *)

LEMMA PeaceInit ==
    ASSUME NEW h \in Node
    PROVE  Init => Peace(h)
<1> SUFFICES ASSUME Init
             PROVE  Peace(h)
  OBVIOUS
<1>1. AllRun /\ Grouped(h)
  BY DEF Init, AllRun, Running, Grouped
<1>2. Sends(h)
  <2>1. Range(<<>>) = {}
    BY DEF Range
  <2>2. \A r \in Node, q \in Peer : Range(inbox[r][q]) = {}
    BY <2>1 DEF Init
  <2>3. \A n \in Node : outgoing[n] = {}
    BY DEF Init
  <2>4. QED
    BY <2>2, <2>3 DEF Sends, InGroup
<1>3. Belongs /\ NoNullEntry /\ JoinersWait(h) /\ Matched
  BY DEF Init, Belongs, Known, NoNullEntry, JoinersWait, Matched
<1>4. QED
  BY <1>1, <1>2, <1>3 DEF Peace

LEMMA PeaceStep ==
    ASSUME IInv, CInv, TimersKept, NEW h \in Node, DistinctAddresses,
           EntryKept(h), Peace(h), [Next]_vars
    PROVE  Peace(h)' \/ \E a \in Leaver : Quit(a)
<1>1. CASE UNCHANGED vars
  <2>1. /\ UNCHANGED <<status, newPeers, viewVars, groupVars>>
        /\ UNCHANGED <<ui, outgoing, conns, inbox>>
    BY <1>1 DEF vars, procVars, joinVars, netVars
  <2>2. Sends(h)
    BY DEF Peace
  <2>3. QED
    BY <2>1, <2>2, Still DEF Sends
<1>2. ASSUME NEW a \in Node, NEW p \in Peer, Receive(a, p)
      PROVE  Peace(h)'
  BY <1>2, NothingCrashes, JoinStill, ReadsStill, NotifStill, AckStill, ReadyStill,
     CheckersStill DEF Receive
<1>3. ASSUME NEW a \in Node, NEW p \in Peer, TimerExpires(a, p)
      PROVE  Peace(h)'
  BY <1>3, NothingCrashes, ReadsStill, CheckersStill DEF TimerExpires
<1>4. ASSUME NEW a \in Node, NEW p \in Peer, Accept(a, p) \/ ReadTogether(a, p)
      PROVE  Peace(h)'
  BY <1>4, NewPeerStill, ReadsStill
<1>5. ASSUME NEW a \in Node,
             \/ \E m \in JoinTo[a] : UIJoinConnect(a, m)
             \/ UIBroadcastCheck(a) \/ UIStep(a) \/ UISend(a)
      PROVE  Peace(h)'
  <2>1. Local(a) \in Peer
    BY <1>5 DEF Local, Peer, PeerKind
  <2>2. ~UIBroadcastCrash(a) /\ ~UIJoinThrows(a)
    BY <1>5, <2>1, NothingCrashes
  <2>3. QED
    BY <1>5, <2>2, CommandsStill, NewPeerStill DEF UIStep
<1>6. ASSUME NEW a \in Node, Quit(a)
      PROVE  \E n \in Leaver : Quit(n)
  BY <1>6 DEF Quit
<1>7. QED
  BY <1>1, <1>2, <1>3, <1>4, <1>5, <1>6 DEF Next, IOStep

LEMMA TimersInvariant == Spec => []TimersKept
  BY TimersInit, TimersStep, Invariant, ConnectionInvariant, PTL DEF Spec

LEMMA EntryInvariant ==
    ASSUME NEW h \in Node, EntryPoint(h)
    PROVE  Spec => []EntryKept(h)
<1>1. Init => EntryKept(h)
  BY EntryInit
<1>2. IInv /\ CInv /\ EntryKept(h) /\ [Next]_vars => EntryKept(h)'
  BY EntryStep
<1>3. QED
  BY <1>1, <1>2, Invariant, ConnectionInvariant, PTL DEF Spec

LEMMA DepartureSeen ==
    ASSUME TypeOK, NEW a \in Leaver, Quit(a)
    PROVE  Quitted'
<1>1. a \in Node /\ status' = [status EXCEPT ![a] = "quit"]
  BY NetworkAssumption DEF Quit, Exit
<1>2. status'[a] = "quit"
  BY <1>1 DEF TypeOK
<1>3. QED
  BY <1>1, <1>2 DEF Quitted

LEMMA PeaceInvariant ==
    ASSUME NEW h \in Node, EntryPoint(h), DistinctAddresses
    PROVE  Spec => [](Quitted \/ Peace(h))
<1>1. Init => Peace(h)
  BY PeaceInit
<1>2. /\ IInv /\ CInv /\ TimersKept /\ EntryKept(h) /\ (Quitted \/ Peace(h))
      /\ [Next]_vars
      => (Quitted \/ Peace(h))'
  <2> SUFFICES ASSUME IInv, CInv, TimersKept, EntryKept(h), Quitted \/ Peace(h),
                      [Next]_vars
               PROVE  Quitted' \/ Peace(h)'
    OBVIOUS
  <2>1. ASSUME NEW a \in Leaver, Quit(a)
        PROVE  Quitted'
    BY <2>1, DepartureSeen DEF IInv
  <2>2. CASE Quitted
    BY <2>2, QuittedStep
  <2>3. CASE Peace(h)
    BY <2>1, <2>3, PeaceStep
  <2>4. QED
    BY <2>2, <2>3
<1>3. QED
  BY <1>1, <1>2, Invariant, ConnectionInvariant, TimersInvariant, EntryInvariant,
     PTL DEF Spec

\* A process dies only after another one has quit: where all join through one
\* node and addresses differ, nothing else makes a handler or a command
\* dereference a null pointer (log_message, check_for_new_peers, broadcast) or
\* read the address of a reset socket (complete_join, handle_disconnect).
THEOREM OnlyDeparturesKill ==
    ASSUME NEW h \in Node, EntryPoint(h), DistinctAddresses
    PROVE  Spec => []OnlyQuitsCrash
<1>1. Quitted \/ Peace(h) => OnlyQuitsCrash
  BY DEF Quitted, Peace, AllRun, Running, OnlyQuitsCrash
<1>2. QED
  BY <1>1, PeaceInvariant, PTL

\* Where nobody quits, no process dies.
THEOREM NobodyDies ==
    ASSUME NEW h \in Node, EntryPoint(h), DistinctAddresses, Leaver = {}
    PROVE  Spec => []NoCrash
<1>1. Init => Peace(h)
  BY PeaceInit
<1>2. /\ IInv /\ CInv /\ TimersKept /\ EntryKept(h) /\ Peace(h) /\ [Next]_vars
      => Peace(h)'
  BY PeaceStep
<1>3. Peace(h) => NoCrash
  BY DEF Peace, AllRun, Running, NoCrash
<1>4. QED
  BY <1>1, <1>2, <1>3, Invariant, ConnectionInvariant, TimersInvariant,
     EntryInvariant, PTL DEF Spec

\* There is one group until somebody quits: a JOIN is read by the entry point
\* only, which founds a group once, and a JOIN Acknowledgement is of that group.
THEOREM GroupIsOne ==
    ASSUME NEW h \in Node, EntryPoint(h), DistinctAddresses
    PROVE  Spec => [](Quitted \/ OneGroup)
<1>1. Peace(h) => OneGroup
  BY DEF Peace, Grouped, OneGroup
<1>2. QED
  BY <1>1, PeaceInvariant, PTL

-----------------------------------------------------------------------------
(* Delays that are long enough: nobody relays on stale neighbours          *)

\* READY has been sent to m, or read by it.
ReadyMet(m) ==
    \/ state[m] = "CONNECTED"
    \/ \E q \in Peer : ReadyMsg \in Range(inbox[m][q])

\* Whoever was to acknowledge m has done so, and m has read it.
Arrived(m) ==
    \A n \in Node, q \in Peer : \A e \in Range(inbox[n][q]) :
        /\ n = m => e.type # "JOIN_ACK"
        /\ e.type = "JOIN_NOTIF" => e.peer # m

\* The entry point founds its group with the token at hand.
TokenAtFirst(h) == localGroup[h] = NoGroup => joinToken[h]

\* READY is for those who have sent a JOIN.
ReadyAwaited == \A n \in Node : \A p \in readyTimers[n] : p[2] = "joiner"

ReadyAtEntry ==
    \A n \in Node, q \in Peer : ReadyMsg \in Range(inbox[n][q]) => q[2] = "entry"

\* Whoever is in the group has been announced.
MembersHeard(h) ==
    \A m \in Node \ {h} : localGroup[m] # NoGroup => \E n \in Node : Heard(n, m)

ReadyIsLate(h) == \A m \in Node \ {h} : ReadyMet(m) => Arrived(m)

Settled(h) ==
    /\ TokenAtFirst(h) /\ ReadyAwaited /\ ReadyAtEntry /\ MembersHeard(h)
    /\ ReadyIsLate(h) /\ NeighboursFresh

\* A message for r that READY has not overtaken
Harmless(h, r, e) ==
    /\ e # ReadyMsg
    /\ e.type = "JOIN_ACK" => r = h \/ ~ReadyMet(r)
    /\ e.type = "JOIN_NOTIF" => e.peer = h \/ ~ReadyMet(e.peer)

\* All that is new in box is harmless.
Fits(box, h) ==
    \A r \in Node, q \in Peer : \A e \in Range(box[r][q]) :
        e \in Range(inbox[r][q]) \/ Harmless(h, r, e)

\* READY_TIME is long enough.
LEMMA AcknowledgedIsArrived ==
    ASSUME AllRun, NEW m \in Node, Acknowledged(m)
    PROVE  Arrived(m)
<1> SUFFICES ASSUME NEW n \in Node, NEW q \in Peer, NEW e \in Range(inbox[n][q])
             PROVE  /\ n = m => e.type # "JOIN_ACK"
                    /\ e.type = "JOIN_NOTIF" => e.peer # m
  BY DEF Arrived
<1>1. Up(n)
  BY DEF AllRun, Running, Up
<1>2. PICK c : c = <<n, q>>
  OBVIOUS
<1>3. c \in Node \X Peer /\ c[1] = n /\ c[2] = q
  BY <1>2
<1>4. e.type = "JOIN_ACK" => c \in MayBeRead("JOIN_ACK")
  BY <1>1, <1>3 DEF MayBeRead
<1>5. e.type = "JOIN_NOTIF" => c \in MayBeRead("JOIN_NOTIF")
  BY <1>1, <1>3 DEF MayBeRead
<1>6. QED
  BY <1>3, <1>4, <1>5 DEF Acknowledged

LEMMA SameFits ==
    ASSUME NEW h
    PROVE  Fits(inbox, h)
  BY DEF Fits

LEMMA ConsumeFits ==
    ASSUME TypeOK, NEW h, NEW n \in Node, NEW p \in Peer, inbox[n][p] # <<>>
    PROVE  Fits(Consume(n, p), h)
<1>1. inbox[n][p] \in Seq(Message)
  BY DEF TypeOK
<1>2. Range(Tail(inbox[n][p])) \subseteq Range(inbox[n][p])
  BY <1>1, TailParts, EmptyParts
<1>3. \A r \in Node, q \in Peer :
         Consume(n, p)[r][q] = IF r = n /\ q = p THEN Tail(inbox[n][p])
                               ELSE inbox[r][q]
  BY DEF Consume, TypeOK
<1>4. QED
  BY <1>2, <1>3 DEF Fits

LEMMA DeliverFits ==
    ASSUME NEW box \in Inboxes, NEW h, Fits(box, h), NEW n \in Node, NEW M,
           NEW m \in Message, \A r \in Ids(M) : Harmless(h, r, m)
    PROVE  Fits(Deliver(box, n, M, m), h)
<1> SUFFICES ASSUME NEW r \in Node, NEW q \in Peer,
                    NEW e \in Range(Deliver(box, n, M, m)[r][q])
             PROVE  e \in Range(inbox[r][q]) \/ Harmless(h, r, e)
  BY DEF Fits
<1>1. PICK s \in Seq(Message) : s = box[r][q]
  BY DEF Inboxes
<1>2. \/ Deliver(box, n, M, m)[r][q] = Append(s, m) /\ OtherEnd(r, q) \in M
      \/ Deliver(box, n, M, m)[r][q] = s
  BY <1>1 DEF Deliver
<1>3. Range(Append(s, m)) = Range(s) \cup {m}
  BY <1>1, AppendParts
<1>4. OtherEnd(r, q) \in M => r \in Ids(M)
  BY DEF OtherEnd, Ids, Id
<1>5. QED
  BY <1>1, <1>2, <1>3, <1>4 DEF Fits

\* READY and what it waits for, where only harmless messages are sent
LEMMA BoxesSettled ==
    ASSUME NEW h, ReadyAtEntry, ReadyIsLate(h), Fits(inbox', h),
           \A m \in Node \ {h} : state'[m] = "CONNECTED" => ReadyMet(m)
    PROVE  ReadyAtEntry' /\ ReadyIsLate(h)'
<1>1. ReadyAtEntry'
  BY DEF ReadyAtEntry, Fits, Harmless
<1>2. ASSUME NEW m \in Node \ {h}, ReadyMet(m)'
      PROVE  Arrived(m)'
  <2>1. ReadyMet(m)
    BY <1>2 DEF ReadyMet, Fits, Harmless
  <2>2. Arrived(m)
    BY <2>1 DEF ReadyIsLate
  <2> SUFFICES ASSUME NEW n \in Node, NEW q \in Peer, NEW e \in Range(inbox'[n][q])
               PROVE  /\ n = m => e.type # "JOIN_ACK"
                      /\ e.type = "JOIN_NOTIF" => e.peer # m
    BY DEF Arrived
  <2>3. CASE e \in Range(inbox[n][q])
    BY <2>2, <2>3 DEF Arrived
  <2>4. CASE Harmless(h, n, e)
    BY <2>1, <2>4 DEF Harmless
  <2>5. QED
    BY <2>3, <2>4 DEF Fits
<1>3. QED
  BY <1>1, <1>2 DEF ReadyIsLate

\* Steps that change no group and nobody's neighbours
LEMMA SettledStill ==
    ASSUME NEW h \in Node, Settled(h), Fits(inbox', h),
           UNCHANGED <<status, groupIds, groups, localGroup>>,
           \A n \in Node : /\ state'[n] = "CONNECTED" => state[n] = "CONNECTED"
                           /\ readyTimers'[n] \subseteq readyTimers[n]
                           /\ logs[n] \subseteq logs'[n],
           localGroup[h] = NoGroup => joinToken'[h] = joinToken[h]
    PROVE  Settled(h)'
<1>1. ReadyAtEntry' /\ ReadyIsLate(h)'
  BY BoxesSettled DEF Settled, ReadyMet
<1>2. TokenAtFirst(h)' /\ ReadyAwaited' /\ MembersHeard(h)'
  BY DEF Settled, TokenAtFirst, ReadyAwaited, MembersHeard, Heard
<1>3. NeighboursFresh'
  BY DEF Settled, NeighboursFresh, Running
<1>4. QED
  BY <1>1, <1>2, <1>3 DEF Settled

LEMMA Unannounced ==
    ASSUME IInv, CInv, NEW h \in Node, Settled(h), NEW x \in Node \ {h}, Unheard(x)
    PROVE  ~ReadyMet(x)
<1>1. \A n \in Node : ~Heard(n, x)
  BY NotifsAre DEF Heard, Unheard
<1>2. state[x] # "CONNECTED"
  BY <1>1 DEF Settled, MembersHeard, IInv, LocalGroupKept, KeptAt
<1>3. ASSUME NEW q \in Peer, ReadyMsg \in Range(inbox[x][q])
      PROVE  FALSE
  <2>1. q[2] = "entry"
    BY <1>3 DEF Settled, ReadyAtEntry
  <2>2. PICK n \in Node, p \in Peer : n = Id(q) /\ p = OtherEnd(x, q)
    BY Kinds
  <2>3. Id(p) = x /\ OtherEnd(n, p) = q
    BY <2>2, Kinds
  <2>4. p[2] \in Answering
    BY <2>1, <2>2 DEF OtherEnd, OtherKind, Answering
  <2>5. Silent(inbox[x][q])
    BY <1>1, <2>3, <2>4, CInvAt DEF FreshAt
  <2>6. QED
    BY <1>3, <2>5 DEF Silent, Failure, ReadyMsg, Eof, Rst
<1>4. QED
  BY <1>2, <1>3 DEF ReadyMet

\* An announcement that is on its way may be passed on.
LEMMA NotifHarmless ==
    ASSUME NEW h \in Node, Settled(h), NEW a \in Node, NEW p \in Peer,
           NEW m \in Message, m \in Range(inbox[a][p]), m.type = "JOIN_NOTIF",
           NEW r
    PROVE  Harmless(h, r, m)
<1>1. m.peer \in Node
  BY MessageFields
<1>2. m.peer # h => ~Arrived(m.peer)
  BY DEF Arrived
<1>3. QED
  BY <1>1, <1>2 DEF Harmless, Settled, ReadyIsLate, ReadyMsg

LEMMA PlainHarmless ==
    ASSUME NEW h, NEW r
    PROVE  /\ Harmless(h, r, JoinMsg) /\ Harmless(h, r, ReadyNotifMsg)
           /\ Harmless(h, r, Text)
           /\ \A m : m.type = "DATA" => Harmless(h, r, m)
  BY DEF Harmless, JoinMsg, ReadyMsg, ReadyNotifMsg, Text

LEMMA CommandsSettled ==
    ASSUME IInv, NEW h \in Node, Peace(h), Settled(h), NEW a \in Node,
           \/ \E m \in JoinTo[a] : UIJoinConnect(a, m)
           \/ UIBroadcastCheck(a) \/ UIBroadcast(a) \/ UIBroadcastLog(a)
           \/ UIJoinMark(a) \/ UISend(a) \/ UIJoinSend(a)
           \/ \E p \in Peer : Accept(a, p)
    PROVE  Settled(h)'
<1>1. TypeOK /\ inbox \in Inboxes
  BY DEF IInv, TypeOK, Inboxes
<1>2. /\ UNCHANGED <<status, groupIds, groups, localGroup>>
      /\ UNCHANGED <<readyTimers, joinToken>>
  BY DEF UIJoinConnect, UIBroadcastCheck, UIBroadcast, UIBroadcastLog, UISend,
         UIJoinMark, UIJoinSend, Accept, procVars, joinVars, viewVars, groupVars
<1>3. \A n \in Node : state'[n] = "CONNECTED" => state[n] = "CONNECTED"
  <2>1. state' = state \/ state' = [state EXCEPT ![a] = "JOINING"]
    BY DEF UIJoinConnect, UIBroadcastCheck, UIBroadcast, UIBroadcastLog, UISend,
           UIJoinMark, UIJoinSend, Accept
  <2>2. QED
    BY <1>1, <2>1 DEF TypeOK
<1>4. \A n \in Node : logs[n] \subseteq logs'[n]
  <2>1. logs' = logs \/ logs' = [logs EXCEPT ![a] = @ \cup outgoing[a]]
    BY DEF UIJoinConnect, UIBroadcastCheck, UIBroadcast, UIBroadcastLog, UISend,
           UIJoinMark, UIJoinSend, Accept
  <2>2. PICK new : new = logs[a] \cup outgoing[a]
    OBVIOUS
  <2>3. logs' = [logs EXCEPT ![a] = new] => \A n \in Node : logs[n] \subseteq logs'[n]
    BY <1>1, <2>2 DEF TypeOK
  <2>4. QED
    BY <2>1, <2>2, <2>3
<1>5. Fits(inbox', h)
  <2>1. CASE inbox' = inbox
    BY <2>1, SameFits
  <2>2. CASE UIBroadcast(a)
    <3>1. PICK M : M = groups[a][localGroup[a]].succs
      OBVIOUS
    <3>2. PICK data \in Message : /\ inbox' = Deliver(inbox, a, M, data)
                                  /\ data.type = "DATA"
      <4>1. DataMsg(localGroup[a], a, Cardinality(SentData(a)) + 1) \in Message
        <5>1. localGroup[a] \in GroupId
          BY <1>1, <2>2 DEF UIBroadcast, TypeOK
        <5>2. Cardinality(SentData(a)) \in Nat
          BY SentDataFinite, FS_CardinalityType DEF IInv
        <5>3. QED
          BY <5>1, <5>2, MessageTypes
      <4>2. QED
        BY <2>2, <3>1, <4>1 DEF UIBroadcast, DataMsg
    <3>3. \A r \in Ids(M) : Harmless(h, r, data)
      BY <3>2, PlainHarmless
    <3>4. QED
      BY <1>1, <3>2, <3>3, SameFits, DeliverFits
  <2>3. CASE UISend(a) \/ UIJoinSend(a)
    <3>1. PICK m, M : /\ inbox' = Deliver(inbox, a, M, m)
                      /\ m \in {Text, JoinMsg}
      BY <2>3 DEF UISend, UIJoinSend
    <3>2. m \in Message
      BY <3>1 DEF Message
    <3>3. \A r \in Ids(M) : Harmless(h, r, m)
      BY <3>1, PlainHarmless
    <3>4. QED
      BY <1>1, <3>1, <3>3, <3>2, SameFits, DeliverFits
  <2>4. QED
    BY <2>1, <2>2, <2>3 DEF UIJoinConnect, UIBroadcastCheck, UIBroadcastLog,
                            UIJoinMark, Accept, netVars
<1>6. QED
  BY <1>2, <1>3, <1>4, <1>5, SettledStill

\* What is read is passed on, or not.
LEMMA ReadsSettled ==
    ASSUME IInv, CInv, NEW h \in Node, Peace(h), Settled(h), NEW a \in Node,
           NEW p \in Peer,
           \/ HandleDuplicate(a, p) \/ HandleData(a, p) \/ HandleForeignNotif(a, p)
           \/ HandleNotifRefused(a, p) \/ HandleText(a, p) \/ ReadTogether(a, p)
    PROVE  Settled(h)'
<1>1. TypeOK
  BY DEF IInv
<1>2. /\ UNCHANGED <<status, groupIds, groups, localGroup>>
      /\ state' = state /\ readyTimers' = readyTimers
  BY DEF HandleDuplicate, HandleData, HandleForeignNotif, HandleNotifRefused,
         HandleText, ReadTogether, procVars, joinVars, viewVars, groupVars
<1>3. localGroup[h] = NoGroup => joinToken'[h] = joinToken[h]
  <2>1. CASE joinToken' = joinToken
    BY <2>1
  <2>2. CASE HandleNotifRefused(a, p)
    <3>1. joinToken' = [joinToken EXCEPT ![a] = FALSE]
      BY <2>2 DEF HandleNotifRefused
    <3>2. Head(inbox[a][p]).group \in groupIds[a]
          /\ Head(inbox[a][p]).group = localGroup[a]
      BY <2>2 DEF HandleNotifRefused, Ours
    <3>3. localGroup[a] # NoGroup
      BY <1>1, <3>2, NetworkAssumption DEF TypeOK
    <3>4. QED
      BY <1>1, <3>1, <3>3 DEF TypeOK
  <2>3. QED
    BY <2>1, <2>2 DEF HandleDuplicate, HandleData, HandleForeignNotif, HandleText,
                      ReadTogether, joinVars
<1>4. CASE HandleDuplicate(a, p) \/ HandleText(a, p)
  <2>1. inbox' = Consume(a, p) /\ logs' = logs /\ inbox[a][p] # <<>>
    BY <1>4 DEF HandleDuplicate, HandleText, Reads
  <2>2. Fits(inbox', h)
    BY <1>1, <2>1, ConsumeFits
  <2>3. QED
    BY <1>2, <1>3, <2>1, <2>2, SettledStill
<1>5. CASE ReadTogether(a, p)
  <2>1. PICK s \in Seq(Message) : s = inbox[a][p]
    BY <1>1 DEF TypeOK
  <2>2. Len(s) >= 2 /\ inbox' = [inbox EXCEPT ![a][p] = JoinedWithNext(s)]
        /\ logs' = logs
    BY <1>5, <2>1 DEF ReadTogether
  <2>3. Range(JoinedWithNext(s)) \subseteq Range(s)
    BY <2>2, JoinedParts
  <2>4. \A r \in Node, q \in Peer :
           inbox'[r][q] = IF r = a /\ q = p THEN JoinedWithNext(s) ELSE inbox[r][q]
    BY <1>1, <2>2 DEF TypeOK
  <2>5. Fits(inbox', h)
    BY <2>1, <2>3, <2>4 DEF Fits
  <2>6. QED
    BY <1>2, <1>3, <2>2, <2>5, SettledStill
<1>6. CASE \/ HandleData(a, p) \/ HandleForeignNotif(a, p)
           \/ HandleNotifRefused(a, p)
  <2>1. PICK m : m = Head(inbox[a][p])
    OBVIOUS
  <2>2. PICK M : M = Relays(a, m)
    OBVIOUS
  <2>3. /\ Reads(a, p, "JOIN_NOTIF") \/ Reads(a, p, "DATA")
        /\ inbox' = Deliver(Consume(a, p), a, M, m)
        /\ LogForwarded(a, m)
    BY <1>6, <2>1, <2>2
       DEF HandleData, HandleForeignNotif, HandleNotifRefused, ReadsNotif
  <2>4. /\ m \in Message /\ m \in Range(inbox[a][p]) /\ inbox[a][p] # <<>>
        /\ m.type \in {"JOIN_NOTIF", "DATA"} /\ Consume(a, p) \in Inboxes
    BY <1>1, <2>1, <2>3, ReadParts
  <2>5. \A r \in Ids(M) : Harmless(h, r, m)
    BY <2>4, NotifHarmless, PlainHarmless
  <2>6. Fits(inbox', h)
    BY <1>1, <2>3, <2>4, <2>5, ConsumeFits, DeliverFits
  <2>7. \A n \in Node : logs[n] \subseteq logs'[n]
    BY <1>1, <2>3 DEF LogForwarded, TypeOK
  <2>8. QED
    BY <1>2, <1>3, <2>6, <2>7, SettledStill
<1>7. QED
  BY <1>4, <1>5, <1>6

\* READY is sent when everybody has acknowledged the node.
LEMMA SendReadySettled ==
    ASSUME IInv, NEW h \in Node, Peace(h), Settled(h), Timely, NEW a \in Node,
           NEW p \in Peer, SendReady(a, p)
    PROVE  Settled(h)'
<1>1. TypeOK /\ inbox \in Inboxes /\ ReadyMsg \in Message
  BY DEF IInv, TypeOK, Inboxes, Message
<1>2. /\ UNCHANGED <<status, groupIds, groups, localGroup>>
      /\ state' = state /\ joinToken' = joinToken /\ logs' = logs
      /\ readyTimers' = [readyTimers EXCEPT ![a] = EraseId(@, Id(p))]
      /\ inbox' = Deliver(inbox, a, {p}, ReadyMsg)
      /\ p \in readyTimers[a] /\ Acknowledged(Id(p))
  BY DEF SendReady, procVars, joinVars, viewVars, groupVars
<1>3. p[2] = "joiner" /\ Arrived(Id(p))
  BY <1>2, Kinds, AcknowledgedIsArrived DEF Settled, ReadyAwaited, Peace
<1>4. \A r \in Node, q \in Peer :
         \/ inbox'[r][q] = inbox[r][q]
         \/ /\ Range(inbox'[r][q]) = Range(inbox[r][q]) \cup {ReadyMsg}
            /\ r = Id(p) /\ q[2] = "entry"
  <2> TAKE r \in Node, q \in Peer
  <2>1. PICK s \in Seq(Message) : s = inbox[r][q]
    BY <1>1 DEF TypeOK
  <2>2. Range(Append(s, ReadyMsg)) = Range(s) \cup {ReadyMsg}
    BY <1>1, AppendParts
  <2>3. \/ inbox'[r][q] = s
        \/ inbox'[r][q] = Append(s, ReadyMsg) /\ OtherEnd(r, q) = p
    BY <1>2, <2>1 DEF Deliver
  <2>4. OtherEnd(r, q) = p => r = Id(p) /\ q[2] = "entry"
    <3>1. q[2] \in PeerKind /\ OtherEnd(r, q)[2] = OtherKind[q[2]]
          /\ Id(OtherEnd(r, q)) = r
      BY Kinds DEF OtherEnd
    <3>2. QED
      BY <1>3, <3>1 DEF OtherKind, PeerKind
  <2>5. QED
    BY <2>1, <2>2, <2>3, <2>4
<1>5. ReadyAtEntry'
  BY <1>4 DEF Settled, ReadyAtEntry
<1>6. ReadyIsLate(h)'
  <2> SUFFICES ASSUME NEW m \in Node \ {h}, ReadyMet(m)'
               PROVE  Arrived(m)'
    BY DEF ReadyIsLate
  <2>1. ReadyMet(m) \/ m = Id(p)
    BY <1>2, <1>4 DEF ReadyMet
  <2>2. Arrived(m)
    BY <1>3, <2>1 DEF Settled, ReadyIsLate
  <2>3. \A n \in Node, q \in Peer : \A e \in Range(inbox'[n][q]) :
           e \in Range(inbox[n][q]) \/ e = ReadyMsg
    BY <1>4
  <2>4. ReadyMsg.type \notin {"JOIN_ACK", "JOIN_NOTIF"}
    BY DEF ReadyMsg
  <2>5. QED
    BY <2>2, <2>3, <2>4 DEF Arrived
<1>7. ReadyAwaited'
  <2>1. \A n \in Node : readyTimers'[n] \subseteq readyTimers[n]
    BY <1>1, <1>2 DEF TypeOK, EraseId
  <2>2. QED
    BY <2>1 DEF Settled, ReadyAwaited
<1>8. TokenAtFirst(h)' /\ MembersHeard(h)'
  BY <1>2 DEF Settled, TokenAtFirst, MembersHeard, Heard
<1>9. NeighboursFresh'
  BY <1>2 DEF Settled, NeighboursFresh, Running
<1>10. QED
  BY <1>5, <1>6, <1>7, <1>8, <1>9 DEF Settled

-----------------------------------------------------------------------------
(* Steps that change the groups of one node                                *)

\* The neighbours of node n are those of its rings.
RingsFresh(n) ==
    \A g \in groupIds[n] : groups[n][g] = UpdateNeighbours(groups[n][g], n)

OthersStand(a) ==
    \A n \in Node \ {a} :
        /\ state'[n] = state[n] /\ localGroup'[n] = localGroup[n]
        /\ groupIds'[n] = groupIds[n] /\ groups'[n] = groups[n]

LogsGrow == \A n \in Node : logs[n] \subseteq logs'[n]

LEMMA SettledAt ==
    ASSUME NEW h \in Node, Settled(h), Fits(inbox', h), NEW a \in Node,
           status' = status, OthersStand(a), LogsGrow,
           TokenAtFirst(h)', ReadyAwaited',
           state'[a] = "CONNECTED" =>
               RingsFresh(a)' /\ (a = h \/ ReadyMet(a)),
           localGroup'[a] # NoGroup =>
               a = h \/ localGroup[a] # NoGroup \/ \E n \in Node : Heard(n, a)
    PROVE  Settled(h)'
<1>1. \A m \in Node \ {h} : state'[m] = "CONNECTED" => ReadyMet(m)
  BY DEF OthersStand, ReadyMet
<1>2. ReadyAtEntry' /\ ReadyIsLate(h)'
  BY <1>1, BoxesSettled DEF Settled
<1>3. \A n, m \in Node : Heard(n, m) => Heard(n, m)'
  BY DEF LogsGrow, Heard
<1>4. MembersHeard(h)'
  <2> SUFFICES ASSUME NEW m \in Node \ {h}, localGroup'[m] # NoGroup
               PROVE  \E n \in Node : Heard(n, m)
    BY <1>3 DEF MembersHeard
  <2>1. localGroup[m] # NoGroup \/ \E n \in Node : Heard(n, m)
    BY DEF OthersStand
  <2>2. QED
    BY <2>1 DEF Settled, MembersHeard
<1>5. NeighboursFresh'
  BY DEF Settled, NeighboursFresh, OthersStand, RingsFresh, Running
<1>6. QED
  BY <1>2, <1>4, <1>5 DEF Settled

LEMMA FreshAgain ==
    ASSUME NEW g \in Group, NEW n \in Node
    PROVE  UpdateNeighbours(UpdateNeighbours(g, n), n) = UpdateNeighbours(g, n)
<1>1. PICK u : u = UpdateNeighbours(g, n)
  OBVIOUS
<1>2. CASE NoNeighbour(g.ring, n)
  <2>1. u = [g EXCEPT !.preds = {}, !.succs = {}]
    BY <1>1, <1>2 DEF UpdateNeighbours
  <2>2. u.ring = g.ring
    BY <2>1 DEF Group
  <2>3. UpdateNeighbours(u, n) = [u EXCEPT !.preds = {}, !.succs = {}]
    BY <1>2, <2>2 DEF UpdateNeighbours
  <2>4. QED
    BY <1>1, <2>1, <2>3 DEF Group
<1>3. CASE ~NoNeighbour(g.ring, n)
  <2>1. PICK P, S : P = Predecessors(g.ring, n) /\ S = Successors(g.ring, n)
    OBVIOUS
  <2>2. u = [g EXCEPT !.preds = P, !.succs = S]
    BY <1>1, <1>3, <2>1 DEF UpdateNeighbours
  <2>3. u.ring = g.ring
    BY <2>2 DEF Group
  <2>4. UpdateNeighbours(u, n) = [u EXCEPT !.preds = P, !.succs = S]
    BY <1>3, <2>1, <2>3 DEF UpdateNeighbours
  <2>5. QED
    BY <1>1, <2>2, <2>4 DEF Group
<1>4. QED
  BY <1>2, <1>3

\* acknowledge_join ends with update_neighbours.
LEMMA LetInFresh ==
    ASSUME NEW a \in Node, NEW c \in Peer, NEW gid \in GroupId,
           NEW gs \in [GroupId -> Group], LetsIn(a, c, gid, gs),
           groupIds'[a] = {gid}
    PROVE  RingsFresh(a)'
<1>1. PICK g \in Group : g = AddPeer(gs[gid], c)
  BY GroupOperationsType
<1>2. groups'[a][gid] = UpdateNeighbours(g, a)
  BY <1>1 DEF LetsIn
<1>3. QED
  BY <1>2, FreshAgain DEF RingsFresh

LEMMA AckFits ==
    ASSUME NEW h, NEW a \in Node, NEW c \in Peer, NEW gid \in GroupId, NEW gs,
           NEW box \in Inboxes, Fits(box, h), NEW M, NEW timers,
           AcknowledgeJoin(a, c, gid, gs, box, M, timers),
           Id(c) = h \/ ~ReadyMet(Id(c))
    PROVE  Fits(inbox', h)
<1>1. AckMsg(gid) \in Message
  BY MessageTypes
<1>2. \A r \in Ids({c}) : Harmless(h, r, AckMsg(gid))
  BY DEF Ids, Harmless, AckMsg, ReadyMsg
<1>3. inbox' = Deliver(box, a, {c}, AckMsg(gid))
  BY DEF AcknowledgeJoin
<1>4. QED
  BY <1>1, <1>2, <1>3, DeliverFits

LEMMA NotifSettled ==
    ASSUME IInv, CInv, NEW h \in Node, Peace(h), Settled(h), NEW a \in Node,
           NEW p \in Peer, HandleJoinNotif(a, p)
    PROVE  Settled(h)'
<1>1. TypeOK /\ InGroup(inbox, localGroup[h])
  BY DEF IInv, Peace, Sends
<1>2. PICK m : m = Head(inbox[a][p])
  OBVIOUS
<1>3. PICK M : M = Relays(a, m)
  OBVIOUS
<1>4. PICK box : box = Deliver(Consume(a, p), a, M, m)
  OBVIOUS
<1>5. PICK c : c = <<m.peer, "called">>
  OBVIOUS
<1>6. PICK gid, gs : gid = m.group /\ gs = groups[a]
  OBVIOUS
<1>7. /\ Reads(a, p, "JOIN_NOTIF") /\ Ours(a, m) /\ LogForwarded(a, m)
      /\ joinToken' = [joinToken EXCEPT ![a] = FALSE]
      /\ AcknowledgeJoin(a, c, gid, gs, box, M, joinTimers[a])
      /\ UNCHANGED <<status, state, readyTimers, localGroup, groupIds>>
  BY <1>2, <1>3, <1>4, <1>5, <1>6 DEF HandleJoinNotif, ReadsNotif, procVars
<1>8. /\ m \in Message /\ m \in Range(inbox[a][p]) /\ m.type = "JOIN_NOTIF"
      /\ inbox[a][p] # <<>> /\ Consume(a, p) \in Inboxes
  BY <1>1, <1>2, <1>7, ReadParts
<1>9. gid \in GroupId /\ c \in Peer /\ gs \in [GroupId -> Group] /\ m.peer \in Node
  <2>1. m.group \in GroupId /\ m.peer \in Node
    BY <1>8, MessageFields
  <2>2. QED
    BY <1>1, <1>5, <1>6, <2>1 DEF Peer, PeerKind, TypeOK
<1>10. localGroup[a] # NoGroup /\ groupIds[a] = {gid} /\ gid = localGroup[h]
  <2>1. gid = localGroup[a] /\ localGroup[a] # NoGroup
    BY <1>6, <1>7, <1>9, NetworkAssumption DEF Ours
  <2>2. QED
    BY <2>1, GroupAt DEF Peace
<1>11. \A r : Harmless(h, r, m)
  BY <1>8, NotifHarmless
<1>12. Fits(box, h) /\ box \in Inboxes
  <2>1. Fits(Consume(a, p), h)
    BY <1>1, <1>8, ConsumeFits
  <2>2. box \in Inboxes
    BY <1>4, <1>8, DeliverType
  <2>3. QED
    BY <1>4, <1>8, <1>11, <2>1, <2>2, DeliverFits
<1>13. Id(c) = h \/ ~ReadyMet(Id(c))
  BY <1>5, <1>8, <1>11 DEF Harmless, Id
<1>14. Fits(inbox', h)
  BY <1>7, <1>9, <1>12, <1>13, AckFits
<1>15. LetsIn(a, c, gid, gs)
  <2>1. InGroup(box, gid)
    BY <1>1, <1>4, <1>6, <1>8, <1>10, ConsumeInGroup, DeliverInGroup
  <2>2. QED
    BY <1>1, <1>7, <1>9, <1>12, <2>1, AcknowledgedInGroup
<1>16. RingsFresh(a)'
  BY <1>7, <1>9, <1>10, <1>15, LetInFresh
<1>17. OthersStand(a)
  BY <1>7, <1>15 DEF OthersStand, LetsIn, ElsewhereKept
<1>18. LogsGrow
  BY <1>1, <1>7 DEF LogForwarded, LogsGrow, TypeOK
<1>19. TokenAtFirst(h)' /\ ReadyAwaited'
  BY <1>1, <1>7, <1>10 DEF Settled, TokenAtFirst, ReadyAwaited, TypeOK
<1>20. QED
  BY <1>7, <1>10, <1>14, <1>16, <1>17, <1>18, <1>19, SettledAt DEF ReadyMet

\* answer_join_request announces a node that nobody has heard of.
LEMMA AnswerSettled ==
    ASSUME IInv, CInv, NEW h \in Node, Settled(h), NEW a \in Node,
           NEW c \in Peer, c[2] = "joiner", Unheard(Id(c)),
           NEW port \in Node \cup {NoNode}, NEW gid \in GroupId, gid # NoGroup,
           NEW gs \in [GroupId -> Group], NEW box \in Inboxes, Fits(box, h),
           NEW timers, AnswerJoinRequest(a, c, port, gid, gs, box, timers),
           LetsIn(a, c, gid, gs), status' = status,
           \A n \in Node \ {a} : /\ state'[n] = state[n]
                                 /\ localGroup'[n] = localGroup[n]
                                 /\ groupIds'[n] = groupIds[n],
           localGroup'[a] = gid, groupIds'[a] = {gid},
           a = h \/ (localGroup[a] # NoGroup /\ state'[a] = state[a])
    PROVE  Settled(h)'
<1>1. TypeOK /\ Id(c) \in Node
  BY EntryType DEF IInv
<1>2. PICK notif : notif = NotifMsg(gid, a, Id(c), port)
  OBVIOUS
<1>3. PICK succs : succs = gs[gid].succs
  OBVIOUS
<1>4. PICK after : after = Deliver(box, a, succs, notif)
  OBVIOUS
<1>5. /\ joinToken' = [joinToken EXCEPT ![a] = FALSE]
      /\ logs' = [logs EXCEPT ![a] = @ \cup {notif}]
      /\ AcknowledgeJoin(a, c, gid, gs, after, succs, timers)
      /\ readyTimers' = [readyTimers EXCEPT ![a] = Put(@, c)]
  BY <1>2, <1>3, <1>4 DEF AnswerJoinRequest
<1>6. Id(c) = h \/ ~ReadyMet(Id(c))
  BY <1>1, Unannounced
<1>7. Fits(inbox', h)
  <2>1. notif \in Message
    BY <1>1, <1>2, MessageTypes
  <2>2. \A r : Harmless(h, r, notif)
    BY <1>2, <1>6 DEF Harmless, NotifMsg, ReadyMsg
  <2>3. after \in Inboxes /\ Fits(after, h)
    BY <1>4, <2>1, <2>2, DeliverType, DeliverFits
  <2>4. QED
    BY <1>5, <1>6, <2>3, AckFits
<1>8. OthersStand(a)
  BY DEF OthersStand, LetsIn, ElsewhereKept
<1>9. LogsGrow
  BY <1>1, <1>5 DEF LogsGrow, TypeOK
<1>10. TokenAtFirst(h)'
  <2>1. localGroup'[h] = NoGroup =>
           localGroup[h] = NoGroup /\ joinToken'[h] = joinToken[h]
    BY <1>1, <1>5 DEF TypeOK
  <2>2. QED
    BY <2>1 DEF Settled, TokenAtFirst
<1>11. ReadyAwaited'
  <2>1. \A n \in Node : readyTimers'[n] \subseteq readyTimers[n] \cup {c}
    BY <1>1, <1>5 DEF TypeOK, Put
  <2>2. QED
    BY <2>1 DEF Settled, ReadyAwaited
<1>12. RingsFresh(a)'
  BY LetInFresh
<1>13. QED
  BY <1>7, <1>8, <1>9, <1>10, <1>11, <1>12, SettledAt DEF ReadyMet

LEMMA CheckSettled ==
    ASSUME IInv, CInv, NEW h \in Node, DistinctAddresses, Peace(h), Settled(h),
           NEW a \in Node, NEW p \in Peer, Known(a, p), NEW states,
           states = [peerState[a] EXCEPT ![p] = "CONNECTED"],
           peerState' = [peerState EXCEPT ![a] = states],
           NEW box \in Inboxes, InGroup(box, localGroup[h]), Fits(box, h),
           NEW timers, CheckForNewPeers(a, states, box, timers),
           UNCHANGED <<procVars, state, localGroup, groupIds, conns>>
    PROVE  Settled(h)'
<1>1. TypeOK /\ conns' = conns /\ status' = status
  BY DEF IInv, procVars
<1>2. KnownGrows
  <2>1. \A n \in Node, q \in Peer :
           peerState'[n][q] = IF n = a /\ q = p THEN "CONNECTED" ELSE peerState[n][q]
    BY <1>1 DEF TypeOK
  <2>2. QED
    BY <2>1 DEF Known, KnownGrows
<1>3. ASSUME ~DereferencesNull(a, states), NEW k \in Pending(a, states),
             AnswerJoinRequest(a, newPeers[a][k].peer, newPeers[a][k].port,
                               localGroup[a], groups[a], box, timers)
      PROVE  Settled(h)'
  <2>1. PICK c \in Peer, port \in Node \cup {NoNode}, gid \in GroupId,
             gs \in [GroupId -> Group] :
           /\ AnswerJoinRequest(a, c, port, gid, gs, box, timers)
           /\ c[2] = "joiner" /\ Unheard(Id(c))
           /\ gid = localGroup[a] /\ gid # NoGroup
           /\ LetsIn(a, c, gid, gs)
    BY <1>1, <1>2, <1>3, CheckAnswers
  <2>2. localGroup'[a] = gid /\ groupIds'[a] = {gid}
    BY <2>1, GroupAt DEF Peace
  <2>3. a = h \/ (localGroup[a] # NoGroup /\ state'[a] = state[a])
    BY <2>1
  <2>4. QED
    BY <1>1, <2>1, <2>2, <2>3, AnswerSettled
<1>4. ASSUME joinToken' = [joinToken EXCEPT ![a] = TRUE], inbox' = box,
             UNCHANGED <<logs, groups, readyTimers>>
      PROVE  Settled(h)'
  <2>1. localGroup[h] = NoGroup => joinToken'[h] = joinToken[h]
    BY <1>1, <1>4 DEF Settled, TokenAtFirst, TypeOK
  <2>2. QED
    BY <1>1, <1>4, <2>1, SettledStill
<1>5. QED
  BY <1>3, <1>4 DEF CheckForNewPeers

LEMMA CheckersSettled ==
    ASSUME IInv, CInv, TimersKept, NEW h \in Node, DistinctAddresses, Peace(h),
           Settled(h), NEW a \in Node, NEW p \in Peer,
           HandleReadyNotif(a, p) \/ CompleteJoin(a, p)
    PROVE  Settled(h)'
<1>1. TypeOK /\ InGroup(inbox, localGroup[h]) /\ inbox \in Inboxes
  BY DEF IInv, TypeOK, Inboxes, Peace, Sends
<1>2. PICK states : states = [peerState[a] EXCEPT ![p] = "CONNECTED"]
  OBVIOUS
<1>3. UNCHANGED <<procVars, state, localGroup, groupIds, conns>>
  BY DEF HandleReadyNotif, CompleteJoin
<1>4. CASE HandleReadyNotif(a, p)
  <2>1. PICK box : box = Consume(a, p)
    OBVIOUS
  <2>2. Reads(a, p, "READY_NOTIF")
    BY <1>4 DEF HandleReadyNotif
  <2>3. Known(a, p) /\ inbox[a][p] # <<>>
    BY <1>1, <2>2, ReadParts
  <2>4. box \in Inboxes /\ InGroup(box, localGroup[h]) /\ Fits(box, h)
    BY <1>1, <2>1, <2>3, ConsumeInGroup, ConsumeFits
  <2>5. /\ peerState' = [peerState EXCEPT ![a] = states]
        /\ CheckForNewPeers(a, states, box, joinTimers[a])
    BY <1>2, <1>4, <2>1 DEF HandleReadyNotif
  <2>6. QED
    BY <1>2, <1>3, <2>3, <2>4, <2>5, CheckSettled
<1>5. CASE CompleteJoin(a, p)
  <2>1. PICK timers : timers = EraseId(joinTimers[a], Id(p))
    OBVIOUS
  <2>2. p \in Written(a) /\ p # Local(a)
    BY <1>5 DEF CompleteJoin, CompletesJoin, Written, TimersKept
  <2>3. Known(a, p)
    BY <2>2, CInvAt DEF WrittenAt
  <2>4. PICK box \in Inboxes : box = inbox
    BY <1>1
  <2>5. /\ peerState' = [peerState EXCEPT ![a] = states]
        /\ CheckForNewPeers(a, states, box, timers)
    BY <1>2, <1>5, <2>1, <2>4 DEF CompleteJoin
  <2>6. InGroup(box, localGroup[h]) /\ Fits(box, h)
    BY <1>1, <2>4, SameFits
  <2>7. QED
    BY <1>2, <1>3, <2>3, <2>5, <2>6, CheckSettled
<1>6. QED
  BY <1>4, <1>5

\* The entry point answers a JOIN, or lets its emitter wait.
LEMMA JoinSettled ==
    ASSUME IInv, CInv, NEW h \in Node, DistinctAddresses, EntryKept(h), Peace(h),
           Settled(h), NEW a \in Node, NEW p \in Peer, HandleJoin(a, p)
    PROVE  Settled(h)'
<1>1. TypeOK /\ Reads(a, p, "JOIN")
  BY DEF IInv, HandleJoin
<1>2. a = h /\ HandleJoin(h, p)
  BY <1>1, JoinsAtEntry
<1>3. JoinMsg \in Range(inbox[h][p]) /\ inbox[h][p] # <<>>
  BY <1>1, <1>2, ReadParts
<1>4. PICK box \in Inboxes : box = Consume(h, p)
  BY <1>1, <1>2, ReadParts
<1>5. Fits(box, h)
  BY <1>1, <1>3, <1>4, ConsumeFits
<1>6. status' = status
  BY <1>2 DEF HandleJoin, procVars
<1>7. CASE joinToken[h]
  <2>1. PICK gid, gs : gid = localGroup'[h] /\ gs = Record(h, gid)
    OBVIOUS
  <2>2. /\ gid \in GroupId /\ gid # NoGroup /\ groupIds'[h] = {gid}
        /\ \A n \in Node \ {h} : /\ localGroup'[n] = localGroup[n]
                                 /\ groupIds'[n] = groupIds[n]
        /\ InGroup(inbox, gid)
    BY <1>2, <2>1, JoinGroup
  <2>3. gs \in [GroupId -> Group]
    BY <1>2, <2>1, JoinRecord
  <2>4. InGroup(box, gid)
    BY <1>1, <1>3, <1>4, <2>2, ConsumeInGroup
  <2>5. PICK port \in Node \cup {NoNode} :
           AnswerJoinRequest(h, p, port, gid, gs, box, joinTimers[h])
    BY <1>2, <1>4, <1>7, <2>1, <2>4, JoinAnswered
  <2>6. p[2] = "joiner" /\ LetsIn(h, p, gid, gs)
    BY <1>2, <1>4, <1>7, <2>1, <2>4, JoinAnswered
  <2>7. Unheard(Id(p))
    <3>1. p = <<Id(p), "joiner">> /\ Id(p) \in Node
      BY <2>6, Kinds
    <3>2. QED
      BY <1>3, <3>1, CInvNodes DEF JoinerAt
  <2>8. \A n \in Node \ {h} : state'[n] = state[n]
    BY <1>1, <1>2 DEF HandleJoin, FoundGroup, TypeOK
  <2>9. PICK timers : timers = joinTimers[h]
    OBVIOUS
  <2>10. AnswerJoinRequest(h, p, port, gid, gs, box, timers)
    BY <2>5, <2>9
  <2>11. localGroup'[h] = gid
    BY <2>1
  <2>12. QED
    BY <1>5, <1>6, <2>2, <2>3, <2>6, <2>7, <2>8, <2>10, <2>11, AnswerSettled
<1>8. CASE ~joinToken[h]
  <2>1. state[h] = "CONNECTED"
    BY <1>8 DEF Settled, TokenAtFirst, EntryKept
  <2>2. /\ groups' = [groups EXCEPT ![h] = groups[h]] /\ inbox' = box
        /\ UNCHANGED <<groupIds, localGroup, state, joinToken, readyTimers, logs>>
    BY <1>2, <1>4, <1>8, <2>1 DEF HandleJoin
  <2>3. groups' = groups
    BY <1>1, <2>2 DEF TypeOK
  <2>4. QED
    BY <1>5, <1>6, <2>2, <2>3, SettledStill
<1>9. QED
  BY <1>7, <1>8

\* Who is still acknowledged has not been told READY.
LEMMA AckSettled ==
    ASSUME IInv, CInv, NEW h \in Node, EntryKept(h), Settled(h),
           NEW a \in Node, NEW p \in Peer, HandleJoinAck(a, p)
    PROVE  Settled(h)'
<1>1. TypeOK
  BY DEF IInv
<1>2. Reads(a, p, "JOIN_ACK") /\ a # h
  BY NoAckAtEntry DEF HandleJoinAck
<1>3. PICK m \in Message : /\ m = Head(inbox[a][p]) /\ m \in Range(inbox[a][p])
                           /\ m.type = "JOIN_ACK"
  BY <1>2, AckParts
<1>4. inbox[a][p] # <<>> /\ p[2] \in Asking
  BY <1>2, AckParts
<1>5. state[a] # "CONNECTED"
  <2>1. ~Arrived(a)
    BY <1>3 DEF Arrived
  <2>2. QED
    BY <1>2, <2>1 DEF Settled, ReadyIsLate, ReadyMet
<1>6. \E n \in Node : Heard(n, a)
  <2>1. PICK n \in Node, q \in Peer : n = Id(p) /\ q = OtherEnd(a, p)
    BY Kinds
  <2>2. OtherEnd(n, q) = p /\ Id(q) = a
    BY <2>1, Kinds
  <2>3. q[2] \in Answering
    BY <1>4, <2>2, Kinds
  <2>4. ~Silent(inbox[a][p])
    BY <1>3, Kinds DEF Silent, Failure
  <2>5. QED
    BY <2>2, <2>3, <2>4, CInvAt DEF FreshAt
<1>7. PICK g : /\ groupIds' = [groupIds EXCEPT ![a] = @ \cup {m.group}]
               /\ groups' = [groups EXCEPT ![a][m.group] = AddPeer(g, p)]
  BY <1>3 DEF HandleJoinAck
<1>8. /\ inbox' = Consume(a, p)
      /\ localGroup' = localGroup \/ localGroup' = [localGroup EXCEPT ![a] = m.group]
      /\ UNCHANGED <<status, state, joinToken, readyTimers, logs>>
  BY <1>3 DEF HandleJoinAck, procVars
<1>9. OthersStand(a)
  BY <1>1, <1>7, <1>8 DEF OthersStand, TypeOK
<1>10. Fits(inbox', h)
  BY <1>1, <1>4, <1>8, ConsumeFits
<1>11. TokenAtFirst(h)' /\ ReadyAwaited' /\ LogsGrow
  BY <1>2, <1>8, <1>9
     DEF Settled, TokenAtFirst, ReadyAwaited, LogsGrow, OthersStand
<1>12. state'[a] # "CONNECTED" /\ status' = status
  BY <1>5, <1>8
<1>13. QED
  BY <1>6, <1>9, <1>10, <1>11, <1>12, SettledAt

\* The READY handler enters the rings and updates the neighbours at once.
LEMMA ReadySettled ==
    ASSUME IInv, CInv, NEW h \in Node, Settled(h), NEW a \in Node, NEW p \in Peer,
           HandleReady(a, p)
    PROVE  Settled(h)'
<1>1. TypeOK /\ Reads(a, p, "READY")
  BY DEF IInv, HandleReady
<1>2. PICK entered : entered = [g \in GroupId |->
                         IF g \in ToEnter(a) THEN EnterRings(groups[a][g], a)
                         ELSE groups[a][g]]
  OBVIOUS
<1>3. PICK directs : directs = UNION {Neighbours(entered[g]) : g \in ToEnter(a)}
  OBVIOUS
<1>4. /\ groups' = [groups EXCEPT ![a] = entered]
      /\ state' = state \/ state' = [state EXCEPT ![a] = "CONNECTED"]
      /\ inbox' = Deliver(Consume(a, p), a, directs, ReadyNotifMsg)
      /\ UNCHANGED <<status, localGroup, groupIds>>
      /\ UNCHANGED <<joinToken, readyTimers, logs>>
  BY <1>2, <1>3 DEF HandleReady, procVars, joinVars
<1>5. /\ Running(a) /\ inbox[a][p] # <<>> /\ Consume(a, p) \in Inboxes
      /\ ReadyMsg \in Range(inbox[a][p])
  <2>1. PICK m \in Message : m \in Range(inbox[a][p]) /\ m.type = "READY"
    BY <1>1, ReadParts
  <2>2. m = ReadyMsg
    BY <2>1 DEF Message, BCastMessage, JoinMsg, ReadyMsg, ReadyNotifMsg, Text, Eof, Rst
  <2>3. QED
    BY <1>1, <2>1, <2>2, ReadParts
<1>6. ReadyMet(a)
  BY <1>5 DEF ReadyMet
<1>7. RingsFresh(a)'
  <2> SUFFICES ASSUME NEW g \in groupIds[a]
               PROVE  entered[g] = UpdateNeighbours(entered[g], a)
    BY <1>1, <1>4 DEF RingsFresh, TypeOK
  <2>1. g \in GroupId /\ groups[a][g] \in Group
    BY <1>1 DEF TypeOK
  <2>2. CASE g \in ToEnter(a)
    <3>1. PICK r \in Group : r = AddToRings(groups[a][g], Local(a))
      <4>1. Local(a) \in Peer
        BY DEF Local, Peer, PeerKind
      <4>2. QED
        BY <2>1, <4>1, GroupOperationsType
    <3>2. entered[g] = UpdateNeighbours(r, a)
      BY <1>2, <2>1, <2>2, <3>1 DEF EnterRings
    <3>3. QED
      BY <3>2, FreshAgain
  <2>3. CASE g \notin ToEnter(a)
    <3>1. state[a] = "CONNECTED" /\ entered[g] = groups[a][g]
      BY <1>2, <2>1, <2>3 DEF ToEnter
    <3>2. QED
      BY <1>5, <3>1 DEF Settled, NeighboursFresh
  <2>4. QED
    BY <2>2, <2>3
<1>8. Fits(inbox', h)
  <2>1. ReadyNotifMsg \in Message
    BY DEF Message
  <2>2. Fits(Consume(a, p), h)
    BY <1>1, <1>5, ConsumeFits
  <2>3. \A r \in Ids(directs) : Harmless(h, r, ReadyNotifMsg)
    BY PlainHarmless
  <2>4. QED
    BY <1>4, <1>5, <2>1, <2>2, <2>3, DeliverFits
<1>9. OthersStand(a)
  BY <1>1, <1>4 DEF OthersStand, TypeOK
<1>10. TokenAtFirst(h)' /\ ReadyAwaited' /\ LogsGrow
  BY <1>4 DEF Settled, TokenAtFirst, ReadyAwaited, LogsGrow
<1>11. status' = status /\ localGroup' = localGroup
  BY <1>4
<1>12. QED
  BY <1>6, <1>7, <1>8, <1>9, <1>10, <1>11, SettledAt

-----------------------------------------------------------------------------
(* Every step keeps the neighbours fresh, until somebody quits             *)

LEMMA SettledInit ==
    ASSUME NEW h \in Node
    PROVE  Init => Settled(h)
<1> SUFFICES ASSUME Init
             PROVE  Settled(h)
  OBVIOUS
<1>1. \A n \in Node, q \in Peer : Range(inbox[n][q]) = {}
  BY DEF Init, Range
<1>2. TokenAtFirst(h) /\ ReadyAwaited /\ ReadyAtEntry /\ MembersHeard(h)
  BY <1>1 DEF Init, TokenAtFirst, ReadyAwaited, ReadyAtEntry, MembersHeard
<1>3. ReadyIsLate(h) /\ NeighboursFresh
  BY <1>1 DEF Init, ReadyIsLate, ReadyMet, NeighboursFresh
<1>4. QED
  BY <1>2, <1>3 DEF Settled

LEMMA SettledStep ==
    ASSUME IInv, CInv, TimersKept, NEW h \in Node, DistinctAddresses, Timely,
           EntryKept(h), Peace(h), Settled(h), [Next]_vars
    PROVE  Settled(h)' \/ \E a \in Leaver : Quit(a)
<1>1. CASE UNCHANGED vars
  <2>1. /\ UNCHANGED <<status, groupIds, groups, localGroup>>
        /\ UNCHANGED <<state, readyTimers, joinToken, logs, inbox>>
    BY <1>1 DEF vars, procVars, joinVars, groupVars, netVars
  <2>2. Fits(inbox', h)
    BY <2>1, SameFits
  <2>3. QED
    BY <2>1, <2>2, SettledStill
<1>2. ASSUME NEW a \in Node, NEW p \in Peer, Receive(a, p)
      PROVE  Settled(h)'
  BY <1>2, NothingCrashes, JoinSettled, ReadsSettled, NotifSettled, AckSettled,
     ReadySettled, CheckersSettled DEF Receive
<1>3. ASSUME NEW a \in Node, NEW p \in Peer, TimerExpires(a, p)
      PROVE  Settled(h)'
  BY <1>3, NothingCrashes, SendReadySettled, CheckersSettled DEF TimerExpires
<1>4. ASSUME NEW a \in Node, NEW p \in Peer, Accept(a, p) \/ ReadTogether(a, p)
      PROVE  Settled(h)'
  BY <1>4, CommandsSettled, ReadsSettled
<1>5. ASSUME NEW a \in Node,
             \/ \E m \in JoinTo[a] : UIJoinConnect(a, m)
             \/ UIBroadcastCheck(a) \/ UIStep(a) \/ UISend(a)
      PROVE  Settled(h)'
  <2>1. Local(a) \in Peer
    BY <1>5 DEF Local, Peer, PeerKind
  <2>2. ~UIBroadcastCrash(a) /\ ~UIJoinThrows(a)
    BY <1>5, <2>1, NothingCrashes
  <2>3. QED
    BY <1>5, <2>2, CommandsSettled DEF UIStep
<1>6. ASSUME NEW a \in Node, Quit(a)
      PROVE  \E n \in Leaver : Quit(n)
  BY <1>6 DEF Quit
<1>7. QED
  BY <1>1, <1>2, <1>3, <1>4, <1>5, <1>6 DEF Next, IOStep

LEMMA SettledInvariant ==
    ASSUME NEW h \in Node, EntryPoint(h), DistinctAddresses, Timely
    PROVE  Spec => [](Quitted \/ Settled(h))
<1>1. Init => Settled(h)
  BY SettledInit
<1>2. /\ IInv /\ CInv /\ TimersKept /\ EntryKept(h) /\ (Quitted \/ Peace(h))
      /\ (Quitted \/ Settled(h)) /\ [Next]_vars
      => (Quitted \/ Settled(h))'
  <2> SUFFICES ASSUME IInv, CInv, TimersKept, EntryKept(h), Quitted \/ Peace(h),
                      Quitted \/ Settled(h), [Next]_vars
               PROVE  Quitted' \/ Settled(h)'
    OBVIOUS
  <2>1. ASSUME NEW a \in Leaver, Quit(a)
        PROVE  Quitted'
    BY <2>1, DepartureSeen DEF IInv
  <2>2. CASE Quitted
    BY <2>2, QuittedStep
  <2>3. CASE Peace(h) /\ Settled(h)
    BY <2>1, <2>3, SettledStep
  <2>4. QED
    BY <2>2, <2>3
<1>3. QED
  BY <1>1, <1>2, Invariant, ConnectionInvariant, TimersInvariant, EntryInvariant,
     PeaceInvariant, PTL DEF Spec

\* Whoever relays does so on the rings as they are: where all join through one
\* node and READY_TIME is long enough, nobody adds a peer to the rings of a
\* CONNECTED node without update_neighbours, until somebody quits.  (The JOIN
\* Acknowledgement handler adds one, and is over before READY.)
THEOREM NeighboursAreFresh ==
    ASSUME NEW h \in Node, EntryPoint(h), DistinctAddresses, Timely
    PROVE  Spec => [](Quitted \/ NeighboursFresh)
<1>1. Settled(h) => NeighboursFresh
  BY DEF Settled
<1>2. QED
  BY <1>1, SettledInvariant, PTL

-----------------------------------------------------------------------------
(* Whoever quits: the group of each node, and its view                     *)

\* Node n's join has been announced to group g.
AnnouncedIn(n, g) ==
    \E s \in Node : \E e \in logs[s] :
        e.type = "JOIN_NOTIF" /\ e.peer = n /\ e.group = g

\* The acknowledgements of box come from where their readers were announced, or
\* are those of group g to node x.
OnlyAcks(box, x, g) ==
    \A n \in Node, p \in Peer : \A m \in Range(box[n][p]) :
        m.type = "JOIN_ACK" => AnnouncedIn(n, m.group) \/ (n = x /\ m.group = g)

AcksAnnounced ==
    \A n \in Node, p \in Peer : \A m \in Range(inbox[n][p]) :
        m.type = "JOIN_ACK" => AnnouncedIn(n, m.group)

\* A node has no group but its local one; h founds it, the others enter the one
\* they were announced to.
Placed(h) ==
    \A n \in Node :
        /\ groupIds[n] \subseteq {localGroup[n]}
        /\ n # h /\ localGroup[n] # NoGroup => AnnouncedIn(n, localGroup[n])

Rooted(h) == Placed(h) /\ AcksAnnounced /\ Matched

LEMMA OneAnnouncement ==
    ASSUME CInv, NEW n \in Node, NEW g, NEW k, AnnouncedIn(n, g), AnnouncedIn(n, k)
    PROVE  g = k
<1>1. PICK e : e \in Notifs /\ e.peer = n /\ e.group = g
  BY NotifsAre DEF AnnouncedIn
<1>2. PICK f : f \in Notifs /\ f.peer = n /\ f.group = k
  BY NotifsAre DEF AnnouncedIn
<1>3. e = f
  BY <1>1, <1>2 DEF CInv, AnnouncedOnce
<1>4. QED
  BY <1>1, <1>2, <1>3

\* Announcements are never taken back.
LEMMA AnnouncedStays ==
    ASSUME LogsGrow, NEW n \in Node, NEW g, AnnouncedIn(n, g)
    PROVE  AnnouncedIn(n, g)'
  BY DEF AnnouncedIn, LogsGrow

LEMMA PlacedStill ==
    ASSUME NEW h \in Node, Placed(h), LogsGrow, UNCHANGED <<localGroup, groupIds>>
    PROVE  Placed(h)'
  BY AnnouncedStays DEF Placed

LEMMA AcksStill ==
    ASSUME AcksAnnounced, LogsGrow,
           \A n \in Node, p \in Peer : \A m \in Range(inbox'[n][p]) :
              m.type = "JOIN_ACK" => m \in Range(inbox[n][p])
    PROVE  AcksAnnounced'
<1> SUFFICES ASSUME NEW n \in Node, NEW p \in Peer, NEW m \in Range(inbox'[n][p]),
                    m.type = "JOIN_ACK"
             PROVE  AnnouncedIn(n, m.group)'
  BY DEF AcksAnnounced
<1>1. AnnouncedIn(n, m.group)
  BY DEF AcksAnnounced
<1>2. QED
  BY <1>1, AnnouncedStays

\* A plain step sends no acknowledgement and announces nobody.
LEMMA PlainGrows ==
    ASSUME PlainStep, AcksAnnounced
    PROVE  LogsGrow /\ AcksAnnounced'
<1>1. LogsGrow
  BY DEF PlainStep, LogsKept, LogsGrow
<1>2. \A n \in Node, p \in Peer : \A m \in Range(inbox'[n][p]) :
         m.type = "JOIN_ACK" => m \in Range(inbox[n][p])
  <2>1. \A n \in Node, p \in Peer :
           Range(inbox'[n][p]) \subseteq Range(inbox[n][p]) \cup LaterMsg
    BY DEF PlainStep, StreamsKept, Boxes, Streams, More
  <2>2. \A m \in LaterMsg : m.type # "JOIN_ACK"
    BY DEF LaterMsg
  <2>3. QED
    BY <2>1, <2>2
<1>3. QED
  BY <1>1, <1>2, AcksStill

\* The steps that change neither groups nor views
LEMMA PlainRooted ==
    ASSUME NEW h \in Node, Rooted(h), PlainStep,
           UNCHANGED <<localGroup, groupIds, groups, peers>>
    PROVE  Rooted(h)'
<1>1. LogsGrow /\ AcksAnnounced'
  BY PlainGrows DEF Rooted
<1>2. Placed(h)'
  BY <1>1, PlacedStill DEF Rooted
<1>3. Matched'
  BY DEF Rooted, Matched
<1>4. QED
  BY <1>1, <1>2, <1>3 DEF Rooted

LEMMA ExitRooted ==
    ASSUME TypeOK, NEW h \in Node, Rooted(h), NEW a \in Node, NEW how, Exit(a, how)
    PROVE  Rooted(h)'
<1>1. UNCHANGED <<localGroup, groupIds, groups, peers, logs>>
  BY DEF Exit, groupVars, viewVars
<1>2. LogsGrow
  BY <1>1 DEF LogsGrow
<1>3. \A n \in Node, p \in Peer : \A m \in Range(inbox'[n][p]) :
         m.type = "JOIN_ACK" => m \in Range(inbox[n][p])
  <2>1. \A n \in Node, p \in Peer :
           Range(inbox'[n][p]) \subseteq Range(inbox[n][p]) \cup Failure
    BY ExitStreams
  <2>2. \A m \in Failure : m.type # "JOIN_ACK"
    BY DEF Failure, Eof, Rst
  <2>3. QED
    BY <2>1, <2>2
<1>4. AcksAnnounced'
  BY <1>2, <1>3, AcksStill DEF Rooted
<1>5. Placed(h)'
  BY <1>1, <1>2, PlacedStill DEF Rooted
<1>6. Matched'
  BY <1>1 DEF Rooted, Matched
<1>7. QED
  BY <1>4, <1>5, <1>6 DEF Rooted

\* A connection is made, or the JOIN sent on it.
LEMMA ConnectRooted ==
    ASSUME TypeOK, NEW h \in Node, Rooted(h), NEW a \in Node,
           \/ \E m \in JoinTo[a] : UIJoinConnect(a, m)
           \/ UIJoinSend(a) \/ \E p \in Peer : Accept(a, p)
    PROVE  Rooted(h)'
<1>1. UNCHANGED <<localGroup, groupIds, groups, peers, logs>>
  BY DEF UIJoinConnect, UIJoinSend, Accept, groupVars, viewVars
<1>2. LogsGrow
  BY <1>1 DEF LogsGrow
<1>3. \A n \in Node, p \in Peer : \A m \in Range(inbox'[n][p]) :
         m.type = "JOIN_ACK" => m \in Range(inbox[n][p])
  <2>1. PICK M : M = {<<entry[a], "entry">>}
    OBVIOUS
  <2>2. inbox' = inbox \/ inbox' = Deliver(inbox, a, M, JoinMsg)
    BY <2>1 DEF UIJoinConnect, UIJoinSend, Accept
  <2>3. SUFFICES ASSUME NEW n \in Node, NEW p \in Peer,
                        NEW m \in Range(inbox'[n][p]), m.type = "JOIN_ACK"
                 PROVE  m \in Range(inbox[n][p])
    OBVIOUS
  <2>4. inbox[n][p] \in Seq(Message) /\ JoinMsg \in Message
    BY DEF TypeOK, Message
  <2>5. inbox'[n][p] = inbox[n][p] \/ inbox'[n][p] = Append(inbox[n][p], JoinMsg)
    BY <2>2 DEF Deliver
  <2>6. Range(Append(inbox[n][p], JoinMsg)) = Range(inbox[n][p]) \cup {JoinMsg}
    BY <2>4, AppendParts
  <2>7. m # JoinMsg
    BY <2>3 DEF JoinMsg
  <2>8. QED
    BY <2>3, <2>5, <2>6, <2>7
<1>4. AcksAnnounced'
  BY <1>2, <1>3, AcksStill DEF Rooted
<1>5. Placed(h)'
  BY <1>1, <1>2, PlacedStill DEF Rooted
<1>6. Matched'
  BY <1>1 DEF Rooted, Matched
<1>7. QED
  BY <1>4, <1>5, <1>6 DEF Rooted

LEMMA ReadyRooted ==
    ASSUME CInv, IInv, NEW h \in Node, Rooted(h), NEW a \in Node, NEW p \in Peer,
           HandleReady(a, p)
    PROVE  Rooted(h)'
<1>1. LogsGrow /\ AcksAnnounced'
  BY ReadyPlain, PlainGrows DEF Rooted
<1>2. Matched'
  BY ReadyMatched DEF Rooted, IInv
<1>3. UNCHANGED <<localGroup, groupIds>>
  BY DEF HandleReady
<1>4. Placed(h)'
  BY <1>1, <1>3, PlacedStill DEF Rooted
<1>5. QED
  BY <1>1, <1>2, <1>4 DEF Rooted

\* Whoever is in the view of a node is a member of its local group, so that
\* handle_disconnect finds it there and its loop over the groups advances.
LEMMA FoundInGroup ==
    ASSUME IInv, Matched, NEW a \in Node, NEW p \in Peer, Erasable(a, p)
    PROVE  /\ localGroup[a] \in GroupId /\ localGroup[a] # NoGroup
           /\ localGroup[a] \in groupIds[a]
           /\ HasMember(groups[a][localGroup[a]], p)
<1>1. Id(p) \in Ids(peers[a]) /\ Ids({}) = {}
  BY DEF Erasable, Ids
<1>2. localGroup[a] # NoGroup
  BY <1>1 DEF IInv, LocalGroupKept, KeptAt
<1>3. localGroup[a] \in groupIds[a]
  BY <1>2 DEF IInv, LocalGroupKept, KeptAt
<1>4. QED
  BY <1>1, <1>2, <1>3 DEF Matched, HasMember, IInv, TypeOK

LEMMA NeverLoops ==
    ASSUME IInv, Matched, NEW a \in Node, NEW p \in Peer
    PROVE  ~LoopsForever(a, p)
  BY FoundInGroup DEF LoopsForever

\* An erased Peer is erased from the local group, and the neighbours updated.
LEMMA ErasedFromGroup ==
    ASSUME IInv, Matched, NEW a \in Node, NEW p \in Peer, Erasable(a, p),
           NEW gid, gid = localGroup[a]
    PROVE  Ids(GroupsWithout(a, p)[gid].members) = Ids(peers[a]) \ {Id(p)}
<1>1. /\ gid \in GroupId /\ gid \in groupIds[a] /\ gid # NoGroup
      /\ HasMember(groups[a][gid], p)
  BY FoundInGroup
<1>2. gid \in GroupsToUpdate(a, p)
  BY <1>1 DEF GroupsToUpdate
<1>3. PICK g : g = RemovePeer(groups[a][gid], p)
  OBVIOUS
<1>4. GroupsWithout(a, p)[gid] = UpdateNeighbours(g, a)
  BY <1>1, <1>2, <1>3 DEF GroupsWithout
<1>5. groups[a][gid] \in Group /\ g \in Group
  <2>1. groups[a][gid] \in Group
    BY <1>1 DEF IInv, TypeOK
  <2>2. QED
    BY <1>3, <2>1, GroupOperationsType
<1>6. UpdateNeighbours(g, a).members = EraseId(groups[a][gid].members, Id(p))
  BY <1>3, <1>5, MembersAre DEF RemovePeer, Group
<1>7. Ids(groups[a][gid].members) = Ids(peers[a])
  BY <1>1 DEF Matched
<1>8. QED
  BY <1>4, <1>6, <1>7 DEF EraseId, Ids

LEMMA DisconnectRooted ==
    ASSUME CInv, IInv, NEW h \in Node, Rooted(h), NEW a \in Node, NEW p \in Peer,
           HandleDisconnect(a, p)
    PROVE  Rooted(h)'
<1>1. TypeOK /\ Matched
  BY DEF IInv, Rooted
<1>2. LogsGrow /\ AcksAnnounced'
  BY DisconnectPlain, PlainGrows DEF Rooted
<1>3. PICK gs : gs = IF Erasable(a, p) THEN GroupsWithout(a, p) ELSE groups[a]
  OBVIOUS
<1>4. PICK view : view = IF Erasable(a, p) THEN EraseId(peers[a], Id(p)) ELSE peers[a]
  OBVIOUS
<1>5. /\ peers' = [peers EXCEPT ![a] = view]
      /\ \/ /\ groupIds' = [groupIds EXCEPT ![a] = {}]
            /\ groups' = [groups EXCEPT ![a] = [g \in GroupId |-> NewGroup]]
            /\ localGroup' = [localGroup EXCEPT ![a] = NoGroup]
         \/ /\ groups' = [groups EXCEPT ![a] = gs]
            /\ UNCHANGED <<groupIds, localGroup>>
  BY <1>3, <1>4 DEF HandleDisconnect, LeaveGroups
<1>6. \A n \in Node \ {a} : /\ peers'[n] = peers[n] /\ groups'[n] = groups[n]
                            /\ groupIds'[n] = groupIds[n]
                            /\ localGroup'[n] = localGroup[n]
  BY <1>1, <1>5 DEF TypeOK
<1>7. \/ localGroup'[a] = NoGroup /\ groupIds'[a] = {}
      \/ /\ groups'[a] = gs /\ groupIds'[a] = groupIds[a]
         /\ localGroup'[a] = localGroup[a]
  BY <1>1, <1>5 DEF TypeOK
<1>8. Placed(h)'
  <2>1. \A n \in Node : \A g : AnnouncedIn(n, g) => AnnouncedIn(n, g)'
    BY <1>2, AnnouncedStays
  <2>2. \A n \in Node : \/ localGroup'[n] = NoGroup /\ groupIds'[n] = {}
                        \/ /\ groupIds'[n] = groupIds[n]
                           /\ localGroup'[n] = localGroup[n]
    BY <1>6, <1>7
  <2>3. QED
    BY <2>1, <2>2 DEF Rooted, Placed
<1>9. ASSUME localGroup'[a] # NoGroup
      PROVE  Ids(peers'[a]) = Ids(groups'[a][localGroup'[a]].members)
  <2>1. PICK gid : gid = localGroup[a]
    OBVIOUS
  <2>2. groups'[a] = gs /\ localGroup'[a] = gid /\ gid # NoGroup
    BY <1>7, <1>9, <2>1
  <2>3. peers'[a] = view
    BY <1>1, <1>5 DEF TypeOK
  <2>4. CASE Erasable(a, p)
    <3>1. Ids(gs[gid].members) = Ids(peers[a]) \ {Id(p)}
      BY <1>1, <1>3, <2>1, <2>4, ErasedFromGroup
    <3>2. Ids(view) = Ids(peers[a]) \ {Id(p)}
      BY <1>4, <2>4 DEF EraseId, Ids
    <3>3. QED
      BY <2>2, <2>3, <3>1, <3>2
  <2>5. CASE ~Erasable(a, p)
    BY <1>1, <1>3, <1>4, <2>1, <2>2, <2>3, <2>5 DEF Matched
  <2>6. QED
    BY <2>4, <2>5
<1>10. Matched'
  BY <1>1, <1>6, <1>9 DEF Matched
<1>11. QED
  BY <1>2, <1>8, <1>10 DEF Rooted

-----------------------------------------------------------------------------
(* Acknowledgements                                                        *)

\* What is left of the messages, in box
Less(box) == \A r \in Node, q \in Peer : Range(box[r][q]) \subseteq Range(inbox[r][q])

LEMMA ConsumeLess ==
    ASSUME TypeOK, NEW n \in Node, NEW p \in Peer, inbox[n][p] # <<>>
    PROVE  Less(Consume(n, p)) /\ Consume(n, p) \in Inboxes
<1>1. inbox[n][p] \in Seq(Message)
  BY DEF TypeOK
<1>2. Range(Tail(inbox[n][p])) \subseteq Range(inbox[n][p])
  BY <1>1, TailParts, EmptyParts
<1>3. \A r \in Node, q \in Peer :
         Consume(n, p)[r][q] = IF r = n /\ q = p THEN Tail(inbox[n][p])
                               ELSE inbox[r][q]
  BY DEF Consume, TypeOK
<1>4. Consume(n, p) \in Inboxes
  BY ReadType
<1>5. QED
  BY <1>2, <1>3, <1>4 DEF Less

LEMMA LessOnlyAcks ==
    ASSUME AcksAnnounced, NEW box, Less(box), NEW x, NEW g
    PROVE  OnlyAcks(box, x, g)
  BY DEF AcksAnnounced, Less, OnlyAcks

LEMMA DeliverOnlyAcks ==
    ASSUME NEW box \in Inboxes, NEW x, NEW g, OnlyAcks(box, x, g), NEW n \in Node,
           NEW M, NEW m \in Message,
           m.type = "JOIN_ACK" => m.group = g /\ \A c \in M : Id(c) = x
    PROVE  OnlyAcks(Deliver(box, n, M, m), x, g)
<1> SUFFICES ASSUME NEW r \in Node, NEW q \in Peer,
                    NEW e \in Range(Deliver(box, n, M, m)[r][q]),
                    e.type = "JOIN_ACK"
             PROVE  AnnouncedIn(r, e.group) \/ (r = x /\ e.group = g)
  BY DEF OnlyAcks
<1>1. PICK s \in Seq(Message) : s = box[r][q]
  BY DEF Inboxes
<1>2. Range(Append(s, m)) = Range(s) \cup {m}
  BY <1>1, AppendParts
<1>3. CASE e \in Range(s)
  BY <1>1, <1>3 DEF OnlyAcks
<1>4. CASE e \notin Range(s)
  <2>1. e = m /\ Id(q) = n /\ OtherEnd(r, q) \in M
    BY <1>1, <1>2, <1>4 DEF Deliver
  <2>2. Id(OtherEnd(r, q)) = r
    BY Kinds
  <2>3. QED
    BY <2>1, <2>2
<1>5. QED
  BY <1>3, <1>4

\* acknowledge_join: node a lets c in, which has been announced.
LEMMA AcknowledgedRooted ==
    ASSUME TypeOK, AcksAnnounced, Matched, NEW a \in Node, NEW c \in Peer,
           NEW gid \in GroupId, NEW gs \in [GroupId -> Group],
           Ids(peers[a]) = Ids(gs[gid].members),
           NEW box \in Inboxes, OnlyAcks(box, Id(c), gid), NEW M, NEW timers,
           AcknowledgeJoin(a, c, gid, gs, box, M, timers),
           LogsGrow, AnnouncedIn(Id(c), gid)', gid = localGroup'[a],
           \A n \in Node \ {a} : localGroup'[n] = localGroup[n]
    PROVE  AcksAnnounced' /\ Matched'
<1>1. inbox' = Deliver(box, a, {c}, AckMsg(gid))
  BY DEF AcknowledgeJoin
<1>2. AckMsg(gid) \in Message /\ AckMsg(gid).group = gid
  BY MessageTypes DEF AckMsg
<1>3. OnlyAcks(inbox', Id(c), gid)
  BY <1>1, <1>2, DeliverOnlyAcks
<1>4. AcksAnnounced'
  <2> SUFFICES ASSUME NEW n \in Node, NEW p \in Peer, NEW m \in Range(inbox'[n][p]),
                      m.type = "JOIN_ACK"
               PROVE  AnnouncedIn(n, m.group)'
    BY DEF AcksAnnounced
  <2>1. AnnouncedIn(n, m.group) \/ (n = Id(c) /\ m.group = gid)
    BY <1>3 DEF OnlyAcks
  <2>2. AnnouncedIn(n, m.group) => AnnouncedIn(n, m.group)'
    BY AnnouncedStays
  <2>3. QED
    BY <2>1, <2>2
<1>5. LetsIn(a, c, gid, gs)
  BY AcknowledgedMember
<1>6. ElsewhereKept(a) /\ Ids(peers'[a]) = Ids(groups'[a][gid].members)
  BY <1>5 DEF LetsIn
<1>7. Matched'
  BY <1>6, MatchedAt
<1>8. QED
  BY <1>4, <1>7

\* answer_join_request announces the node and acknowledges it.
LEMMA AnswerRooted ==
    ASSUME TypeOK, AcksAnnounced, Matched, NEW a \in Node, NEW c \in Peer,
           NEW port \in Node \cup {NoNode},
           NEW gid \in GroupId, NEW gs \in [GroupId -> Group],
           Ids(peers[a]) = Ids(gs[gid].members),
           NEW box \in Inboxes, OnlyAcks(box, Id(c), gid), NEW timers,
           AnswerJoinRequest(a, c, port, gid, gs, box, timers),
           gid = localGroup'[a],
           \A n \in Node \ {a} : localGroup'[n] = localGroup[n]
    PROVE  LogsGrow /\ AcksAnnounced' /\ Matched'
<1>1. PICK notif : notif = NotifMsg(gid, a, Id(c), port)
  OBVIOUS
<1>2. PICK succs : succs = gs[gid].succs
  OBVIOUS
<1>3. PICK after : after = Deliver(box, a, succs, notif)
  OBVIOUS
<1>4. /\ logs' = [logs EXCEPT ![a] = @ \cup {notif}]
      /\ AcknowledgeJoin(a, c, gid, gs, after, succs, timers)
  BY <1>1, <1>2, <1>3 DEF AnswerJoinRequest
<1>5. /\ notif \in Message /\ notif.type = "JOIN_NOTIF" /\ notif.group = gid
      /\ notif.peer = Id(c)
  <2>1. Id(c) \in Node
    BY Kinds
  <2>2. QED
    BY <1>1, <2>1, MessageTypes DEF NotifMsg
<1>6. after \in Inboxes /\ OnlyAcks(after, Id(c), gid)
  BY <1>3, <1>5, DeliverType, DeliverOnlyAcks
<1>7. LogsGrow /\ notif \in logs'[a]
  BY <1>4 DEF LogsGrow, TypeOK
<1>8. AnnouncedIn(Id(c), gid)'
  BY <1>5, <1>7 DEF AnnouncedIn
<1>9. QED
  BY <1>4, <1>6, <1>7, <1>8, AcknowledgedRooted

\* A member calls the node it has heard of, and acknowledges it.
LEMMA NotifRooted ==
    ASSUME CInv, IInv, NEW h \in Node, Rooted(h), NEW a \in Node, NEW p \in Peer,
           HandleJoinNotif(a, p)
    PROVE  Rooted(h)'
<1>1. TypeOK /\ AcksAnnounced /\ Matched
  BY DEF IInv, Rooted
<1>2. PICK m : m = Head(inbox[a][p])
  OBVIOUS
<1>3. PICK box : box = Deliver(Consume(a, p), a, Relays(a, m), m)
  OBVIOUS
<1>4. PICK c : c = <<m.peer, "called">>
  OBVIOUS
<1>5. PICK gid : gid = m.group
  OBVIOUS
<1>6. PICK gs : gs = groups[a]
  OBVIOUS
<1>7. /\ Reads(a, p, "JOIN_NOTIF") /\ Ours(a, m) /\ LogForwarded(a, m)
      /\ AcknowledgeJoin(a, c, gid, gs, box, Relays(a, m), joinTimers[a])
      /\ UNCHANGED <<localGroup, groupIds>>
  BY <1>2, <1>3, <1>4, <1>5, <1>6 DEF HandleJoinNotif, ReadsNotif
<1>8. m \in Message /\ m.type = "JOIN_NOTIF" /\ inbox[a][p] # <<>>
  BY <1>1, <1>2, <1>7, ReadParts
<1>9. /\ gid \in GroupId /\ m.peer \in Node /\ c \in Peer /\ Id(c) = m.peer
      /\ gs \in [GroupId -> Group]
  <2>1. m.group \in GroupId /\ m.peer \in Node
    BY <1>8, MessageFields
  <2>2. QED
    BY <1>1, <1>4, <1>5, <1>6, <2>1 DEF Peer, PeerKind, Id, TypeOK
<1>10. gid = localGroup[a] /\ localGroup[a] # NoGroup
  BY <1>5, <1>7, <1>9, NetworkAssumption DEF Ours
<1>11. box \in Inboxes /\ OnlyAcks(box, Id(c), gid)
  <2>1. Less(Consume(a, p)) /\ Consume(a, p) \in Inboxes
    BY <1>1, <1>8, ConsumeLess
  <2>2. OnlyAcks(Consume(a, p), Id(c), gid)
    BY <1>1, <2>1, LessOnlyAcks
  <2>3. QED
    BY <1>3, <1>8, <2>1, <2>2, DeliverType, DeliverOnlyAcks
<1>12. LogsGrow /\ m \in logs'[a]
  <2>1. gid \in markers[a]
    BY <1>10 DEF IInv, LocalGroupKept, KeptAt
  <2>2. logs' = [logs EXCEPT ![a] = @ \cup {m}]
    BY <1>5, <1>7, <2>1 DEF LogForwarded
  <2>3. QED
    BY <1>1, <2>2 DEF TypeOK, LogsGrow
<1>13. AnnouncedIn(Id(c), gid)'
  BY <1>5, <1>8, <1>9, <1>12 DEF AnnouncedIn
<1>14. Ids(peers[a]) = Ids(gs[gid].members)
  BY <1>1, <1>6, <1>10 DEF Matched
<1>15. AcksAnnounced' /\ Matched'
  <2>1. gid = localGroup'[a] /\ \A n \in Node \ {a} : localGroup'[n] = localGroup[n]
    BY <1>7, <1>10
  <2>2. QED
    BY <1>1, <1>7, <1>9, <1>11, <1>12, <1>13, <1>14, <2>1, AcknowledgedRooted
<1>16. Placed(h)'
  BY <1>7, <1>12, PlacedStill DEF Rooted
<1>17. QED
  BY <1>15, <1>16 DEF Rooted

LEMMA CheckRooted ==
    ASSUME IInv, NEW h \in Node, Rooted(h), NEW a \in Node, NEW states,
           NEW box \in Inboxes, Less(box), NEW timers,
           CheckForNewPeers(a, states, box, timers),
           UNCHANGED <<localGroup, groupIds>>
    PROVE  Rooted(h)'
<1>1. TypeOK /\ AcksAnnounced /\ Matched
  BY DEF IInv, Rooted
<1>2. ASSUME ~DereferencesNull(a, states), NEW k \in Pending(a, states),
             AnswerJoinRequest(a, newPeers[a][k].peer, newPeers[a][k].port,
                               localGroup[a], groups[a], box, timers)
      PROVE  LogsGrow /\ AcksAnnounced' /\ Matched'
  <2>1. PICK c : c = newPeers[a][k].peer
    OBVIOUS
  <2>2. PICK port : port = newPeers[a][k].port
    OBVIOUS
  <2>3. PICK gid : gid = localGroup[a]
    OBVIOUS
  <2>4. PICK gs : gs = groups[a]
    OBVIOUS
  <2>5. c \in Peer /\ port \in Node \cup {NoNode} /\ gid \in GroupId
    BY <1>2, <2>1, <2>2, <2>3, PendingType
  <2>6. gs \in [GroupId -> Group] /\ Ids(peers[a]) = Ids(gs[gid].members)
    BY <1>1, <2>3, <2>4, <2>5, NetworkAssumption DEF TypeOK, Matched
  <2>7. OnlyAcks(box, Id(c), gid)
    BY <1>1, LessOnlyAcks
  <2>8. AnswerJoinRequest(a, c, port, gid, gs, box, timers)
    BY <1>2, <2>1, <2>2, <2>3, <2>4
  <2>9. gid = localGroup'[a] /\ \A n \in Node \ {a} : localGroup'[n] = localGroup[n]
    BY <2>3
  <2>10. QED
    BY <1>1, <2>5, <2>6, <2>7, <2>8, <2>9, AnswerRooted
<1>3. ASSUME inbox' = box, UNCHANGED <<logs, peers, groups>>
      PROVE  LogsGrow /\ AcksAnnounced' /\ Matched'
  <2>1. LogsGrow /\ Matched'
    BY <1>1, <1>3 DEF LogsGrow, Matched
  <2>2. AcksAnnounced'
    BY <1>1, <1>3, <2>1, AcksStill DEF Less
  <2>3. QED
    BY <2>1, <2>2
<1>4. LogsGrow /\ AcksAnnounced' /\ Matched'
  BY <1>2, <1>3 DEF CheckForNewPeers
<1>5. Placed(h)'
  BY <1>4, PlacedStill DEF Rooted
<1>6. QED
  BY <1>4, <1>5 DEF Rooted

LEMMA CheckersRooted ==
    ASSUME IInv, NEW h \in Node, Rooted(h), NEW a \in Node, NEW p \in Peer,
           HandleReadyNotif(a, p) \/ CompleteJoin(a, p)
    PROVE  Rooted(h)'
<1>1. TypeOK /\ inbox \in Inboxes
  BY DEF IInv, TypeOK, Inboxes
<1>2. PICK states : states = [peerState[a] EXCEPT ![p] = "CONNECTED"]
  OBVIOUS
<1>3. CASE HandleReadyNotif(a, p)
  <2>1. PICK box : box = Consume(a, p)
    OBVIOUS
  <2>2. /\ CheckForNewPeers(a, states, box, joinTimers[a])
        /\ UNCHANGED <<localGroup, groupIds>> /\ inbox[a][p] # <<>>
    BY <1>2, <1>3, <2>1 DEF HandleReadyNotif, Reads
  <2>3. Less(box) /\ box \in Inboxes
    BY <1>1, <2>1, <2>2, ConsumeLess
  <2>4. QED
    BY <2>2, <2>3, CheckRooted
<1>4. CASE CompleteJoin(a, p)
  <2>1. PICK timers : timers = EraseId(joinTimers[a], Id(p))
    OBVIOUS
  <2>2. /\ CheckForNewPeers(a, states, inbox, timers)
        /\ UNCHANGED <<localGroup, groupIds>>
    BY <1>2, <1>4, <2>1 DEF CompleteJoin
  <2>3. Less(inbox)
    BY DEF Less
  <2>4. QED
    BY <1>1, <2>2, <2>3, CheckRooted
<1>5. QED
  BY <1>3, <1>4

\* The entry point has a group, or founds one, and no other.
LEMMA JoinPlaces ==
    ASSUME IInv, NEW h \in Node, EntryKept(h), Placed(h), NEW p \in Peer,
           HandleJoin(h, p), NEW gid, gid = localGroup'[h]
    PROVE  /\ gid \in GroupId /\ groupIds'[h] \subseteq {gid}
           /\ \A n \in Node \ {h} : /\ localGroup'[n] = localGroup[n]
                                    /\ groupIds'[n] = groupIds[n]
<1>1. TypeOK
  BY DEF IInv
<1>2. CASE state[h] = "CONNECTED"
  <2>1. UNCHANGED <<localGroup, groupIds>>
    BY <1>2 DEF HandleJoin
  <2>2. localGroup[h] # NoGroup /\ gid = localGroup[h]
    BY <1>2, <2>1 DEF EntryKept
  <2>3. QED
    BY <1>1, <2>1, <2>2 DEF Placed, TypeOK
<1>3. CASE state[h] # "CONNECTED"
  <2>1. groupIds[h] = {}
    BY <1>3 DEF EntryKept, IInv, LocalGroupKept, KeptAt
  <2>2. PICK g \in GroupId : /\ localGroup' = [localGroup EXCEPT ![h] = g]
                             /\ groupIds' = [groupIds EXCEPT ![h] = @ \cup {g}]
    BY <1>3 DEF HandleJoin, FoundGroup
  <2>3. QED
    BY <1>1, <2>1, <2>2 DEF TypeOK
<1>4. QED
  BY <1>2, <1>3

LEMMA JoinRooted ==
    ASSUME CInv, IInv, NEW h \in Node, EntryKept(h), Rooted(h), NEW a \in Node,
           NEW p \in Peer, HandleJoin(a, p)
    PROVE  Rooted(h)'
<1>1. TypeOK /\ AcksAnnounced /\ Matched /\ Placed(h)
  BY DEF IInv, Rooted
<1>2. a = h /\ HandleJoin(h, p) /\ inbox[h][p] # <<>>
  <2>1. Reads(a, p, "JOIN")
    BY DEF HandleJoin
  <2>2. QED
    BY <2>1, JoinsAtEntry DEF Reads
<1>3. PICK gid : gid = localGroup'[h]
  OBVIOUS
<1>4. PICK gs : gs = Record(h, gid)
  OBVIOUS
<1>5. PICK box : box = Consume(h, p)
  OBVIOUS
<1>6. /\ gid \in GroupId /\ groupIds'[h] \subseteq {gid}
      /\ \A n \in Node \ {h} : /\ localGroup'[n] = localGroup[n]
                               /\ groupIds'[n] = groupIds[n]
  BY <1>1, <1>2, <1>3, JoinPlaces
<1>7. gs \in [GroupId -> Group] /\ Ids(peers[h]) = Ids(gs[gid].members)
  BY <1>1, <1>2, <1>3, <1>4, <1>6, RecordMatched
<1>8. Less(box) /\ box \in Inboxes
  BY <1>1, <1>2, <1>5, ConsumeLess
<1>9. LogsGrow /\ AcksAnnounced' /\ Matched'
  <2>1. CASE joinToken[h]
    <3>1. PICK port : port = Id(p)
      OBVIOUS
    <3>2. PICK timers : timers = joinTimers[h]
      OBVIOUS
    <3>3. AnswerJoinRequest(h, p, port, gid, gs, box, timers)
      BY <1>2, <1>3, <1>4, <1>5, <2>1, <3>1, <3>2 DEF HandleJoin, Record
    <3>4. port \in Node \cup {NoNode}
      BY <3>1, Kinds
    <3>5. OnlyAcks(box, Id(p), gid)
      BY <1>1, <1>8, LessOnlyAcks
    <3>6. QED
      BY <1>1, <1>3, <1>6, <1>7, <1>8, <3>3, <3>4, <3>5, AnswerRooted
  <2>2. CASE ~joinToken[h]
    <3>1. /\ groups' = [groups EXCEPT ![h] = gs]
          /\ inbox' = box /\ UNCHANGED <<peers, logs>>
      BY <1>2, <1>3, <1>4, <1>5, <2>2 DEF HandleJoin, Record
    <3>2. LogsGrow
      BY <3>1 DEF LogsGrow
    <3>3. AcksAnnounced'
      BY <1>1, <1>8, <3>1, <3>2, AcksStill DEF Less
    <3>4. /\ ElsewhereKept(h)
          /\ Ids(peers'[h]) = Ids(groups'[h][gid].members)
      BY <1>1, <1>7, <3>1 DEF ElsewhereKept, TypeOK
    <3>5. Matched'
      BY <1>1, <1>3, <1>6, <3>4, MatchedAt
    <3>6. QED
      BY <3>2, <3>3, <3>5
  <2>3. QED
    BY <2>1, <2>2
<1>10. Placed(h)'
  <2>1. \A n \in Node : \A g : AnnouncedIn(n, g) => AnnouncedIn(n, g)'
    BY <1>9, AnnouncedStays
  <2>2. QED
    BY <1>1, <1>3, <1>6, <2>1 DEF Placed
<1>11. QED
  BY <1>9, <1>10 DEF Rooted

\* Who is acknowledged enters the group it was announced to: that is the one it
\* has, if it has one.
LEMMA AckRooted ==
    ASSUME CInv, IInv, NEW h \in Node, EntryKept(h), Rooted(h), NEW a \in Node,
           NEW p \in Peer, HandleJoinAck(a, p)
    PROVE  Rooted(h)'
<1>1. TypeOK /\ AcksAnnounced /\ Matched /\ Placed(h)
  BY DEF IInv, Rooted
<1>2. Reads(a, p, "JOIN_ACK") /\ a # h
  BY NoAckAtEntry DEF HandleJoinAck
<1>3. PICK gid : gid = Head(inbox[a][p]).group
  OBVIOUS
<1>4. AnnouncedIn(a, gid) /\ gid \in GroupId /\ inbox[a][p] # <<>>
  <2>1. PICK m \in Message : /\ m = Head(inbox[a][p]) /\ m \in Range(inbox[a][p])
                             /\ m.type = "JOIN_ACK" /\ inbox[a][p] # <<>>
    BY <1>2, AckParts
  <2>2. QED
    BY <1>1, <1>3, <2>1, MessageFields DEF AcksAnnounced
<1>5. \/ localGroup[a] = NoGroup /\ groupIds[a] = {} /\ peers[a] = {}
      \/ localGroup[a] = gid /\ groupIds[a] = {gid} /\ gid # NoGroup
  <2>1. CASE localGroup[a] = NoGroup
    BY <2>1 DEF IInv, LocalGroupKept, KeptAt
  <2>2. CASE localGroup[a] # NoGroup
    <3>1. AnnouncedIn(a, localGroup[a])
      BY <1>1, <1>2, <2>2 DEF Placed
    <3>2. localGroup[a] = gid
      BY <1>4, <3>1, OneAnnouncement
    <3>3. gid \in groupIds[a] /\ groupIds[a] \subseteq {gid}
      BY <1>1, <2>2, <3>2 DEF Placed, IInv, LocalGroupKept, KeptAt
    <3>4. QED
      BY <2>2, <3>2, <3>3
  <2>3. QED
    BY <2>1, <2>2
<1>6. PICK g : g = IF localGroup[a] = NoGroup THEN NewGroup ELSE groups[a][gid]
  OBVIOUS
<1>7. /\ groups' = [groups EXCEPT ![a][gid] = AddPeer(g, p)]
      /\ groupIds' = [groupIds EXCEPT ![a] = @ \cup {gid}]
      /\ peers' = [peers EXCEPT ![a] = Put(@, p)]
      /\ inbox' = Consume(a, p)
      /\ logs' = logs
      /\ \/ /\ localGroup[a] = NoGroup
            /\ localGroup' = [localGroup EXCEPT ![a] = gid]
         \/ localGroup[a] = gid /\ localGroup' = localGroup
  <2>1. CASE localGroup[a] = NoGroup
    BY <1>3, <1>5, <1>6, <2>1 DEF HandleJoinAck
  <2>2. CASE localGroup[a] # NoGroup
    BY <1>3, <1>5, <1>6, <2>2 DEF HandleJoinAck
  <2>3. QED
    BY <2>1, <2>2
<1>8. /\ localGroup'[a] = gid /\ groupIds'[a] = {gid}
      /\ \A n \in Node \ {a} : /\ localGroup'[n] = localGroup[n]
                               /\ groupIds'[n] = groupIds[n]
                               /\ groups'[n] = groups[n] /\ peers'[n] = peers[n]
  BY <1>1, <1>5, <1>7 DEF TypeOK
<1>9. LogsGrow /\ AcksAnnounced'
  <2>1. LogsGrow
    BY <1>7 DEF LogsGrow
  <2>2. Less(Consume(a, p))
    BY <1>1, <1>4, ConsumeLess
  <2>3. QED
    BY <1>1, <1>7, <2>1, <2>2, AcksStill DEF Less
<1>10. Placed(h)'
  <2>1. \A n \in Node : \A k : AnnouncedIn(n, k) => AnnouncedIn(n, k)'
    BY <1>9, AnnouncedStays
  <2>2. QED
    BY <1>1, <1>4, <1>8, <2>1 DEF Placed
<1>11. Matched'
  <2>1. g \in Group /\ Ids(g.members) = Ids(peers[a])
    <3>1. CASE localGroup[a] = NoGroup
      BY <1>5, <1>6, <3>1 DEF NewGroup, Group, Ids
    <3>2. CASE localGroup[a] # NoGroup
      BY <1>1, <1>4, <1>5, <1>6, <3>2 DEF Matched, TypeOK
    <3>3. QED
      BY <3>1, <3>2
  <2>2. Ids(AddPeer(g, p).members) = Ids(g.members) \cup {Id(p)}
    BY <2>1, MembersAre
  <2>3. groups'[a][gid] = AddPeer(g, p) /\ peers'[a] = Put(peers[a], p)
    BY <1>1, <1>4, <1>7 DEF TypeOK
  <2>4. Ids(Put(peers[a], p)) = Ids(peers[a]) \cup {Id(p)}
    BY DEF Put, Ids
  <2>5. ElsewhereKept(a) /\ Ids(peers'[a]) = Ids(groups'[a][gid].members)
    BY <1>8, <2>1, <2>2, <2>3, <2>4 DEF ElsewhereKept
  <2>6. QED
    BY <1>1, <1>8, <2>5, MatchedAt
<1>12. QED
  BY <1>9, <1>10, <1>11 DEF Rooted

-----------------------------------------------------------------------------
(* Every step keeps each node's group and view, whoever has quit           *)

LEMMA RootedInit ==
    ASSUME NEW h \in Node
    PROVE  Init => Rooted(h)
<1> SUFFICES ASSUME Init
             PROVE  Rooted(h)
  OBVIOUS
<1>1. Placed(h) /\ Matched
  BY DEF Init, Placed, Matched
<1>2. AcksAnnounced
  <2>1. Range(<<>>) = {}
    BY DEF Range
  <2>2. QED
    BY <2>1 DEF Init, AcksAnnounced
<1>3. QED
  BY <1>1, <1>2 DEF Rooted

LEMMA RootedStep ==
    ASSUME IInv, CInv, NEW h \in Node, EntryKept(h), Rooted(h), [Next]_vars
    PROVE  Rooted(h)'
<1>1. TypeOK
  BY DEF IInv
<1>2. CASE PlainStep /\ UNCHANGED <<localGroup, groupIds, groups, peers>>
  BY <1>2, PlainRooted
<1>3. ASSUME NEW a \in Node, NEW how, Exit(a, how)
      PROVE  Rooted(h)'
  BY <1>1, <1>3, ExitRooted
<1>4. ASSUME NEW a \in Node,
             \/ UIBroadcastCheck(a) \/ UIBroadcast(a) \/ UIBroadcastLog(a)
             \/ UIJoinMark(a) \/ UISend(a) \/ UIJoinThrows(a)
      PROVE  Rooted(h)'
  <2>1. UNCHANGED <<localGroup, groupIds, groups, peers>>
    BY <1>4 DEF UIBroadcastCheck, UIBroadcast, UIBroadcastLog, UIJoinMark, UISend,
                UIJoinThrows, viewVars, groupVars
  <2>2. PlainStep
    BY <1>4, CommandsPlain, JoinThrowsPlain
  <2>3. QED
    BY <1>2, <2>1, <2>2
<1>5. ASSUME NEW a \in Node,
             \/ \E m \in JoinTo[a] : UIJoinConnect(a, m)
             \/ UIStep(a) \/ UIBroadcastCheck(a) \/ UISend(a) \/ Quit(a)
      PROVE  Rooted(h)'
  BY <1>1, <1>3, <1>4, <1>5, ConnectRooted DEF UIStep, UIBroadcastCrash, Crash, Quit
<1>6. ASSUME NEW a \in Node, NEW p \in Peer,
             \/ HandleDuplicate(a, p) \/ HandleText(a, p)
             \/ HandleReadyNotifThrows(a, p) \/ ReadTogether(a, p)
             \/ HandleReadError(a, p) \/ HandleData(a, p)
             \/ HandleForeignNotif(a, p) \/ HandleNotifRefused(a, p)
             \/ SendReady(a, p) \/ HandleDisconnectHangs(a, p)
      PROVE  Rooted(h)'
  <2>1. UNCHANGED <<localGroup, groupIds, groups, peers>>
    BY <1>6 DEF HandleDuplicate, HandleText, HandleReadyNotifThrows, ReadTogether,
                HandleReadError, HandleData, HandleForeignNotif,
                HandleNotifRefused, SendReady, HandleDisconnectHangs, viewVars,
                groupVars
  <2>2. PlainStep
    BY <1>6, ReadsPlain, ForwardsPlain, ReadyPlain, DisconnectPlain
  <2>3. QED
    BY <1>2, <2>1, <2>2
<1>7. ASSUME NEW a \in Node, NEW p \in Peer, IOStep(a, p) \/ ReadTogether(a, p)
      PROVE  Rooted(h)'
  <2>1. CASE \/ HandleMisrouted(a, p) \/ HandleReadyNotifCrash(a, p)
             \/ HandleDisconnectCrash(a, p) \/ CompleteJoinCrash(a, p)
    BY <1>3, <2>1 DEF HandleMisrouted, HandleReadyNotifCrash,
                      HandleDisconnectCrash, CompleteJoinCrash, Crash
  <2>2. CASE \/ HandleJoin(a, p) \/ HandleJoinNotif(a, p) \/ HandleJoinAck(a, p)
             \/ HandleReady(a, p) \/ HandleDisconnect(a, p)
             \/ HandleReadyNotif(a, p) \/ CompleteJoin(a, p)
    BY <2>2, JoinRooted, NotifRooted, AckRooted, ReadyRooted, DisconnectRooted,
       CheckersRooted
  <2>3. CASE Accept(a, p)
    BY <1>1, <2>3, ConnectRooted
  <2>4. QED
    BY <1>6, <1>7, <2>1, <2>2, <2>3 DEF IOStep, Receive, TimerExpires
<1>8. CASE UNCHANGED vars
  <2>1. UNCHANGED <<localGroup, groupIds, groups, peers>>
    BY <1>8 DEF vars, viewVars, groupVars
  <2>2. PlainStep
    BY <1>8, CommandsPlain
  <2>3. QED
    BY <1>2, <2>1, <2>2
<1>9. QED
  BY <1>5, <1>7, <1>8 DEF Next

LEMMA RootedInvariant ==
    ASSUME NEW h \in Node, EntryPoint(h)
    PROVE  Spec => []Rooted(h)
<1>1. Init => Rooted(h)
  BY RootedInit
<1>2. IInv /\ CInv /\ EntryKept(h) /\ Rooted(h) /\ [Next]_vars => Rooted(h)'
  BY RootedStep
<1>3. QED
  BY <1>1, <1>2, Invariant, ConnectionInvariant, EntryInvariant, PTL DEF Spec

\* peers and the group's own peer map name the same nodes, whoever has quit:
\* acknowledge_join and the JOIN Acknowledgement handler enter a peer in both,
\* handle_disconnect erases it from both.
THEOREM ViewIsTheGroup ==
    ASSUME NEW h \in Node, EntryPoint(h)
    PROVE  Spec => []PeersAreMembers
<1>1. IInv /\ Rooted(h) => PeersAreMembers
  <2> SUFFICES ASSUME IInv, Rooted(h), NEW n \in Node
               PROVE  Ids(peers[n]) =
                          UNION {Ids(groups[n][g].members) : g \in groupIds[n]}
    BY DEF PeersAreMembers
  <2>1. CASE localGroup[n] = NoGroup
    <3>1. peers[n] = {} /\ groupIds[n] = {}
      BY <2>1 DEF IInv, LocalGroupKept, KeptAt
    <3>2. QED
      BY <3>1 DEF Ids
  <2>2. CASE localGroup[n] # NoGroup
    <3>1. PICK gid : gid = localGroup[n]
      OBVIOUS
    <3>2. groupIds[n] = {gid}
      BY <2>2, <3>1 DEF Rooted, Placed, IInv, LocalGroupKept, KeptAt
    <3>3. Ids(peers[n]) = Ids(groups[n][gid].members)
      BY <2>2, <3>1 DEF Rooted, Matched
    <3>4. QED
      BY <3>2, <3>3
  <2>3. QED
    BY <2>1, <2>2
<1>2. QED
  BY <1>1, RootedInvariant, Invariant, PTL

\* The loop of handle_disconnect over the groups, which advances only where it
\* finds the peer, always ends: where all join through one node, the peer that
\* is erased from peers is a member of the local group.
THEOREM NobodyHangs ==
    ASSUME NEW h \in Node, EntryPoint(h)
    PROVE  Spec => []NoHang
<1>1. Init => NoHang
  BY DEF Init, NoHang
<1>2. IInv /\ Rooted(h) /\ NoHang /\ [Next]_vars => NoHang'
  <2> SUFFICES ASSUME IInv, Rooted(h), NoHang, [Next]_vars
               PROVE  NoHang'
    OBVIOUS
  <2>1. TypeOK /\ Matched
    BY DEF IInv, Rooted
  <2>2. CASE status' = status
    BY <2>2 DEF NoHang
  <2>3. ASSUME NEW a \in Node, NEW how \in {"crashed", "quit"}, Exit(a, how)
        PROVE  NoHang'
    BY <2>1, <2>3 DEF Exit, NoHang, TypeOK
  <2>4. ASSUME NEW a \in Node, NEW p \in Peer
        PROVE  ~HandleDisconnectHangs(a, p)
    BY <2>1, NeverLoops DEF HandleDisconnectHangs
  <2>5. ASSUME NEW a \in Node, NEW p \in Peer, IOStep(a, p) \/ ReadTogether(a, p)
        PROVE  NoHang'
    <3>1. CASE \/ HandleMisrouted(a, p) \/ HandleReadyNotifCrash(a, p)
               \/ HandleDisconnectCrash(a, p) \/ CompleteJoinCrash(a, p)
      BY <2>3, <3>1 DEF HandleMisrouted, HandleReadyNotifCrash,
                        HandleDisconnectCrash, CompleteJoinCrash, Crash
    <3>2. CASE \/ Accept(a, p) \/ HandleJoin(a, p) \/ HandleDuplicate(a, p)
               \/ HandleData(a, p) \/ HandleForeignNotif(a, p)
               \/ HandleNotifRefused(a, p) \/ HandleJoinNotif(a, p)
               \/ HandleJoinAck(a, p) \/ HandleReady(a, p)
      BY <2>2, <3>2 DEF Accept, HandleJoin, HandleDuplicate, HandleData,
                        HandleForeignNotif, HandleNotifRefused, HandleJoinNotif,
                        HandleJoinAck, HandleReady, procVars
    <3>3. CASE \/ HandleReadyNotif(a, p) \/ HandleReadyNotifThrows(a, p)
               \/ HandleText(a, p) \/ HandleDisconnect(a, p)
               \/ HandleReadError(a, p) \/ SendReady(a, p)
               \/ CompleteJoin(a, p) \/ ReadTogether(a, p)
      BY <2>2, <3>3 DEF HandleReadyNotif, HandleReadyNotifThrows, HandleText,
                        HandleDisconnect, HandleReadError, SendReady,
                        CompleteJoin, ReadTogether, procVars
    <3>4. QED
      BY <2>4, <2>5, <3>1, <3>2, <3>3 DEF IOStep, Receive, TimerExpires
  <2>6. ASSUME NEW a \in Node,
               \/ \E m \in JoinTo[a] : UIJoinConnect(a, m)
               \/ UIStep(a) \/ UIBroadcastCheck(a) \/ UISend(a)
        PROVE  NoHang'
    <3>1. CASE UIBroadcastCrash(a)
      BY <2>3, <3>1 DEF UIBroadcastCrash, Crash
    <3>2. CASE ~UIBroadcastCrash(a)
      BY <2>2, <2>6, <3>2 DEF UIJoinConnect, UIStep, UIJoinMark, UIJoinSend,
                              UIJoinThrows, UIBroadcast, UIBroadcastLog, UIBroadcastCheck,
                              UISend, procVars
    <3>3. QED
      BY <3>1, <3>2
  <2>7. ASSUME NEW a \in Node, Quit(a)
        PROVE  NoHang'
    BY <2>3, <2>7 DEF Quit
  <2>8. CASE UNCHANGED vars
    BY <2>2, <2>8 DEF vars, procVars
  <2>9. QED
    BY <2>5, <2>6, <2>7, <2>8 DEF Next
<1>3. QED
  BY <1>1, <1>2, RootedInvariant, Invariant, PTL DEF Spec

-----------------------------------------------------------------------------
(* The join queue                                                          *)

\* Nobody waits in new_peers, where its address leads to it, while the token is
\* free.
QueueServed == \A n \in Node : Running(n) /\ joinToken[n] => Waiting(n) = {}

\* A step that frees no token and lets nobody start to wait
LEMMA NobodyForgotten ==
    ASSUME IInv, QueueServed,
           \A r \in Node : /\ Running(r)' => Running(r)
                           /\ joinToken'[r] => joinToken[r]
                           /\ Waiting(r)' \subseteq Waiting(r)
    PROVE  QueueServed'
  BY DEF QueueServed

\* A step of node n that takes its token, or frees it when nobody waits
LEMMA TokenMoves ==
    ASSUME IInv, QueueServed, NEW n \in Node, status' = status,
           ~joinToken'[n] \/ Waiting(n)' = {},
           \A r \in Node \ {n} :
              UNCHANGED <<joinToken[r], newPeers[r], peerState[r]>>
    PROVE  QueueServed'
<1>1. \A r \in Node \ {n} : Waiting(r)' = Waiting(r)
  BY DEF Waiting
<1>2. QED
  BY <1>1 DEF QueueServed, Running

\* check_for_new_peers looks at the peers as they are by then.
LEMMA CheckTokenStep ==
    ASSUME IInv, QueueServed, NEW n \in Node, NEW p \in Peer, NEW box,
           NEW timers, NEW states,
           states = [peerState[n] EXCEPT ![p] = "CONNECTED"],
           CheckForNewPeers(n, states, box, timers),
           peerState' = [peerState EXCEPT ![n] = states], status' = status
    PROVE  QueueServed'
<1>1. CASE /\ joinToken' = [joinToken EXCEPT ![n] = FALSE]
           /\ \E q \in Peer :
                 newPeers' = [newPeers EXCEPT ![n][AddrOfPeer(q)] = NoEntry]
  BY <1>1, TokenMoves DEF IInv, TypeOK
<1>2. CASE /\ Pending(n, states) = {}
           /\ joinToken' = [joinToken EXCEPT ![n] = TRUE]
           /\ newPeers' = newPeers
  <2>1. peerState'[n] = states
    BY DEF IInv, TypeOK
  <2>2. Waiting(n)' = {}
    BY <1>2, <2>1 DEF Waiting, Pending
  <2>3. QED
    BY <1>2, <2>2, TokenMoves DEF IInv, TypeOK
<1>3. QED
  BY <1>1, <1>2, CheckEffects

\* The JOIN handler and the member's answer to a JOIN Notification hold the
\* token when the Peer becomes JOINING.
LEMMA JoinTokenStep ==
    ASSUME IInv, QueueServed, NEW n \in Node, NEW p \in Peer,
           HandleJoin(n, p) \/ HandleJoinNotif(n, p)
    PROVE  QueueServed'
<1>1. CASE HandleJoin(n, p)
  <2>1. peerState' = [peerState EXCEPT ![n][p] = "JOINING"] /\ status' = status
    BY <1>1 DEF HandleJoin, Identified, procVars
  <2>2. \/ /\ newPeers' = [newPeers EXCEPT ![n][AddrOfPeer(p)].port = Id(p)]
           /\ ~joinToken[n] /\ joinToken' = joinToken
        \/ /\ newPeers' = [newPeers EXCEPT ![n][AddrOfPeer(p)] = NoEntry]
           /\ joinToken' = [joinToken EXCEPT ![n] = FALSE]
    BY <1>1, AnswerEffects DEF HandleJoin
  <2>3. QED
    BY <2>1, <2>2, TokenMoves DEF IInv, TypeOK
<1>2. CASE HandleJoinNotif(n, p)
  <2> DEFINE q == <<Head(inbox[n][p]).peer, "called">>
  <2>1. /\ peerState' = [peerState EXCEPT ![n][q] = "JOINING"]
        /\ joinToken' = [joinToken EXCEPT ![n] = FALSE]
        /\ newPeers' = newPeers /\ status' = status
    BY <1>2 DEF HandleJoinNotif, Identified, procVars
  <2> HIDE DEF q
  <2>2. QED
    BY <2>1, TokenMoves DEF IInv, TypeOK
<1>3. QED
  BY <1>1, <1>2

\* No step forgets a join request.
LEMMA QueueStep ==
    IInv /\ QueueServed /\ [Next]_vars => QueueServed'
<1> SUFFICES ASSUME IInv, QueueServed, [Next]_vars
             PROVE  QueueServed'
  OBVIOUS
<1> USE DEF procVars, joinVars, viewVars
<1>1. ASSUME UNCHANGED <<joinToken, newPeers, peerState>>,
             \A r \in Node : Running(r)' => Running(r)
      PROVE  QueueServed'
  BY <1>1, NobodyForgotten DEF Waiting
<1>2. ASSUME NEW n \in Node, NEW how \in {"crashed", "hung", "quit"},
             status' = [status EXCEPT ![n] = how]
      PROVE  \A r \in Node : Running(r)' => Running(r)
  BY <1>2 DEF Running, IInv, TypeOK
<1>3. ASSUME NEW n \in Node, NEW a \in Addr, NEW p \in Peer,
             status' = status, joinToken' = joinToken,
             \/ newPeers' = newPeers
             \/ newPeers' = [newPeers EXCEPT ![n][a] = NoEntry]
             \/ /\ peerState' = [peerState EXCEPT ![n][p] = "NEW"]
                /\ newPeers' = [newPeers EXCEPT ![n][a] =
                                  [peer |-> p, port |-> NoNode]],
             \/ peerState' = peerState
             \/ peerState' = [peerState EXCEPT ![n][p] = "NEW"]
             \/ peerState' = [peerState EXCEPT ![n][p] = "CONNECTED"]
      PROVE  QueueServed'
  BY <1>3, NobodyStartsToWait, NobodyForgotten DEF Running
<1>4. CASE UNCHANGED vars
  BY <1>1, <1>4 DEF vars, Running
<1>5. ASSUME NEW n \in Node,
             \/ \E m \in JoinTo[n] : UIJoinConnect(n, m)
             \/ UIBroadcastCheck(n) \/ UIStep(n) \/ UISend(n) \/ Quit(n)
      PROVE  QueueServed'
  <2>1. CASE \/ \E m \in JoinTo[n] : UIJoinConnect(n, m)
             \/ UIBroadcastCheck(n) \/ UIBroadcast(n) \/ UIBroadcastLog(n)
             \/ UIJoinThrows(n) \/ UIJoinMark(n) \/ UISend(n)
    BY <1>1, <2>1
       DEF UIJoinConnect, UIBroadcastCheck, UIBroadcast, UIBroadcastLog,
           UIJoinThrows, UIJoinMark, UISend, Running
  <2>2. CASE UIBroadcastCrash(n) \/ Quit(n)
    BY <1>1, <1>2, <2>2 DEF UIBroadcastCrash, Quit, Crash, Exit
  <2>3. CASE UIJoinSend(n)
    <3>1. <<entry[n], "entry">> \in Peer
      BY DEF Peer, PeerKind, IInv, TypeOK
    <3>2. QED
      BY <1>3, <2>3, <3>1, EntryType DEF UIJoinSend
  <2>4. QED
    BY <1>5, <2>1, <2>2, <2>3 DEF UIStep
<1>6. ASSUME NEW n \in Node, NEW p \in Peer, IOStep(n, p)
      PROVE  QueueServed'
  <2>1. CASE \/ HandleMisrouted(n, p) \/ HandleReadyNotifCrash(n, p)
             \/ HandleDisconnectHangs(n, p) \/ HandleDisconnectCrash(n, p)
             \/ CompleteJoinCrash(n, p)
    BY <1>1, <1>2, <2>1
       DEF HandleMisrouted, HandleReadyNotifCrash, HandleDisconnectHangs,
           HandleDisconnectCrash, CompleteJoinCrash, Crash, Exit
  <2>2. CASE \/ HandleDuplicate(n, p) \/ HandleData(n, p)
             \/ HandleForeignNotif(n, p) \/ HandleReady(n, p)
             \/ HandleReadError(n, p) \/ SendReady(n, p) \/ HandleText(n, p)
    BY <1>1, <2>2
       DEF HandleText, HandleDuplicate, HandleData, HandleForeignNotif, HandleReady,
           HandleReadError, SendReady, Running
  <2>3. CASE HandleNotifRefused(n, p)
    <3>1. /\ joinToken' = [joinToken EXCEPT ![n] = FALSE]
          /\ UNCHANGED <<status, newPeers, peerState>>
      BY <2>3 DEF HandleNotifRefused
    <3>2. QED
      BY <3>1, TokenMoves DEF IInv, TypeOK
  <2>4. CASE Accept(n, p)
    BY <1>3, <2>4, EntryType DEF Accept
  <2>5. CASE HandleReadyNotifThrows(n, p)
    BY <1>3, <2>5, EntryType DEF HandleReadyNotifThrows
  <2>6. CASE HandleJoinAck(n, p)
    <3>1. /\ newPeers' = [newPeers EXCEPT ![n][AddrOfPeer(p)] = NoEntry]
          /\ peerState' = [peerState EXCEPT ![n][p] = "CONNECTED"]
          /\ UNCHANGED <<status, joinToken>>
      BY <2>6 DEF HandleJoinAck, Identified
    <3>2. QED
      BY <1>3, <3>1, EntryType
  <2>7. CASE HandleDisconnect(n, p)
    <3>1. /\ \/ newPeers' = newPeers
             \/ newPeers' = [newPeers EXCEPT ![n][AddrOfPeer(p)] = NoEntry]
          /\ UNCHANGED <<status, joinToken, peerState>>
      BY <2>7 DEF HandleDisconnect, IInv, TypeOK
    <3>2. QED
      BY <1>3, <3>1, EntryType
  <2>8. CASE HandleReadyNotif(n, p) \/ CompleteJoin(n, p)
    BY <2>8, CheckTokenStep DEF HandleReadyNotif, CompleteJoin
  <2>9. QED
    BY <1>6, <2>1, <2>2, <2>3, <2>4, <2>5, <2>6, <2>7, <2>8, JoinTokenStep
       DEF IOStep, Receive, TimerExpires
<1>7. ASSUME NEW n \in Node, NEW p \in Peer, ReadTogether(n, p)
      PROVE  QueueServed'
  BY <1>1, <1>7 DEF ReadTogether, Running
<1>8. QED
  BY <1>4, <1>5, <1>6, <1>7 DEF Next

\* Whoever is announced is announced by the entry point, which only its joiners
\* are connected to.
AtEntry(h) ==
    /\ Notifs \subseteq logs[h]
    /\ \A n \in Node : \A p \in conns[n] :
          /\ p[2] = "joiner" => n = h
          /\ n = h => p[2] = "joiner"

\* A step that announces nobody
LEMMA AtEntryElse ==
    ASSUME NEW h \in Node, AtEntry(h), logs[h] \subseteq logs'[h],
           \A n \in Node : \A e \in logs'[n] : e.type = "JOIN_NOTIF" => e \in Notifs,
           \A n \in Node, p \in Peer : \A e \in Range(inbox'[n][p]) :
              e.type = "JOIN_NOTIF" => e \in Notifs,
           \A n \in Node : \A p \in conns'[n] :
              p \in conns[n] \/ (p[2] = "joiner" <=> n = h)
    PROVE  AtEntry(h)'
<1>1. Notifs' \subseteq Notifs \cup {}
  BY NewNotifs
<1>2. QED
  BY <1>1 DEF AtEntry

\* The entry point answers joiners, the others call who it has announced.
LEMMA AtEntryAnswers ==
    ASSUME CInv, TypeOK', NEW h \in Node, EntryKept(h), AtEntry(h),
           NEW a \in Node, NEW c \in Peer, Answers(a, c)
    PROVE  AtEntry(h)'
<1>1. /\ c[2] \in {"joiner", "called"} /\ Id(c) \in Node
      /\ Announces(a, c) /\ Connects(a, c) /\ Identifies(a, c)
  BY Kinds DEF Answers, Answering
<1>2. /\ ~Heard(a, Id(c)) /\ Heard(a, Id(c))'
      /\ \A n \in Node : logs[n] \subseteq logs'[n]
  BY <1>1 DEF Announces
<1>3. PICK e : /\ Notifs' \subseteq Notifs \cup {e} /\ e.peer = Id(c)
               /\ c[2] = "joiner" => Unheard(Id(c))
               /\ c[2] = "called" => e \in Notifs
  BY <1>1 DEF Announces
<1>4. \A n \in Node : \A p \in conns'[n] :
         p \in conns[n] \/ (c[2] = "called" /\ n = a /\ p = c)
  <2>1. \A n \in Node : conns'[n] \subseteq Peer
    BY DEF TypeOK
  <2>2. QED
    BY <1>1, <2>1 DEF Connects
<1>5. CASE c[2] = "joiner"
  <2>1. a = h
    BY <1>1, <1>5 DEF Identifies, EntryKept
  <2>2. PICK f \in logs'[a] : f.type = "JOIN_NOTIF" /\ f.peer = Id(c)
    BY <1>2 DEF Heard
  <2>3. f \in Notifs' /\ f \notin Notifs
    BY <1>3, <1>5, <2>2 DEF Notifs, Unheard
  <2>4. e \in logs'[h]
    BY <1>3, <2>1, <2>2, <2>3
  <2>5. QED
    BY <1>2, <1>3, <1>4, <1>5, <2>4 DEF AtEntry
<1>6. CASE c[2] = "called"
  <2>1. e \in logs[h] /\ e.type = "JOIN_NOTIF"
    BY <1>3, <1>6 DEF AtEntry, Notifs
  <2>2. a # h
    BY <1>2, <1>3, <2>1 DEF Heard
  <2>3. QED
    BY <1>2, <1>3, <1>4, <1>6, <2>1, <2>2 DEF AtEntry
<1>7. QED
  BY <1>1, <1>5, <1>6

\* The listener of the entry point accepts joiners only, and no one else's any.
LEMMA AcceptsJoiner ==
    ASSUME IInv, CInv, NEW h \in Node, EntryKept(h), NEW a \in Node,
           NEW p \in Peer, Accept(a, p)
    PROVE  p[2] = "joiner" <=> a = h
<1>1. /\ Running(a) /\ p \in backlog[a] /\ p[2] \in {"joiner", "caller"}
      /\ Id(p) \in Node /\ p = <<Id(p), p[2]>>
  BY CInvAt, Kinds DEF Accept, OpenAt
<1>2. ASSUME p[2] = "joiner"
      PROVE  a = h
  <2>1. entry[Id(p)] = a /\ a # Id(p)
    BY <1>1, <1>2, CInvNodes DEF JoinerAt
  <2>2. QED
    BY <1>1, <2>1 DEF EntryKept
<1>3. ASSUME a = h, p[2] = "caller"
      PROVE  FALSE
  <2>1. Unheard(h)
    <3>1. entry[h] = h
      BY DEF EntryKept
    <3>2. QED
      BY <1>1, <1>3, <3>1, CInvNodes DEF BeforeJoin
  <2>2. PICK q \in Peer : q = <<h, "called">>
    BY DEF Peer, PeerKind
  <2>3. Id(q) = h /\ q[2] \in Answering /\ OtherEnd(Id(p), q) = p
    BY <1>1, <1>3, <2>2 DEF Id, Answering, OtherEnd, OtherKind
  <2>4. ~Heard(Id(p), h)
    BY <1>1, <2>1, NotifsAre DEF Heard, Unheard
  <2>5. p \notin backlog[h]
    BY <1>1, <2>2, <2>3, <2>4, CInvAt DEF FreshAt
  <2>6. QED
    BY <1>1, <1>3, <2>5
<1>4. QED
  BY <1>1, <1>2, <1>3

LEMMA AtEntryConnect ==
    ASSUME IInv, CInv, NEW h \in Node, EntryPoint(h), EntryKept(h), AtEntry(h),
           NEW a \in Node,
           \/ \E m \in JoinTo[a] : UIJoinConnect(a, m)
           \/ UIJoinSend(a) \/ \E p \in Peer : Accept(a, p) \/ HandleJoinAck(a, p)
    PROVE  AtEntry(h)'
<1>1. TypeOK
  BY DEF IInv
<1>2. logs' = logs
  BY DEF UIJoinConnect, UIJoinSend, Accept, HandleJoinAck
<1>3. \A n \in Node, p \in Peer : \A e \in Range(inbox'[n][p]) :
         e.type = "JOIN_NOTIF" => e \in Range(inbox[n][p])
  <2>1. CASE inbox' = inbox
    BY <2>1
  <2>2. CASE \E p \in Peer : HandleJoinAck(a, p)
    <3>1. PICK p \in Peer : /\ inbox[a][p] # <<>>
                            /\ inbox' = Consume(a, p)
      BY <2>2 DEF HandleJoinAck, Reads
    <3>2. Less(inbox')
      BY <1>1, <3>1, ConsumeLess
    <3>3. QED
      BY <3>2 DEF Less
  <2>3. CASE UIJoinSend(a)
    <3>1. PICK M : M = {<<entry[a], "entry">>}
      OBVIOUS
    <3>2. inbox' = Deliver(inbox, a, M, JoinMsg)
      BY <2>3, <3>1 DEF UIJoinSend
    <3>3. SUFFICES ASSUME NEW n \in Node, NEW p \in Peer,
                          NEW e \in Range(inbox'[n][p]), e.type = "JOIN_NOTIF"
                   PROVE  e \in Range(inbox[n][p])
      OBVIOUS
    <3>4. inbox[n][p] \in Seq(Message) /\ JoinMsg \in Message
      BY <1>1 DEF TypeOK, Message
    <3>5. inbox'[n][p] = inbox[n][p] \/ inbox'[n][p] = Append(inbox[n][p], JoinMsg)
      BY <3>2 DEF Deliver
    <3>6. Range(Append(inbox[n][p], JoinMsg)) = Range(inbox[n][p]) \cup {JoinMsg}
      BY <3>4, AppendParts
    <3>7. e # JoinMsg
      BY <3>3 DEF JoinMsg
    <3>8. QED
      BY <3>3, <3>5, <3>6, <3>7
  <2>4. inbox' = inbox \/ UIJoinSend(a) \/ \E p \in Peer : HandleJoinAck(a, p)
    BY DEF UIJoinConnect, Accept
  <2>5. QED
    BY <2>1, <2>2, <2>3, <2>4
<1>4. \A n \in Node : \A p \in conns'[n] :
         p \in conns[n] \/ (p[2] = "joiner" <=> n = h)
  <2>1. CASE conns' = conns
    BY <2>1
  <2>2. ASSUME NEW m \in JoinTo[a], UIJoinConnect(a, m)
        PROVE  \A n \in Node : \A p \in conns'[n] :
                  p \in conns[n] \/ (p[2] = "joiner" <=> n = h)
    <3>1. conns' = [conns EXCEPT ![a] = @ \cup {<<m, "entry">>}]
      BY <2>2 DEF UIJoinConnect
    <3>2. a # h
      BY <2>2, NetworkAssumption DEF EntryPoint
    <3>3. \A n \in Node : \A p \in conns'[n] :
             p \in conns[n] \/ (n = a /\ p = <<m, "entry">>)
      BY <1>1, <3>1 DEF TypeOK
    <3>4. QED
      BY <3>2, <3>3
  <2>3. ASSUME NEW q \in Peer, Accept(a, q)
        PROVE  \A n \in Node : \A p \in conns'[n] :
                  p \in conns[n] \/ (p[2] = "joiner" <=> n = h)
    <3>1. conns' = [conns EXCEPT ![a] = @ \cup {q}]
      BY <2>3 DEF Accept
    <3>2. \A n \in Node : \A p \in conns'[n] : p \in conns[n] \/ (n = a /\ p = q)
      BY <1>1, <3>1 DEF TypeOK
    <3>3. QED
      BY <2>3, <3>2, AcceptsJoiner
  <2>4. QED
    BY <2>1, <2>2, <2>3 DEF UIJoinSend, HandleJoinAck
<1>5. \A n \in Node, p \in Peer : \A e \in Range(inbox'[n][p]) :
         e.type = "JOIN_NOTIF" => e \in Notifs
  BY <1>3, NotifsAre
<1>6. \A n \in Node : \A e \in logs'[n] : e.type = "JOIN_NOTIF" => e \in Notifs
  BY <1>2, NotifsAre
<1>7. logs[h] \subseteq logs'[h]
  BY <1>2
<1>8. QED
  BY <1>4, <1>5, <1>6, <1>7, AtEntryElse

LEMMA AtEntryExit ==
    ASSUME TypeOK, NEW h \in Node, AtEntry(h), NEW a \in Node, NEW how, Exit(a, how)
    PROVE  AtEntry(h)'
<1>1. UNCHANGED <<logs, conns>>
  BY DEF Exit
<1>2. \A n \in Node, p \in Peer : \A e \in Range(inbox'[n][p]) :
         e.type = "JOIN_NOTIF" => e \in Notifs
  <2>1. \A f \in Failure : f.type # "JOIN_NOTIF"
    BY DEF Failure, Eof, Rst
  <2>2. QED
    BY <2>1, ExitStreams, NotifsAre
<1>3. QED
  BY <1>1, <1>2, NotifsAre, AtEntryElse

LEMMA AtEntryPlain ==
    ASSUME NEW h \in Node, AtEntry(h), PlainStep, TypeOK'
    PROVE  AtEntry(h)'
<1>1. Notifs' \subseteq Notifs /\ logs[h] \subseteq logs'[h]
  BY PlainNotifs DEF PlainStep, LogsKept
<1>2. \A n \in Node : conns'[n] \subseteq conns[n]
  <2>1. \A n \in Node : conns'[n] \subseteq Peer
    BY DEF TypeOK
  <2>2. QED
    BY <2>1 DEF PlainStep, ConnectionsKept
<1>3. QED
  BY <1>1, <1>2 DEF AtEntry

LEMMA AtEntryStep ==
    ASSUME IInv, TypeOK', CInv, TimersKept, NEW h \in Node, EntryPoint(h),
           EntryKept(h), AtEntry(h), [Next]_vars
    PROVE  AtEntry(h)'
<1>1. TypeOK
  BY DEF IInv
<1>2. ASSUME NEW a \in Node, NEW how, Exit(a, how)
      PROVE  AtEntry(h)'
  BY <1>1, <1>2, AtEntryExit
<1>3. ASSUME NEW a \in Node,
             \/ \E m \in JoinTo[a] : UIJoinConnect(a, m)
             \/ UIStep(a) \/ UIBroadcastCheck(a) \/ UISend(a) \/ Quit(a)
      PROVE  AtEntry(h)'
  BY <1>2, <1>3, AtEntryConnect, AtEntryPlain, CommandsPlain, JoinThrowsPlain
     DEF UIStep, UIBroadcastCrash, Crash, Quit
<1>4. ASSUME NEW a \in Node, NEW p \in Peer, IOStep(a, p) \/ ReadTogether(a, p)
      PROVE  AtEntry(h)'
  <2>1. CASE \/ HandleMisrouted(a, p) \/ HandleReadyNotifCrash(a, p)
             \/ HandleDisconnectCrash(a, p) \/ CompleteJoinCrash(a, p)
    BY <1>2, <2>1 DEF HandleMisrouted, HandleReadyNotifCrash,
                      HandleDisconnectCrash, CompleteJoinCrash, Crash
  <2>2. CASE \/ HandleJoin(a, p) \/ HandleJoinNotif(a, p)
             \/ HandleReadyNotif(a, p) \/ CompleteJoin(a, p)
    <3>1. PlainStep \/ \E c \in Peer : Answers(a, c)
      BY <2>2, JoinOutcome, NotifOutcome, CheckersOutcome
    <3>2. QED
      BY <3>1, AtEntryPlain, AtEntryAnswers
  <2>3. CASE Accept(a, p) \/ HandleJoinAck(a, p)
    BY <2>3, AtEntryConnect
  <2>4. CASE \/ HandleDuplicate(a, p) \/ HandleText(a, p)
             \/ HandleReadyNotifThrows(a, p) \/ ReadTogether(a, p)
             \/ HandleReadError(a, p) \/ HandleData(a, p)
             \/ HandleForeignNotif(a, p) \/ HandleNotifRefused(a, p)
             \/ HandleReady(a, p) \/ SendReady(a, p)
             \/ HandleDisconnect(a, p) \/ HandleDisconnectHangs(a, p)
    <3>1. PlainStep
      BY <2>4, ReadsPlain, ForwardsPlain, ReadyPlain, DisconnectPlain
    <3>2. QED
      BY <3>1, AtEntryPlain
  <2>5. QED
    BY <1>4, <2>1, <2>2, <2>3, <2>4 DEF IOStep, Receive, TimerExpires
<1>5. CASE UNCHANGED vars
  <2>1. PlainStep
    BY <1>5, CommandsPlain
  <2>2. QED
    BY <2>1, AtEntryPlain
<1>6. QED
  BY <1>3, <1>4, <1>5 DEF Next

\* Whom the entry point has accepted and not let in is in new_peers, under an
\* address of its own.
Queued(h) ==
    \A p \in conns[h] :
        peerState[h][p] # "CONNECTED" /\ Id(p) \notin Ids(peers[h])
        => newPeers[h][AddrOfPeer(p)].peer = p

\* A step that concerns node x at the entry point
LEMMA QueuedKept ==
    ASSUME NEW h \in Node, Queued(h), NEW x,
           \A p \in conns'[h] : Id(p) # x =>
              /\ p \in conns[h]
              /\ peerState'[h][p] \in {peerState[h][p], "CONNECTED"}
              /\ newPeers'[h][AddrOfPeer(p)].peer = newPeers[h][AddrOfPeer(p)].peer
              /\ Id(p) \in Ids(peers[h]) => Id(p) \in Ids(peers'[h]),
           \A p \in conns'[h] : Id(p) = x =>
              \/ peerState'[h][p] = "CONNECTED" \/ Id(p) \in Ids(peers'[h])
              \/ newPeers'[h][AddrOfPeer(p)].peer = p
    PROVE  Queued(h)'
  BY DEF Queued, AddrOfPeer

LEMMA QueuedSame ==
    ASSUME NEW h \in Node, Queued(h), conns'[h] \subseteq conns[h],
           UNCHANGED <<peers[h], newPeers[h]>>,
           \A p \in conns'[h] : peerState'[h][p] \in {peerState[h][p], "CONNECTED"}
    PROVE  Queued(h)'
  BY DEF Queued, AddrOfPeer

\* The entry point knows a node by one Peer and by one address.
LEMMA JoinersDiffer ==
    ASSUME DistinctAddresses, NEW h \in Node, AtEntry(h), TypeOK
    PROVE  /\ \A p \in conns[h] : p \in Peer /\ p = <<Id(p), "joiner">>
           /\ \A p, q \in Peer : Id(p) # Id(q) => AddrOfPeer(p) # AddrOfPeer(q)
<1>1. \A p \in conns[h] : p \in Peer /\ p = <<Id(p), "joiner">>
  BY Kinds DEF AtEntry, TypeOK
<1>2. \A p, q \in Peer : Id(p) # Id(q) => AddrOfPeer(p) # AddrOfPeer(q)
  BY Kinds DEF DistinctAddresses, AddrOfPeer
<1>3. QED
  BY <1>1, <1>2

LEMMA QueuedCheck ==
    ASSUME IInv, DistinctAddresses, NEW h \in Node, AtEntry(h), Queued(h),
           NEW p \in Peer, HandleReadyNotif(h, p) \/ CompleteJoin(h, p)
    PROVE  Queued(h)'
<1>1. TypeOK
  BY DEF IInv
<1>2. PICK states : states = [peerState[h] EXCEPT ![p] = "CONNECTED"]
  OBVIOUS
<1>3. /\ peerState' = [peerState EXCEPT ![h] = states] /\ conns' = conns
      /\ \E box, timers : CheckForNewPeers(h, states, box, timers)
  BY <1>2 DEF HandleReadyNotif, CompleteJoin
<1>4. \A q \in conns'[h] : peerState'[h][q] \in {peerState[h][q], "CONNECTED"}
  BY <1>1, <1>2, <1>3 DEF TypeOK
<1>5. CASE UNCHANGED <<newPeers, peers>>
  BY <1>3, <1>4, <1>5, QueuedSame
<1>6. ASSUME NEW c \in Peer,
             newPeers' = [newPeers EXCEPT ![h][AddrOfPeer(c)] = NoEntry],
             peers' = [peers EXCEPT ![h] = Put(@, c)]
      PROVE  Queued(h)'
  <2>1. peers'[h] = Put(peers[h], c)
    BY <1>1, <1>6 DEF TypeOK
  <2>2. Id(c) \in Ids(peers'[h]) /\ Ids(peers[h]) \subseteq Ids(peers'[h])
    BY <2>1 DEF Put, Ids
  <2>3. \A k \in Addr : k # AddrOfPeer(c) => newPeers'[h][k] = newPeers[h][k]
    BY <1>1, <1>6 DEF TypeOK
  <2>4. \A q \in conns[h] : Id(q) # Id(c) =>
           newPeers'[h][AddrOfPeer(q)] = newPeers[h][AddrOfPeer(q)]
    BY <1>1, <2>3, JoinersDiffer, EntryType
  <2>5. QED
    BY <1>3, <1>4, <2>2, <2>4, QueuedKept
<1>7. QED
  BY <1>3, <1>5, <1>6, CheckEffects

LEMMA QueuedJoin ==
    ASSUME IInv, CInv, DistinctAddresses, NEW h \in Node, AtEntry(h), Queued(h),
           NEW p \in Peer, HandleJoin(h, p)
    PROVE  Queued(h)'
<1>1. TypeOK
  BY DEF IInv
<1>2. /\ Reads(h, p, "JOIN") /\ conns' = conns
      /\ peerState' = [peerState EXCEPT ![h][p] = "JOINING"]
      /\ \/ /\ newPeers' = [newPeers EXCEPT ![h][AddrOfPeer(p)].port = Id(p)]
            /\ peers' = peers
         \/ /\ newPeers' = [newPeers EXCEPT ![h][AddrOfPeer(p)] = NoEntry]
            /\ peers' = [peers EXCEPT ![h] = Put(@, p)]
  BY AnswerEffects DEF HandleJoin, Identified
<1>3. p \in conns[h] /\ peerState[h][p] = "NEW"
  <2>1. JoinMsg \in Range(inbox[h][p]) /\ p \in conns[h]
    BY <1>1, <1>2, ReadParts
  <2>2. QED
    BY <2>1, CInvAt DEF JoinFirst, Known
<1>4. AddrOfPeer(p) \in Addr /\ newPeers[h][AddrOfPeer(p)] \in NewPeerEntry
  BY <1>1, EntryType DEF TypeOK
<1>5. \A q \in conns[h] : Id(q) = Id(p) => q = p
  BY <1>1, <1>3, JoinersDiffer
<1>6. \A q \in conns[h] : Id(q) # Id(p) =>
         /\ peerState'[h][q] = peerState[h][q]
         /\ newPeers'[h][AddrOfPeer(q)] = newPeers[h][AddrOfPeer(q)]
  <2> SUFFICES ASSUME NEW q \in conns[h], Id(q) # Id(p)
               PROVE  /\ peerState'[h][q] = peerState[h][q]
                      /\ newPeers'[h][AddrOfPeer(q)] = newPeers[h][AddrOfPeer(q)]
    OBVIOUS
  <2>1. q \in Peer /\ AddrOfPeer(q) # AddrOfPeer(p)
    BY <1>1, JoinersDiffer
  <2>2. peerState'[h][q] = peerState[h][q]
    BY <1>1, <1>2, <2>1 DEF TypeOK
  <2>3. AddrOfPeer(q) \in Addr
    BY <2>1, EntryType
  <2>4. newPeers'[h][AddrOfPeer(q)] = newPeers[h][AddrOfPeer(q)]
    BY <1>1, <1>2, <2>1, <2>3 DEF TypeOK
  <2>5. QED
    BY <2>2, <2>4
<1>7. CASE /\ newPeers' = [newPeers EXCEPT ![h][AddrOfPeer(p)].port = Id(p)]
           /\ peers' = peers
  <2>1. newPeers'[h][AddrOfPeer(p)].peer = newPeers[h][AddrOfPeer(p)].peer
    BY <1>1, <1>4, <1>7 DEF TypeOK, NewPeerEntry
  <2>2. Id(p) \in Ids(peers[h]) \/ newPeers[h][AddrOfPeer(p)].peer = p
    BY <1>3 DEF Queued
  <2>3. \A q \in conns'[h] : Id(q) = Id(p) =>
           \/ Id(q) \in Ids(peers'[h])
           \/ newPeers'[h][AddrOfPeer(q)].peer = q
    BY <1>2, <1>5, <1>7, <2>1, <2>2
  <2>4. \A q \in conns'[h] : Id(q) # Id(p) =>
           /\ q \in conns[h] /\ peerState'[h][q] = peerState[h][q]
           /\ newPeers'[h][AddrOfPeer(q)] = newPeers[h][AddrOfPeer(q)]
           /\ Id(q) \in Ids(peers[h]) => Id(q) \in Ids(peers'[h])
    BY <1>2, <1>6, <1>7
  <2>5. PICK x : x = Id(p)
    OBVIOUS
  <2>6. QED
    BY <2>3, <2>4, <2>5, QueuedKept
<1>8. CASE peers' = [peers EXCEPT ![h] = Put(@, p)]
  <2>1. peers'[h] = Put(peers[h], p)
    BY <1>1, <1>8 DEF TypeOK
  <2>2. Id(p) \in Ids(peers'[h]) /\ Ids(peers[h]) \subseteq Ids(peers'[h])
    BY <2>1 DEF Put, Ids
  <2>3. QED
    BY <1>2, <1>5, <1>6, <2>2, QueuedKept
<1>9. QED
  BY <1>2, <1>7, <1>8

LEMMA QueuedDisconnect ==
    ASSUME IInv, DistinctAddresses, NEW h \in Node, AtEntry(h), Queued(h),
           NEW p \in Peer, HandleDisconnect(h, p)
    PROVE  Queued(h)'
<1>1. TypeOK
  BY DEF IInv
<1>2. /\ p \in conns[h] /\ conns' = [conns EXCEPT ![h] = @ \ {p}]
      /\ peerState' = peerState
      /\ peers'[h] \in {peers[h], EraseId(peers[h], Id(p))}
      /\ \/ newPeers' = newPeers
         \/ newPeers' = [newPeers EXCEPT ![h][AddrOfPeer(p)] = NoEntry]
  BY <1>1 DEF HandleDisconnect, Reads, TypeOK
<1>3. \A q \in conns'[h] :
         q \in conns[h] /\ q \in Peer /\ Id(q) # Id(p) /\ AddrOfPeer(q) # AddrOfPeer(p)
  <2>1. conns'[h] = conns[h] \ {p}
    BY <1>1, <1>2 DEF TypeOK
  <2>2. QED
    BY <1>1, <1>2, <2>1, JoinersDiffer
<1>4. \A q \in conns'[h] :
         newPeers'[h][AddrOfPeer(q)].peer = newPeers[h][AddrOfPeer(q)].peer
  <2>1. \A q \in Peer : AddrOfPeer(q) \in Addr
    BY EntryType, NetworkAssumption
  <2>2. QED
    BY <1>1, <1>2, <1>3, <2>1 DEF TypeOK
<1>5. \A q \in conns'[h] : Id(q) \in Ids(peers[h]) => Id(q) \in Ids(peers'[h])
  BY <1>2, <1>3 DEF EraseId, Ids
<1>6. QED
  BY <1>2, <1>3, <1>4, <1>5, QueuedKept

LEMMA QueuedAccept ==
    ASSUME IInv, CInv, DistinctAddresses, NEW h \in Node, EntryKept(h), AtEntry(h),
           Queued(h), NEW p \in Peer, Accept(h, p)
    PROVE  Queued(h)'
<1>1. TypeOK
  BY DEF IInv
<1>2. /\ conns' = [conns EXCEPT ![h] = @ \cup {p}] /\ peers' = peers
      /\ peerState' = [peerState EXCEPT ![h][p] = "NEW"]
      /\ newPeers' = [newPeers EXCEPT ![h][AddrOfPeer(p)] =
                         [peer |-> p, port |-> NoNode]]
  BY DEF Accept
<1>3. /\ AddrOfPeer(p) \in Addr /\ p = <<Id(p), "joiner">>
      /\ \A q \in Peer : AddrOfPeer(q) \in Addr
  <2>1. \A q \in Peer : AddrOfPeer(q) \in Addr
    BY EntryType, NetworkAssumption
  <2>2. p[2] = "joiner"
    BY AcceptsJoiner
  <2>3. p = <<Id(p), p[2]>>
    BY Kinds
  <2>4. QED
    BY <2>1, <2>2, <2>3
<1>4. newPeers'[h][AddrOfPeer(p)].peer = p
  BY <1>1, <1>2, <1>3 DEF TypeOK
<1>5. \A q \in conns'[h] : q \in conns[h] \/ q = p
  BY <1>1, <1>2 DEF TypeOK
<1>6. \A q \in conns'[h] : Id(q) = Id(p) => newPeers'[h][AddrOfPeer(q)].peer = q
  BY <1>1, <1>3, <1>4, <1>5, JoinersDiffer
<1>7. ASSUME NEW q \in conns'[h], Id(q) # Id(p)
      PROVE  /\ q \in conns[h] /\ peerState'[h][q] = peerState[h][q]
             /\ newPeers'[h][AddrOfPeer(q)] = newPeers[h][AddrOfPeer(q)]
  <2>1. q \in conns[h] /\ q \in Peer /\ AddrOfPeer(q) # AddrOfPeer(p)
    BY <1>1, <1>5, <1>7, JoinersDiffer
  <2>2. peerState'[h][q] = peerState[h][q]
    BY <1>1, <1>2, <1>7, <2>1 DEF TypeOK
  <2>3. newPeers'[h][AddrOfPeer(q)] = newPeers[h][AddrOfPeer(q)]
    BY <1>1, <1>2, <1>3, <2>1 DEF TypeOK
  <2>4. QED
    BY <2>1, <2>2, <2>3
<1>8. QED
  BY <1>2, <1>6, <1>7, QueuedKept

\* What happens at another node
LEMMA QueuedElsewhere ==
    ASSUME NEW h \in Node, Queued(h),
           UNCHANGED <<conns[h], peers[h], newPeers[h], peerState[h]>>
    PROVE  Queued(h)'
  BY DEF Queued

LEMMA CheckElsewhere ==
    ASSUME IInv, NEW a \in Node, NEW p \in Peer,
           HandleReadyNotif(a, p) \/ CompleteJoin(a, p),
           NEW h \in Node \ {a}
    PROVE  UNCHANGED <<conns[h], peers[h], newPeers[h], peerState[h]>>
<1>1. TypeOK
  BY DEF IInv
<1>2. PICK states : states = [peerState[a] EXCEPT ![p] = "CONNECTED"]
  OBVIOUS
<1>3. /\ peerState' = [peerState EXCEPT ![a] = states] /\ conns' = conns
      /\ \E box, timers : CheckForNewPeers(a, states, box, timers)
  BY <1>2 DEF HandleReadyNotif, CompleteJoin
<1>4. /\ peers'[h] = peers[h] /\ newPeers'[h] = newPeers[h]
  <2>1. \/ UNCHANGED <<newPeers, peers>>
        \/ \E c \in Peer :
              /\ newPeers' = [newPeers EXCEPT ![a][AddrOfPeer(c)] = NoEntry]
              /\ peers' = [peers EXCEPT ![a] = Put(@, c)]
    BY <1>3, CheckEffects
  <2>2. QED
    BY <1>1, <2>1 DEF TypeOK
<1>5. QED
  BY <1>1, <1>3, <1>4 DEF TypeOK

LEMMA QueuedStep ==
    ASSUME IInv, CInv, DistinctAddresses, NEW h \in Node, EntryPoint(h),
           EntryKept(h), AtEntry(h), Queued(h), [Next]_vars
    PROVE  Queued(h)'
<1>1. TypeOK
  BY DEF IInv
<1>2. CASE UNCHANGED vars
  BY <1>2, QueuedElsewhere DEF vars, joinVars, viewVars, netVars
<1>3. ASSUME NEW a \in Node, NEW how, Exit(a, how)
      PROVE  Queued(h)'
  BY <1>3, QueuedElsewhere DEF Exit, joinVars, viewVars
<1>4. ASSUME NEW a \in Node,
             \/ \E m \in JoinTo[a] : UIJoinConnect(a, m)
             \/ UIStep(a) \/ UIBroadcastCheck(a) \/ UISend(a) \/ Quit(a)
      PROVE  Queued(h)'
  <2>1. CASE \/ UIBroadcastCheck(a) \/ UIBroadcast(a) \/ UIBroadcastLog(a)
             \/ UIJoinMark(a) \/ UISend(a)
    BY <2>1, QueuedElsewhere
       DEF UIBroadcastCheck, UIBroadcast, UIBroadcastLog, UIJoinMark, UISend,
           joinVars, viewVars, netVars
  <2>2. CASE UIBroadcastCrash(a) \/ Quit(a)
    BY <1>3, <2>2 DEF UIBroadcastCrash, Crash, Quit
  <2>3. ASSUME \E m \in JoinTo[a] : UIJoinConnect(a, m)
        PROVE  Queued(h)'
    <3>1. a # h
      BY <2>3, NetworkAssumption DEF EntryPoint
    <3>2. UNCHANGED <<conns[h], peers, newPeers, peerState>>
      BY <1>1, <2>3, <3>1 DEF UIJoinConnect, TypeOK, joinVars, viewVars
    <3>3. QED
      BY <3>2, QueuedElsewhere
  <2>4. ASSUME UIJoinSend(a) \/ UIJoinThrows(a)
        PROVE  Queued(h)'
    <3>1. a # h
      BY <2>4 DEF UIJoinSend, UIJoinThrows, EntryKept
    <3>2. UNCHANGED <<conns[h], peers, newPeers[h], peerState[h]>>
      BY <1>1, <2>4, <3>1 DEF UIJoinSend, UIJoinThrows, TypeOK, joinVars, viewVars
    <3>3. QED
      BY <3>2, QueuedElsewhere
  <2>5. QED
    BY <1>4, <2>1, <2>2, <2>3, <2>4 DEF UIStep
<1>5. ASSUME NEW a \in Node, NEW p \in Peer, IOStep(a, p) \/ ReadTogether(a, p)
      PROVE  Queued(h)'
  <2>1. CASE \/ HandleMisrouted(a, p) \/ HandleReadyNotifCrash(a, p)
             \/ HandleDisconnectCrash(a, p) \/ CompleteJoinCrash(a, p)
    BY <1>3, <2>1 DEF HandleMisrouted, HandleReadyNotifCrash,
                      HandleDisconnectCrash, CompleteJoinCrash, Crash
  <2>2. CASE \/ HandleDuplicate(a, p) \/ HandleText(a, p) \/ HandleData(a, p)
             \/ HandleForeignNotif(a, p) \/ HandleNotifRefused(a, p)
             \/ HandleReady(a, p) \/ SendReady(a, p)
             \/ HandleDisconnectHangs(a, p) \/ ReadTogether(a, p)
    BY <2>2, QueuedElsewhere
       DEF HandleDuplicate, HandleText, HandleData, HandleForeignNotif,
           HandleNotifRefused, HandleReady, SendReady, HandleDisconnectHangs,
           ReadTogether, joinVars, viewVars, netVars
  <2>3. CASE HandleReadyNotifThrows(a, p) \/ HandleReadError(a, p)
    <3>1. /\ UNCHANGED <<peers, newPeers>>
          /\ conns' = conns \/ conns' = [conns EXCEPT ![a] = @ \ {p}]
          /\ \/ peerState' = peerState
             \/ peerState' = [peerState EXCEPT ![a][p] = "CONNECTED"]
      BY <2>3 DEF HandleReadyNotifThrows, HandleReadError, joinVars, viewVars
    <3>2. /\ conns \in [Node -> SUBSET Peer]
          /\ peerState \in [Node -> [Peer -> PeerState]]
      BY <1>1 DEF TypeOK
    <3>3. conns'[h] \subseteq conns[h]
      <4>1. conns'[h] = conns[h] \/ conns'[h] = conns[h] \ {p}
        BY <3>1, <3>2
      <4>2. QED
        BY <4>1
    <3>4. \A q \in Peer : peerState'[h][q] \in {peerState[h][q], "CONNECTED"}
      BY <3>1, <3>2
    <3>5. conns[h] \subseteq Peer
      BY <3>2
    <3>6. QED
      BY <3>1, <3>3, <3>4, <3>5, QueuedSame
  <2>4. CASE HandleReadyNotif(a, p) \/ CompleteJoin(a, p)
    BY <2>4, QueuedCheck, CheckElsewhere, QueuedElsewhere
  <2>5. CASE HandleJoin(a, p)
    <3>1. a = h
      BY <2>5, JoinsAtEntry DEF HandleJoin
    <3>2. QED
      BY <2>5, <3>1, QueuedJoin
  <2>6. CASE HandleJoinNotif(a, p)
    <3>1. /\ Reads(a, p, "JOIN_NOTIF") /\ Head(inbox[a][p]) \notin logs[a]
          /\ conns' = [conns EXCEPT ![a] = @ \cup {<<Head(inbox[a][p]).peer, "called">>}]
          /\ newPeers' = newPeers
          /\ peerState' = [peerState EXCEPT ![a][<<Head(inbox[a][p]).peer, "called">>] =
                              "JOINING"]
          /\ \E q : peers' = [peers EXCEPT ![a] = Put(@, q)]
      BY <2>6 DEF HandleJoinNotif, ReadsNotif, Identified, AcknowledgeJoin
    <3>2. Head(inbox[a][p]) \in Notifs
      BY <1>1, <3>1, ReadParts
    <3>3. a # h
      BY <3>1, <3>2 DEF AtEntry
    <3>4. UNCHANGED <<conns[h], peers[h], newPeers[h], peerState[h]>>
      BY <1>1, <3>1, <3>3 DEF TypeOK
    <3>5. QED
      BY <3>4, QueuedElsewhere
  <2>7. CASE HandleJoinAck(a, p)
    <3>1. a # h
      BY <2>7, NoAckAtEntry DEF HandleJoinAck
    <3>2. UNCHANGED <<conns[h], peers[h], newPeers[h], peerState[h]>>
      BY <1>1, <2>7, <3>1 DEF HandleJoinAck, Identified, TypeOK
    <3>3. QED
      BY <3>2, QueuedElsewhere
  <2>8. CASE Accept(a, p)
    <3>1. CASE a = h
      BY <2>8, <3>1, QueuedAccept
    <3>2. CASE a # h
      <4>1. UNCHANGED <<conns[h], peers[h], newPeers[h], peerState[h]>>
        BY <1>1, <2>8, <3>2 DEF Accept, TypeOK
      <4>2. QED
        BY <4>1, QueuedElsewhere
    <3>3. QED
      BY <3>1, <3>2
  <2>9. CASE HandleDisconnect(a, p)
    <3>1. CASE a = h
      BY <2>9, <3>1, QueuedDisconnect
    <3>2. CASE a # h
      <4>1. UNCHANGED <<conns[h], peers[h], newPeers[h], peerState[h]>>
        BY <1>1, <2>9, <3>2 DEF HandleDisconnect, TypeOK
      <4>2. QED
        BY <4>1, QueuedElsewhere
    <3>3. QED
      BY <3>1, <3>2
  <2>10. QED
    BY <1>5, <2>1, <2>2, <2>3, <2>4, <2>5, <2>6, <2>7, <2>8, <2>9
       DEF IOStep, Receive, TimerExpires
<1>6. QED
  BY <1>2, <1>4, <1>5 DEF Next

\* No JOIN is left unanswered while the token is free, however the joins, the
\* departures and the timers interleave: where all join through one node, and no
\* two nodes share an address, whoever that node has read a JOIN from and not
\* let in is in new_peers, and check_for_new_peers frees the token only when it
\* finds nobody there.
THEOREM JoinsAreNotForgotten ==
    ASSUME NEW h \in Node, EntryPoint(h), DistinctAddresses
    PROVE  Spec => []NoForgottenJoin
<1> DEFINE Served == QueueServed /\ AtEntry(h) /\ Queued(h)
<1>1. Init => Served
  <2> SUFFICES ASSUME Init
               PROVE  Served
    OBVIOUS
  <2>1. /\ \A n \in Node : conns[n] = {} /\ logs[n] = {} /\ Waiting(n) = {}
        /\ \A n \in Node, p \in Peer : inbox[n][p] = <<>>
    BY DEF Init, Waiting, NoEntry
  <2>2. Notifs = {}
    <3>1. \A n \in Node, p \in Peer : Range(inbox[n][p]) = {}
      <4>1. <<>> \in Seq(Message)
        OBVIOUS
      <4>2. QED
        BY <2>1, <4>1, EmptyParts
    <3>2. QED
      BY <2>1, <3>1 DEF Notifs
  <2>3. QED
    BY <2>1, <2>2 DEF QueueServed, AtEntry, Queued
<1>2. IInv /\ TypeOK' /\ CInv /\ TimersKept /\ EntryKept(h) /\ Served /\ [Next]_vars
      => Served'
  BY QueueStep, AtEntryStep, QueuedStep
<1>3. IInv /\ Served => NoForgottenJoin
  <2> SUFFICES ASSUME IInv, Served, NEW n \in Node, Running(n), joinToken[n],
                      NEW p \in Unserved(n)
               PROVE  FALSE
    BY DEF NoForgottenJoin
  <2>1. /\ p \in conns[n] /\ p[2] = "joiner" /\ peerState[n][p] = "JOINING"
        /\ Id(p) \notin Ids(peers[n])
    BY DEF Unserved
  <2>2. n = h /\ p \in Peer
    BY <2>1 DEF AtEntry, IInv, TypeOK
  <2>3. newPeers[n][AddrOfPeer(p)].peer = p
    BY <2>1, <2>2 DEF Queued
  <2>4. AddrOfPeer(p) \in Waiting(n)
    BY <2>1, <2>2, <2>3, EntryType, NetworkAssumption DEF Waiting
  <2>5. QED
    BY <2>4 DEF QueueServed
<1>4. IInv => TypeOK
  BY DEF IInv
<1> HIDE DEF Served
<1>5. QED
  BY <1>1, <1>2, <1>3, <1>4, Invariant, ConnectionInvariant, TimersInvariant,
     EntryInvariant, PTL DEF Spec
=============================================================================
