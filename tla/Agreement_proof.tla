--------------------------- MODULE Agreement_proof --------------------------
(***************************************************************************)
(* One join at a time.  Where every join goes through the entry point h,   *)
(* delays are long enough and each message is read before the next one     *)
(* arrives, the token of h lets one node in after the other: its JOIN is   *)
(* announced to the whole ring before it is told that it may relay, so     *)
(* that the views and rings of all members agree when nothing is under     *)
(* way, and every token is back.                                           *)
(***************************************************************************)
EXTENDS SingleEntry_proof

\* What is known of every state until somebody quits
Calm(h) ==
    IInv /\ CInv /\ TimersKept /\ EntryKept(h) /\ Peace(h) /\ Settled(h)

LEMMA CalmInvariant ==
    ASSUME NEW h \in Node, EntryPoint(h), DistinctAddresses, Timely
    PROVE  Spec => [](Quitted \/ Calm(h))
<1>1. IInv /\ CInv /\ TimersKept /\ EntryKept(h) /\ (Quitted \/ Peace(h))
      /\ (Quitted \/ Settled(h)) => Quitted \/ Calm(h)
  BY DEF Calm
<1>2. QED
  BY <1>1, Invariant, ConnectionInvariant, TimersInvariant, EntryInvariant,
     PeaceInvariant, SettledInvariant, PTL

-----------------------------------------------------------------------------
(* What a read and a write make of the messages under way                  *)

\* The messages of the join procedure behind the JOIN
Control == {"JOIN_NOTIF", "JOIN_ACK", "READY", "READY_NOTIF"}

\* A READY Notification comes once on a connection.
Once(s) ==
    \A i, j \in 1 .. Len(s) : s[i] = ReadyNotifMsg /\ s[j] = ReadyNotifMsg => i = j

LEMMA OnceParts ==
    ASSUME NEW s \in Seq(Message), Once(s)
    PROVE  /\ s # <<>> => Once(Tail(s))
           /\ s # <<>> /\ Head(s) = ReadyNotifMsg => ReadyNotifMsg \notin Range(Tail(s))
           /\ \A m \in Message :
                 m # ReadyNotifMsg \/ ReadyNotifMsg \notin Range(s)
                 => Once(Append(s, m))
<1>1. ASSUME s # <<>>
      PROVE  /\ Once(Tail(s))
             /\ Head(s) = ReadyNotifMsg => ReadyNotifMsg \notin Range(Tail(s))
  <2>1. /\ Len(Tail(s)) = Len(s) - 1 /\ Len(s) \in Nat /\ Len(s) > 0
        /\ \A i \in 1 .. Len(Tail(s)) : Tail(s)[i] = s[i + 1]
        /\ Tail(s) \in Seq(Message)
    BY <1>1
  <2>2. \A i \in 1 .. Len(Tail(s)) : i + 1 \in 1 .. Len(s) /\ i + 1 # 1 /\ i \in Nat
    BY <2>1
  <2>3. Once(Tail(s))
    BY <2>1, <2>2 DEF Once
  <2>4. ASSUME Head(s) = ReadyNotifMsg, ReadyNotifMsg \in Range(Tail(s))
        PROVE  FALSE
    <3>1. PICK i \in 1 .. Len(Tail(s)) : Tail(s)[i] = ReadyNotifMsg
      BY <2>1, <2>4 DEF Range
    <3>2. s[1] = ReadyNotifMsg /\ s[i + 1] = ReadyNotifMsg /\ 1 \in 1 .. Len(s)
      BY <1>1, <2>1, <2>4, <3>1
    <3>3. QED
      BY <2>2, <3>1, <3>2 DEF Once
  <2>5. QED
    BY <2>3, <2>4
<1>2. ASSUME NEW m \in Message,
             m # ReadyNotifMsg \/ ReadyNotifMsg \notin Range(s)
      PROVE  Once(Append(s, m))
  <2>1. /\ Len(Append(s, m)) = Len(s) + 1 /\ Len(s) \in Nat
        /\ \A i \in 1 .. Len(s) : Append(s, m)[i] = s[i]
        /\ Append(s, m)[Len(s) + 1] = m
    OBVIOUS
  <2>2. \A i \in 1 .. Len(Append(s, m)) : i \in 1 .. Len(s) \/ i = Len(s) + 1
    BY <2>1
  <2>3. \A i \in 1 .. Len(s) : s[i] \in Range(s)
    BY DEF Range
  <2>4. QED
    BY <1>2, <2>1, <2>2, <2>3 DEF Once
<1>3. QED
  BY <1>1, <1>2

\* box is what message m leaves behind when it is read on p at n.
ReadFrom(box, n, p, m) ==
    \A r \in Node, q \in Peer :
        /\ Range(box[r][q]) \subseteq Range(inbox[r][q])
        /\ \A e \in Range(inbox[r][q]) :
              e \in Range(box[r][q]) \/ (r = n /\ q = p /\ e = m)
        /\ Once(inbox[r][q]) => Once(box[r][q])

LEMMA ConsumeIs ==
    ASSUME TypeOK, NEW n \in Node, NEW p \in Peer, inbox[n][p] # <<>>,
           NEW m, m = Head(inbox[n][p]), NEW box, box = Consume(n, p)
    PROVE  /\ box \in Inboxes
           /\ ReadFrom(box, n, p, m)
           /\ m = ReadyNotifMsg /\ Once(inbox[n][p])
              => ReadyNotifMsg \notin Range(box[n][p])
<1>1. inbox[n][p] \in Seq(Message)
  BY DEF TypeOK
<1>2. \A r \in Node, q \in Peer :
         box[r][q] = IF r = n /\ q = p THEN Tail(inbox[n][p]) ELSE inbox[r][q]
  BY DEF Consume, TypeOK
<1>3. Range(inbox[n][p]) = {Head(inbox[n][p])} \cup Range(Tail(inbox[n][p]))
  BY <1>1, TailParts
<1>4. /\ Once(inbox[n][p]) => Once(Tail(inbox[n][p]))
      /\ Head(inbox[n][p]) = ReadyNotifMsg /\ Once(inbox[n][p])
         => ReadyNotifMsg \notin Range(Tail(inbox[n][p]))
  BY <1>1, OnceParts
<1>5. box \in Inboxes
  BY ReadType
<1>6. ReadFrom(box, n, p, m)
  BY <1>2, <1>3, <1>4 DEF ReadFrom
<1>7. QED
  BY <1>2, <1>4, <1>5, <1>6

\* Node n's connection to the node at the other end of p
LEMMA Ends ==
    ASSUME NEW n \in Node, NEW M \in SUBSET Peer, NEW r \in Node
    PROVE  (\E q \in Peer : Id(q) = n /\ OtherEnd(r, q) \in M) <=> r \in Ids(M)
<1>1. ASSUME NEW p \in M, r = Id(p)
      PROVE  \E q \in Peer : Id(q) = n /\ OtherEnd(r, q) \in M
  <2>1. PICK q \in Peer : q = OtherEnd(n, p)
    BY Kinds
  <2>2. Id(q) = n /\ OtherEnd(r, q) = p
    BY <1>1, <2>1, Kinds
  <2>3. QED
    BY <2>2
<1>2. ASSUME NEW q \in Peer, OtherEnd(r, q) \in M
      PROVE  r \in Ids(M)
  <2>1. Id(OtherEnd(r, q)) = r
    BY Kinds
  <2>2. QED
    BY <1>2, <2>1 DEF Ids
<1>3. QED
  BY <1>1, <1>2 DEF Ids

\* box2 is box when node n has sent m to each Peer of M.
SentOn(box2, box, n, M, m) ==
    \A r \in Node, q \in Peer :
        /\ Range(box2[r][q]) = IF Id(q) = n /\ OtherEnd(r, q) \in M
                               THEN Range(box[r][q]) \cup {m} ELSE Range(box[r][q])
        /\ \/ m # ReadyNotifMsg \/ ReadyNotifMsg \notin Range(box[r][q])
           \/ ~(Id(q) = n /\ OtherEnd(r, q) \in M)
           => (Once(box[r][q]) => Once(box2[r][q]))

LEMMA DeliverIs ==
    ASSUME AllRun, NEW box \in Inboxes, NEW n \in Node, NEW M, NEW m \in Message,
           NEW box2, box2 = Deliver(box, n, M, m)
    PROVE  box2 \in Inboxes /\ SentOn(box2, box, n, M, m)
<1>1. \A r \in Node : Up(r)
  BY DEF AllRun, Running, Up
<1>2. box2 \in Inboxes
  BY DeliverType
<1>3. ASSUME NEW r \in Node, NEW q \in Peer
      PROVE  /\ Range(box2[r][q]) =
                    IF Id(q) = n /\ OtherEnd(r, q) \in M
                    THEN Range(box[r][q]) \cup {m} ELSE Range(box[r][q])
             /\ \/ m # ReadyNotifMsg \/ ReadyNotifMsg \notin Range(box[r][q])
                \/ ~(Id(q) = n /\ OtherEnd(r, q) \in M)
                => (Once(box[r][q]) => Once(box2[r][q]))
  <2>1. PICK s \in Seq(Message) : s = box[r][q]
    BY DEF Inboxes
  <2>2. box2[r][q] = IF Id(q) = n /\ OtherEnd(r, q) \in M THEN Append(s, m) ELSE s
    BY <1>1, <2>1 DEF Deliver
  <2>3. Range(Append(s, m)) = Range(s) \cup {m}
    BY <2>1, AppendParts
  <2>4. (m # ReadyNotifMsg \/ ReadyNotifMsg \notin Range(s)) /\ Once(s)
        => Once(Append(s, m))
    BY OnceParts
  <2>5. QED
    BY <2>1, <2>2, <2>3, <2>4
<1>4. QED
  BY <1>2, <1>3 DEF SentOn

-----------------------------------------------------------------------------
(* The steps, as far as joins go                                           *)

\* What the nodes other than a hold stays as it is.
OnlyAt(a) ==
    \A n \in Node \ {a} :
        /\ state'[n] = state[n] /\ localGroup'[n] = localGroup[n]
        /\ groups'[n] = groups[n] /\ peers'[n] = peers[n]
        /\ peerState'[n] = peerState[n] /\ newPeers'[n] = newPeers[n]
        /\ joinToken'[n] = joinToken[n] /\ readyTimers'[n] = readyTimers[n]
        /\ joinTimers'[n] = joinTimers[n] /\ logs'[n] = logs[n]

\* A message that has no effect on the join procedure when node r reads it
Idle(r, e) ==
    \/ e.type \notin Control
    \/ e.type = "JOIN_NOTIF" /\ e \in logs[r]
    \/ e.type = "READY" /\ state[r] = "CONNECTED"

\* No message of a join is new in box, and the idle ones only are gone.
Passes(box) ==
    \A r \in Node, q \in Peer :
        /\ \A e \in Range(box[r][q]) : e.type \in Control => e \in Range(inbox[r][q])
        /\ \A e \in Range(inbox[r][q]) : Idle(r, e) \/ e \in Range(box[r][q])
        /\ Once(inbox[r][q]) => Once(box[r][q])

LEMMA SamePasses == Passes(inbox)
  BY DEF Passes

LEMMA ConsumePasses ==
    ASSUME TypeOK, NEW n \in Node, NEW p \in Peer, inbox[n][p] # <<>>,
           Idle(n, Head(inbox[n][p]))
    PROVE  Passes(Consume(n, p))
<1>1. PICK box, m : box = Consume(n, p) /\ m = Head(inbox[n][p])
  OBVIOUS
<1>2. ReadFrom(box, n, p, m) /\ Idle(n, m)
  BY <1>1, ConsumeIs
<1>3. Passes(box)
  BY <1>2 DEF ReadFrom, Passes, Idle
<1>4. QED
  BY <1>1, <1>3

LEMMA DeliverPasses ==
    ASSUME AllRun, NEW box \in Inboxes, Passes(box), NEW n \in Node,
           NEW M, NEW m \in Message, m.type \notin Control
    PROVE  Passes(Deliver(box, n, M, m))
<1>1. PICK box2 : box2 = Deliver(box, n, M, m)
  OBVIOUS
<1>2. m # ReadyNotifMsg
  BY DEF Control, ReadyNotifMsg
<1>3. SentOn(box2, box, n, M, m)
  BY <1>1, DeliverIs
<1>4. ASSUME NEW r \in Node, NEW q \in Peer
      PROVE  /\ Range(box[r][q]) \subseteq Range(box2[r][q])
             /\ Range(box2[r][q]) \subseteq Range(box[r][q]) \cup {m}
             /\ Once(box[r][q]) => Once(box2[r][q])
  BY <1>2, <1>3 DEF SentOn
<1>5. Passes(box2)
  BY <1>4 DEF Passes
<1>6. QED
  BY <1>1, <1>5

\* The port of who waits at the entry point is known.
PortsKnown(h) ==
    \A k \in Addr : LET e == newPeers[h][k] IN
        e.peer # NoPeer /\ Known(h, e.peer) => e.port = Id(e.peer)

\* Node a does something else than letting a node in.
Aside(h, a) ==
    /\ OnlyAt(a) /\ Passes(inbox')
    /\ peers'[a] = peers[a] /\ groups'[a] = groups[a]
    /\ localGroup'[a] = localGroup[a] /\ joinToken'[a] = joinToken[a]
    /\ readyTimers'[a] = readyTimers[a] /\ joinTimers'[a] = joinTimers[a]
    /\ state'[a] = "CONNECTED" <=> state[a] = "CONNECTED"
    /\ \A e \in logs'[a] : e.type = "JOIN_NOTIF" => e \in logs[a]
    /\ logs[a] \subseteq logs'[a]
    /\ \A q \in Peer :
          \/ peerState'[a][q] = peerState[a][q]
          \/ a = h /\ q[2] = "joiner" /\ ~Known(a, q) /\ peerState'[a][q] = "JOINING"
    /\ PortsKnown(h) => PortsKnown(h)'

LEMMA PortsKept ==
    ASSUME NEW h, UNCHANGED <<newPeers, peerState>>
    PROVE  PortsKnown(h) => PortsKnown(h)'
  BY DEF PortsKnown, Known

LEMMA CommandsAside ==
    ASSUME NEW h \in Node, Calm(h), NEW a \in Node,
           \/ \E m \in JoinTo[a] : UIJoinConnect(a, m)
           \/ UIBroadcastCheck(a) \/ UIBroadcast(a) \/ UIBroadcastLog(a)
           \/ UISend(a)
    PROVE  Aside(h, a)
<1>1. TypeOK /\ inbox \in Inboxes /\ AllRun
  BY DEF Calm, IInv, TypeOK, Inboxes, Peace
<1>2. /\ UNCHANGED <<peers, groups, localGroup, joinToken>>
      /\ UNCHANGED <<readyTimers, joinTimers, state, peerState, newPeers>>
  BY DEF UIJoinConnect, UIBroadcastCheck, UIBroadcast, UIBroadcastLog, UISend,
         procVars, joinVars, viewVars, groupVars
<1>3. /\ \A n \in Node \ {a} : logs'[n] = logs[n]
      /\ \A e \in logs'[a] : e.type = "JOIN_NOTIF" => e \in logs[a]
      /\ logs[a] \subseteq logs'[a]
  <2>1. CASE UNCHANGED logs
    BY <2>1
  <2>2. CASE UIBroadcastLog(a)
    <3>1. PICK new : new = logs[a] \cup outgoing[a]
      OBVIOUS
    <3>2. logs' = [logs EXCEPT ![a] = new]
      BY <2>2, <3>1 DEF UIBroadcastLog
    <3>3. \A e \in outgoing[a] : e.type = "DATA"
      BY DEF Calm, IInv, OutgoingKept, OutgoingAt
    <3>4. logs'[a] = new /\ \A n \in Node \ {a} : logs'[n] = logs[n]
      BY <1>1, <3>2 DEF TypeOK
    <3>5. QED
      BY <3>1, <3>3, <3>4
  <2>3. QED
    BY <2>1, <2>2 DEF UIJoinConnect, UIBroadcastCheck, UIBroadcast, UISend
<1>4. Passes(inbox')
  <2>1. CASE inbox' = inbox
    BY <2>1, SamePasses
  <2>2. CASE UIBroadcast(a)
    <3>1. PICK M : M = groups[a][localGroup[a]].succs
      OBVIOUS
    <3>2. PICK data \in Message : /\ inbox' = Deliver(inbox, a, M, data)
                                  /\ data.type = "DATA"
      <4>1. DataMsg(localGroup[a], a, Cardinality(SentData(a)) + 1) \in Message
        <5>1. localGroup[a] \in GroupId
          BY <1>1, <2>2 DEF UIBroadcast, TypeOK
        <5>2. Cardinality(SentData(a)) \in Nat
          BY SentDataFinite, FS_CardinalityType DEF Calm, IInv
        <5>3. QED
          BY <5>1, <5>2, MessageTypes
      <4>2. QED
        BY <2>2, <3>1, <4>1 DEF UIBroadcast, DataMsg
    <3>3. QED
      BY <1>1, <3>2, SamePasses, DeliverPasses DEF Control
  <2>3. CASE UISend(a)
    <3>1. PICK M : inbox' = Deliver(inbox, a, M, Text)
      BY <2>3 DEF UISend
    <3>2. Text \in Message /\ Text.type \notin Control
      BY DEF Message, Text, Control
    <3>3. QED
      BY <1>1, <3>1, <3>2, SamePasses, DeliverPasses
  <2>4. QED
    BY <2>1, <2>2, <2>3 DEF UIJoinConnect, UIBroadcastCheck, UIBroadcastLog, netVars
<1>5. QED
  BY <1>2, <1>3, <1>4, PortsKept DEF Aside, OnlyAt

\* Data, text and the copies of broadcast messages do not concern joins.
LEMMA ReadsAside ==
    ASSUME NEW h \in Node, Calm(h), NEW a \in Node, NEW p \in Peer,
           HandleDuplicate(a, p) \/ HandleText(a, p) \/ HandleData(a, p)
    PROVE  Aside(h, a)
<1>1. TypeOK /\ AllRun
  BY DEF Calm, IInv, Peace
<1>2. /\ UNCHANGED <<peers, groups, localGroup, joinToken>>
      /\ UNCHANGED <<readyTimers, joinTimers, state, peerState, newPeers>>
  BY DEF HandleDuplicate, HandleText, HandleData, joinVars, viewVars, groupVars
<1>3. PICK m : m = Head(inbox[a][p])
  OBVIOUS
<1>4. /\ inbox[a][p] # <<>> /\ m \in Message /\ Consume(a, p) \in Inboxes
      /\ \/ m.type = "JOIN_NOTIF" /\ HandleDuplicate(a, p)
         \/ m.type = "DATA"
         \/ m.type = "TEXT"
  BY <1>1, <1>3, ReadParts DEF Calm, HandleDuplicate, HandleText, HandleData
<1>5. Idle(a, m)
  BY <1>3, <1>4 DEF HandleDuplicate, Idle, Control
<1>6. Passes(Consume(a, p))
  BY <1>1, <1>3, <1>4, <1>5, ConsumePasses
<1>7. Passes(inbox')
  <2>1. CASE inbox' = Consume(a, p)
    BY <1>6, <2>1
  <2>2. CASE HandleData(a, p)
    <3>1. PICK M : M = Relays(a, m)
      OBVIOUS
    <3>2. inbox' = Deliver(Consume(a, p), a, M, m) /\ m.type = "DATA"
      BY <1>3, <2>2, <3>1 DEF HandleData, Reads
    <3>3. QED
      BY <1>1, <1>4, <1>6, <3>2, DeliverPasses DEF Control
  <2>3. QED
    BY <2>1, <2>2 DEF HandleDuplicate, HandleText
<1>8. /\ \A n \in Node \ {a} : logs'[n] = logs[n]
      /\ \A e \in logs'[a] : e.type = "JOIN_NOTIF" => e \in logs[a]
      /\ logs[a] \subseteq logs'[a]
  <2>1. CASE UNCHANGED logs
    BY <2>1
  <2>2. CASE HandleData(a, p)
    <3>1. LogForwarded(a, m) /\ m.type = "DATA"
      BY <1>3, <2>2 DEF HandleData, Reads
    <3>2. QED
      BY <1>1, <3>1 DEF LogForwarded, TypeOK
  <2>3. QED
    BY <2>1, <2>2 DEF HandleDuplicate, HandleText
<1>9. QED
  BY <1>2, <1>7, <1>8, PortsKept DEF Aside, OnlyAt

\* A connection is accepted.
LEMMA AcceptAside ==
    ASSUME NEW h \in Node, Calm(h), NEW a \in Node, NEW p \in Peer, Accept(a, p)
    PROVE  Aside(h, a)
<1>1. TypeOK
  BY DEF Calm, IInv
<1>2. /\ UNCHANGED <<peers, groups, localGroup, joinToken>>
      /\ UNCHANGED <<readyTimers, joinTimers, state, logs, inbox>>
  BY DEF Accept, viewVars, groupVars
<1>3. ~Known(a, p)
  BY CInvAt DEF Accept, OpenAt, Calm
<1>4. peerState' = peerState
  BY <1>1, <1>3 DEF Accept, Known, TypeOK
<1>5. \A n \in Node, k \in Addr :
         newPeers'[n][k] = newPeers[n][k] \/ (n = a /\ newPeers'[n][k].peer = p)
  BY <1>1 DEF Accept, TypeOK
<1>6. PortsKnown(h) => PortsKnown(h)'
  <2> SUFFICES ASSUME PortsKnown(h), NEW k \in Addr, NEW e, e = newPeers'[h][k],
                      e.peer # NoPeer, Known(h, e.peer)'
               PROVE  e.port = Id(e.peer)
    BY DEF PortsKnown
  <2>1. Known(h, e.peer)
    BY <1>4 DEF Known
  <2>2. e = newPeers[h][k]
    BY <1>3, <1>5, <2>1
  <2>3. QED
    BY <2>1, <2>2 DEF PortsKnown
<1>7. \A n \in Node \ {a} : newPeers'[n] = newPeers[n]
  BY <1>1 DEF Accept, TypeOK
<1>8. Passes(inbox')
  BY <1>2, SamePasses
<1>9. QED
  BY <1>2, <1>4, <1>6, <1>7, <1>8 DEF Aside, OnlyAt

\* A node that joins is not heard of, and knows nobody.
LEMMA JoinMarkAside ==
    ASSUME NEW h \in Node, Calm(h), NEW a \in Node, UIJoinMark(a)
    PROVE  Aside(h, a)
<1>1. TypeOK
  BY DEF Calm, IInv
<1>2. /\ UNCHANGED <<peers, groups, localGroup, joinToken>>
      /\ UNCHANGED <<readyTimers, joinTimers, logs, inbox, peerState, newPeers>>
      /\ state' = [state EXCEPT ![a] = "JOINING"]
      /\ Running(a) /\ ui[a] \in {"join", "joining"}
  BY DEF UIJoinMark, joinVars, viewVars, groupVars, netVars
<1>3. a # h
  BY <1>2 DEF Calm, EntryKept
<1>4. Unheard(a)
  BY <1>2, NotAsked DEF Calm
<1>5. state[a] # "CONNECTED"
  BY <1>3, <1>4, Unannounced DEF Calm, ReadyMet
<1>6. /\ \A n \in Node \ {a} : state'[n] = state[n]
      /\ state'[a] # "CONNECTED"
  BY <1>1, <1>2 DEF TypeOK
<1>7. Passes(inbox')
  BY <1>2, SamePasses
<1>8. QED
  BY <1>2, <1>5, <1>6, <1>7, PortsKept DEF Aside, OnlyAt

LEMMA JoinSendAside ==
    ASSUME NEW h \in Node, Calm(h), NEW a \in Node, UIJoinSend(a)
    PROVE  Aside(h, a)
<1>1. TypeOK /\ AllRun /\ inbox \in Inboxes
  BY DEF Calm, IInv, Peace, TypeOK, Inboxes
<1>2. PICK m \in Node : m = entry[a]
  BY <1>1 DEF TypeOK
<1>3. PICK p : p = <<m, "entry">>
  OBVIOUS
<1>4. /\ UNCHANGED <<peers, groups, localGroup, joinToken>>
      /\ UNCHANGED <<readyTimers, joinTimers, logs, state>>
      /\ peerState' = [peerState EXCEPT ![a][p] = "NEW"]
      /\ newPeers' = [newPeers EXCEPT ![a][AddrOfPeer(p)] =
                         [peer |-> p, port |-> NoNode]]
      /\ inbox' = Deliver(inbox, a, {p}, JoinMsg)
      /\ Running(a) /\ ui[a] \in {"join", "joining"}
  BY <1>2, <1>3 DEF UIJoinSend, groupVars
<1>5. a # h
  BY <1>4 DEF Calm, EntryKept
<1>6. ~Known(a, p) /\ p \in Peer
  BY <1>3, <1>4, NotAsked, JoinerPeers DEF Calm
<1>7. peerState' = peerState
  BY <1>1, <1>4, <1>6 DEF Known, TypeOK
<1>8. \A n \in Node \ {a} : newPeers'[n] = newPeers[n]
  BY <1>1, <1>4 DEF TypeOK
<1>9. PortsKnown(h) => PortsKnown(h)'
  BY <1>5, <1>7, <1>8 DEF PortsKnown, Known
<1>10. Passes(inbox')
  <2>1. JoinMsg \in Message /\ JoinMsg.type \notin Control
    BY DEF Message, JoinMsg, Control
  <2>2. QED
    BY <1>1, <1>4, <2>1, SamePasses, DeliverPasses
<1>11. QED
  BY <1>4, <1>7, <1>8, <1>9, <1>10 DEF Aside, OnlyAt

\* Another request waits until the token is back.
LEMMA JoinWaits ==
    ASSUME NEW h \in Node, DistinctAddresses, Calm(h), NEW p \in Peer,
           HandleJoin(h, p), ~joinToken[h]
    PROVE  Aside(h, h)
<1>1. TypeOK /\ Reads(h, p, "JOIN")
  BY DEF Calm, IInv, HandleJoin
<1>2. /\ state[h] = "CONNECTED" /\ p[2] = "joiner" /\ ~Known(h, p)
      /\ p \in conns[h] /\ inbox[h][p] # <<>> /\ Head(inbox[h][p]).type = "JOIN"
  <2>1. JoinMsg \in Range(inbox[h][p])
    BY <1>1, ReadParts DEF Calm
  <2>2. p[2] = "joiner" /\ ~Known(h, p)
    BY <2>1, CInvAt DEF Calm, JoinFirst
  <2>3. state[h] = "CONNECTED"
    BY DEF Calm, Settled, TokenAtFirst, EntryKept
  <2>4. QED
    BY <1>1, <2>2, <2>3 DEF Reads
<1>3. PICK k \in Addr : k = AddrOfPeer(p)
  BY EntryType
<1>4. /\ UNCHANGED <<state, localGroup, joinToken, readyTimers, joinTimers>>
      /\ UNCHANGED <<peers, logs>>
      /\ groups' = [groups EXCEPT ![h] = groups[h]]
      /\ peerState' = [peerState EXCEPT ![h][p] = "JOINING"]
      /\ newPeers' = [newPeers EXCEPT ![h][k].port = Id(p)]
      /\ inbox' = Consume(h, p)
  BY <1>2, <1>3 DEF HandleJoin, Identified
<1>5. groups' = groups /\ \A n \in Node \ {h} :
         newPeers'[n] = newPeers[n] /\ peerState'[n] = peerState[n]
  BY <1>1, <1>4 DEF TypeOK
<1>6. \A q \in Peer : peerState'[h][q] = IF q = p THEN "JOINING" ELSE peerState[h][q]
  BY <1>1, <1>4 DEF TypeOK
<1>7. /\ \A i \in Addr : newPeers'[h][i].peer = newPeers[h][i].peer
      /\ \A i \in Addr \ {k} : newPeers'[h][i] = newPeers[h][i]
      /\ newPeers'[h][k].port = Id(p)
  BY <1>1, <1>3, <1>4 DEF TypeOK, NewPeerEntry
<1>8. Passes(inbox')
  BY <1>1, <1>2, <1>4, ConsumePasses DEF Idle, Control
<1>9. PortsKnown(h) => PortsKnown(h)'
  <2> SUFFICES ASSUME PortsKnown(h), NEW i \in Addr, NEW r, r = newPeers[h][i].peer,
                      r # NoPeer, Known(h, r)'
               PROVE  newPeers'[h][i].port = Id(r)
    BY <1>7 DEF PortsKnown
  <2>1. r \in Peer
    BY <1>1 DEF TypeOK, NewPeerEntry
  <2>2. i = AddrOfPeer(r)
    BY CInvNew DEF Calm, NewPeerAt
  <2>3. CASE i = k
    BY <1>3, <1>7, <2>1, <2>2, <2>3, Kinds DEF AddrOfPeer, DistinctAddresses
  <2>4. CASE i # k
    <3>1. r # p
      BY <1>3, <2>2, <2>4
    <3>2. Known(h, r)
      BY <1>6, <2>1, <3>1 DEF Known
    <3>3. QED
      BY <1>7, <2>4, <3>2 DEF PortsKnown
  <2>5. QED
    BY <2>3, <2>4
<1>10. \A q \in Peer : \/ peerState'[h][q] = peerState[h][q]
                       \/ q[2] = "joiner" /\ ~Known(h, q) /\ peerState'[h][q] = "JOINING"
  BY <1>2, <1>6
<1>11. QED
  BY <1>4, <1>5, <1>8, <1>9, <1>10 DEF Aside, OnlyAt

LEMMA ReadsReady ==
    ASSUME CInv, TypeOK, NEW a \in Node, NEW p \in Peer, HandleReady(a, p)
    PROVE  /\ ReadyMsg \in Range(inbox[a][p]) /\ Head(inbox[a][p]) = ReadyMsg
           /\ inbox[a][p] # <<>> /\ Consume(a, p) \in Inboxes /\ Running(a)
<1>1. PICK m \in Message : /\ m \in Range(inbox[a][p]) /\ m.type = "READY"
                           /\ m = Head(inbox[a][p])
  BY ReadParts DEF HandleReady
<1>2. m = ReadyMsg
  BY <1>1 DEF Message, BCastMessage, JoinMsg, ReadyMsg, ReadyNotifMsg, Text, Eof, Rst
<1>3. QED
  BY <1>1, <1>2, ReadParts DEF HandleReady

\* Whoever is CONNECTED has no group to enter.
LEMMA ReadyAside ==
    ASSUME NEW h \in Node, Calm(h), NEW a \in Node, NEW p \in Peer,
           HandleReady(a, p), state[a] = "CONNECTED"
    PROVE  Aside(h, a)
<1>1. TypeOK /\ AllRun
  BY DEF Calm, IInv, Peace
<1>2. localGroup[a] # NoGroup /\ groupIds[a] = {localGroup[a]}
  BY GroupAt DEF Calm, IInv, LocalGroupKept, KeptAt, Peace
<1>3. ToEnter(a) = {}
  BY <1>2 DEF ToEnter
<1>4. PICK entered : entered = [g \in GroupId |->
                         IF g \in ToEnter(a) THEN EnterRings(groups[a][g], a)
                         ELSE groups[a][g]]
  OBVIOUS
<1>5. PICK directs : directs = UNION {Neighbours(entered[g]) : g \in ToEnter(a)}
  OBVIOUS
<1>6. /\ UNCHANGED <<peers, peerState, localGroup, joinToken, newPeers>>
      /\ UNCHANGED <<readyTimers, joinTimers, logs>>
      /\ groups' = [groups EXCEPT ![a] = entered]
      /\ state' = state \/ state' = [state EXCEPT ![a] = "CONNECTED"]
      /\ inbox' = Deliver(Consume(a, p), a, directs, ReadyNotifMsg)
  BY <1>4, <1>5 DEF HandleReady, joinVars, viewVars
<1>7. groups' = groups /\ state' = state
  <2>1. entered = groups[a]
    <3>1. groups[a] \in [GroupId -> Group]
      BY <1>1 DEF TypeOK
    <3>2. QED
      BY <1>3, <1>4, <3>1
  <2>2. QED
    BY <1>1, <1>6, <2>1 DEF TypeOK
<1>8. inbox' = Consume(a, p)
  <2>1. directs = {}
    BY <1>3, <1>5
  <2>2. PICK box \in Inboxes : box = Consume(a, p)
    BY <1>1, ReadsReady DEF Calm
  <2>3. Deliver(box, a, {}, ReadyNotifMsg) = box
    BY <2>2 DEF Deliver, Inboxes
  <2>4. QED
    BY <1>6, <2>1, <2>2, <2>3
<1>9. Passes(inbox')
  <2>1. Idle(a, Head(inbox[a][p])) /\ inbox[a][p] # <<>>
    BY <1>1, ReadsReady DEF Calm, Idle, ReadyMsg
  <2>2. QED
    BY <1>1, <1>8, <2>1, ConsumePasses
<1>10. QED
  BY <1>6, <1>7, <1>9, PortsKept DEF Aside, OnlyAt

-----------------------------------------------------------------------------
(* Who waits for what                                                      *)

\* Message e of node k waits at node r.
Holds(box, r, k, e) == \E q \in Peer : Id(q) = k /\ e \in Range(box[r][q])

NotifAt(n, x) ==
    \E k \in Node, e \in Message :
        Holds(inbox, n, k, e) /\ e.type = "JOIN_NOTIF" /\ e.peer = x

AckFrom(x, m) == \E e \in Message : Holds(inbox, x, m, e) /\ e.type = "JOIN_ACK"

ReadyAt(x) == \E k \in Node : Holds(inbox, x, k, ReadyMsg)

\* What box holds is in the other one, or is e, sent by a to the nodes of R.
HoldsMore(box2, box, a, R, m) ==
    \A r, k \in Node, e \in Message :
        Holds(box2, r, k, e) <=>
            Holds(box, r, k, e) \/ (k = a /\ r \in R /\ e = m)

\* One message m of node k has been read at a.
HoldsLess(box, a, k, m) ==
    \A r, s \in Node, e \in Message :
        /\ Holds(box, r, s, e) => Holds(inbox, r, s, e)
        /\ Holds(inbox, r, s, e) =>
              Holds(box, r, s, e) \/ (r = a /\ s = k /\ e = m)

LEMMA ConsumeHolds ==
    ASSUME NEW a \in Node, NEW p \in Peer, NEW m, NEW box, ReadFrom(box, a, p, m)
    PROVE  HoldsLess(box, a, Id(p), m)
<1> SUFFICES ASSUME NEW r \in Node, NEW s \in Node, NEW e \in Message
             PROVE  /\ Holds(box, r, s, e) => Holds(inbox, r, s, e)
                    /\ Holds(inbox, r, s, e) =>
                          Holds(box, r, s, e) \/ (r = a /\ s = Id(p) /\ e = m)
  BY DEF HoldsLess
<1>1. Holds(box, r, s, e) => Holds(inbox, r, s, e)
  BY DEF Holds, ReadFrom
<1>2. ASSUME NEW q \in Peer, Id(q) = s, e \in Range(inbox[r][q])
      PROVE  Holds(box, r, s, e) \/ (r = a /\ s = Id(p) /\ e = m)
  BY <1>2 DEF Holds, ReadFrom
<1>3. QED
  BY <1>1, <1>2 DEF Holds

LEMMA DeliverHolds ==
    ASSUME AllRun, NEW box \in Inboxes, NEW a \in Node, NEW M \in SUBSET Peer,
           NEW m \in Message, NEW box2, box2 = Deliver(box, a, M, m)
    PROVE  HoldsMore(box2, box, a, Ids(M), m)
<1> SUFFICES ASSUME NEW r \in Node, NEW k \in Node, NEW e \in Message
             PROVE  Holds(box2, r, k, e) <=>
                       Holds(box, r, k, e) \/ (k = a /\ r \in Ids(M) /\ e = m)
  BY DEF HoldsMore
<1>1. ASSUME NEW q \in Peer
      PROVE  Range(box2[r][q]) =
                IF Id(q) = a /\ OtherEnd(r, q) \in M
                THEN Range(box[r][q]) \cup {m} ELSE Range(box[r][q])
  <2>1. SentOn(box2, box, a, M, m)
    BY DeliverIs
  <2>2. QED
    BY <2>1 DEF SentOn
<1>2. Holds(box, r, k, e) => Holds(box2, r, k, e)
  BY <1>1 DEF Holds
<1>3. ASSUME k = a, r \in Ids(M), e = m
      PROVE  Holds(box2, r, k, e)
  <2>1. PICK q \in Peer : Id(q) = a /\ OtherEnd(r, q) \in M
    BY <1>3, Ends
  <2>2. e \in Range(box2[r][q])
    BY <1>1, <1>3, <2>1
  <2>3. QED
    BY <1>3, <2>1, <2>2 DEF Holds
<1>4. ASSUME NEW q \in Peer, Id(q) = k, e \in Range(box2[r][q])
      PROVE  Holds(box, r, k, e) \/ (k = a /\ r \in Ids(M) /\ e = m)
  <2>1. CASE e \in Range(box[r][q])
    BY <1>4, <2>1 DEF Holds
  <2>2. CASE e \notin Range(box[r][q])
    <3>1. Id(q) = a /\ OtherEnd(r, q) \in M /\ e = m
      BY <1>1, <1>4, <2>2
    <3>2. r \in Ids(M)
      BY <3>1, Ends
    <3>3. QED
      BY <1>4, <3>1, <3>2
  <2>3. QED
    BY <2>1, <2>2
<1>5. QED
  BY <1>2, <1>3, <1>4 DEF Holds

\* What a step does to announcements, acknowledgements and READY: the nodes of M
\* announce x, so that those of S are sent the announcement and x is acknowledged;
\* those of Y are sent READY.
Flows(x, M, S, Y) ==
    \A n, y \in Node :
        /\ Heard(n, y)' <=> Heard(n, y) \/ (y = x /\ n \in M)
        /\ NotifAt(n, y)' => NotifAt(n, y) \/ (y = x /\ n \in S)
        /\ NotifAt(n, y) \/ (y = x /\ n \in S) => NotifAt(n, y)' \/ Heard(n, y)'
        /\ AckFrom(y, n)' => AckFrom(y, n) \/ (y = x /\ n \in M)
        /\ AckFrom(y, n) \/ (y = x /\ n \in M) =>
              AckFrom(y, n)' \/ n \in Ids(peers'[y])
        /\ ReadyAt(y)' => ReadyAt(y) \/ y \in Y
        /\ ReadyAt(y) \/ y \in Y => ReadyAt(y)' \/ state'[y] = "CONNECTED"

LEMMA PassesFlow ==
    ASSUME NEW a, OnlyAt(a), Passes(inbox'),
           \A e \in logs'[a] : e.type = "JOIN_NOTIF" => e \in logs[a],
           logs[a] \subseteq logs'[a], state'[a] = "CONNECTED" <=> state[a] = "CONNECTED",
           NEW x
    PROVE  Flows(x, {}, {}, {})
<1>1. \A r, k \in Node, e \in Message :
         /\ Holds(inbox', r, k, e) /\ e.type \in Control => Holds(inbox, r, k, e)
         /\ Holds(inbox, r, k, e) => Idle(r, e) \/ Holds(inbox', r, k, e)
  BY DEF Passes, Holds
<1>2. \A n, y \in Node : Heard(n, y)' <=> Heard(n, y)
  BY DEF OnlyAt, Heard
<1>3. ASSUME NEW n \in Node, NEW y \in Node
      PROVE  /\ NotifAt(n, y)' => NotifAt(n, y)
             /\ NotifAt(n, y) => NotifAt(n, y)' \/ Heard(n, y)
  <2>1. NotifAt(n, y)' => NotifAt(n, y)
    BY <1>1 DEF NotifAt, Control
  <2>2. ASSUME NEW k \in Node, NEW e \in Message, Holds(inbox, n, k, e),
               e.type = "JOIN_NOTIF", e.peer = y
        PROVE  NotifAt(n, y)' \/ Heard(n, y)
    <3>1. Idle(n, e) \/ Holds(inbox', n, k, e)
      BY <1>1, <2>2
    <3>2. Idle(n, e) => Heard(n, y)
      BY <2>2 DEF Idle, Control, Heard
    <3>3. QED
      BY <2>2, <3>1, <3>2 DEF NotifAt
  <2>3. QED
    BY <2>1, <2>2 DEF NotifAt
<1>4. \A n, y \in Node : AckFrom(y, n)' <=> AckFrom(y, n)
  BY <1>1 DEF AckFrom, Idle, Control
<1>5. ASSUME NEW y \in Node
      PROVE  /\ ReadyAt(y)' => ReadyAt(y)
             /\ ReadyAt(y) => ReadyAt(y)' \/ state'[y] = "CONNECTED"
  <2>1. ReadyMsg \in Message /\ ReadyMsg.type = "READY" /\ "READY" \in Control
    BY DEF Message, ReadyMsg, Control
  <2>2. Idle(y, ReadyMsg) => state'[y] = "CONNECTED"
    BY <2>1 DEF Idle, OnlyAt
  <2>3. QED
    BY <1>1, <2>1, <2>2 DEF ReadyAt
<1>6. QED
  BY <1>2, <1>3, <1>4, <1>5 DEF Flows

-----------------------------------------------------------------------------
(* Steps of the join procedure                                             *)

\* Node a enters Peer c in its view and in group gid, of which gs is the record
\* so far, and waits for c's announcement unless it is a neighbour.
Admits(a, c, gid, gs, timers) ==
    /\ \A n \in Node \ {a} : /\ peers'[n] = peers[n] /\ groups'[n] = groups[n]
                             /\ joinTimers'[n] = joinTimers[n]
    /\ peers'[a] = Put(peers[a], c)
    /\ Ids(groups'[a][gid].ring) = Ids(gs[gid].ring) \cup {Id(c)}
    /\ joinTimers'[a] = IF Id(c) \in Ids(Neighbours(groups'[a][gid]))
                        THEN timers ELSE Put(timers, c)

LEMMA RingIds ==
    ASSUME NEW g \in Group, NEW c \in Peer, NEW a \in Node, NEW u,
           \/ u = UpdateNeighbours(AddPeer(g, c), a)
           \/ u = UpdateNeighbours(AddToRings(g, c), a)
           \/ u = AddPeer(g, c)
    PROVE  Ids(u.ring) = Ids(g.ring) \cup {Id(c)}
<1>1. Ids(Put(g.ring, c)) = Ids(g.ring) \cup {Id(c)}
  BY DEF Ids, Put
<1>2. AddToRings(g, c) \in Group /\ AddToRings(g, c).ring = Put(g.ring, c)
  BY GroupOperationsType DEF AddToRings, Group
<1>3. AddPeer(g, c) \in Group /\ AddPeer(g, c).ring = Put(g.ring, c)
  BY <1>2, GroupOperationsType DEF AddPeer, Group
<1>4. \A v \in Group : UpdateNeighbours(v, a).ring = v.ring
  BY DEF UpdateNeighbours, Group
<1>5. QED
  BY <1>1, <1>2, <1>3, <1>4

LEMMA AcknowledgeAdmits ==
    ASSUME TypeOK, NEW a \in Node, NEW c \in Peer, NEW gid \in GroupId,
           NEW gs \in [GroupId -> Group], NEW box, NEW M, NEW timers,
           AcknowledgeJoin(a, c, gid, gs, box, M, timers)
    PROVE  /\ Admits(a, c, gid, gs, timers)
           /\ inbox' = Deliver(box, a, {c}, AckMsg(gid)) /\ AckMsg(gid) \in Message
<1>1. PICK g : g = UpdateNeighbours(AddPeer(gs[gid], c), a)
  OBVIOUS
<1>2. /\ peers' = [peers EXCEPT ![a] = Put(@, c)]
      /\ groups' = [groups EXCEPT ![a] = [gs EXCEPT ![gid] = g]]
      /\ inbox' = Deliver(box, a, {c}, AckMsg(gid))
      /\ joinTimers' = [joinTimers EXCEPT ![a] =
            IF Id(c) \in Ids(Neighbours(g)) THEN timers ELSE Put(timers, c)]
  BY <1>1 DEF AcknowledgeJoin
<1>3. groups'[a][gid] = g
  BY <1>2 DEF TypeOK
<1>4. Ids(g.ring) = Ids(gs[gid].ring) \cup {Id(c)}
  BY <1>1, RingIds
<1>5. AckMsg(gid) \in Message
  BY MessageTypes
<1>6. peers'[a] = Put(peers[a], c) /\ joinTimers'[a] =
            IF Id(c) \in Ids(Neighbours(g)) THEN timers ELSE Put(timers, c)
  BY <1>2 DEF TypeOK
<1>7. \A n \in Node \ {a} : /\ peers'[n] = peers[n] /\ groups'[n] = groups[n]
                            /\ joinTimers'[n] = joinTimers[n]
  BY <1>2 DEF TypeOK
<1>8. QED
  BY <1>2, <1>3, <1>4, <1>5, <1>6, <1>7 DEF Admits

-----------------------------------------------------------------------------
(* Who knows whom                                                          *)

\* Every announcement is the entry point's.
NoticesLogged(h) == \A e \in Notifs : e \in logs[h] /\ e.port = e.peer

OthersDoNotAnswer(h) == \A n \in Node \ {h} : readyTimers[n] = {}

\* p may be in state s at n.
MayBe(h, n, p, s) ==
    /\ p[2] # "local"
    /\ p[2] = "entry" => Id(p) = h /\ n # h
    /\ p[2] = "joiner" => n = h
    /\ p[2] = "called" => n # h
    /\ p[2] \in Asking => s = "CONNECTED"
    /\ p[2] \in Answering /\ ~Heard(n, Id(p)) => s # "CONNECTED"

KnownAs(h) ==
    \A n \in Node, p \in Peer : Known(n, p) => MayBe(h, n, p, peerState[n][p])

\* The rings hold the view, and the node itself when it is CONNECTED.
RingAt(n) ==
    localGroup[n] # NoGroup =>
        Ids(groups[n][localGroup[n]].ring) =
            Ids(peers[n]) \cup (IF state[n] = "CONNECTED" THEN {n} ELSE {})

\* The join timers are for those who have been acknowledged.
AnsweredWait == \A n \in Node : \A p \in joinTimers[n] : p[2] \in Answering

Entrance(h) ==
    /\ NoticesLogged(h) /\ OthersDoNotAnswer(h) /\ PortsKnown(h) /\ KnownAs(h)
    /\ AnsweredWait /\ \A n \in Node : RingAt(n)

LEMMA NoticesKept ==
    ASSUME NEW h \in Node, NoticesLogged(h), LogsGrow, NEW M,
           \A n \in Node : \A e \in logs'[n] :
              e.type = "JOIN_NOTIF" => e \in Notifs \cup M,
           \A n \in Node, p \in Peer : \A e \in Range(inbox'[n][p]) :
              e.type = "JOIN_NOTIF" => e \in Notifs \cup M,
           \A e \in M : e \in logs'[h] /\ e.port = e.peer
    PROVE  NoticesLogged(h)'
<1>1. Notifs' \subseteq Notifs \cup M
  BY NewNotifs
<1>2. QED
  BY <1>1 DEF NoticesLogged, LogsGrow

LEMMA KnownAsKept ==
    ASSUME NEW h \in Node, KnownAs(h), LogsGrow,
           \A n \in Node, p \in Peer :
              peerState'[n][p] = peerState[n][p] \/ MayBe(h, n, p, peerState'[n][p])
    PROVE  KnownAs(h)'
<1> SUFFICES ASSUME NEW n \in Node, NEW p \in Peer, NEW s, s = peerState'[n][p],
                    s # "NEW"
             PROVE  MayBe(h, n, p, s)'
  BY DEF KnownAs, Known
<1>1. MayBe(h, n, p, s)
  BY DEF KnownAs, Known
<1>2. Heard(n, Id(p)) => Heard(n, Id(p))'
  BY DEF LogsGrow, Heard
<1>3. QED
  BY <1>1, <1>2 DEF MayBe

\* The ring of a node that keeps its view, group and state
LEMMA RingKept ==
    ASSUME NEW n, RingAt(n), peers'[n] = peers[n], groups'[n] = groups[n],
           localGroup'[n] = localGroup[n], state'[n] = "CONNECTED" <=> state[n] = "CONNECTED"
    PROVE  RingAt(n)'
  BY DEF RingAt

LEMMA AsideEntrance ==
    ASSUME NEW h \in Node, Entrance(h), NEW a \in Node, Aside(h, a)
    PROVE  Entrance(h)'
<1>1. LogsGrow
  BY DEF Aside, OnlyAt, LogsGrow
<1>2. NoticesLogged(h)'
  <2>1. PICK M : M = {}
    OBVIOUS
  <2>2. \A n \in Node : \A e \in logs'[n] :
           e.type = "JOIN_NOTIF" => e \in Notifs \cup M
    BY NotifsAre DEF Aside, OnlyAt
  <2>3. \A n \in Node, p \in Peer : \A e \in Range(inbox'[n][p]) :
              e.type = "JOIN_NOTIF" => e \in Notifs \cup M
    BY NotifsAre DEF Aside, Passes, Control
  <2>4. QED
    BY <1>1, <2>1, <2>2, <2>3, NoticesKept DEF Entrance
<1>3. OthersDoNotAnswer(h)'
  BY DEF Entrance, OthersDoNotAnswer, Aside, OnlyAt
<1>4. PortsKnown(h)'
  BY DEF Entrance, Aside
<1>5. KnownAs(h)'
  <2>1. ASSUME NEW n \in Node, NEW p \in Peer, peerState'[n][p] # peerState[n][p]
        PROVE  MayBe(h, n, p, peerState'[n][p])
    <3>1. n = a /\ a = h /\ p[2] = "joiner" /\ peerState'[a][p] = "JOINING"
      BY <2>1 DEF Aside, OnlyAt
    <3>2. QED
      BY <3>1 DEF MayBe, Asking
  <2>2. QED
    BY <1>1, <2>1, KnownAsKept DEF Entrance
<1>6. \A n \in Node : RingAt(n)'
  BY RingKept DEF Entrance, Aside, OnlyAt
<1>7. AnsweredWait'
  BY DEF Entrance, AnsweredWait, Aside, OnlyAt
<1>8. QED
  BY <1>2, <1>3, <1>4, <1>5, <1>6, <1>7 DEF Entrance

-----------------------------------------------------------------------------
(* The mail of a join                                                      *)

\* Of what concerns a join, box lacks the announcement of x at a, at most.
Lacks(box, a, x) ==
    \A r, k \in Node, e \in Message :
        /\ Holds(box, r, k, e) => Holds(inbox, r, k, e)
        /\ Holds(inbox, r, k, e) /\ e.type \in {"JOIN_NOTIF", "JOIN_ACK", "READY"}
           => Holds(box, r, k, e) \/ (r = a /\ e.type = "JOIN_NOTIF" /\ e.peer = x)

\* A READY Notification waits at r on q.
Told(box, r, q) == ReadyNotifMsg \in Range(box[r][q])

\* No READY Notification is new in box, and those on C may be gone.
Notes(box, C) ==
    \A r \in Node, q \in Peer :
        /\ Told(box, r, q) => Told(inbox, r, q)
        /\ Told(inbox, r, q) => Told(box, r, q) \/ <<r, q>> \in C
        /\ Once(inbox[r][q]) => Once(box[r][q])

\* The announcements in box are known, or in M.
Notices(box, M) ==
    \A r \in Node, q \in Peer : \A e \in Range(box[r][q]) :
        e.type = "JOIN_NOTIF" => e \in Notifs \cup M

LEMMA SameMail ==
    ASSUME NEW a, NEW x, NEW C, NEW M
    PROVE  Lacks(inbox, a, x) /\ Notes(inbox, C) /\ Notices(inbox, M)
BY NotifsAre DEF Lacks, Notes, Notices

LEMMA ReadMail ==
    ASSUME TypeOK, NEW a \in Node, NEW p \in Peer, inbox[a][p] # <<>>,
           NEW m, m = Head(inbox[a][p]), NEW box, box = Consume(a, p), NEW x,
           \/ m.type \notin {"JOIN_NOTIF", "JOIN_ACK", "READY"}
           \/ m.type = "JOIN_NOTIF" /\ m.peer = x,
           NEW C, m = ReadyNotifMsg => <<a, p>> \in C, NEW M
    PROVE  box \in Inboxes /\ Lacks(box, a, x) /\ Notes(box, C) /\ Notices(box, M)
<1>1. ReadFrom(box, a, p, m) /\ box \in Inboxes
  BY ConsumeIs
<1>2. HoldsLess(box, a, Id(p), m)
  BY <1>1, ConsumeHolds
<1>3. Lacks(box, a, x)
  BY <1>2 DEF HoldsLess, Lacks
<1>4. Notes(box, C)
  BY <1>1 DEF Notes, ReadFrom, Told
<1>5. Notices(box, M)
  BY <1>1, NotifsAre DEF Notices, ReadFrom
<1>6. QED
  BY <1>1, <1>3, <1>4, <1>5

LEMMA ReadNotifMail ==
    ASSUME TypeOK, NEW a \in Node, NEW p \in Peer, inbox[a][p] # <<>>,
           NEW m, m = Head(inbox[a][p]), NEW box, box = Consume(a, p), NEW x,
           m.type = "JOIN_NOTIF", m.peer = x, NEW C, NEW M
    PROVE  box \in Inboxes /\ Lacks(box, a, x) /\ Notes(box, C) /\ Notices(box, M)
<1>1. ReadFrom(box, a, p, m) /\ box \in Inboxes /\ m # ReadyNotifMsg
  BY ConsumeIs DEF ReadyNotifMsg
<1>2. HoldsLess(box, a, Id(p), m)
  BY <1>1, ConsumeHolds
<1>3. Lacks(box, a, x)
  BY <1>2 DEF HoldsLess, Lacks
<1>4. Notes(box, C)
  BY <1>1 DEF Notes, ReadFrom, Told
<1>5. Notices(box, M)
  BY <1>1, NotifsAre DEF Notices, ReadFrom
<1>6. QED
  BY <1>1, <1>3, <1>4, <1>5

LEMMA SentNotes ==
    ASSUME NEW box, NEW box2, NEW n, NEW M, NEW m, SentOn(box2, box, n, M, m),
           m # ReadyNotifMsg, NEW C, Notes(box, C)
    PROVE  Notes(box2, C)
BY DEF SentOn, Notes, Told

LEMMA SentNotices ==
    ASSUME NEW box, NEW box2, NEW n, NEW M, NEW m, SentOn(box2, box, n, M, m),
           NEW N, Notices(box, N), m.type = "JOIN_NOTIF" => m \in Notifs \cup N
    PROVE  Notices(box2, N)
BY DEF SentOn, Notices

\* What a acknowledges and announces
LEMMA AnswerFlows ==
    ASSUME NEW a \in Node, NEW x \in Node, NEW S, NEW box, NEW after, NEW box2,
           NEW notif \in Message, notif.type = "JOIN_NOTIF", notif.peer = x,
           NEW ack \in Message, ack.type = "JOIN_ACK", Lacks(box, a, x),
           HoldsMore(after, box, a, S, notif), HoldsMore(box2, after, a, {x}, ack),
           inbox' = box2,
           \A n, y \in Node : Heard(n, y)' <=> Heard(n, y) \/ (y = x /\ n = a)
    PROVE  Flows(x, {a}, S, {})
<1>1. ASSUME NEW n \in Node, NEW y \in Node
      PROVE  /\ NotifAt(n, y)' => NotifAt(n, y) \/ (y = x /\ n \in S)
             /\ NotifAt(n, y) \/ (y = x /\ n \in S) => NotifAt(n, y)' \/ Heard(n, y)'
  <2>1. ASSUME NEW k \in Node, NEW e \in Message, Holds(inbox', n, k, e),
               e.type = "JOIN_NOTIF", e.peer = y
        PROVE  NotifAt(n, y) \/ (y = x /\ n \in S)
    <3>1. Holds(after, n, k, e)
      BY <2>1 DEF HoldsMore
    <3>2. Holds(box, n, k, e) \/ (n \in S /\ e = notif)
      BY <3>1 DEF HoldsMore
    <3>3. Holds(inbox, n, k, e) \/ (n \in S /\ y = x)
      BY <2>1, <3>2 DEF Lacks
    <3>4. QED
      BY <2>1, <3>3 DEF NotifAt
  <2>2. ASSUME NEW k \in Node, NEW e \in Message, Holds(inbox, n, k, e),
               e.type = "JOIN_NOTIF", e.peer = y
        PROVE  NotifAt(n, y)' \/ Heard(n, y)'
    <3>1. CASE Holds(box, n, k, e)
      <4>1. Holds(inbox', n, k, e)
        BY <3>1 DEF HoldsMore
      <4>2. QED
        BY <2>2, <4>1 DEF NotifAt
    <3>2. CASE n = a /\ y = x
      BY <3>2
    <3>3. QED
      BY <2>2, <3>1, <3>2 DEF Lacks
  <2>3. ASSUME y = x, n \in S
        PROVE  NotifAt(n, y)'
    <3>1. Holds(inbox', n, a, notif)
      BY <2>3 DEF HoldsMore
    <3>2. QED
      BY <2>3, <3>1 DEF NotifAt
  <2>4. NotifAt(n, y)' => NotifAt(n, y) \/ (y = x /\ n \in S)
    BY <2>1 DEF NotifAt
  <2>5. NotifAt(n, y) => NotifAt(n, y)' \/ Heard(n, y)'
    BY <2>2 DEF NotifAt
  <2>6. QED
    BY <2>3, <2>4, <2>5
<1>2. ASSUME NEW n \in Node, NEW y \in Node
      PROVE  AckFrom(y, n)' <=> AckFrom(y, n) \/ (y = x /\ n = a)
  <2>1. ASSUME NEW e \in Message, e.type = "JOIN_ACK"
        PROVE  /\ Holds(inbox', y, n, e) =>
                     Holds(inbox, y, n, e) \/ (y = x /\ n = a)
               /\ Holds(inbox, y, n, e) => Holds(inbox', y, n, e)
    BY <2>1 DEF HoldsMore, Lacks
  <2>2. y = x /\ n = a => Holds(inbox', y, n, ack)
    BY DEF HoldsMore
  <2>3. QED
    BY <2>1, <2>2 DEF AckFrom
<1>3. \A y \in Node : ReadyAt(y)' <=> ReadyAt(y)
  <2>1. ReadyMsg \in Message /\ ReadyMsg.type = "READY"
    BY DEF ReadyMsg, Message
  <2>2. \A y, k \in Node :
           Holds(inbox', y, k, ReadyMsg) <=> Holds(inbox, y, k, ReadyMsg)
    BY <2>1 DEF HoldsMore, Lacks
  <2>3. QED
    BY <2>2 DEF ReadyAt
<1>4. QED
  BY <1>1, <1>2, <1>3 DEF Flows

\* Member a announces Peer c and acknowledges it.
LEMMA AnswerMail ==
    ASSUME AllRun, NEW a \in Node, NEW c \in Peer, NEW S \in SUBSET Peer,
           NEW notif \in Message, notif.type = "JOIN_NOTIF", notif.peer = Id(c),
           NEW gid \in GroupId, NEW box \in Inboxes, NEW after,
           after = Deliver(box, a, S, notif),
           inbox' = Deliver(after, a, {c}, AckMsg(gid)),
           Lacks(box, a, Id(c)), NEW C, Notes(box, C),
           NEW M, Notices(box, M), notif \in Notifs \cup M,
           \A n, y \in Node : Heard(n, y)' <=> Heard(n, y) \/ (y = Id(c) /\ n = a)
    PROVE  /\ Flows(Id(c), {a}, Ids(S), {}) /\ Notes(inbox', C)
           /\ Notices(inbox', M)
<1>1. PICK ack \in Message : ack = AckMsg(gid) /\ ack.type = "JOIN_ACK"
  BY MessageTypes DEF AckMsg
<1>2. PICK box2 : box2 = Deliver(after, a, {c}, ack)
  OBVIOUS
<1>3. after \in Inboxes /\ SentOn(after, box, a, S, notif)
  BY DeliverIs
<1>4. SentOn(box2, after, a, {c}, ack)
  BY <1>2, <1>3, DeliverIs
<1>5. notif # ReadyNotifMsg /\ ack # ReadyNotifMsg
  BY <1>1 DEF ReadyNotifMsg
<1>6. Notes(box2, C)
  <2>1. Notes(after, C)
    BY <1>3, <1>5, SentNotes
  <2>2. QED
    BY <1>4, <1>5, <2>1, SentNotes
<1>7. Notices(box2, M)
  <2>1. Notices(after, M)
    BY <1>3, SentNotices
  <2>2. QED
    BY <1>1, <1>4, <2>1, SentNotices
<1>8. HoldsMore(after, box, a, Ids(S), notif)
  BY DeliverHolds
<1>9. HoldsMore(box2, after, a, {Id(c)}, ack)
  <2>1. {c} \in SUBSET Peer /\ Ids({c}) = {Id(c)}
    BY DEF Ids
  <2>2. HoldsMore(box2, after, a, Ids({c}), ack)
    BY <1>2, <1>3, <2>1, DeliverHolds
  <2>3. QED
    BY <2>1, <2>2
<1>10. inbox' = box2 /\ Id(c) \in Node
  BY <1>1, <1>2, Kinds
<1>11. Flows(Id(c), {a}, Ids(S), {})
  BY <1>1, <1>8, <1>9, <1>10, AnswerFlows
<1>12. QED
  BY <1>6, <1>7, <1>10, <1>11

-----------------------------------------------------------------------------
(* One join after the other                                                *)

\* x has been answered, and READY not been sent to it.
Spreads(h, x) == x \in Ids(readyTimers[h])

\* The entry point waits until x is ready.
Under(h, x) == Heard(h, x) /\ peerState[h][<<x, "joiner">>] # "CONNECTED"

\* x is announced, and does not relay yet.
Entering(h, x) == Heard(h, x) /\ state[x] # "CONNECTED"

\* All who have been announced, and the entry point
Whole(h) == {h} \cup {x \in Node : Heard(h, x)}

Member(h, n) == n = h \/ state[n] = "CONNECTED"

\* The nodes that n may know of
Present(h, n) == {y \in Whole(h) \ {n} : Spreads(h, y) => Heard(n, y)}

Near(n, x) == x \in Ids(Neighbours(groups[n][localGroup[n]]))

\* The token lets one node in at a time.
OneAtATime(h) ==
    /\ \A x, y \in Node : Under(h, x) /\ Under(h, y) => x = y
    /\ joinToken[h] => \A x \in Node : ~Under(h, x)

\* First its announcement spreads, then READY is on its way, then it is CONNECTED.
Stages(h) ==
    \A x \in Node :
        /\ Spreads(h, x) => Under(h, x) /\ state[x] # "CONNECTED" /\ ~ReadyAt(x)
        /\ Entering(h, x) => Under(h, x) /\ (Spreads(h, x) \/ ReadyAt(x))

\* The entry point waits for a timer, or for the READY Notification of a neighbour.
Waits(h) ==
    /\ \A p \in joinTimers[h] : Under(h, Id(p)) /\ ~Near(h, Id(p))
    /\ \A p \in Peer : Told(inbox, h, p) =>
          /\ Under(h, Id(p)) /\ Near(h, Id(p)) /\ state[Id(p)] = "CONNECTED"
          /\ Once(inbox[h][p]) /\ p[2] = "joiner"

\* Members only are told of a join, and not of their own.
MembersHear(h) ==
    \A n, x \in Node :
        /\ Heard(n, x) \/ NotifAt(n, x) => n # x /\ Member(h, n)
        /\ Heard(n, x) => ~Heard(x, n)

MemberSees(h, n) == Member(h, n) => Ids(peers[n]) = Present(h, n)

\* x knows, or is to read from, those who know of it.
NewcomerSees(h, x) ==
    Entering(h, x) =>
        /\ Ids(peers[x]) \subseteq Whole(h) \ {x}
        /\ \A m \in Node : Heard(m, x) => m \in Ids(peers[x]) \/ AckFrom(x, m)

\* m has told its successors of x.
HasTold(h, x, m) ==
    \A i \in RingIndex, s \in Node :
        s = Id(Successor(i, Canon(Whole(h) \ {x}), Local(m)))
        => Heard(s, x) \/ NotifAt(s, x)

\* The announcement goes round before READY is sent.
GoesRound(h) ==
    \A x \in Node :
        /\ Spreads(h, x) => \A m \in Node : Heard(m, x) => HasTold(h, x, m)
        /\ Entering(h, x) /\ ~Spreads(h, x) =>
              \A m \in Whole(h) \ {x} : Heard(m, x)

Orderly(h) ==
    /\ OneAtATime(h) /\ Stages(h) /\ Waits(h) /\ MembersHear(h) /\ GoesRound(h)
    /\ \A n \in Node : MemberSees(h, n) /\ NewcomerSees(h, n)

Course(h) == Calm(h) /\ Entrance(h) /\ Orderly(h)

\* The entry point is the first to hear.
LEMMA HeardAtEntry ==
    ASSUME NEW h \in Node, NoticesLogged(h), NEW n \in Node, NEW x \in Node,
           Heard(n, x) \/ NotifAt(n, x)
    PROVE  Heard(h, x)
<1>1. \A e \in Notifs : e.type = "JOIN_NOTIF"
  BY DEF Notifs
<1>2. PICK e \in Notifs : e.peer = x
  BY NotifsAre DEF Heard, NotifAt, Holds
<1>3. QED
  BY <1>1, <1>2 DEF NoticesLogged, Heard

LEMMA EntryConnected ==
    ASSUME NEW h \in Node, Course(h), NEW x \in Node, Heard(h, x)
    PROVE  state[h] = "CONNECTED" /\ localGroup[h] # NoGroup /\ x # h
<1>1. x # h
  BY DEF Course, Orderly, MembersHear
<1>2. x \in Present(h, h)
  BY <1>1 DEF Present, Whole
<1>3. Ids(peers[h]) = Present(h, h)
  BY DEF Course, Orderly, MemberSees, Member
<1>4. peers[h] # {}
  BY <1>2, <1>3 DEF Ids
<1>5. localGroup[h] # NoGroup
  BY <1>4 DEF Course, Calm, IInv, LocalGroupKept, KeptAt
<1>6. QED
  BY <1>1, <1>5 DEF Course, Calm, EntryKept

\* Whoever is CONNECTED has a group, and has been announced.
LEMMA ConnectedIn ==
    ASSUME NEW h \in Node, Course(h), NEW n \in Node, state[n] = "CONNECTED"
    PROVE  /\ n \in Whole(h) /\ state[h] = "CONNECTED"
           /\ localGroup[n] # NoGroup /\ localGroup[n] \in GroupId
           /\ groupIds[n] = {localGroup[n]}
<1>1. localGroup[n] # NoGroup
  BY DEF Course, Calm, IInv, LocalGroupKept, KeptAt
<1>2. /\ localGroup[n] = localGroup[h] /\ localGroup[h] # NoGroup
      /\ localGroup[n] \in GroupId /\ groupIds[n] = {localGroup[n]}
  BY <1>1, GroupAt DEF Course, Calm, Peace
<1>3. state[h] = "CONNECTED"
  BY <1>2 DEF Course, Calm, EntryKept
<1>4. n # h => Heard(h, n)
  <2>1. n # h => \E k \in Node : Heard(k, n)
    BY <1>1 DEF Course, Calm, Settled, MembersHeard
  <2>2. QED
    BY <2>1, HeardAtEntry DEF Course, Entrance
<1>5. QED
  BY <1>1, <1>2, <1>3, <1>4 DEF Whole

\* READY comes when everybody who is told has read so.
LEMMA TellingSpreads ==
    ASSUME NEW h \in Node, Course(h), NEW n \in Node, NEW x \in Node, NotifAt(n, x)
    PROVE  Spreads(h, x) /\ Heard(h, x) /\ x # h
<1>1. Heard(h, x) /\ x # h
  BY HeardAtEntry, EntryConnected DEF Course, Entrance
<1>2. ~Arrived(x)
  BY DEF NotifAt, Holds, Arrived
<1>3. ~ReadyMet(x)
  BY <1>1, <1>2 DEF Course, Calm, Settled, ReadyIsLate
<1>4. Entering(h, x) /\ ~ReadyAt(x)
  BY <1>1, <1>3 DEF ReadyMet, Entering, ReadyAt, Holds
<1>5. QED
  BY <1>1, <1>4 DEF Course, Orderly, Stages

LEMMA ReadyEnters ==
    ASSUME NEW h \in Node, Course(h), NEW x \in Node, state[x] # "CONNECTED",
           NEW q \in Peer, ReadyMsg \in Range(inbox[x][q])
    PROVE  /\ Entering(h, x) /\ x # h /\ ~Spreads(h, x) /\ ReadyAt(x)
           /\ Under(h, x) /\ Arrived(x)
<1>1. Heard(h, x)
  <2>1. q[2] = "entry"
    BY DEF Course, Calm, Settled, ReadyAtEntry
  <2>2. PICK n \in Node, p \in Peer : n = Id(q) /\ p = OtherEnd(x, q)
    BY Kinds
  <2>3. Id(p) = x /\ OtherEnd(n, p) = q
    BY <2>2, Kinds
  <2>4. p[2] \in Answering
    BY <2>1, <2>2 DEF OtherEnd, OtherKind, Answering
  <2>5. ~Silent(inbox[x][q])
    BY DEF Silent, Failure, ReadyMsg, Eof, Rst
  <2>6. Heard(n, x)
    BY <2>3, <2>4, <2>5, CInvAt DEF FreshAt, Course, Calm
  <2>7. QED
    BY <2>6, HeardAtEntry DEF Course, Entrance
<1>2. Entering(h, x) /\ x # h
  BY <1>1, EntryConnected DEF Entering
<1>3. ReadyAt(x)
  <2>1. Id(q) \in Node
    BY Kinds
  <2>2. QED
    BY <2>1 DEF ReadyAt, Holds
<1>4. ~Spreads(h, x) /\ Under(h, x)
  BY <1>2, <1>3 DEF Course, Orderly, Stages
<1>5. Arrived(x)
  BY <1>2 DEF Course, Calm, Settled, ReadyIsLate, ReadyMet
<1>6. QED
  BY <1>2, <1>3, <1>4, <1>5

\* While x joins, all the others are members and see one another.
LEMMA OthersAreIn ==
    ASSUME NEW h \in Node, Course(h), NEW x \in Node, Under(h, x)
    PROVE  /\ \A y \in Node : Entering(h, y) \/ Spreads(h, y) => y = x
           /\ \A n \in Whole(h) \ {x} : state[n] = "CONNECTED"
<1>1. \A y \in Node : Entering(h, y) \/ Spreads(h, y) => y = x
  BY DEF Course, Orderly, OneAtATime, Stages
<1>2. state[h] = "CONNECTED"
  BY EntryConnected DEF Under
<1>3. QED
  BY <1>1, <1>2 DEF Whole, Entering

\* The rings of a member
LEMMA RingOfMember ==
    ASSUME NEW h \in Node, Course(h), NEW n \in Node, state[n] = "CONNECTED",
           NEW g, g = groups[n][localGroup[n]]
    PROVE  /\ g \in Group /\ g = UpdateNeighbours(g, n)
           /\ Ids(g.ring) = Present(h, n) \cup {n}
<1>1. localGroup[n] \in GroupId /\ localGroup[n] # NoGroup /\ localGroup[n] \in groupIds[n]
  BY ConnectedIn
<1>2. g \in Group
  BY <1>1 DEF Course, Calm, IInv, TypeOK
<1>3. g = UpdateNeighbours(g, n)
  BY <1>1 DEF Course, Calm, Settled, NeighboursFresh, Peace, AllRun
<1>4. Ids(g.ring) = Present(h, n) \cup {n}
  BY <1>1 DEF Course, Entrance, RingAt, Orderly, MemberSees, Member
<1>5. QED
  BY <1>2, <1>3, <1>4

-----------------------------------------------------------------------------
(* Relays on fresh neighbours                                              *)

\* The neighbours of node n in a ring of the nodes of W
LEMMA FreshNeighbours ==
    ASSUME NEW g \in Group, NEW n \in Node, g = UpdateNeighbours(g, n),
           n \in Ids(g.ring), Ids(g.ring) # {n}
    PROVE  /\ g.succs = {Successor(i, g.ring, Local(n)) : i \in RingIndex}
           /\ g.preds = {Predecessor(i, g.ring, Local(n)) : i \in RingIndex}
<1>1. ~NoNeighbour(g.ring, n)
  BY DEF NoNeighbour
<1>2. PICK P, S : P = Predecessors(g.ring, n) /\ S = Successors(g.ring, n)
  OBVIOUS
<1>3. g = [g EXCEPT !.preds = P, !.succs = S]
  BY <1>1, <1>2 DEF UpdateNeighbours
<1>4. g.preds = P /\ g.succs = S
  BY <1>3 DEF Group
<1>5. QED
  BY <1>2, <1>4 DEF Predecessors, Successors

LEMMA FreshRelays ==
    ASSUME NEW g \in Group, NEW n \in Node, g = UpdateNeighbours(g, n),
           NEW W \in SUBSET Node, Ids(g.ring) = W, n \in W
    PROVE  /\ \A i \in RingIndex :
                 Id(Successor(i, Canon(W), Local(n))) \in Ids(g.succs) \cup {n}
           /\ Ids(Neighbours(g)) \subseteq W \ {n}
<1>1. PICK C \in SUBSET Peer : C = Canon(W) /\ Ids(C) = W
  BY CanonIsPeerMap DEF IsPeerMap
<1>2. Local(n) \in Peer /\ g.ring \in SUBSET Peer /\ g.ring # {} /\ C # {}
  BY <1>1, CanonIsPeerMap DEF Group, Ids
<1>3. ASSUME NEW i \in RingIndex
      PROVE  Id(Successor(i, C, Local(n))) \in Ids(g.succs) \cup {n}
  <2>1. CASE W = {n}
    <3>1. Successor(i, C, Local(n)) \in C
      BY <1>2, NeighbourInRing
    <3>2. QED
      BY <1>1, <2>1, <3>1 DEF Ids
  <2>2. CASE W # {n}
    <3>1. Successor(i, g.ring, Local(n)) \in g.succs
      BY <2>2, FreshNeighbours
    <3>2. Id(Successor(i, g.ring, Local(n))) = Id(Successor(i, C, Local(n)))
      BY <1>1, <1>2, NeighboursOfIds
    <3>3. QED
      BY <3>1, <3>2 DEF Ids
  <2>3. QED
    BY <2>1, <2>2
<1>4. Ids(Neighbours(g)) \subseteq W \ {n}
  <2>1. Sound(UpdateNeighbours(g, n), n)
    BY UpdateNeighboursSound
  <2>2. QED
    BY <2>1 DEF Sound
<1>5. QED
  BY <1>1, <1>3, <1>4

\* One relays to whom expects it, in rings of the same nodes.
LEMMA FreshMutual ==
    ASSUME NEW m \in Node, NEW n \in Node, m # n,
           NEW f \in Group, f = UpdateNeighbours(f, m),
           NEW g \in Group, g = UpdateNeighbours(g, n),
           Ids(f.ring) = Ids(g.ring), m \in Ids(g.ring), n \in Ids(g.ring)
    PROVE  m \in Ids(g.succs) <=> n \in Ids(f.preds)
<1>1. f.ring \in SUBSET Peer /\ g.ring \in SUBSET Peer
  BY DEF Group
<1>2. g.succs = {Successor(i, g.ring, Local(n)) : i \in RingIndex}
  BY FreshNeighbours
<1>3. f.preds = {Predecessor(i, f.ring, Local(m)) : i \in RingIndex}
  BY FreshNeighbours
<1>4. \A i \in RingIndex : Id(Successor(i, g.ring, Local(n))) = m
                           <=> Id(Predecessor(i, f.ring, Local(m))) = n
  BY <1>1, SuccessorIsMutual
<1>5. QED
  BY <1>2, <1>3, <1>4 DEF Ids

\* ... so that both are neighbours.
LEMMA FreshNear ==
    ASSUME NEW m \in Node, NEW n \in Node,
           NEW f \in Group, f = UpdateNeighbours(f, m),
           NEW g \in Group, g = UpdateNeighbours(g, n),
           Ids(f.ring) = Ids(g.ring), m \in Ids(g.ring), n \in Ids(g.ring)
    PROVE  m \in Ids(Neighbours(g)) => n \in Ids(Neighbours(f))
<1>1. m # n \/ m \notin Ids(Neighbours(g))
  <2>1. Sound(UpdateNeighbours(g, n), n)
    BY UpdateNeighboursSound
  <2>2. QED
    BY <2>1 DEF Sound
<1>2. m # n => (m \in Ids(g.succs) <=> n \in Ids(f.preds))
  BY FreshMutual
<1>3. m # n => (n \in Ids(f.succs) <=> m \in Ids(g.preds))
  BY FreshMutual
<1>4. /\ Ids(Neighbours(g)) = Ids(g.preds) \cup Ids(g.succs)
      /\ Ids(Neighbours(f)) = Ids(f.preds) \cup Ids(f.succs)
  BY DEF Neighbours, Ids
<1>5. QED
  BY <1>1, <1>2, <1>3, <1>4

-----------------------------------------------------------------------------
(* Steps while the entry point waits                                       *)

\* The entry point goes on waiting: x is announced, READY sent to the nodes of
\* Y, and those of Z become CONNECTED and say so.
Moves(h, x, M, S, Y, Z) ==
    /\ Flows(x, M, S, Y) /\ h \notin M
    /\ \A n \in Node : state'[n] = "CONNECTED" <=> state[n] = "CONNECTED" \/ n \in Z
    /\ \A y \in Node : Spreads(h, y)' <=> Spreads(h, y) /\ y \notin Y
    /\ joinToken'[h] = joinToken[h] /\ joinTimers'[h] = joinTimers[h]
    /\ groups'[h] = groups[h] /\ localGroup'[h] = localGroup[h]
    /\ \A q \in Peer :
          /\ peerState'[h][q] = "CONNECTED" <=> peerState[h][q] = "CONNECTED"
          /\ Told(inbox', h, q) =>
                \/ Told(inbox, h, q) /\ (Once(inbox[h][q]) => Once(inbox'[h][q]))
                \/ /\ Under(h, Id(q)) /\ Near(h, Id(q)) /\ Id(q) \in Z
                   /\ Once(inbox'[h][q]) /\ q[2] = "joiner"

\* It is the right moment.
May(h, x, M, S, Y, Z) ==
    /\ \A m \in M \cup S : m # x /\ Member(h, m)
    /\ M \cup S # {} => Heard(h, x) /\ state[x] # "CONNECTED"
    /\ \A m \in M, i \in RingIndex :
          Id(Successor(i, Canon(Whole(h) \ {x}), Local(m))) \in S \cup M
    /\ \A y \in Y : \A m \in Whole(h) \ {y} : Heard(m, y)
    /\ \A z \in Z : Entering(h, z) /\ ~Spreads(h, z)

\* The views grow by those who are announced.
Views(h, x, M, Z) ==
    \A n \in Node :
        /\ Member(h, n) => Ids(peers'[n]) = Ids(peers[n]) \cup {y \in {x} : n \in M}
        /\ ~Member(h, n) =>
              /\ Ids(peers[n]) \subseteq Ids(peers'[n])
              /\ Ids(peers'[n]) \subseteq Ids(peers[n]) \cup (Whole(h) \ {n})
        /\ n \in Z => Ids(peers'[n]) = Whole(h) \ {n}

LEMMA EntrySame ==
    ASSUME NEW h \in Node, NEW x, NEW M, NEW S, NEW Y, NEW Z, Moves(h, x, M, S, Y, Z)
    PROVE  /\ Whole(h)' = Whole(h)
           /\ \A y \in Node : /\ Heard(h, y)' <=> Heard(h, y)
                              /\ Under(h, y)' <=> Under(h, y)
                              /\ Near(h, y)' <=> Near(h, y)
<1>1. \A y \in Node : Heard(h, y)' <=> Heard(h, y)
  BY DEF Moves, Flows
<1>2. \A y \in Node : <<y, "joiner">> \in Peer
  BY JoinerPeers
<1>3. ASSUME NEW y \in Node
      PROVE  Under(h, y)' <=> Under(h, y)
  BY <1>1, <1>2 DEF Moves, Under
<1>4. \A y \in Node : Near(h, y)' <=> Near(h, y)
  BY DEF Moves, Near
<1>5. Whole(h)' = Whole(h)
  BY <1>1 DEF Whole
<1>6. QED
  BY <1>1, <1>3, <1>4, <1>5

LEMMA MovesOne ==
    ASSUME NEW h \in Node, OneAtATime(h), NEW x, NEW M, NEW S, NEW Y, NEW Z,
           Moves(h, x, M, S, Y, Z)
    PROVE  OneAtATime(h)'
<1>1. \A y \in Node : Under(h, y)' <=> Under(h, y)
  BY EntrySame
<1>2. joinToken'[h] = joinToken[h]
  BY DEF Moves
<1>3. QED
  BY <1>1, <1>2 DEF OneAtATime

LEMMA MovesStages ==
    ASSUME NEW h \in Node, Stages(h), NEW x, NEW M, NEW S, NEW Y, NEW Z,
           Moves(h, x, M, S, Y, Z), May(h, x, M, S, Y, Z)
    PROVE  Stages(h)'
<1> SUFFICES ASSUME NEW y \in Node
             PROVE  /\ Spreads(h, y)' => /\ Under(h, y)' /\ state'[y] # "CONNECTED"
                                         /\ ~ReadyAt(y)'
                    /\ Entering(h, y)' => /\ Under(h, y)'
                                          /\ Spreads(h, y)' \/ ReadyAt(y)'
  BY DEF Stages
<1>1. (Heard(h, y)' <=> Heard(h, y)) /\ (Under(h, y)' <=> Under(h, y))
  BY EntrySame
<1>2. /\ state'[y] = "CONNECTED" <=> state[y] = "CONNECTED" \/ y \in Z
      /\ Spreads(h, y)' <=> Spreads(h, y) /\ y \notin Y
      /\ Spreads(h, y) => y \notin Z
  BY DEF Moves, May
<1>3. /\ ReadyAt(y)' => ReadyAt(y) \/ y \in Y
      /\ ReadyAt(y) \/ y \in Y => ReadyAt(y)' \/ state'[y] = "CONNECTED"
  BY DEF Moves, Flows
<1>4. /\ Spreads(h, y) => Under(h, y) /\ state[y] # "CONNECTED" /\ ~ReadyAt(y)
      /\ Entering(h, y) => Under(h, y) /\ (Spreads(h, y) \/ ReadyAt(y))
  BY DEF Stages
<1>5. Entering(h, y)' => Entering(h, y) /\ state'[y] # "CONNECTED"
  BY <1>1, <1>2 DEF Entering
<1>6. QED
  BY <1>1, <1>2, <1>3, <1>4, <1>5

LEMMA MovesWaits ==
    ASSUME NEW h \in Node, Waits(h), TypeOK, NEW x, NEW M, NEW S, NEW Y, NEW Z,
           Moves(h, x, M, S, Y, Z)
    PROVE  Waits(h)'
<1>1. \A q \in Peer : Id(q) \in Node
  BY Kinds
<1>2. ASSUME NEW q \in joinTimers'[h]
      PROVE  Under(h, Id(q))' /\ ~Near(h, Id(q))'
  <2>1. q \in joinTimers[h] /\ q \in Peer
    BY <1>2 DEF Moves, TypeOK
  <2>2. Under(h, Id(q)) /\ ~Near(h, Id(q))
    BY <2>1 DEF Waits
  <2>3. PICK y \in Node : y = Id(q)
    BY <1>1, <2>1
  <2>4. Under(h, y)' /\ ~Near(h, y)'
    BY <2>2, <2>3, EntrySame
  <2>5. QED
    BY <2>3, <2>4
<1>3. ASSUME NEW q \in Peer, Told(inbox', h, q)
      PROVE  /\ Under(h, Id(q))' /\ Near(h, Id(q))' /\ state'[Id(q)] = "CONNECTED"
             /\ Once(inbox'[h][q]) /\ q[2] = "joiner"
  <2>1. PICK y \in Node : y = Id(q)
    BY <1>1
  <2>2. /\ Under(h, y) /\ Near(h, y) /\ (state[y] = "CONNECTED" \/ y \in Z)
        /\ Once(inbox'[h][q]) /\ q[2] = "joiner"
    BY <1>3, <2>1 DEF Moves, Waits
  <2>3. Under(h, y)' /\ Near(h, y)' /\ state'[y] = "CONNECTED"
    BY <2>2, EntrySame DEF Moves
  <2>4. QED
    BY <2>1, <2>2, <2>3
<1>4. QED
  BY <1>2, <1>3 DEF Waits, Told

LEMMA MovesHear ==
    ASSUME NEW h \in Node, Course(h), NEW x \in Node, NEW M, NEW S, NEW Y, NEW Z,
           Moves(h, x, M, S, Y, Z), May(h, x, M, S, Y, Z)
    PROVE  MembersHear(h)'
<1>1. M \cup S # {} => Heard(h, x) /\ x # h /\ state[x] # "CONNECTED"
  BY EntryConnected DEF May
<1>2. \A m \in Node : M \cup S # {} => ~Heard(x, m)
  BY <1>1 DEF Course, Orderly, MembersHear, Member
<1>3. \A n \in Node : Member(h, n) => Member(h, n)'
  BY DEF Member, Moves
<1>4. ASSUME NEW n \in Node, NEW y \in Node, Heard(n, y)' \/ NotifAt(n, y)'
      PROVE  n # y /\ Member(h, n)
  <2>1. Heard(n, y) \/ NotifAt(n, y) \/ (y = x /\ n \in M \cup S)
    BY <1>4 DEF Moves, Flows
  <2>2. QED
    BY <2>1 DEF May, Course, Orderly, MembersHear
<1>5. ASSUME NEW n \in Node, NEW y \in Node, Heard(n, y)', Heard(y, n)'
      PROVE  FALSE
  <2>1. /\ Heard(n, y) \/ (y = x /\ n \in M)
        /\ Heard(y, n) \/ (n = x /\ y \in M)
    BY <1>5 DEF Moves, Flows
  <2>2. n # x \/ y # x
    BY <1>4, <1>5
  <2>3. QED
    BY <1>2, <2>1, <2>2 DEF Course, Orderly, MembersHear
<1>6. QED
  BY <1>3, <1>4, <1>5 DEF MembersHear

LEMMA MovesRound ==
    ASSUME NEW h \in Node, GoesRound(h), NEW x \in Node,
           NEW M \in SUBSET Node, NEW S \in SUBSET Node, NEW Y, NEW Z,
           Moves(h, x, M, S, Y, Z), May(h, x, M, S, Y, Z)
    PROVE  GoesRound(h)'
<1>1. Whole(h)' = Whole(h)
  BY EntrySame
<1>2. \A n, y \in Node : /\ Heard(n, y)' <=> Heard(n, y) \/ (y = x /\ n \in M)
                         /\ NotifAt(n, y) \/ (y = x /\ n \in S)
                            => NotifAt(n, y)' \/ Heard(n, y)'
  BY DEF Moves, Flows
<1>3. Whole(h) \subseteq Node
  BY DEF Whole
<1>4. ASSUME NEW y \in Node, Spreads(h, y)', NEW m \in Node, Heard(m, y)'
      PROVE  HasTold(h, y, m)'
  <2>1. Spreads(h, y)
    BY <1>4 DEF Moves
  <2> SUFFICES ASSUME NEW i \in RingIndex, NEW s \in Node,
                      s = Id(Successor(i, Canon(Whole(h) \ {y}), Local(m)))
               PROVE  Heard(s, y)' \/ NotifAt(s, y)'
    BY <1>1 DEF HasTold
  <2>2. CASE Heard(m, y)
    <3>1. HasTold(h, y, m)
      BY <2>1, <2>2 DEF GoesRound
    <3>2. Heard(s, y) \/ NotifAt(s, y)
      BY <3>1 DEF HasTold
    <3>3. QED
      BY <1>2, <3>2
  <2>3. CASE ~Heard(m, y)
    <3>1. y = x /\ m \in M
      BY <1>2, <1>4, <2>3
    <3>2. s \in S \cup M
      BY <3>1 DEF May
    <3>3. QED
      BY <1>2, <3>1, <3>2
  <2>4. QED
    BY <2>2, <2>3
<1>5. ASSUME NEW y \in Node, Entering(h, y)', ~Spreads(h, y)', NEW m \in Whole(h) \ {y}
      PROVE  Heard(m, y)'
  <2>1. Heard(h, y) /\ state[y] # "CONNECTED"
    BY <1>5, EntrySame DEF Entering, Moves
  <2>2. CASE Spreads(h, y)
    <3>1. y \in Y
      BY <1>5, <2>2 DEF Moves
    <3>2. Heard(m, y)
      BY <1>5, <3>1 DEF May
    <3>3. QED
      BY <1>2, <1>3, <3>2
  <2>3. CASE ~Spreads(h, y)
    <3>1. Heard(m, y)
      BY <1>5, <2>1, <2>3 DEF GoesRound, Entering
    <3>2. QED
      BY <1>2, <1>3, <3>1
  <2>4. QED
    BY <2>2, <2>3
<1>6. QED
  BY <1>1, <1>4, <1>5 DEF GoesRound

LEMMA MovesPresent ==
    ASSUME NEW h \in Node, Course(h), NEW x \in Node, NEW M, NEW S, NEW Y, NEW Z,
           Moves(h, x, M, S, Y, Z), May(h, x, M, S, Y, Z),
           NEW n \in Whole(h)
    PROVE  Present(h, n)' = Present(h, n) \cup {y \in {x} : n \in M}
<1>1. Whole(h)' = Whole(h) /\ Whole(h) \subseteq Node /\ n \in Node
  BY EntrySame DEF Whole
<1>2. \A y \in Node : Heard(n, y)' <=> Heard(n, y) \/ (y = x /\ n \in M)
  BY <1>1 DEF Moves, Flows
<1>3. ASSUME NEW y \in Whole(h) \ {n}
      PROVE  (Spreads(h, y)' => Heard(n, y)')
             <=> (Spreads(h, y) => Heard(n, y)) \/ (y = x /\ n \in M)
  <2>1. Spreads(h, y)' <=> Spreads(h, y) /\ y \notin Y
    BY <1>1, <1>3 DEF Moves
  <2>2. y \in Y => Heard(n, y)
    BY <1>3 DEF May
  <2>3. QED
    BY <1>1, <1>2, <1>3, <2>1, <2>2
<1>4. n \in M => x \in Whole(h) \ {n}
  BY <1>1 DEF May, Whole
<1>5. QED
  BY <1>1, <1>3, <1>4 DEF Present

LEMMA MovesSee ==
    ASSUME NEW h \in Node, Course(h), NEW x \in Node, NEW M, NEW S, NEW Y, NEW Z,
           Moves(h, x, M, S, Y, Z), May(h, x, M, S, Y, Z), Views(h, x, M, Z),
           NEW n \in Node
    PROVE  MemberSees(h, n)'
<1> SUFFICES ASSUME Member(h, n)'
             PROVE  Ids(peers'[n]) = Present(h, n)'
  BY DEF MemberSees
<1>1. CASE Member(h, n)
  <2>1. Ids(peers[n]) = Present(h, n)
    BY <1>1 DEF Course, Orderly, MemberSees
  <2>2. Ids(peers'[n]) = Ids(peers[n]) \cup {y \in {x} : n \in M}
    BY <1>1 DEF Views
  <2>3. n \in Whole(h)
    BY <1>1, ConnectedIn DEF Member, Whole
  <2>4. Present(h, n)' = Present(h, n) \cup {y \in {x} : n \in M}
    BY <2>3, MovesPresent
  <2>5. QED
    BY <2>1, <2>2, <2>4
<1>2. CASE ~Member(h, n)
  <2>1. n \in Z /\ Ids(peers'[n]) = Whole(h) \ {n}
    BY <1>2 DEF Member, Moves, Views
  <2>2. Entering(h, n) /\ ~Spreads(h, n) /\ Under(h, n)
    BY <2>1 DEF May, Course, Orderly, Stages
  <2>3. \A y \in Node : ~Spreads(h, y)
    BY <2>2, OthersAreIn
  <2>4. \A y \in Node : ~Spreads(h, y)'
    BY <2>3 DEF Moves
  <2>5. Whole(h)' = Whole(h) /\ Whole(h) \subseteq Node
    BY EntrySame DEF Whole
  <2>6. Present(h, n)' = Whole(h) \ {n}
    BY <2>4, <2>5 DEF Present
  <2>7. QED
    BY <2>1, <2>6
<1>3. QED
  BY <1>1, <1>2

LEMMA MovesNewcomer ==
    ASSUME NEW h \in Node, Course(h), NEW x \in Node, NEW M, NEW S, NEW Y, NEW Z,
           Moves(h, x, M, S, Y, Z), May(h, x, M, S, Y, Z), Views(h, x, M, Z),
           NEW n \in Node
    PROVE  NewcomerSees(h, n)'
<1> SUFFICES ASSUME Entering(h, n)'
             PROVE  /\ Ids(peers'[n]) \subseteq Whole(h)' \ {n}
                    /\ \A m \in Node : Heard(m, n)' =>
                          m \in Ids(peers'[n]) \/ AckFrom(n, m)'
  BY DEF NewcomerSees
<1>1. Entering(h, n) /\ Whole(h)' = Whole(h)
  BY EntrySame DEF Entering, Moves
<1>2. ~Member(h, n)
  BY <1>1, EntryConnected DEF Entering, Member
<1>3. /\ Ids(peers[n]) \subseteq Ids(peers'[n])
      /\ Ids(peers'[n]) \subseteq Ids(peers[n]) \cup (Whole(h) \ {n})
  BY <1>2 DEF Views
<1>4. /\ Ids(peers[n]) \subseteq Whole(h) \ {n}
      /\ \A m \in Node : Heard(m, n) => m \in Ids(peers[n]) \/ AckFrom(n, m)
  BY <1>1 DEF Course, Orderly, NewcomerSees
<1>5. ASSUME NEW m \in Node, Heard(m, n)'
      PROVE  m \in Ids(peers'[n]) \/ AckFrom(n, m)'
  <2>1. Heard(m, n) \/ (n = x /\ m \in M)
    BY <1>5 DEF Moves, Flows
  <2>2. m \in Ids(peers[n]) \/ AckFrom(n, m) \/ (n = x /\ m \in M)
    BY <1>4, <2>1
  <2>3. QED
    BY <1>3, <2>2 DEF Moves, Flows
<1>6. QED
  BY <1>1, <1>3, <1>4, <1>5

LEMMA MovesOrderly ==
    ASSUME NEW h \in Node, Course(h), NEW x \in Node,
           NEW M \in SUBSET Node, NEW S \in SUBSET Node, NEW Y, NEW Z,
           Moves(h, x, M, S, Y, Z), May(h, x, M, S, Y, Z), Views(h, x, M, Z)
    PROVE  Orderly(h)'
<1>1. OneAtATime(h) /\ Stages(h) /\ Waits(h) /\ GoesRound(h) /\ TypeOK
  BY DEF Course, Orderly, Calm, IInv
<1>2. OneAtATime(h)'
  BY <1>1, MovesOne
<1>3. Stages(h)'
  BY <1>1, MovesStages
<1>4. Waits(h)'
  BY <1>1, MovesWaits
<1>5. MembersHear(h)'
  BY MovesHear
<1>6. GoesRound(h)'
  BY <1>1, MovesRound
<1>7. \A n \in Node : MemberSees(h, n)' /\ NewcomerSees(h, n)'
  BY MovesSee, MovesNewcomer
<1>8. QED
  BY <1>2, <1>3, <1>4, <1>5, <1>6, <1>7 DEF Orderly

-----------------------------------------------------------------------------
(* The token is back, and goes to the next one                             *)

\* The entry point has heard from everybody.
Released(h) ==
    /\ \A y \in Node : /\ ~Entering(h, y) /\ ~Spreads(h, y)
                       /\ Heard(h, y) => peerState'[h][<<y, "joiner">>] = "CONNECTED"
    /\ \A q \in Peer : ~Told(inbox', h, q)

Closes(h) ==
    /\ Released(h) /\ Flows(h, {}, {}, {})
    /\ UNCHANGED <<state, peers>>
    /\ readyTimers'[h] = readyTimers[h] /\ joinTimers'[h] = {}

Newcomer(h, x) ==
    /\ x # h /\ state[x] # "CONNECTED" /\ ~ReadyAt(x) /\ peers[x] = {}
    /\ \A n \in Node : ~Heard(n, x) /\ ~NotifAt(n, x)

\* The entry point lets c in, and tells the nodes of S.
Opens(h, c, S) ==
    /\ Released(h) /\ Newcomer(h, Id(c)) /\ c[2] = "joiner"
    /\ Flows(Id(c), {h}, S, {}) /\ ~joinToken'[h] /\ Ids(readyTimers'[h]) = {Id(c)}
    /\ peerState'[h][c] = "JOINING" /\ joinTimers'[h] \subseteq {c}
    /\ c \in joinTimers'[h] <=> ~Near(h, Id(c))'
    /\ peers'[h] = Put(peers[h], c) /\ state'[h] = "CONNECTED"
    /\ \A n \in Node \ {h} : peers'[n] = peers[n] /\ state'[n] = state[n]
    /\ S \subseteq Whole(h) \ {h}
    /\ \A i \in RingIndex : Id(Successor(i, Canon(Whole(h)), Local(h))) \in S \cup {h}

LEMMA ClosesOrderly ==
    ASSUME NEW h \in Node, Course(h), Closes(h)
    PROVE  Orderly(h)'
<1>1. \A n, y \in Node : /\ Heard(n, y)' <=> Heard(n, y)
                         /\ NotifAt(n, y)' => NotifAt(n, y)
  BY DEF Closes, Flows
<1>2. \A y \in Node : ~Under(h, y)' /\ ~Entering(h, y)' /\ ~Spreads(h, y)'
  BY <1>1 DEF Closes, Released, Under, Entering, Spreads
<1>3. OneAtATime(h)' /\ Stages(h)' /\ GoesRound(h)'
  BY <1>2 DEF OneAtATime, Stages, GoesRound
<1>4. Waits(h)'
  BY DEF Waits, Closes, Released, Told
<1>5. MembersHear(h)'
  BY <1>1 DEF Course, Orderly, MembersHear, Closes, Member
<1>6. Whole(h)' = Whole(h) /\ Whole(h) \subseteq Node
  BY <1>1 DEF Whole
<1>7. ASSUME NEW n \in Node
      PROVE  MemberSees(h, n)'
  <2>1. Present(h, n)' = Present(h, n)
    BY <1>2, <1>6 DEF Present, Closes, Released
  <2>2. QED
    BY <2>1 DEF Course, Orderly, MemberSees, Member, Closes
<1>8. \A n \in Node : NewcomerSees(h, n)'
  BY <1>2 DEF NewcomerSees
<1>9. QED
  BY <1>3, <1>4, <1>5, <1>7, <1>8 DEF Orderly

LEMMA OpensOrderly ==
    ASSUME NEW h \in Node, Course(h), NEW c \in Peer, NEW S, Opens(h, c, S)
    PROVE  Orderly(h)'
<1>1. PICK x \in Node : x = Id(c) /\ c = <<x, "joiner">>
  BY Kinds DEF Opens
<1>2. /\ x # h /\ state[x] # "CONNECTED" /\ ~ReadyAt(x) /\ peers[x] = {}
      /\ \A n \in Node : ~Heard(n, x) /\ ~NotifAt(n, x)
  BY <1>1 DEF Opens, Newcomer
<1>3. \A n, y \in Node : /\ Heard(n, y)' <=> Heard(n, y) \/ (y = x /\ n = h)
                         /\ NotifAt(n, y)' => NotifAt(n, y) \/ (y = x /\ n \in S)
                         /\ y = x /\ n \in S => NotifAt(n, y)' \/ Heard(n, y)'
  BY <1>1 DEF Opens, Flows
<1>4. /\ \A y \in Node : ~Entering(h, y) /\ ~Spreads(h, y)
      /\ \A y \in Node : Heard(h, y) => peerState'[h][<<y, "joiner">>] = "CONNECTED"
      /\ \A q \in Peer : ~Told(inbox', h, q)
  BY DEF Opens, Released
<1>5. \A y \in Node : Spreads(h, y)' <=> y = x
  BY <1>1 DEF Opens, Spreads
<1>6. \A y \in Node : ~Heard(y, h)
  BY HeardAtEntry DEF Course, Entrance, Orderly, MembersHear
<1>7. \A n \in Node : state'[n] = "CONNECTED" <=> n = h \/ state[n] = "CONNECTED"
  BY DEF Opens
<1>8. \A y \in Node : /\ Under(h, y)' <=> y = x
                      /\ Entering(h, y)' <=> y = x
  <2>1. Under(h, x)' /\ Entering(h, x)'
    BY <1>1, <1>2, <1>3, <1>7 DEF Opens, Under, Entering
  <2>2. ASSUME NEW y \in Node, y # x
        PROVE  ~Under(h, y)' /\ ~Entering(h, y)'
    BY <1>3, <1>4, <1>7, <2>2 DEF Under, Entering
  <2>3. QED
    BY <2>1, <2>2
<1>9. OneAtATime(h)'
  BY <1>8 DEF OneAtATime, Opens
<1>10. Stages(h)'
  <2>1. ~ReadyAt(x)'
    BY <1>1, <1>2 DEF Opens, Flows
  <2>2. QED
    BY <1>2, <1>5, <1>7, <1>8, <2>1 DEF Stages
<1>11. Waits(h)'
  BY <1>1, <1>4, <1>8 DEF Waits, Opens, Told
<1>12. Whole(h)' = Whole(h) \cup {x} /\ x \notin Whole(h) /\ Whole(h) \subseteq Node
  BY <1>2, <1>3 DEF Whole
<1>13. \A n \in Whole(h) : n = h \/ state[n] = "CONNECTED"
  BY <1>4 DEF Whole, Entering
<1>14. MembersHear(h)'
  <2>1. \A n \in Node : Member(h, n)' <=> Member(h, n)
    BY <1>7 DEF Member
  <2>2. \A s \in S : s # x /\ Member(h, s)
    BY <1>12, <1>13 DEF Opens, Member
  <2>3. \A n, y \in Node :
           /\ Heard(n, y) \/ NotifAt(n, y) => n # y /\ Member(h, n)
           /\ Heard(n, y) => ~Heard(y, n)
    BY DEF Course, Orderly, MembersHear
  <2>4. Member(h, h)
    BY DEF Member
  <2>5. ASSUME NEW n \in Node, NEW y \in Node
        PROVE  /\ Heard(n, y)' \/ NotifAt(n, y)' => n # y /\ Member(h, n)'
               /\ Heard(n, y)' => ~Heard(y, n)'
    BY <1>2, <1>3, <1>6, <2>1, <2>2, <2>3, <2>4
  <2>6. QED
    BY <2>5 DEF MembersHear
<1>15. GoesRound(h)'
  <2>1. Whole(h)' \ {x} = Whole(h)
    BY <1>12
  <2>2. ASSUME NEW i \in RingIndex, NEW s \in Node,
               s = Id(Successor(i, Canon(Whole(h)), Local(h)))
        PROVE  Heard(s, x)' \/ NotifAt(s, x)'
    BY <1>3, <2>2 DEF Opens
  <2>3. HasTold(h, x, h)'
    BY <2>1, <2>2 DEF HasTold
  <2>4. \A m \in Node : Heard(m, x)' => m = h
    BY <1>2, <1>3
  <2>5. QED
    BY <1>5, <1>8, <2>3, <2>4 DEF GoesRound
<1>16. ASSUME NEW n \in Node
       PROVE  MemberSees(h, n)'
  <2> SUFFICES ASSUME n = h \/ state[n] = "CONNECTED"
               PROVE  Ids(peers'[n]) = Present(h, n)'
    BY <1>7 DEF MemberSees, Member
  <2>1. Ids(peers[n]) = Present(h, n)
    BY DEF Course, Orderly, MemberSees, Member
  <2>2. Present(h, n) = Whole(h) \ {n}
    BY <1>4, <1>12 DEF Present
  <2>3. Present(h, n)' = {y \in (Whole(h) \cup {x}) \ {n} : y = x => n = h}
    BY <1>2, <1>3, <1>5, <1>12 DEF Present
  <2>4. Ids(peers'[h]) = Ids(peers[h]) \cup {x}
    BY <1>1 DEF Opens, Put, Ids
  <2>5. CASE n = h
    BY <1>2, <2>1, <2>2, <2>3, <2>4, <2>5
  <2>6. CASE n # h
    <3>1. peers'[n] = peers[n]
      BY <2>6 DEF Opens
    <3>2. QED
      BY <1>12, <2>1, <2>2, <2>3, <2>6, <3>1
  <2>7. QED
    BY <2>5, <2>6
<1>17. ASSUME NEW n \in Node
       PROVE  NewcomerSees(h, n)'
  <2> SUFFICES ASSUME n = x
               PROVE  /\ Ids(peers'[n]) \subseteq Whole(h)' \ {n}
                      /\ \A m \in Node : Heard(m, n)' =>
                            m \in Ids(peers'[n]) \/ AckFrom(n, m)'
    BY <1>8 DEF NewcomerSees
  <2>1. Ids(peers'[n]) = {}
    BY <1>2 DEF Opens, Ids
  <2>2. AckFrom(x, h)' \/ h \in Ids(peers'[x])
    BY <1>1 DEF Opens, Flows
  <2>3. QED
    BY <1>2, <1>3, <2>1, <2>2
<1>18. QED
  BY <1>9, <1>10, <1>11, <1>14, <1>15, <1>16, <1>17 DEF Orderly

-----------------------------------------------------------------------------
(* What a member waits for                                                 *)

\* A Peer of n's view is CONNECTED, or n waits for a timer, for the node to be
\* CONNECTED, or has yet to read its READY Notification.
Awaited(n) ==
    \A p \in peers[n] : peerState[n][p] # "CONNECTED" =>
        \/ p \in joinTimers[n]
        \/ state[Id(p)] # "CONNECTED" /\ Near(n, Id(p))
        \/ Told(inbox, n, p)

\* The token is taken for a Peer that joins.
TokenTaken(n) == ~joinToken[n] => \E p \in peers[n] : peerState[n][p] = "JOINING"

Awaits == \A n \in Node : Awaited(n) /\ TokenTaken(n)

LEMMA AwaitedKept ==
    ASSUME NEW n, Awaited(n), peers'[n] = peers[n],
           joinTimers[n] \subseteq joinTimers'[n],
           groups'[n] = groups[n], localGroup'[n] = localGroup[n],
           \A p \in peers[n] :
              /\ peerState[n][p] = "CONNECTED" => peerState'[n][p] = "CONNECTED"
              /\ state[Id(p)] # "CONNECTED" => state'[Id(p)] # "CONNECTED"
              /\ Told(inbox, n, p) => Told(inbox', n, p)
    PROVE  Awaited(n)'
<1> SUFFICES ASSUME NEW p \in peers[n], peerState'[n][p] # "CONNECTED"
             PROVE  \/ p \in joinTimers'[n]
                    \/ state'[Id(p)] # "CONNECTED" /\ Near(n, Id(p))'
                    \/ Told(inbox', n, p)
  BY DEF Awaited, Told
<1>1. Near(n, Id(p))' <=> Near(n, Id(p))
  BY DEF Near
<1>2. QED
  BY <1>1 DEF Awaited

LEMMA TokenTakenKept ==
    ASSUME NEW n, TokenTaken(n), peers'[n] = peers[n], joinToken'[n] = joinToken[n],
           \A p \in peers[n] :
              peerState[n][p] = "JOINING" => peerState'[n][p] = "JOINING"
    PROVE  TokenTaken(n)'
  BY DEF TokenTaken

LEMMA AsideOrderly ==
    ASSUME NEW h \in Node, Course(h), Awaits, NEW a \in Node, Aside(h, a)
    PROVE  Orderly(h)' /\ Awaits'
<1>1. Flows(h, {}, {}, {})
  BY PassesFlow DEF Aside
<1>2. \A r \in Node, q \in Peer :
         /\ Told(inbox', r, q) <=> Told(inbox, r, q)
         /\ Once(inbox[r][q]) => Once(inbox'[r][q])
  <2>1. ReadyNotifMsg.type = "READY_NOTIF" /\ \A r : ~Idle(r, ReadyNotifMsg)
    BY DEF ReadyNotifMsg, Idle, Control
  <2>2. QED
    BY <2>1 DEF Aside, Passes, Told, Control
<1>3. \A n \in Node : /\ state'[n] = "CONNECTED" <=> state[n] = "CONNECTED"
                      /\ peers'[n] = peers[n] /\ groups'[n] = groups[n]
                      /\ localGroup'[n] = localGroup[n] /\ joinToken'[n] = joinToken[n]
                      /\ readyTimers'[n] = readyTimers[n] /\ joinTimers'[n] = joinTimers[n]
  BY DEF Aside, OnlyAt
<1>4. \A n \in Node, q \in Peer :
         \/ peerState'[n][q] = peerState[n][q]
         \/ q[2] = "joiner" /\ ~Known(n, q) /\ peerState'[n][q] = "JOINING"
  BY DEF Aside, OnlyAt
<1>5. Moves(h, h, {}, {}, {}, {})
  BY <1>1, <1>2, <1>3, <1>4 DEF Moves, Spreads, Known
<1>6. May(h, h, {}, {}, {}, {}) /\ Views(h, h, {}, {})
  BY <1>3 DEF May, Views
<1>7. Orderly(h)'
  BY <1>5, <1>6, MovesOrderly
<1>8. \A n \in Node : \A p \in peers[n] : p \in Peer /\ peerState'[n][p] = peerState[n][p]
  <2>1. ASSUME NEW n \in Node, NEW p \in peers[n]
        PROVE  p \in Peer /\ (p[2] = "joiner" => Known(n, p))
    <3>1. p \in Peer /\ p \in Written(n)
      BY WrittenParts DEF Course, Calm, IInv, TypeOK
    <3>2. p[2] = "joiner" => p # Local(n)
      BY DEF Local
    <3>3. QED
      BY <3>1, <3>2, CInvAt DEF Course, Calm, WrittenAt
  <2>2. QED
    BY <1>4, <2>1
<1>9. ASSUME NEW n \in Node
      PROVE  Awaited(n)' /\ TokenTaken(n)'
  <2>1. Awaited(n) /\ TokenTaken(n)
    BY DEF Awaits
  <2>2. \A p \in peers[n] : /\ peerState'[n][p] = peerState[n][p]
                            /\ state[Id(p)] # "CONNECTED" => state'[Id(p)] # "CONNECTED"
                            /\ Told(inbox, n, p) => Told(inbox', n, p)
    BY <1>2, <1>3, <1>8, Kinds
  <2>3. Awaited(n)'
    BY <1>3, <2>1, <2>2, AwaitedKept
  <2>4. TokenTaken(n)'
    BY <1>3, <2>1, <2>2, TokenTakenKept
  <2>5. QED
    BY <2>3, <2>4
<1>10. QED
  BY <1>7, <1>9 DEF Awaits

\* Those in one's view have been announced; those one waits for have called, or
\* been called.
LEMMA ViewKinds ==
    ASSUME NEW h \in Node, Course(h), NEW n \in Node, NEW p \in peers[n]
    PROVE  /\ p \in Peer /\ Id(p) \in Whole(h) \ {n} /\ Known(n, p)
           /\ MayBe(h, n, p, peerState[n][p])
           /\ p[2] \in Answering => Heard(n, Id(p))
           /\ peerState[n][p] # "CONNECTED" =>
                 /\ p[2] = IF n = h THEN "joiner" ELSE "called"
                 /\ Member(h, n)
<1>1. p \in Peer /\ p \in Written(n) /\ Id(p) \in Ids(peers[n]) /\ Id(p) \in Node
  BY WrittenParts, Kinds DEF Course, Calm, IInv, TypeOK, Ids
<1>2. Id(p) \in Whole(h) \ {n}
  <2>1. CASE Member(h, n)
    BY <1>1, <2>1 DEF Course, Orderly, MemberSees, Present
  <2>2. CASE ~Member(h, n)
    <3>1. localGroup[n] # NoGroup
      BY DEF Course, Calm, IInv, LocalGroupKept, KeptAt
    <3>2. \E k \in Node : Heard(k, n)
      BY <2>2, <3>1 DEF Course, Calm, Settled, MembersHeard, Member
    <3>3. Heard(h, n)
      BY <3>2, HeardAtEntry DEF Course, Entrance
    <3>4. Entering(h, n)
      BY <2>2, <3>3 DEF Entering, Member
    <3>5. QED
      BY <1>1, <3>4 DEF Course, Orderly, NewcomerSees
  <2>3. QED
    BY <2>1, <2>2
<1>3. Known(n, p)
  <2>1. p # Local(n)
    BY <1>2 DEF Local, Id
  <2>2. QED
    BY <1>1, <2>1, CInvAt DEF Course, Calm, WrittenAt
<1>4. MayBe(h, n, p, peerState[n][p])
  BY <1>1, <1>3 DEF Course, Entrance, KnownAs
<1>5. p[2] \in Answering => Heard(n, Id(p))
  BY <1>1, CInvAt DEF Course, Calm, FreshAt
<1>6. ASSUME peerState[n][p] # "CONNECTED"
      PROVE  /\ p[2] = IF n = h THEN "joiner" ELSE "called"
             /\ Member(h, n)
  <2>1. p[2] \in PeerKind
    BY <1>1, Kinds
  <2>2. p[2] = IF n = h THEN "joiner" ELSE "called"
    BY <1>4, <1>6, <2>1 DEF MayBe, PeerKind, Asking
  <2>3. Heard(n, Id(p))
    BY <1>5, <2>2 DEF Answering
  <2>4. QED
    BY <1>1, <2>2, <2>3 DEF Course, Orderly, MembersHear
<1>7. QED
  BY <1>1, <1>2, <1>3, <1>4, <1>5, <1>6

-----------------------------------------------------------------------------
(* check_for_new_peers                                                     *)

\* No announcement, acknowledgement or READY is read.
LEMMA LacksFlow ==
    ASSUME NEW a, Lacks(inbox', a, NoNode), logs' = logs, NEW x
    PROVE  Flows(x, {}, {}, {})
<1>1. \A n, y \in Node : Heard(n, y)' <=> Heard(n, y)
  BY DEF Heard
<1>2. \A e \in Message : e.type = "JOIN_NOTIF" => e.peer # NoNode
  BY MessageFields, NetworkAssumption
<1>3. \A r, k \in Node, e \in Message :
         /\ Holds(inbox', r, k, e) => Holds(inbox, r, k, e)
         /\ Holds(inbox, r, k, e) /\ e.type \in {"JOIN_NOTIF", "JOIN_ACK", "READY"}
            => Holds(inbox', r, k, e)
  BY <1>2 DEF Lacks
<1>4. \A n, y \in Node : NotifAt(n, y)' <=> NotifAt(n, y)
  BY <1>3 DEF NotifAt
<1>5. \A n, y \in Node : AckFrom(y, n)' <=> AckFrom(y, n)
  BY <1>3 DEF AckFrom
<1>6. \A y \in Node : ReadyAt(y)' <=> ReadyAt(y)
  <2>1. ReadyMsg \in Message /\ ReadyMsg.type = "READY"
    BY DEF ReadyMsg, Message
  <2>2. QED
    BY <1>3, <2>1 DEF ReadyAt
<1>7. QED
  BY <1>1, <1>4, <1>5, <1>6 DEF Flows

\* Node a has heard from Peer p, and has its token back.
Releases(a, p) ==
    /\ UNCHANGED <<state, peers, groups, localGroup, readyTimers, newPeers, logs>>
    /\ \A n \in Node, q \in Peer :
          peerState'[n][q] = IF n = a /\ q = p THEN "CONNECTED" ELSE peerState[n][q]
    /\ joinToken'[a]
    /\ \A n \in Node \ {a} : /\ joinToken'[n] = joinToken[n]
                             /\ joinTimers'[n] = joinTimers[n]
    /\ \/ joinTimers'[a] = joinTimers[a]
       \/ p \in joinTimers[a] /\ joinTimers'[a] = EraseId(joinTimers[a], Id(p))
    /\ Lacks(inbox', a, NoNode) /\ Notes(inbox', {<<a, p>>}) /\ Notices(inbox', {})

LEMMA ReleasesEntrance ==
    ASSUME NEW h \in Node, Course(h), NEW a \in Node, NEW p \in Peer, Releases(a, p),
           Known(a, p), Heard(a, Id(p)) \/ p[2] \in Asking
    PROVE  Entrance(h)'
<1>1. /\ UNCHANGED <<state, peers, groups, localGroup>>
      /\ UNCHANGED <<readyTimers, newPeers, logs>>
  BY DEF Releases
<1>2. LogsGrow
  BY <1>1 DEF LogsGrow
<1>3. NoticesLogged(h)'
  <2>1. PICK M : M = {}
    OBVIOUS
  <2>2. \A n \in Node : \A e \in logs'[n] :
           e.type = "JOIN_NOTIF" => e \in Notifs \cup M
    BY <1>1, NotifsAre
  <2>3. \A n \in Node, q \in Peer : \A e \in Range(inbox'[n][q]) :
              e.type = "JOIN_NOTIF" => e \in Notifs \cup M
    BY <2>1 DEF Releases, Notices
  <2>4. NoticesLogged(h)
    BY DEF Course, Entrance
  <2>5. QED
    BY <1>2, <2>1, <2>2, <2>3, <2>4, NoticesKept
<1>4. \A n \in Node, q \in Peer : Known(n, q)' <=> Known(n, q)
  BY DEF Releases, Known
<1>5. PortsKnown(h)'
  <2> SUFFICES ASSUME NEW k \in Addr, NEW e, e = newPeers[h][k],
                      e.peer # NoPeer, Known(h, e.peer)'
               PROVE  e.port = Id(e.peer)
    BY <1>1 DEF PortsKnown
  <2>1. e.peer \in Peer
    BY DEF Course, Calm, IInv, TypeOK, NewPeerEntry
  <2>2. QED
    BY <1>4, <2>1 DEF Course, Entrance, PortsKnown
<1>6. OthersDoNotAnswer(h)'
  BY <1>1 DEF Course, Entrance, OthersDoNotAnswer
<1>7. KnownAs(h)'
  <2>1. ASSUME NEW n \in Node, NEW q \in Peer, peerState'[n][q] # peerState[n][q]
        PROVE  MayBe(h, n, q, peerState'[n][q])
    <3>1. n = a /\ q = p /\ peerState'[n][q] = "CONNECTED"
      BY <2>1 DEF Releases
    <3>2. MayBe(h, a, p, peerState[a][p])
      BY DEF Course, Entrance, KnownAs
    <3>3. p[2] \in Answering => Heard(a, Id(p))
      BY DEF Asking, Answering
    <3>4. QED
      BY <3>1, <3>2, <3>3 DEF MayBe
  <2>2. QED
    BY <1>2, <2>1, KnownAsKept DEF Course, Entrance
<1>8. \A n \in Node : RingAt(n)'
  BY <1>1, RingKept DEF Course, Entrance
<1>9. AnsweredWait'
  <2>1. \A n \in Node : joinTimers'[n] \subseteq joinTimers[n]
    BY DEF Releases, EraseId
  <2>2. QED
    BY <2>1 DEF Course, Entrance, AnsweredWait
<1>10. QED
  BY <1>3, <1>5, <1>6, <1>7, <1>8, <1>9 DEF Entrance

LEMMA ReleasesAwaits ==
    ASSUME NEW h \in Node, Course(h), Awaits, NEW a \in Node, NEW p \in Peer,
           Releases(a, p), Known(a, p)
    PROVE  Awaits'
<1>1. UNCHANGED <<state, peers, groups, localGroup>>
  BY DEF Releases
<1>2. \A n \in Node, q \in Peer : Told(inbox, n, q) =>
         Told(inbox', n, q) \/ (n = a /\ q = p)
  BY DEF Releases, Notes
<1>3. ASSUME NEW n \in Node \ {a}
      PROVE  Awaited(n)' /\ TokenTaken(n)'
  <2>1. Awaited(n) /\ TokenTaken(n)
    BY DEF Awaits
  <2>2. \A q \in peers[n] : q \in Peer
    BY DEF Course, Calm, IInv, TypeOK
  <2>3. \A q \in peers[n] : /\ peerState'[n][q] = peerState[n][q]
                            /\ Told(inbox, n, q) => Told(inbox', n, q)
    BY <1>2, <2>2 DEF Releases
  <2>4. joinTimers[n] \subseteq joinTimers'[n] /\ joinToken'[n] = joinToken[n]
    BY DEF Releases
  <2>5. Awaited(n)'
    BY <1>1, <2>1, <2>3, <2>4, AwaitedKept
  <2>6. TokenTaken(n)'
    BY <1>1, <2>1, <2>3, <2>4, TokenTakenKept
  <2>7. QED
    BY <2>5, <2>6
<1>4. TokenTaken(a)'
  BY DEF Releases, TokenTaken
<1>5. Awaited(a)'
  <2> SUFFICES ASSUME NEW q \in peers[a], peerState'[a][q] # "CONNECTED"
               PROVE  \/ q \in joinTimers'[a]
                      \/ state'[Id(q)] # "CONNECTED" /\ Near(a, Id(q))'
                      \/ Told(inbox', a, q)
    BY <1>1 DEF Awaited, Told
  <2>1. q \in Peer
    BY ViewKinds
  <2>2. q # p /\ peerState[a][q] # "CONNECTED"
    BY <2>1 DEF Releases
  <2>3. q[2] = IF a = h THEN "joiner" ELSE "called"
    BY <2>2, ViewKinds
  <2>4. CASE q \in joinTimers[a]
    <3>1. ASSUME p \in joinTimers[a], Id(q) = Id(p)
          PROVE  FALSE
      <4>1. p[2] \in Answering /\ MayBe(h, a, p, peerState[a][p])
        BY <3>1 DEF Course, Entrance, AnsweredWait, KnownAs
      <4>2. p[2] = q[2]
        BY <2>3, <4>1 DEF MayBe, Answering
      <4>3. QED
        BY <2>1, <2>2, <3>1, <4>2, Kinds
    <3>2. q \in joinTimers'[a]
      BY <2>4, <3>1 DEF Releases, EraseId
    <3>3. QED
      BY <3>2
  <2>5. CASE state[Id(q)] # "CONNECTED" /\ Near(a, Id(q))
    BY <1>1, <2>5 DEF Near
  <2>6. CASE Told(inbox, a, q)
    BY <1>2, <2>1, <2>2, <2>6
  <2>7. QED
    BY <2>2, <2>4, <2>5, <2>6 DEF Awaits, Awaited
<1>6. QED
  BY <1>3, <1>4, <1>5 DEF Awaits

\* p has become CONNECTED at a: box is what is left to be read, timers are the
\* join timers that are left.
Checked(a, p, box, timers) ==
    /\ box \in Inboxes /\ Lacks(box, a, NoNode)
    /\ Notes(box, {<<a, p>>}) /\ Notices(box, {})
    /\ Known(a, p) /\ (Heard(a, Id(p)) \/ p[2] \in Asking)
    /\ \/ /\ timers = joinTimers[a] /\ Told(inbox, a, p)
          /\ Once(inbox[a][p]) => ~Told(box, a, p)
       \/ /\ p \in joinTimers[a] /\ timers = EraseId(joinTimers[a], Id(p))
          /\ Announced(Id(p))

Checks(a, p, box, timers) ==
    /\ CheckForNewPeers(a, [peerState[a] EXCEPT ![p] = "CONNECTED"], box, timers)
    /\ peerState' = [peerState EXCEPT ![a][p] = "CONNECTED"]
    /\ UNCHANGED <<state, localGroup>>

LEMMA KnownAnswered ==
    ASSUME NEW h \in Node, Course(h), NEW a \in Node, NEW p \in Peer, Known(a, p),
           Told(inbox, a, p) \/ p \in joinTimers[a]
    PROVE  Heard(a, Id(p)) \/ p[2] \in Asking
<1>1. MayBe(h, a, p, peerState[a][p]) /\ p[2] \in PeerKind
  BY Kinds DEF Course, Entrance, KnownAs
<1>2. CASE a = h
  BY <1>2 DEF Course, Orderly, Waits, Under
<1>3. CASE a # h
  <2>1. p[2] = "called" => Heard(a, Id(p))
    BY CInvAt DEF Course, Calm, FreshAt, Answering
  <2>2. QED
    BY <1>1, <1>3, <2>1 DEF MayBe, PeerKind, Asking
<1>4. QED
  BY <1>2, <1>3

LEMMA NotifChecks ==
    ASSUME NEW h \in Node, Course(h), NEW a \in Node, NEW p \in Peer,
           HandleReadyNotif(a, p), NEW box, box = Consume(a, p)
    PROVE  Checked(a, p, box, joinTimers[a]) /\ Checks(a, p, box, joinTimers[a])
<1>1. TypeOK /\ CInv /\ Reads(a, p, "READY_NOTIF")
  BY DEF Course, Calm, IInv, HandleReadyNotif
<1>2. PICK m \in Message : /\ m = Head(inbox[a][p]) /\ m.type = "READY_NOTIF"
                           /\ m \in Range(inbox[a][p])
  BY <1>1, ReadParts
<1>3. inbox[a][p] # <<>> /\ Known(a, p)
  BY <1>1, ReadParts
<1>4. m = ReadyNotifMsg
  BY <1>2 DEF Message, BCastMessage, JoinMsg, ReadyMsg, ReadyNotifMsg, Text, Eof, Rst
<1>5. Told(inbox, a, p)
  BY <1>2, <1>4 DEF Told
<1>6. /\ box \in Inboxes /\ Lacks(box, a, NoNode) /\ Notes(box, {<<a, p>>})
      /\ Notices(box, {})
  BY <1>1, <1>2, <1>3, <1>4, ReadMail
<1>7. Once(inbox[a][p]) => ~Told(box, a, p)
  BY <1>1, <1>2, <1>3, <1>4, ConsumeIs DEF Told
<1>8. Heard(a, Id(p)) \/ p[2] \in Asking
  BY <1>3, <1>5, KnownAnswered
<1>9. Checked(a, p, box, joinTimers[a])
  BY <1>3, <1>5, <1>6, <1>7, <1>8 DEF Checked
<1>10. Checks(a, p, box, joinTimers[a])
  <2>1. peerState' = [peerState EXCEPT ![a][p] = "CONNECTED"]
    BY <1>1 DEF HandleReadyNotif, TypeOK
  <2>2. QED
    BY <2>1 DEF HandleReadyNotif, Checks
<1>11. QED
  BY <1>9, <1>10

LEMMA TimerChecks ==
    ASSUME Timely, NEW h \in Node, Course(h), NEW a \in Node, NEW p \in Peer,
           CompleteJoin(a, p), NEW timers, timers = EraseId(joinTimers[a], Id(p))
    PROVE  Checked(a, p, inbox, timers) /\ Checks(a, p, inbox, timers)
<1>1. /\ TypeOK /\ p \in joinTimers[a] /\ Announced(Id(p)) /\ inbox \in Inboxes
      /\ TimersKept
  BY DEF Course, Calm, IInv, TypeOK, CompleteJoin, CompletesJoin, Inboxes
<1>2. Known(a, p)
  <2>1. p \in Written(a) /\ p # Local(a)
    BY DEF CompleteJoin, CompletesJoin, Written, Course, Calm, TimersKept
  <2>2. QED
    BY <2>1, CInvAt DEF WrittenAt, Course, Calm
<1>3. Heard(a, Id(p)) \/ p[2] \in Asking
  BY <1>1, <1>2, KnownAnswered
<1>4. Checked(a, p, inbox, timers)
  BY <1>1, <1>2, <1>3, SameMail DEF Checked
<1>5. Checks(a, p, inbox, timers)
  <2>1. peerState' = [peerState EXCEPT ![a][p] = "CONNECTED"]
    BY <1>1 DEF CompleteJoin, TypeOK
  <2>2. QED
    BY <2>1 DEF CompleteJoin, Checks
<1>6. QED
  BY <1>4, <1>5

\* Nobody but p was awaited at the entry point.
Frees(h, p, box, timers) ==
    /\ p = <<Id(p), "joiner">> /\ timers = {}
    /\ \A y \in Node : /\ ~Entering(h, y) /\ ~Spreads(h, y)
                       /\ Heard(h, y) => \/ y = Id(p)
                                         \/ peerState[h][<<y, "joiner">>] = "CONNECTED"
    /\ \A q \in Peer : ~Told(box, h, q)

LEMMA CheckedFrees ==
    ASSUME NEW h \in Node, Course(h), NEW p \in Peer, NEW box, NEW timers,
           Checked(h, p, box, timers)
    PROVE  Frees(h, p, box, timers)
<1>1. PICK x \in Node : x = Id(p)
  BY Kinds
<1>2. Under(h, x) /\ p = <<x, "joiner">>
  <2>1. CASE Told(inbox, h, p)
    BY <1>1, <2>1, Kinds DEF Course, Orderly, Waits
  <2>2. CASE p \in joinTimers[h]
    <3>1. Under(h, x) /\ p[2] \in Answering /\ MayBe(h, h, p, peerState[h][p])
      BY <1>1, <2>2 DEF Course, Orderly, Waits, Entrance, AnsweredWait, KnownAs, Checked
    <3>2. p[2] = "joiner"
      BY <3>1 DEF MayBe, Answering
    <3>3. QED
      BY <1>1, <3>1, <3>2, Kinds
  <2>3. QED
    BY <2>1, <2>2 DEF Checked
<1>3. \A y \in Node : Under(h, y) => y = x
  BY <1>2 DEF Course, Orderly, OneAtATime
<1>4. \A y \in Node : Entering(h, y) \/ Spreads(h, y) => y = x
  BY <1>2, OthersAreIn
<1>5. /\ \A q \in Peer : Told(box, h, q) =>
            Told(inbox, h, q) /\ q = p /\ Near(h, x)
      /\ \A q \in joinTimers[h] : Id(q) = x /\ ~Near(h, x)
  <2>1. ASSUME NEW q \in Peer, Told(box, h, q)
        PROVE  Told(inbox, h, q) /\ q = p /\ Near(h, x)
    <3>1. Told(inbox, h, q)
      BY <2>1 DEF Checked, Notes
    <3>2. Under(h, Id(q)) /\ Near(h, Id(q)) /\ q[2] = "joiner" /\ Id(q) \in Node
      BY <3>1, Kinds DEF Course, Orderly, Waits
    <3>3. QED
      BY <1>2, <1>3, <3>1, <3>2, Kinds
  <2>2. ASSUME NEW q \in joinTimers[h]
        PROVE  Id(q) = x /\ ~Near(h, x)
    <3>1. Id(q) \in Node
      BY Kinds DEF Course, Calm, IInv, TypeOK
    <3>2. QED
      BY <1>3, <3>1 DEF Course, Orderly, Waits
  <2>3. QED
    BY <2>1, <2>2
<1>6. /\ ~Entering(h, x) /\ ~Spreads(h, x) /\ timers = {}
      /\ \A q \in Peer : ~Told(box, h, q)
  <2>1. CASE /\ timers = joinTimers[h] /\ Told(inbox, h, p)
             /\ Once(inbox[h][p]) => ~Told(box, h, p)
    <3>1. state[x] = "CONNECTED" /\ Near(h, x) /\ Once(inbox[h][p])
      BY <1>1, <2>1 DEF Course, Orderly, Waits
    <3>2. ~Entering(h, x) /\ ~Spreads(h, x)
      BY <3>1 DEF Entering, Course, Orderly, Stages
    <3>3. QED
      BY <1>5, <2>1, <3>1, <3>2
  <2>2. CASE /\ p \in joinTimers[h] /\ timers = EraseId(joinTimers[h], x)
             /\ Announced(x)
    <3>1. ~Spreads(h, x)
      BY <2>2 DEF Announced, Spreads
    <3>2. ~ReadyAt(x)
      <4>1. ASSUME NEW q \in Peer, ReadyMsg \in Range(inbox[x][q])
            PROVE  FALSE
        <5>1. Up(x) /\ ReadyMsg.type = "READY"
          BY DEF Course, Calm, Peace, AllRun, Running, Up, ReadyMsg
        <5>2. <<x, q>> \in MayBeRead("READY")
          BY <4>1, <5>1 DEF MayBeRead
        <5>3. QED
          BY <2>2, <5>2 DEF Announced
      <4>2. QED
        BY <4>1 DEF ReadyAt, Holds
    <3>3. ~Entering(h, x)
      BY <3>1, <3>2 DEF Course, Orderly, Stages
    <3>4. timers = {}
      BY <1>5, <2>2 DEF EraseId
    <3>5. \A q \in Peer : ~Told(box, h, q)
      BY <1>5, <2>2
    <3>6. QED
      BY <3>1, <3>3, <3>4, <3>5
  <2>3. QED
    BY <1>1, <2>1, <2>2 DEF Checked
<1>7. \A y \in Node : Heard(h, y) => y = x \/ peerState[h][<<y, "joiner">>] = "CONNECTED"
  BY <1>3 DEF Under
<1>8. \A y \in Node : ~Entering(h, y) /\ ~Spreads(h, y)
  BY <1>4, <1>6
<1>9. QED
  BY <1>1, <1>2, <1>6, <1>7, <1>8 DEF Frees

\* The token is released.
HandsBack(a, p, box, timers) ==
    /\ joinToken' = [joinToken EXCEPT ![a] = TRUE] /\ inbox' = box
    /\ joinTimers' = [joinTimers EXCEPT ![a] = timers]
    /\ UNCHANGED <<newPeers, logs, peers, groups, reset, readyTimers>>

LEMMA CheckReleases ==
    ASSUME NEW h \in Node, Course(h), NEW a \in Node, NEW p \in Peer, NEW box,
           NEW timers, Checked(a, p, box, timers), Checks(a, p, box, timers),
           HandsBack(a, p, box, timers)
    PROVE  Releases(a, p)
<1>1. TypeOK
  BY DEF Course, Calm, IInv
<1>2. \A n \in Node, q \in Peer :
         peerState'[n][q] = IF n = a /\ q = p THEN "CONNECTED" ELSE peerState[n][q]
  BY <1>1 DEF Checks, TypeOK
<1>3. /\ joinToken'[a] /\ joinTimers'[a] = timers
      /\ \A n \in Node \ {a} : /\ joinToken'[n] = joinToken[n]
                               /\ joinTimers'[n] = joinTimers[n]
  BY <1>1 DEF HandsBack, TypeOK
<1>4. /\ UNCHANGED <<state, peers, groups, localGroup>>
      /\ UNCHANGED <<readyTimers, newPeers, logs>> /\ inbox' = box
  BY DEF Checks, HandsBack
<1>5. /\ Lacks(inbox', a, NoNode) /\ Notes(inbox', {<<a, p>>}) /\ Notices(inbox', {})
      /\ \/ timers = joinTimers[a]
         \/ p \in joinTimers[a] /\ timers = EraseId(joinTimers[a], Id(p))
  BY <1>4 DEF Checked
<1>6. QED
  BY <1>2, <1>3, <1>4, <1>5 DEF Releases

LEMMA ReleasesCourse ==
    ASSUME NEW h \in Node, Course(h), Awaits, NEW a \in Node, NEW p \in Peer,
           NEW box, NEW timers, Checked(a, p, box, timers), Checks(a, p, box, timers),
           HandsBack(a, p, box, timers)
    PROVE  Entrance(h)' /\ Orderly(h)' /\ Awaits'
<1>1. Releases(a, p)
  BY CheckReleases
<1>2. Entrance(h)' /\ Awaits'
  BY <1>1, ReleasesEntrance, ReleasesAwaits DEF Checked
<1>3. /\ UNCHANGED <<state, peers, groups, localGroup, readyTimers, logs>>
      /\ Flows(h, {}, {}, {}) /\ Flows({}, {}, {}, {})
      /\ \A r \in Node, q \in Peer : Told(inbox', r, q) =>
            Told(inbox, r, q) /\ (Once(inbox[r][q]) => Once(inbox'[r][q]))
  <2>1. Lacks(inbox', a, NoNode) /\ logs' = logs
    BY <1>1 DEF Releases
  <2>2. Flows(h, {}, {}, {}) /\ Flows({}, {}, {}, {})
    BY <2>1, LacksFlow
  <2>3. QED
    BY <1>1, <2>2 DEF Releases, Notes
<1>4. \A n \in Node, q \in Peer :
         peerState'[n][q] = IF n = a /\ q = p THEN "CONNECTED" ELSE peerState[n][q]
  BY <1>1 DEF Releases
<1>5. CASE a # h
  <2>1. joinToken'[h] = joinToken[h] /\ joinTimers'[h] = joinTimers[h]
    BY <1>1, <1>5 DEF Releases
  <2>2. Moves(h, h, {}, {}, {}, {})
    BY <1>3, <1>4, <1>5, <2>1 DEF Moves, Spreads
  <2>3. May(h, h, {}, {}, {}, {}) /\ Views(h, h, {}, {})
    BY <1>3 DEF May, Views
  <2>4. Orderly(h)'
    BY <2>2, <2>3, MovesOrderly
  <2>5. QED
    BY <1>2, <2>4
<1>6. CASE a = h
  <2>1. Frees(h, p, box, timers)
    BY <1>6, CheckedFrees
  <2>2. inbox' = box /\ joinTimers'[h] = timers
    BY <1>6 DEF HandsBack, Course, Calm, IInv, TypeOK
  <2>3. Released(h)
    <3>1. ASSUME NEW y \in Node, Heard(h, y)
          PROVE  peerState'[h][<<y, "joiner">>] = "CONNECTED"
      <4>1. <<y, "joiner">> \in Peer
        BY JoinerPeers
      <4>2. y = Id(p) \/ peerState[h][<<y, "joiner">>] = "CONNECTED"
        BY <2>1, <3>1 DEF Frees
      <4>3. y = Id(p) => <<y, "joiner">> = p
        BY <2>1 DEF Frees
      <4>4. QED
        BY <1>4, <1>6, <4>1, <4>2, <4>3
    <3>2. \A q \in Peer : ~Told(inbox', h, q)
      BY <2>1, <2>2 DEF Frees
    <3>3. QED
      BY <2>1, <3>1, <3>2 DEF Released, Frees
  <2>4. Closes(h)
    BY <1>3, <2>1, <2>2, <2>3 DEF Closes, Frees
  <2>5. QED
    BY <1>2, <2>4, ClosesOrderly
<1>7. QED
  BY <1>5, <1>6

-----------------------------------------------------------------------------
(* answer_join_request                                                     *)

\* The entry point has heard from all it has let in: c is next.
LetIn(h, c, gid, gs, box) ==
    /\ c = <<Id(c), "joiner">> /\ Id(c) # h /\ Unheard(Id(c))
    /\ gs[gid] = UpdateNeighbours(gs[gid], h) /\ Ids(gs[gid].ring) = Whole(h)
    /\ Lacks(box, h, Id(c)) /\ Notes(box, {h} \X Peer) /\ Notices(box, {})
    /\ \A y \in Node : /\ ~Entering(h, y) /\ ~Spreads(h, y)
                       /\ Heard(h, y) => peerState'[h][<<y, "joiner">>] = "CONNECTED"
    /\ \A q \in Peer : ~Told(box, h, q)
    /\ AnswerJoinRequest(h, c, Id(c), gid, gs, box, {})
    /\ state'[h] = "CONNECTED" /\ localGroup'[h] = gid
    /\ peerState'[h][c] = "JOINING"
    /\ \A q \in Peer \ {c} :
          \/ peerState'[h][q] = peerState[h][q]
          \/ /\ q[2] = "joiner" /\ Known(h, q) /\ Heard(h, Id(q))
             /\ peerState'[h][q] = "CONNECTED"
    /\ \A n \in Node \ {h} : /\ state'[n] = state[n] /\ localGroup'[n] = localGroup[n]
                             /\ peerState'[n] = peerState[n]

\* What that makes of the state
Lets(h, c, gid, gs, notif) ==
    /\ OnlyAt(h) /\ ~joinToken'[h] /\ Admits(h, c, gid, gs, {})
    /\ logs'[h] = logs[h] \cup {notif} /\ readyTimers'[h] = Put(readyTimers[h], c)
    /\ newPeers'[h] = [newPeers[h] EXCEPT ![AddrOfPeer(c)] = NoEntry]
    /\ Flows(Id(c), {h}, Ids(gs[gid].succs), {})
    /\ Notes(inbox', {h} \X Peer) /\ Notices(inbox', {notif})
    /\ \A q \in Peer : ~Told(inbox', h, q)

LEMMA DeliverTold ==
    ASSUME AllRun, NEW box \in Inboxes, NEW n \in Node, NEW M, NEW m \in Message,
           m # ReadyNotifMsg
    PROVE  \A r \in Node, q \in Peer : Told(Deliver(box, n, M, m), r, q) <=> Told(box, r, q)
<1>1. PICK box2 : box2 = Deliver(box, n, M, m)
  OBVIOUS
<1>2. SentOn(box2, box, n, M, m)
  BY <1>1, DeliverIs
<1>3. \A r \in Node, q \in Peer : Told(box2, r, q) <=> Told(box, r, q)
  BY <1>2 DEF SentOn, Told
<1>4. QED
  BY <1>1, <1>3

LEMMA LetInLets ==
    ASSUME NEW h \in Node, Course(h), NEW c \in Peer, NEW gid \in GroupId,
           NEW gs \in [GroupId -> Group], NEW box \in Inboxes,
           LetIn(h, c, gid, gs, box), NEW notif, notif = NotifMsg(gid, h, Id(c), Id(c))
    PROVE  Lets(h, c, gid, gs, notif)
<1>1. TypeOK /\ AllRun
  BY DEF Course, Calm, IInv, Peace
<1>2. PICK x \in Node : x = Id(c)
  BY Kinds
<1>3. /\ notif \in Message /\ notif.type = "JOIN_NOTIF" /\ notif.peer = x
      /\ notif # ReadyNotifMsg
  BY <1>2, MessageTypes DEF NotifMsg, ReadyNotifMsg
<1>4. PICK S \in SUBSET Peer : S = gs[gid].succs
  BY DEF Group
<1>5. PICK after : after = Deliver(box, h, S, notif)
  OBVIOUS
<1>6. AnswerJoinRequest(h, c, x, gid, gs, box, {})
  BY <1>2 DEF LetIn
<1>7. /\ joinToken' = [joinToken EXCEPT ![h] = FALSE]
      /\ newPeers' = [newPeers EXCEPT ![h][AddrOfPeer(c)] = NoEntry]
      /\ logs' = [logs EXCEPT ![h] = @ \cup {notif}]
      /\ AcknowledgeJoin(h, c, gid, gs, after, S, {})
      /\ readyTimers' = [readyTimers EXCEPT ![h] = Put(@, c)]
  BY <1>2, <1>4, <1>5, <1>6 DEF AnswerJoinRequest
<1>8. Admits(h, c, gid, gs, {}) /\ AckMsg(gid) \in Message
  BY <1>1, <1>7, AcknowledgeAdmits
<1>9. inbox' = Deliver(after, h, {c}, AckMsg(gid)) /\ AckMsg(gid) # ReadyNotifMsg
  BY <1>7 DEF AcknowledgeJoin, AckMsg, ReadyNotifMsg
<1>10. /\ ~joinToken'[h] /\ logs'[h] = logs[h] \cup {notif}
       /\ readyTimers'[h] = Put(readyTimers[h], c)
       /\ newPeers'[h] = [newPeers[h] EXCEPT ![AddrOfPeer(c)] = NoEntry]
  BY <1>1, <1>7 DEF TypeOK
<1>11. \A n \in Node \ {h} :
          /\ joinToken'[n] = joinToken[n] /\ logs'[n] = logs[n]
          /\ readyTimers'[n] = readyTimers[n] /\ newPeers'[n] = newPeers[n]
  BY <1>1, <1>7 DEF TypeOK
<1>12. OnlyAt(h)
  BY <1>8, <1>11 DEF OnlyAt, Admits, LetIn
<1>13. \A n, y \in Node : Heard(n, y)' <=> Heard(n, y) \/ (y = x /\ n = h)
  BY <1>3, <1>10, <1>11 DEF Heard
<1>14. /\ Flows(x, {h}, Ids(S), {}) /\ Notes(inbox', {h} \X Peer)
       /\ Notices(inbox', {notif})
  <2>1. Lacks(box, h, x) /\ Notes(box, {h} \X Peer) /\ Notices(box, {notif})
    BY <1>2 DEF LetIn, Notices
  <2>2. QED
    BY <1>1, <1>2, <1>3, <1>5, <1>9, <1>13, <2>1, AnswerMail
<1>15. \A q \in Peer : ~Told(inbox', h, q)
  <2>1. after \in Inboxes
    BY <1>3, <1>5, DeliverType
  <2>2. \A q \in Peer : Told(after, h, q) <=> Told(box, h, q)
    BY <1>1, <1>3, <1>5, DeliverTold
  <2>3. \A q \in Peer : Told(inbox', h, q) <=> Told(after, h, q)
    BY <1>1, <1>8, <1>9, <2>1, DeliverTold
  <2>4. QED
    BY <2>2, <2>3 DEF LetIn
<1>16. QED
  BY <1>2, <1>4, <1>8, <1>10, <1>12, <1>14, <1>15 DEF Lets

LEMMA LetInOpens ==
    ASSUME NEW h \in Node, Course(h), NEW c \in Peer, NEW gid \in GroupId,
           NEW gs \in [GroupId -> Group], NEW box, NEW notif,
           LetIn(h, c, gid, gs, box), Lets(h, c, gid, gs, notif)
    PROVE  Opens(h, c, Ids(gs[gid].succs))
<1>1. PICK x \in Node : x = Id(c) /\ x # h /\ Unheard(x)
  BY Kinds DEF LetIn
<1>2. \A n \in Node : ~Heard(n, x) /\ ~NotifAt(n, x)
  BY <1>1, NotifsAre DEF Unheard, Heard, NotifAt, Holds
<1>3. Newcomer(h, x)
  <2>1. ~ReadyMet(x)
    BY <1>1, Unannounced DEF Course, Calm
  <2>2. state[x] # "CONNECTED" /\ ~ReadyAt(x)
    BY <2>1 DEF ReadyMet, ReadyAt, Holds
  <2>3. localGroup[x] = NoGroup
    BY <1>1, <1>2 DEF Course, Calm, Settled, MembersHeard
  <2>4. peers[x] = {}
    BY <2>3 DEF Course, Calm, IInv, LocalGroupKept, KeptAt
  <2>5. QED
    BY <1>1, <1>2, <2>2, <2>4 DEF Newcomer
<1>4. Released(h)
  BY DEF LetIn, Lets, Released
<1>5. Ids(readyTimers'[h]) = {x}
  <2>1. readyTimers[h] \subseteq Peer
    BY DEF Course, Calm, IInv, TypeOK
  <2>2. readyTimers[h] = {}
    <3>1. \A q \in readyTimers[h] : Id(q) \in Node /\ Spreads(h, Id(q))
      BY <2>1, Kinds DEF Spreads, Ids
    <3>2. QED
      BY <3>1 DEF LetIn
  <2>3. QED
    BY <1>1, <2>2 DEF Lets, Put, EraseId, Ids
<1>6. /\ joinTimers'[h] \subseteq {c}
      /\ c \in joinTimers'[h] <=> ~Near(h, x)'
  <2>1. joinTimers'[h] = IF x \in Ids(Neighbours(groups'[h][gid])) THEN {} ELSE Put({}, c)
    BY <1>1 DEF Lets, Admits
  <2>2. Put({}, c) = {c}
    BY DEF Put, EraseId
  <2>3. Near(h, x)' <=> x \in Ids(Neighbours(groups'[h][gid]))
    BY DEF Near, LetIn
  <2>4. QED
    BY <2>1, <2>2, <2>3
<1>7. peers'[h] = Put(peers[h], c)
      /\ \A n \in Node \ {h} : peers'[n] = peers[n] /\ state'[n] = state[n]
  BY DEF Lets, Admits, LetIn
<1>8. /\ Ids(gs[gid].succs) \subseteq Whole(h) \ {h}
      /\ \A i \in RingIndex :
            Id(Successor(i, Canon(Whole(h)), Local(h))) \in Ids(gs[gid].succs) \cup {h}
  <2>1. PICK W \in SUBSET Node : W = Whole(h)
    BY DEF Whole
  <2>2. PICK g \in Group : g = gs[gid]
    OBVIOUS
  <2>3. g = UpdateNeighbours(g, h) /\ Ids(g.ring) = W /\ h \in W
    BY <2>1, <2>2 DEF LetIn, Whole
  <2>4. /\ \A i \in RingIndex : Id(Successor(i, Canon(W), Local(h))) \in Ids(g.succs) \cup {h}
        /\ Ids(Neighbours(g)) \subseteq W \ {h}
    BY <2>3, FreshRelays
  <2>5. Ids(g.succs) \subseteq Ids(Neighbours(g))
    BY DEF Neighbours, Ids
  <2>6. QED
    BY <2>1, <2>2, <2>4, <2>5
<1>9. c[2] = "joiner" /\ peerState'[h][c] = "JOINING" /\ state'[h] = "CONNECTED"
  <2>1. c = <<x, "joiner">>
    BY <1>1 DEF LetIn
  <2>2. QED
    BY <2>1 DEF LetIn
<1>10. QED
  BY <1>1, <1>3, <1>4, <1>5, <1>6, <1>7, <1>8, <1>9 DEF Opens, Lets

LEMMA LetInEntrance ==
    ASSUME NEW h \in Node, Course(h), NEW c \in Peer, NEW gid \in GroupId,
           NEW gs \in [GroupId -> Group], NEW box, NEW notif,
           notif = NotifMsg(gid, h, Id(c), Id(c)),
           LetIn(h, c, gid, gs, box), Lets(h, c, gid, gs, notif)
    PROVE  Entrance(h)'
<1>1. PICK x \in Node : x = Id(c) /\ x # h /\ c = <<x, "joiner">>
  BY Kinds DEF LetIn
<1>2. LogsGrow
  BY DEF LogsGrow, Lets, OnlyAt
<1>3. NoticesLogged(h)'
  <2>1. PICK M : M = {notif}
    OBVIOUS
  <2>2. \A n \in Node : \A e \in logs'[n] :
           e.type = "JOIN_NOTIF" => e \in Notifs \cup M
    BY <2>1, NotifsAre DEF Lets, OnlyAt
  <2>3. \A n \in Node, q \in Peer : \A e \in Range(inbox'[n][q]) :
              e.type = "JOIN_NOTIF" => e \in Notifs \cup M
    BY <2>1 DEF Lets, Notices
  <2>4. \A e \in M : e \in logs'[h] /\ e.port = e.peer
    BY <2>1 DEF Lets, NotifMsg
  <2>5. NoticesLogged(h)
    BY DEF Course, Entrance
  <2>6. QED
    BY <1>2, <2>2, <2>3, <2>4, <2>5, NoticesKept
<1>4. OthersDoNotAnswer(h)'
  BY DEF Course, Entrance, OthersDoNotAnswer, Lets, OnlyAt
<1>5. PortsKnown(h)'
  <2> SUFFICES ASSUME NEW k \in Addr, NEW r, r = newPeers'[h][k].peer,
                      r # NoPeer, Known(h, r)'
               PROVE  newPeers'[h][k].port = Id(r)
    BY DEF PortsKnown
  <2>1. k # AddrOfPeer(c) /\ newPeers'[h][k] = newPeers[h][k]
    BY DEF Lets, NoEntry, Course, Calm, IInv, TypeOK
  <2>2. r \in Peer /\ k = AddrOfPeer(r)
    BY <2>1, CInvNew DEF Course, Calm, IInv, TypeOK, NewPeerEntry, NewPeerAt
  <2>3. Known(h, r)
    BY <2>1, <2>2 DEF LetIn, Known
  <2>4. QED
    BY <2>1, <2>3 DEF Course, Entrance, PortsKnown
<1>6. KnownAs(h)'
  <2>1. ASSUME NEW n \in Node, NEW q \in Peer, peerState'[n][q] # peerState[n][q]
        PROVE  MayBe(h, n, q, peerState'[n][q])
    <3>1. n = h /\ q[2] = "joiner"
          /\ (peerState'[n][q] = "JOINING" \/ Heard(h, Id(q)))
      BY <1>1, <2>1 DEF LetIn
    <3>2. QED
      BY <3>1 DEF MayBe, Asking
  <2>2. QED
    BY <1>2, <2>1, KnownAsKept DEF Course, Entrance
<1>7. AnsweredWait'
  <2>1. \A p \in joinTimers'[h] : p = c
    BY DEF Lets, Admits, Put, EraseId
  <2>2. QED
    BY <1>1, <2>1 DEF Course, Entrance, AnsweredWait, Lets, OnlyAt, Answering
<1>8. RingAt(h)'
  <2>1. Ids(peers[h]) = Whole(h) \ {h}
    BY DEF Course, Orderly, MemberSees, Member, Present, LetIn, Whole
  <2>2. Ids(peers'[h]) = Ids(peers[h]) \cup {x}
    BY <1>1 DEF Lets, Admits, Put, EraseId, Ids
  <2>3. Ids(groups'[h][gid].ring) = Whole(h) \cup {x}
    BY <1>1 DEF Lets, Admits, LetIn
  <2>4. h \in Whole(h)
    BY DEF Whole
  <2>5. QED
    BY <2>1, <2>2, <2>3, <2>4 DEF RingAt, LetIn
<1>9. \A n \in Node : RingAt(n)'
  BY <1>8, RingKept DEF Course, Entrance, Lets, OnlyAt
<1>10. QED
  BY <1>3, <1>4, <1>5, <1>6, <1>7, <1>9 DEF Entrance

LEMMA LetInAwaits ==
    ASSUME NEW h \in Node, Course(h), Awaits, NEW c \in Peer, NEW gid \in GroupId,
           NEW gs \in [GroupId -> Group], NEW box, NEW notif,
           LetIn(h, c, gid, gs, box), Lets(h, c, gid, gs, notif)
    PROVE  Awaits'
<1>1. PICK x \in Node : x = Id(c) /\ x # h /\ c = <<x, "joiner">>
  BY Kinds DEF LetIn
<1>2. Opens(h, c, Ids(gs[gid].succs))
  BY LetInOpens
<1>3. \A n \in Node : \A p \in peers[n] : p \in Peer
  BY DEF Course, Calm, IInv, TypeOK
<1>4. c \in peers'[h]
  BY DEF Lets, Admits, Put
<1>5. TokenTaken(h)'
  BY <1>4 DEF TokenTaken, LetIn
<1>6. Awaited(h)'
  <2> SUFFICES ASSUME NEW q \in peers'[h], peerState'[h][q] # "CONNECTED"
               PROVE  \/ q \in joinTimers'[h]
                      \/ state'[Id(q)] # "CONNECTED" /\ Near(h, Id(q))'
    BY DEF Awaited
  <2>1. q = c \/ q \in peers[h]
    BY DEF Lets, Admits, Put, EraseId
  <2>2. CASE q = c
    <3>1. state'[x] # "CONNECTED"
      BY <1>1, <1>2 DEF Opens, Newcomer, LetIn
    <3>2. QED
      BY <1>1, <1>2, <2>2, <3>1 DEF Opens
  <2>3. CASE q # c /\ q \in peers[h]
    <3>1. q \in Peer /\ peerState[h][q] # "CONNECTED"
      BY <1>3, <2>3 DEF LetIn
    <3>2. q[2] = "joiner" /\ Heard(h, Id(q))
      BY <2>3, <3>1, ViewKinds DEF Answering
    <3>3. PICK y \in Node : y = Id(q) /\ q = <<y, "joiner">>
      BY <3>1, <3>2, Kinds
    <3>4. peerState'[h][q] = "CONNECTED"
      BY <3>2, <3>3 DEF LetIn
    <3>5. QED
      BY <3>4
  <2>4. QED
    BY <2>1, <2>2, <2>3
<1>7. ASSUME NEW n \in Node \ {h}
      PROVE  Awaited(n)' /\ TokenTaken(n)'
  <2>1. Awaited(n) /\ TokenTaken(n)
    BY DEF Awaits
  <2>2. /\ peers'[n] = peers[n] /\ groups'[n] = groups[n]
        /\ localGroup'[n] = localGroup[n] /\ joinTimers'[n] = joinTimers[n]
        /\ joinToken'[n] = joinToken[n] /\ peerState'[n] = peerState[n]
    BY DEF Lets, OnlyAt
  <2>3. \A p \in peers[n] : Told(inbox, n, p) => Told(inbox', n, p)
    BY <1>3 DEF Lets, Notes
  <2>4. \A p \in peers[n] : state[Id(p)] # "CONNECTED" => state'[Id(p)] # "CONNECTED"
    <3>1. peers[n] # {} => state[h] = "CONNECTED"
      <4>1. peers[n] # {} => localGroup[n] # NoGroup
        BY DEF Course, Calm, IInv, LocalGroupKept, KeptAt
      <4>2. localGroup[n] # NoGroup => localGroup[h] # NoGroup
        BY GroupAt DEF Course, Calm, Peace
      <4>3. QED
        BY <4>1, <4>2 DEF Course, Calm, EntryKept
    <3>2. \A m \in Node \ {h} : state'[m] = state[m]
      BY DEF LetIn
    <3>3. \A p \in peers[n] : Id(p) \in Node
      BY <1>3, Kinds
    <3>4. QED
      BY <3>1, <3>2, <3>3
  <2>5. Awaited(n)'
    BY <2>1, <2>2, <2>3, <2>4, AwaitedKept
  <2>6. TokenTaken(n)'
    BY <2>1, <2>2, TokenTakenKept
  <2>7. QED
    BY <2>5, <2>6
<1>8. QED
  BY <1>5, <1>6, <1>7 DEF Awaits

LEMMA LetInCourse ==
    ASSUME NEW h \in Node, Course(h), Awaits, NEW c \in Peer, NEW gid \in GroupId,
           NEW gs \in [GroupId -> Group], NEW box \in Inboxes,
           LetIn(h, c, gid, gs, box)
    PROVE  Entrance(h)' /\ Orderly(h)' /\ Awaits'
<1>1. PICK notif : notif = NotifMsg(gid, h, Id(c), Id(c))
  OBVIOUS
<1>2. Lets(h, c, gid, gs, notif)
  BY <1>1, LetInLets
<1>3. Opens(h, c, Ids(gs[gid].succs))
  BY <1>2, LetInOpens
<1>4. QED
  BY <1>1, <1>2, <1>3, OpensOrderly, LetInEntrance, LetInAwaits

\* check_for_new_peers lets in those who wait at the entry point.
LEMMA CheckLetsIn ==
    ASSUME NEW h \in Node, DistinctAddresses, Course(h), NEW a \in Node,
           NEW p \in Peer, NEW box, NEW timers, Checked(a, p, box, timers),
           Checks(a, p, box, timers), ~HandsBack(a, p, box, timers)
    PROVE  /\ a = h
           /\ \E c \in Peer, gid \in GroupId, gs \in [GroupId -> Group] :
                 LetIn(h, c, gid, gs, box)
<1>1. TypeOK /\ IInv /\ CInv /\ Known(a, p)
  BY DEF Course, Calm, IInv, Checked
<1>2. PICK states : states = [peerState[a] EXCEPT ![p] = "CONNECTED"]
  OBVIOUS
<1>3. PICK k \in Pending(a, states) :
         /\ ~DereferencesNull(a, states)
         /\ AnswerJoinRequest(a, newPeers[a][k].peer, newPeers[a][k].port,
                              localGroup[a], groups[a], box, timers)
  BY <1>2 DEF Checks, CheckForNewPeers, HandsBack
<1>4. PICK c \in Peer, gid \in GroupId, gs \in [GroupId -> Group] :
         /\ c = newPeers[a][k].peer /\ gid = localGroup[a] /\ gs = groups[a]
         /\ c[2] = "joiner" /\ Known(a, c) /\ InNew(a, c) /\ k \in Addr
  <2>1. newPeers[a][k].peer \in Peer /\ localGroup[a] \in GroupId
    BY <1>1, <1>3, PendingType
  <2>2. groups[a] \in [GroupId -> Group]
    BY <1>1 DEF TypeOK
  <2>3. PICK c \in Peer : c = newPeers[a][k].peer
    BY <2>1
  <2>4. c[2] = "joiner" /\ Known(a, c) /\ k \in Addr /\ InNew(a, c)
    BY <1>1, <1>2, <2>3, PendingJoiner
  <2>5. QED
    BY <2>1, <2>2, <2>3, <2>4
<1>5. a = h
  BY <1>4 DEF Course, Entrance, KnownAs, MayBe
<1>6. PICK x \in Node : x = Id(c) /\ c = <<x, "joiner">>
  BY <1>4, Kinds
<1>7. Unheard(x) /\ x # h
  BY <1>1, <1>4, <1>5, <1>6, CInvNodes DEF JoinerAt
<1>8. ~Heard(h, x)
  BY <1>7, NotifsAre DEF Unheard, Heard
<1>9. Frees(h, p, box, timers)
  BY <1>5, CheckedFrees
<1>10. newPeers[h][k].port = Id(c)
  <2>1. c # NoPeer
    BY NetworkAssumption
  <2>2. QED
    BY <1>4, <1>5, <2>1 DEF Course, Entrance, PortsKnown
<1>11. AnswerJoinRequest(h, c, Id(c), gid, gs, box, {})
  BY <1>3, <1>4, <1>5, <1>9, <1>10 DEF Frees
<1>12. state[h] = "CONNECTED"
  BY <1>4, <1>5, NetworkAssumption DEF Course, Calm, EntryKept
<1>13. gs[gid] = UpdateNeighbours(gs[gid], h) /\ Ids(gs[gid].ring) = Whole(h)
  <2>1. PICK g : g = gs[gid]
    OBVIOUS
  <2>2. g = UpdateNeighbours(g, h) /\ Ids(g.ring) = Present(h, h) \cup {h}
    BY <1>4, <1>5, <1>12, <2>1, RingOfMember
  <2>3. Present(h, h) \cup {h} = Whole(h)
    BY <1>9 DEF Frees, Present, Whole
  <2>4. QED
    BY <2>1, <2>2, <2>3
<1>14. \A n \in Node, q \in Peer :
         peerState'[n][q] = IF n = h /\ q = p THEN "CONNECTED" ELSE peerState[n][q]
  BY <1>1, <1>5 DEF Checks, TypeOK
<1>15. Heard(h, Id(p)) /\ p[2] = "joiner" /\ c # p /\ p = <<Id(p), "joiner">>
  <2>1. p = <<Id(p), "joiner">> /\ p[2] = "joiner"
    BY <1>9 DEF Frees
  <2>2. Heard(h, Id(p))
    BY <1>5, <2>1 DEF Checked, Asking
  <2>3. QED
    BY <1>6, <1>8, <2>1, <2>2
<1>16. peerState'[h][c] = "JOINING"
  <2>1. peerState[h][c] \in PeerState /\ peerState[h][c] # "NEW"
    BY <1>1, <1>4, <1>5 DEF TypeOK, Known
  <2>2. peerState[h][c] # "CONNECTED"
    BY <1>4, <1>5, <1>6, <1>8 DEF Course, Entrance, KnownAs, MayBe, Answering
  <2>3. QED
    BY <1>14, <1>15, <2>1, <2>2 DEF PeerState
<1>17. \A y \in Node : /\ ~Entering(h, y) /\ ~Spreads(h, y)
                       /\ Heard(h, y) => peerState'[h][<<y, "joiner">>] = "CONNECTED"
  <2> TAKE y \in Node
  <2>1. <<y, "joiner">> \in Peer
    BY JoinerPeers
  <2>2. /\ ~Entering(h, y) /\ ~Spreads(h, y)
        /\ Heard(h, y) => \/ <<y, "joiner">> = p
                          \/ peerState[h][<<y, "joiner">>] = "CONNECTED"
    BY <1>9 DEF Frees
  <2>3. QED
    BY <1>14, <2>1, <2>2
<1>18. \A q \in Peer \ {c} :
          \/ peerState'[h][q] = peerState[h][q]
          \/ /\ q[2] = "joiner" /\ Known(h, q) /\ Heard(h, Id(q))
             /\ peerState'[h][q] = "CONNECTED"
  BY <1>1, <1>5, <1>14, <1>15
<1>19. Lacks(box, h, x) /\ Notes(box, {h} \X Peer) /\ Notices(box, {})
  <2>1. \A e \in Message : e.type = "JOIN_NOTIF" => e.peer # NoNode
    BY MessageFields, NetworkAssumption
  <2>2. Lacks(box, h, NoNode) /\ Notes(box, {<<h, p>>}) /\ Notices(box, {})
    BY <1>5 DEF Checked
  <2>3. Lacks(box, h, x)
    BY <2>1, <2>2 DEF Lacks
  <2>4. \A r \in Node, q \in Peer : <<r, q>> \in {<<h, p>>} => <<r, q>> \in {h} \X Peer
    OBVIOUS
  <2>5. Notes(box, {h} \X Peer)
    BY <2>2, <2>4 DEF Notes
  <2>6. QED
    BY <2>2, <2>3, <2>5
<1>20. \A n \in Node \ {h} : /\ state'[n] = state[n] /\ localGroup'[n] = localGroup[n]
                             /\ peerState'[n] = peerState[n]
  BY <1>1, <1>5 DEF Checks, TypeOK
<1>21. state'[h] = "CONNECTED" /\ localGroup'[h] = gid /\ \A q \in Peer : ~Told(box, h, q)
  BY <1>4, <1>5, <1>9, <1>12 DEF Checks, Frees
<1>22. LetIn(h, c, gid, gs, box)
  BY <1>6, <1>7, <1>11, <1>13, <1>16, <1>17, <1>18, <1>19, <1>20, <1>21 DEF LetIn
<1>23. QED
  BY <1>5, <1>22

LEMMA ChecksCourse ==
    ASSUME NEW h \in Node, DistinctAddresses, Course(h), Awaits, NEW a \in Node,
           NEW p \in Peer, NEW box, NEW timers, Checked(a, p, box, timers),
           Checks(a, p, box, timers)
    PROVE  Entrance(h)' /\ Orderly(h)' /\ Awaits'
<1>1. CASE HandsBack(a, p, box, timers)
  BY <1>1, ReleasesCourse
<1>2. CASE ~HandsBack(a, p, box, timers)
  <2>1. PICK c \in Peer, gid \in GroupId, gs \in [GroupId -> Group] :
           LetIn(h, c, gid, gs, box)
    BY <1>2, CheckLetsIn
  <2>2. box \in Inboxes
    BY DEF Checked
  <2>3. QED
    BY <2>1, <2>2, LetInCourse
<1>3. QED
  BY <1>1, <1>2

LEMMA CheckersCourse ==
    ASSUME NEW h \in Node, DistinctAddresses, Timely, Course(h), Awaits,
           NEW a \in Node, NEW p \in Peer,
           HandleReadyNotif(a, p) \/ CompleteJoin(a, p)
    PROVE  Entrance(h)' /\ Orderly(h)' /\ Awaits'
<1>1. CASE HandleReadyNotif(a, p)
  <2>1. PICK box : box = Consume(a, p)
    OBVIOUS
  <2>2. Checked(a, p, box, joinTimers[a]) /\ Checks(a, p, box, joinTimers[a])
    BY <1>1, <2>1, NotifChecks
  <2>3. QED
    BY <2>2, ChecksCourse
<1>2. CASE CompleteJoin(a, p)
  <2>1. PICK timers : timers = EraseId(joinTimers[a], Id(p))
    OBVIOUS
  <2>2. Checked(a, p, inbox, timers) /\ Checks(a, p, inbox, timers)
    BY <1>2, <2>1, TimerChecks
  <2>3. QED
    BY <2>2, ChecksCourse
<1>3. QED
  BY <1>1, <1>2

\* The entry point answers a JOIN at once.
LEMMA JoinLetsIn ==
    ASSUME NEW h \in Node, DistinctAddresses, Course(h), NEW p \in Peer,
           HandleJoin(h, p), joinToken[h], NEW box, box = Consume(h, p)
    PROVE  \E gid \in GroupId, gs \in [GroupId -> Group] : LetIn(h, p, gid, gs, box)
<1>1. TypeOK /\ IInv /\ CInv /\ Reads(h, p, "JOIN") /\ EntryKept(h) /\ Peace(h)
  BY DEF Course, Calm, IInv, HandleJoin
<1>2. PICK m : /\ m = Head(inbox[h][p]) /\ m \in Range(inbox[h][p]) /\ m = JoinMsg
               /\ inbox[h][p] # <<>>
  BY <1>1, ReadParts
<1>3. PICK x \in Node : x = Id(p) /\ p = <<x, "joiner">> /\ ~Known(h, p)
  BY <1>1, <1>2, CInvAt, Kinds DEF JoinFirst
<1>4. Unheard(x) /\ x # h
  BY <1>1, <1>2, <1>3, CInvNodes DEF JoinerAt
<1>5. PICK gid : gid = localGroup'[h]
  OBVIOUS
<1>6. PICK gs : gs = Record(h, gid)
  OBVIOUS
<1>7. gid \in GroupId /\ gs \in [GroupId -> Group] /\ \A n \in Node \ {h} :
         localGroup'[n] = localGroup[n]
  BY <1>1, <1>5, <1>6, JoinGroup, JoinRecord
<1>8. AnswerJoinRequest(h, p, x, gid, gs, box, joinTimers[h])
  BY <1>3, <1>5, <1>6 DEF HandleJoin, Record
<1>9. \A y \in Node : ~Under(h, y) /\ ~Entering(h, y) /\ ~Spreads(h, y)
  BY DEF Course, Orderly, OneAtATime, Stages
<1>10. /\ joinTimers[h] = {}
       /\ \A q \in Peer : ~Told(inbox, h, q)
  <2>1. ASSUME NEW q \in joinTimers[h]
        PROVE  FALSE
    <3>1. Id(q) \in Node
      BY <1>1, Kinds DEF TypeOK
    <3>2. QED
      BY <1>9, <3>1 DEF Course, Orderly, Waits
  <2>2. ASSUME NEW q \in Peer, Told(inbox, h, q)
        PROVE  FALSE
    <3>1. Id(q) \in Node
      BY Kinds
    <3>2. QED
      BY <1>9, <2>2, <3>1 DEF Course, Orderly, Waits
  <2>3. QED
    BY <2>1, <2>2
<1>11. AnswerJoinRequest(h, p, Id(p), gid, gs, box, {})
  BY <1>3, <1>8, <1>10
<1>12. /\ state'[h] = "CONNECTED" /\ \A n \in Node \ {h} : state'[n] = state[n]
       /\ peerState' = [peerState EXCEPT ![h][p] = "JOINING"]
  BY <1>1 DEF HandleJoin, FoundGroup, Identified, TypeOK
<1>13. \A n \in Node, q \in Peer :
          peerState'[n][q] = IF n = h /\ q = p THEN "JOINING" ELSE peerState[n][q]
  BY <1>1, <1>12 DEF TypeOK
<1>14. \A n \in Node \ {h} : /\ state'[n] = state[n] /\ localGroup'[n] = localGroup[n]
                             /\ peerState'[n] = peerState[n]
  BY <1>1, <1>7, <1>12 DEF TypeOK
<1>15. gs[gid] = UpdateNeighbours(gs[gid], h) /\ Ids(gs[gid].ring) = Whole(h)
  <2>1. Present(h, h) \cup {h} = Whole(h)
    BY <1>9 DEF Present, Whole
  <2>2. CASE state[h] = "CONNECTED"
    <3>1. localGroup' = localGroup /\ gs = groups[h]
      BY <1>6, <2>2 DEF HandleJoin, Record
    <3>2. PICK g : g = gs[gid] /\ g = groups[h][localGroup[h]]
      BY <1>5, <3>1
    <3>3. QED
      BY <2>1, <2>2, <3>2, RingOfMember
  <2>3. CASE state[h] # "CONNECTED"
    <3>1. \A y \in Node : ~Heard(h, y)
      BY <2>3, EntryConnected
    <3>2. Whole(h) = {h}
      BY <3>1 DEF Whole
    <3>3. PICK g : g = AddToRings(NewGroup, Local(h))
      OBVIOUS
    <3>4. gs[gid] = g
      BY <1>1, <1>6, <1>7, <2>3, <3>3 DEF Record, TypeOK
    <3>5. /\ g = [members |-> {}, ring |-> {Local(h)}, preds |-> {}, succs |-> {}]
      <4>1. Put({}, Local(h)) = {Local(h)}
        BY DEF Put
      <4>2. QED
        BY <3>3, <4>1 DEF AddToRings, NewGroup
    <3>6. Ids(g.ring) = {h}
      BY <3>5 DEF Ids, Local, Id
    <3>7. g = UpdateNeighbours(g, h)
      <4>1. NoNeighbour(g.ring, h)
        BY <3>6 DEF NoNeighbour
      <4>2. UpdateNeighbours(g, h) = [g EXCEPT !.preds = {}, !.succs = {}]
        BY <4>1 DEF UpdateNeighbours
      <4>3. QED
        BY <3>5, <4>2
    <3>8. QED
      BY <3>2, <3>4, <3>6, <3>7
  <2>4. QED
    BY <2>2, <2>3
<1>16. ~Heard(h, x)
  BY <1>4, NotifsAre DEF Unheard, Heard
<1>17. \A y \in Node : Heard(h, y) => peerState'[h][<<y, "joiner">>] = "CONNECTED"
  <2> TAKE y \in Node
  <2>1. <<y, "joiner">> \in Peer /\ (Heard(h, y) => <<y, "joiner">> # p)
    <3>1. <<y, "joiner">> \in Peer /\ Id(<<y, "joiner">>) = y
      BY JoinerPeers DEF Id
    <3>2. QED
      BY <1>3, <1>16, <3>1
  <2>2. Heard(h, y) => peerState[h][<<y, "joiner">>] = "CONNECTED"
    BY <1>9 DEF Under
  <2>3. QED
    BY <1>13, <2>1, <2>2
<1>18. /\ Lacks(box, h, x) /\ Notes(box, {h} \X Peer) /\ Notices(box, {})
       /\ \A q \in Peer : ~Told(box, h, q)
  <2>1. m.type = "JOIN" /\ m # ReadyNotifMsg
    BY <1>2 DEF JoinMsg, ReadyNotifMsg
  <2>2. Lacks(box, h, x) /\ Notes(box, {h} \X Peer) /\ Notices(box, {})
    BY <1>1, <1>2, <2>1, ReadMail
  <2>3. QED
    BY <1>10, <2>2 DEF Notes
<1>19. LetIn(h, p, gid, gs, box)
  BY <1>3, <1>4, <1>5, <1>9, <1>11, <1>12, <1>13, <1>14, <1>15, <1>17, <1>18 DEF LetIn
<1>20. QED
  BY <1>7, <1>19

LEMMA JoinCourse ==
    ASSUME NEW h \in Node, DistinctAddresses, Course(h), Awaits, NEW a \in Node,
           NEW p \in Peer, HandleJoin(a, p)
    PROVE  Entrance(h)' /\ Orderly(h)' /\ Awaits'
<1>1. a = h
  <2>1. Reads(a, p, "JOIN")
    BY DEF HandleJoin
  <2>2. QED
    BY <2>1, JoinsAtEntry DEF Course, Calm
<1>2. CASE joinToken[h]
  <2>1. PICK box : box = Consume(h, p)
    OBVIOUS
  <2>2. box \in Inboxes
    <3>1. TypeOK /\ CInv /\ Reads(h, p, "JOIN")
      BY <1>1 DEF Course, Calm, IInv, HandleJoin
    <3>2. QED
      BY <2>1, <3>1, ReadParts
  <2>3. PICK gid \in GroupId, gs \in [GroupId -> Group] : LetIn(h, p, gid, gs, box)
    BY <1>1, <1>2, <2>1, JoinLetsIn
  <2>4. QED
    BY <2>2, <2>3, LetInCourse
<1>3. CASE ~joinToken[h]
  <2>1. Aside(h, h)
    BY <1>1, <1>3, JoinWaits DEF Course
  <2>2. QED
    BY <2>1, AsideEntrance, AsideOrderly DEF Course
<1>4. QED
  BY <1>2, <1>3

-----------------------------------------------------------------------------
(* The announcement goes round                                             *)

\* Member a reads announcement m, calls c and tells its successors.
Learns(a, c, m) ==
    LET gid == localGroup[a]
    IN  /\ OnlyAt(a) /\ Admits(a, c, gid, groups[a], joinTimers[a])
        /\ logs'[a] = logs[a] \cup {m}
        /\ Flows(Id(c), {a}, Ids(groups[a][gid].succs), {})
        /\ Notes(inbox', {}) /\ Notices(inbox', {})
        /\ UNCHANGED <<state, localGroup, newPeers, readyTimers>>
        /\ peerState' = [peerState EXCEPT ![a][c] = "JOINING"]

\* It is told for the first time.
Learned(h, a, c, m) ==
    /\ c = <<Id(c), "called">> /\ a # h /\ a # Id(c) /\ m \in Notifs
    /\ state[a] = "CONNECTED" /\ NotifAt(a, Id(c)) /\ ~Heard(a, Id(c))

LEMMA NotifLearns ==
    ASSUME NEW h \in Node, Course(h), NEW a \in Node, NEW p \in Peer,
           HandleJoinNotif(a, p), NEW m, m = Head(inbox[a][p]),
           NEW c, c = <<m.peer, "called">>
    PROVE  c \in Peer /\ Learned(h, a, c, m) /\ Learns(a, c, m)
<1>1. TypeOK /\ CInv /\ IInv /\ AllRun /\ Grouped(h)
  BY DEF Course, Calm, IInv, Peace
<1>2. /\ Reads(a, p, "JOIN_NOTIF") /\ Ours(a, m) /\ LogForwarded(a, m)
      /\ m \notin logs[a]
  BY DEF HandleJoinNotif, ReadsNotif
<1>3. /\ m \in Message /\ m \in Range(inbox[a][p]) /\ m.type = "JOIN_NOTIF"
      /\ inbox[a][p] # <<>> /\ Consume(a, p) \in Inboxes /\ m \in Notifs
  BY <1>1, <1>2, ReadParts
<1>4. PICK x \in Node, gid \in GroupId : x = m.peer /\ gid = m.group
  BY <1>3, MessageFields
<1>5. c \in Peer /\ c = <<x, "called">> /\ Id(c) = x
  BY <1>4 DEF Peer, PeerKind, Id
<1>6. gid = localGroup[a] /\ localGroup[a] # NoGroup /\ gid \in markers[a]
  <2>1. gid = localGroup[a] /\ localGroup[a] # NoGroup
    BY <1>2, <1>4, NetworkAssumption DEF Ours
  <2>2. QED
    BY <1>1, <2>1, GroupAt
<1>7. NotifAt(a, x)
  <2>1. Id(p) \in Node
    BY Kinds
  <2>2. QED
    BY <1>3, <1>4, <2>1 DEF NotifAt, Holds
<1>8. ~Heard(a, x)
  <2> SUFFICES ASSUME NEW e \in logs[a], e.type = "JOIN_NOTIF", e.peer = x
               PROVE  FALSE
    BY DEF Heard
  <2>1. e \in Notifs
    BY NotifsAre
  <2>2. e = m
    BY <1>1, <1>3, <1>4, <2>1 DEF CInv, AnnouncedOnce
  <2>3. QED
    BY <1>2, <2>2
<1>9. a # h /\ a # x /\ state[a] = "CONNECTED"
  <2>1. a # h
    BY <1>2, <1>3 DEF Course, Entrance, NoticesLogged
  <2>2. a # x /\ Member(h, a)
    BY <1>7 DEF Course, Orderly, MembersHear
  <2>3. QED
    BY <2>1, <2>2 DEF Member
<1>10. Learned(h, a, c, m)
  BY <1>3, <1>5, <1>7, <1>8, <1>9 DEF Learned
<1>11. PICK g \in Group : g = groups[a][gid]
  BY <1>1 DEF TypeOK
<1>12. PICK S \in SUBSET Peer : S = g.succs /\ S = Relays(a, m)
  BY <1>4, <1>6, <1>11 DEF Relays, Group
<1>13. PICK box : box = Consume(a, p)
  OBVIOUS
<1>14. PICK after : after = Deliver(box, a, S, m)
  OBVIOUS
<1>15. PICK gs \in [GroupId -> Group] : gs = groups[a]
  BY <1>1 DEF TypeOK
<1>16. /\ AcknowledgeJoin(a, c, gid, gs, after, S, joinTimers[a])
       /\ joinToken' = [joinToken EXCEPT ![a] = FALSE]
       /\ peerState' = [peerState EXCEPT ![a][c] = "JOINING"]
       /\ UNCHANGED <<state, localGroup, newPeers, readyTimers>>
  BY <1>4, <1>12, <1>13, <1>14, <1>15 DEF HandleJoinNotif, Identified
<1>17. Admits(a, c, gid, gs, joinTimers[a]) /\ inbox' = Deliver(after, a, {c}, AckMsg(gid))
  BY <1>1, <1>5, <1>16, AcknowledgeAdmits
<1>18. /\ logs'[a] = logs[a] \cup {m}
       /\ \A n \in Node \ {a} : logs'[n] = logs[n]
  BY <1>1, <1>2, <1>4, <1>6 DEF LogForwarded, TypeOK
<1>19. \A n, y \in Node : Heard(n, y)' <=> Heard(n, y) \/ (y = x /\ n = a)
  BY <1>3, <1>4, <1>18 DEF Heard
<1>20. Flows(x, {a}, Ids(S), {}) /\ Notes(inbox', {}) /\ Notices(inbox', {})
  <2>1. m # ReadyNotifMsg
    BY <1>3 DEF ReadyNotifMsg
  <2>2. PICK C, M : C = {} /\ M = {}
    OBVIOUS
  <2>3. box \in Inboxes /\ Lacks(box, a, x) /\ Notes(box, C) /\ Notices(box, M)
    <3>1. m.type = "JOIN_NOTIF" /\ m.peer = x
      BY <1>3, <1>4
    <3>2. inbox[a][p] # <<>> /\ TypeOK
      BY <1>1, <1>3
    <3>3. QED
      BY <1>13, <3>1, <3>2, ReadNotifMail
  <2>4. m \in Notifs \cup M
    BY <1>3
  <2>5. \A n, y \in Node : Heard(n, y)' <=> Heard(n, y) \/ (y = Id(c) /\ n = a)
    BY <1>5, <1>19
  <2>6. Lacks(box, a, Id(c)) /\ m.peer = Id(c)
    BY <1>4, <1>5, <2>3
  <2>7. Flows(Id(c), {a}, Ids(S), {}) /\ Notes(inbox', C) /\ Notices(inbox', M)
    BY <1>1, <1>3, <1>5, <1>14, <1>17, <2>3, <2>4, <2>5, <2>6, AnswerMail
  <2>8. QED
    BY <1>5, <2>2, <2>7
<1>21. \A n \in Node \ {a} : joinToken'[n] = joinToken[n] /\ peerState'[n] = peerState[n]
  BY <1>1, <1>16 DEF TypeOK
<1>22. OnlyAt(a)
  BY <1>16, <1>17, <1>18, <1>21 DEF OnlyAt, Admits
<1>23. Learns(a, c, m)
  BY <1>5, <1>6, <1>11, <1>12, <1>15, <1>16, <1>17, <1>18, <1>20, <1>22 DEF Learns
<1>24. QED
  BY <1>5, <1>10, <1>23

LEMMA LearnsEntrance ==
    ASSUME NEW h \in Node, Course(h), NEW a \in Node, NEW c \in Peer, NEW m,
           Learned(h, a, c, m), Learns(a, c, m)
    PROVE  Entrance(h)'
<1>1. TypeOK
  BY DEF Course, Calm, IInv
<1>2. LogsGrow
  BY DEF Learns, OnlyAt, LogsGrow
<1>3. NoticesLogged(h)'
  <2>1. PICK M : M = {}
    OBVIOUS
  <2>2. \A n \in Node : \A e \in logs'[n] :
           e.type = "JOIN_NOTIF" => e \in Notifs \cup M
    BY NotifsAre DEF Learns, Learned, OnlyAt
  <2>3. \A n \in Node, p \in Peer : \A e \in Range(inbox'[n][p]) :
              e.type = "JOIN_NOTIF" => e \in Notifs \cup M
    BY <2>1 DEF Learns, Notices
  <2>4. NoticesLogged(h)
    BY DEF Course, Entrance
  <2>5. QED
    BY <1>2, <2>1, <2>2, <2>3, <2>4, NoticesKept
<1>4. OthersDoNotAnswer(h)'
  BY DEF Course, Entrance, OthersDoNotAnswer, Learns
<1>5. \A n \in Node, q \in Peer :
         peerState'[n][q] = IF n = a /\ q = c THEN "JOINING" ELSE peerState[n][q]
  BY <1>1 DEF Learns, TypeOK
<1>6. PortsKnown(h)'
  <2>1. newPeers' = newPeers /\ peerState'[h] = peerState[h]
    BY DEF Learns, Learned, OnlyAt
  <2>2. QED
    BY <2>1 DEF Course, Entrance, PortsKnown, Known
<1>7. KnownAs(h)'
  <2>1. ASSUME NEW n \in Node, NEW p \in Peer, peerState'[n][p] # peerState[n][p]
        PROVE  MayBe(h, n, p, peerState'[n][p])
    <3>1. n = a /\ p = c /\ peerState'[n][p] = "JOINING"
      BY <1>5, <2>1
    <3>2. p[2] = "called" /\ a # h
      BY <3>1 DEF Learned
    <3>3. QED
      BY <3>1, <3>2 DEF MayBe, Asking
  <2>2. QED
    BY <1>2, <2>1, KnownAsKept DEF Course, Entrance
<1>8. AnsweredWait'
  <2>1. \A p \in joinTimers'[a] : p \in joinTimers[a] \/ p = c
    BY DEF Learns, Admits, Put
  <2>2. c[2] = "called"
    BY DEF Learned
  <2>3. QED
    BY <2>1, <2>2 DEF Course, Entrance, AnsweredWait, Learns, OnlyAt, Answering
<1>9. RingAt(a)'
  <2>1. PICK x, gid : x = Id(c) /\ gid = localGroup[a]
    OBVIOUS
  <2>2. /\ Ids(groups'[a][gid].ring) = Ids(groups[a][gid].ring) \cup {x}
        /\ peers'[a] = Put(peers[a], c)
    BY <2>1 DEF Learns, Admits
  <2>3. Ids(peers'[a]) = Ids(peers[a]) \cup {x}
    BY <2>1, <2>2 DEF Put, Ids
  <2>4. RingAt(a)
    BY DEF Course, Entrance
  <2>5. localGroup'[a] = gid /\ state'[a] = state[a]
    BY <2>1 DEF Learns
  <2>6. QED
    BY <2>1, <2>2, <2>3, <2>4, <2>5 DEF RingAt
<1>10. \A n \in Node : RingAt(n)'
  BY <1>9, RingKept DEF Course, Entrance, Learns, OnlyAt
<1>11. QED
  BY <1>3, <1>4, <1>6, <1>7, <1>8, <1>10 DEF Entrance

LEMMA LearnsOrderly ==
    ASSUME NEW h \in Node, Course(h), NEW a \in Node, NEW c \in Peer, NEW m,
           Learned(h, a, c, m), Learns(a, c, m)
    PROVE  Orderly(h)'
<1>1. PICK x \in Node : x = Id(c) /\ a # x /\ a # h
  BY Kinds DEF Learned
<1>2. PICK g : g = groups[a][localGroup[a]]
  OBVIOUS
<1>3. Spreads(h, x) /\ Heard(h, x) /\ x # h /\ state[a] = "CONNECTED" /\ ~Heard(a, x)
  BY <1>1, TellingSpreads DEF Learned
<1>4. Under(h, x) /\ state[x] # "CONNECTED"
  BY <1>3 DEF Course, Orderly, Stages
<1>5. /\ \A y \in Node : Spreads(h, y) => y = x
      /\ \A n \in Whole(h) \ {x} : state[n] = "CONNECTED"
  BY <1>4, OthersAreIn
<1>6. PICK W \in SUBSET Node : W = Whole(h) \ {x}
  BY DEF Whole
<1>7. a \in W
  BY <1>1, <1>3, <1>6, ConnectedIn
<1>8. g \in Group /\ g = UpdateNeighbours(g, a) /\ Ids(g.ring) = W
  <2>1. Present(h, a) \cup {a} = W
    BY <1>3, <1>5, <1>6, <1>7 DEF Present, Whole
  <2>2. QED
    BY <1>2, <1>3, <2>1, RingOfMember
<1>9. /\ \A i \in RingIndex : Id(Successor(i, Canon(W), Local(a))) \in Ids(g.succs) \cup {a}
      /\ Ids(Neighbours(g)) \subseteq W \ {a}
  BY <1>7, <1>8, FreshRelays
<1>10. PICK S \in SUBSET Node : S = Ids(g.succs) /\ S \subseteq W \ {a}
  <2>1. Ids(g.succs) \subseteq Ids(Neighbours(g))
    BY DEF Neighbours, Ids
  <2>2. QED
    BY <1>9, <2>1
<1>11. May(h, x, {a}, S, {}, {})
  <2>1. \A n \in {a} \cup S : n # x /\ Member(h, n)
    BY <1>1, <1>3, <1>5, <1>6, <1>10 DEF Member
  <2>2. \A n \in {a}, i \in RingIndex :
           Id(Successor(i, Canon(Whole(h) \ {x}), Local(n))) \in S \cup {a}
    BY <1>6, <1>9, <1>10
  <2>3. QED
    BY <1>3, <1>4, <2>1, <2>2 DEF May
<1>12. Moves(h, x, {a}, S, {}, {})
  <2>1. Flows(x, {a}, S, {})
    BY <1>1, <1>2, <1>10 DEF Learns
  <2>2. \A q \in Peer : Told(inbox', h, q) =>
           Told(inbox, h, q) /\ (Once(inbox[h][q]) => Once(inbox'[h][q]))
    BY DEF Learns, Notes
  <2>3. state' = state /\ readyTimers' = readyTimers /\ OnlyAt(a)
    BY DEF Learns
  <2>4. QED
    BY <1>1, <2>1, <2>2, <2>3 DEF Moves, OnlyAt, Spreads
<1>13. Views(h, x, {a}, {})
  <2>1. /\ Ids(peers'[a]) = Ids(peers[a]) \cup {x}
        /\ \A n \in Node \ {a} : peers'[n] = peers[n]
    BY <1>1 DEF Learns, Admits, Put, Ids
  <2>2. Member(h, a)
    BY <1>3 DEF Member
  <2>3. \A n \in Node \ {a} : {y \in {x} : n \in {a}} = {}
    OBVIOUS
  <2>4. {y \in {x} : a \in {a}} = {x}
    OBVIOUS
  <2>5. QED
    BY <2>1, <2>2, <2>3, <2>4 DEF Views
<1>14. {a} \in SUBSET Node
  OBVIOUS
<1>15. QED
  BY <1>11, <1>12, <1>13, <1>14, MovesOrderly

LEMMA LearnsAwaits ==
    ASSUME NEW h \in Node, Course(h), Awaits, NEW a \in Node, NEW c \in Peer, NEW m,
           Learned(h, a, c, m), Learns(a, c, m)
    PROVE  Awaits'
<1>1. PICK x \in Node : x = Id(c) /\ a # x /\ a # h
  BY Kinds DEF Learned
<1>2. TypeOK /\ state' = state /\ localGroup' = localGroup
      /\ (\A n \in Node : \A q \in peers[n] : q \in Peer)
  BY DEF Course, Calm, IInv, Learns, TypeOK
<1>3. \A n \in Node, q \in Peer :
         peerState'[n][q] = IF n = a /\ q = c THEN "JOINING" ELSE peerState[n][q]
  BY <1>2 DEF Learns, TypeOK
<1>4. \A n \in Node, q \in Peer : Told(inbox, n, q) => Told(inbox', n, q)
  BY DEF Learns, Notes
<1>5. ASSUME NEW n \in Node \ {a}
      PROVE  Awaited(n)' /\ TokenTaken(n)'
  <2>1. Awaited(n) /\ TokenTaken(n)
    BY DEF Awaits
  <2>2. /\ peers'[n] = peers[n] /\ groups'[n] = groups[n]
        /\ localGroup'[n] = localGroup[n] /\ joinTimers'[n] = joinTimers[n]
        /\ joinToken'[n] = joinToken[n] /\ peerState'[n] = peerState[n]
    BY DEF Learns, OnlyAt
  <2>3. \A q \in peers[n] : Told(inbox, n, q) => Told(inbox', n, q)
    BY <1>2, <1>4
  <2>4. Awaited(n)'
    BY <1>2, <2>1, <2>2, <2>3, AwaitedKept
  <2>5. TokenTaken(n)'
    BY <2>1, <2>2, TokenTakenKept
  <2>6. QED
    BY <2>4, <2>5
<1>6. c \in peers'[a] /\ peerState'[a][c] = "JOINING"
  BY <1>3 DEF Learns, Admits, Put
<1>7. TokenTaken(a)'
  BY <1>6 DEF TokenTaken
<1>8. Spreads(h, x) /\ Under(h, x) /\ state[x] # "CONNECTED" /\ ~Heard(a, x)
  BY <1>1, TellingSpreads DEF Learned, Course, Orderly, Stages
<1>9. Awaited(a)'
  <2> SUFFICES ASSUME NEW q \in peers'[a], peerState'[a][q] # "CONNECTED"
               PROVE  \/ q \in joinTimers'[a]
                      \/ state'[Id(q)] # "CONNECTED" /\ Near(a, Id(q))'
                      \/ Told(inbox', a, q)
    BY DEF Awaited, Told
  <2>1. q = c \/ q \in peers[a]
    BY DEF Learns, Admits, Put
  <2>2. joinTimers'[a] = IF x \in Ids(Neighbours(groups'[a][localGroup[a]]))
                         THEN joinTimers[a] ELSE Put(joinTimers[a], c)
    BY <1>1 DEF Learns, Admits
  <2>3. CASE q = c
    <3>1. Near(a, x)' \/ c \in joinTimers'[a]
      BY <1>2, <2>2 DEF Near, Put
    <3>2. QED
      BY <1>1, <1>2, <1>8, <2>3, <3>1
  <2>4. CASE q # c /\ q \in peers[a]
    <3>1. q \in Peer /\ peerState[a][q] # "CONNECTED"
      BY <1>2, <1>3, <2>4
    <3>2. Id(q) \in Whole(h) \ {a}
      BY <2>4, ViewKinds
    <3>3. Id(q) # x
      <4>1. Id(q) \in Ids(peers[a]) /\ Ids(peers[a]) = Present(h, a)
        BY <2>4 DEF Ids, Course, Orderly, MemberSees, Member, Learned
      <4>2. QED
        BY <1>8, <4>1 DEF Present
    <3>4. state[Id(q)] = "CONNECTED"
      BY <1>8, <3>2, <3>3, OthersAreIn
    <3>5. q \in joinTimers[a] \/ Told(inbox, a, q)
      BY <2>4, <3>1, <3>4 DEF Awaits, Awaited
    <3>6. q \in joinTimers[a] => q \in joinTimers'[a]
      BY <1>1, <2>2, <3>3 DEF Put
    <3>7. QED
      BY <1>4, <3>1, <3>5, <3>6
  <2>5. QED
    BY <2>1, <2>3, <2>4
<1>10. QED
  BY <1>5, <1>7, <1>9 DEF Awaits

LEMMA NotifCourse ==
    ASSUME NEW h \in Node, Course(h), Awaits, NEW a \in Node, NEW p \in Peer,
           HandleJoinNotif(a, p)
    PROVE  Entrance(h)' /\ Orderly(h)' /\ Awaits'
<1>1. PICK m : m = Head(inbox[a][p])
  OBVIOUS
<1>2. PICK c : c = <<m.peer, "called">>
  OBVIOUS
<1>3. c \in Peer /\ Learned(h, a, c, m) /\ Learns(a, c, m)
  BY <1>1, <1>2, NotifLearns
<1>4. QED
  BY <1>3, LearnsEntrance, LearnsOrderly, LearnsAwaits

-----------------------------------------------------------------------------
(* The newcomer is acknowledged                                            *)

\* Node a reads the acknowledgement m of p, whom it has asked to let it in.
Greeted(h, a, p, m) ==
    /\ Entering(h, a) /\ a # h /\ p[2] \in Asking
    /\ p[2] = "entry" => Id(p) = h
    /\ Heard(Id(p), a) /\ ~Known(a, p)
    /\ m \in Message /\ m.type = "JOIN_ACK" /\ inbox[a][p] # <<>>
    /\ m = Head(inbox[a][p])

\* It enters p in its view and in the rings.
Meets(a, p, m) ==
    /\ OnlyAt(a) /\ inbox' = Consume(a, p)
    /\ UNCHANGED <<state, joinToken, readyTimers, joinTimers, logs>>
    /\ peerState' = [peerState EXCEPT ![a][p] = "CONNECTED"]
    /\ peers'[a] = Put(peers[a], p)
    /\ Ids(groups'[a][localGroup'[a]].ring) = Ids(peers[a]) \cup {Id(p)}

LEMMA AckGreeted ==
    ASSUME NEW h \in Node, Course(h), NEW a \in Node, NEW p \in Peer,
           HandleJoinAck(a, p), NEW m, m = Head(inbox[a][p])
    PROVE  Greeted(h, a, p, m)
<1>1. /\ IInv /\ CInv /\ EntryKept(h) /\ TypeOK /\ Settled(h)
  BY DEF Course, Calm, IInv
<1>2. Reads(a, p, "JOIN_ACK") /\ a # h
  BY <1>1, NoAckAtEntry DEF HandleJoinAck
<1>3. /\ m \in Message /\ m \in Range(inbox[a][p]) /\ m.type = "JOIN_ACK"
      /\ inbox[a][p] # <<>> /\ p[2] \in Asking /\ p \in conns[a]
  BY <1>1, <1>2, AckParts
<1>4. p[2] = "entry" => Id(p) = h
  <2>1. p[2] = "entry" => Id(p) = entry[a] /\ Id(p) # a
    BY <1>1, <1>3, CInvAt DEF OpenAt
  <2>2. QED
    BY <1>1, <2>1 DEF EntryKept
<1>5. PICK n \in Node, q \in Peer : n = Id(p) /\ q = OtherEnd(a, p)
  BY Kinds
<1>6. OtherEnd(n, q) = p /\ Id(q) = a /\ q[2] \in Answering
  BY <1>3, <1>5, Kinds
<1>7. Heard(n, a)
  <2>1. ~Silent(inbox[a][p])
    BY <1>3, Kinds DEF Silent, Failure
  <2>2. QED
    BY <1>1, <1>6, <2>1, CInvAt DEF FreshAt
<1>8. ~Known(a, p)
  <2>1. AckAt(n, q)
    BY <1>1, CInvAt
  <2>2. QED
    BY <1>3, <1>6, <2>1 DEF AckAt
<1>9. state[a] # "CONNECTED"
  <2>1. ~Arrived(a)
    BY <1>3 DEF Arrived
  <2>2. QED
    BY <1>1, <1>2, <2>1 DEF Settled, ReadyIsLate, ReadyMet
<1>10. Entering(h, a)
  BY <1>7, <1>9, HeardAtEntry DEF Entering, Course, Entrance
<1>11. QED
  BY <1>2, <1>3, <1>4, <1>5, <1>7, <1>8, <1>10 DEF Greeted

LEMMA AckMeets ==
    ASSUME NEW h \in Node, Course(h), NEW a \in Node, NEW p \in Peer,
           HandleJoinAck(a, p), NEW m, m = Head(inbox[a][p])
    PROVE  Meets(a, p, m)
<1>1. TypeOK /\ IInv /\ Peace(h) /\ InGroup(inbox, localGroup[h]) /\ RingAt(a)
  BY DEF Course, Calm, IInv, Peace, Sends, Entrance
<1>2. PICK gid : gid = localGroup[h]
  OBVIOUS
<1>3. /\ Entering(h, a) /\ m \in Message /\ m.type = "JOIN_ACK"
      /\ m \in Range(inbox[a][p])
  <2>1. Entering(h, a)
    BY AckGreeted DEF Greeted
  <2>2. Reads(a, p, "JOIN_ACK") /\ CInv
    BY DEF HandleJoinAck, Course, Calm
  <2>3. QED
    BY <1>1, <2>1, <2>2, AckParts
<1>4. m.group = gid /\ gid \in GroupId /\ gid # NoGroup
  BY <1>1, <1>2, <1>3, MessageFields, NetworkAssumption DEF InGroup, Carries
<1>5. \/ localGroup[a] = NoGroup /\ groupIds[a] = {} /\ peers[a] = {}
      \/ localGroup[a] = gid /\ groupIds[a] = {gid}
  <2>1. CASE localGroup[a] = NoGroup
    BY <1>1, <2>1 DEF IInv, LocalGroupKept, KeptAt
  <2>2. CASE localGroup[a] # NoGroup
    BY <1>1, <1>2, <2>2, GroupAt DEF Peace
  <2>3. QED
    BY <2>1, <2>2
<1>6. PICK g : g = IF localGroup[a] = NoGroup THEN NewGroup ELSE groups[a][gid]
  OBVIOUS
<1>7. /\ groups' = [groups EXCEPT ![a][gid] = AddPeer(g, p)]
      /\ newPeers' = [newPeers EXCEPT ![a][AddrOfPeer(p)] = NoEntry]
      /\ peers' = [peers EXCEPT ![a] = Put(@, p)]
  BY <1>4, <1>5, <1>6 DEF HandleJoinAck
<1>8. peerState' = [peerState EXCEPT ![a][p] = "CONNECTED"]
  BY DEF HandleJoinAck, Identified
<1>9. inbox' = Consume(a, p) /\ UNCHANGED <<state, joinToken, readyTimers, joinTimers, logs>>
  BY DEF HandleJoinAck
<1>10. localGroup' = [localGroup EXCEPT ![a] = gid]
  <2>1. \/ localGroup[a] = NoGroup /\ localGroup' = [localGroup EXCEPT ![a] = gid]
        \/ localGroup[a] = gid /\ localGroup' = localGroup
    BY <1>4, <1>5 DEF HandleJoinAck
  <2>2. QED
    BY <1>1, <2>1 DEF TypeOK
<1>11. OnlyAt(a)
  BY <1>1, <1>7, <1>8, <1>9, <1>10 DEF OnlyAt, TypeOK
<1>12. g \in Group /\ Ids(g.ring) = Ids(peers[a])
  <2>1. CASE localGroup[a] = NoGroup
    <3>1. g \in Group
      BY <1>6, <2>1 DEF NewGroup, Group
    <3>2. QED
      BY <1>5, <1>4, <1>6, <2>1, <3>1 DEF NewGroup, Ids
  <2>2. CASE localGroup[a] # NoGroup
    <3>1. localGroup[a] = gid /\ g = groups[a][gid] /\ state[a] # "CONNECTED"
      BY <1>3, <1>5, <1>6, <2>2 DEF Entering
    <3>2. g \in Group
      BY <1>1, <1>4, <3>1 DEF TypeOK
    <3>3. Ids(g.ring) = Ids(peers[a]) \cup {}
      BY <1>1, <2>2, <3>1 DEF RingAt
    <3>4. QED
      BY <3>2, <3>3
  <2>3. QED
    BY <2>1, <2>2
<1>13. PICK u : u = AddPeer(g, p)
  OBVIOUS
<1>14. Ids(u.ring) = Ids(peers[a]) \cup {Id(p)}
  BY <1>12, <1>13, RingIds
<1>15. groups'[a][localGroup'[a]] = u /\ peers'[a] = Put(peers[a], p)
  BY <1>1, <1>4, <1>7, <1>10, <1>13 DEF TypeOK
<1>16. QED
  BY <1>8, <1>9, <1>11, <1>14, <1>15 DEF Meets

LEMMA MeetsParts ==
    ASSUME NEW h \in Node, Course(h), NEW a \in Node, NEW p \in Peer, NEW m,
           Greeted(h, a, p, m), Meets(a, p, m)
    PROVE  /\ ReadFrom(inbox', a, p, m) /\ HoldsLess(inbox', a, Id(p), m)
           /\ \A n \in Node, q \in Peer :
                 peerState'[n][q] = IF n = a /\ q = p THEN "CONNECTED" ELSE peerState[n][q]
           /\ Ids(peers'[a]) = Ids(peers[a]) \cup {Id(p)}
<1>1. TypeOK
  BY DEF Course, Calm, IInv
<1>2. PICK box : box = Consume(a, p) /\ inbox' = box
  BY DEF Meets
<1>3. inbox[a][p] # <<>> /\ m = Head(inbox[a][p])
  BY DEF Greeted
<1>4. ReadFrom(box, a, p, m)
  BY <1>1, <1>2, <1>3, ConsumeIs
<1>5. HoldsLess(box, a, Id(p), m)
  BY <1>4, ConsumeHolds
<1>6. \A n \in Node, q \in Peer :
         peerState'[n][q] = IF n = a /\ q = p THEN "CONNECTED" ELSE peerState[n][q]
  BY <1>1 DEF Meets, TypeOK
<1>7. Ids(peers'[a]) = Ids(peers[a]) \cup {Id(p)}
  BY DEF Meets, Put, Ids
<1>8. QED
  BY <1>2, <1>4, <1>5, <1>6, <1>7

LEMMA MeetsEntrance ==
    ASSUME NEW h \in Node, Course(h), NEW a \in Node, NEW p \in Peer, NEW m,
           Greeted(h, a, p, m), Meets(a, p, m)
    PROVE  Entrance(h)'
<1>1. ReadFrom(inbox', a, p, m)
  BY MeetsParts
<1>2. \A n \in Node, q \in Peer :
         peerState'[n][q] = IF n = a /\ q = p THEN "CONNECTED" ELSE peerState[n][q]
  BY MeetsParts
<1>3. UNCHANGED <<state, readyTimers, joinTimers, logs>> /\ OnlyAt(a) /\ a # h
  BY DEF Meets, Greeted
<1>4. LogsGrow
  BY <1>3 DEF LogsGrow
<1>5. NoticesLogged(h)'
  <2>1. PICK M : M = {}
    OBVIOUS
  <2>2. \A n \in Node : \A e \in logs'[n] :
           e.type = "JOIN_NOTIF" => e \in Notifs \cup M
    BY <1>3, NotifsAre
  <2>3. \A n \in Node, q \in Peer : \A e \in Range(inbox'[n][q]) :
              e.type = "JOIN_NOTIF" => e \in Notifs \cup M
    BY <1>1, NotifsAre DEF ReadFrom
  <2>4. NoticesLogged(h)
    BY DEF Course, Entrance
  <2>5. \A e \in M : e \in logs'[h] /\ e.port = e.peer
    BY <2>1
  <2>6. QED
    BY <1>4, <2>2, <2>3, <2>4, <2>5, NoticesKept
<1>6. OthersDoNotAnswer(h)' /\ AnsweredWait'
  BY <1>3 DEF Course, Entrance, OthersDoNotAnswer, AnsweredWait
<1>7. PortsKnown(h)'
  <2>1. newPeers'[h] = newPeers[h] /\ peerState'[h] = peerState[h]
    BY <1>3 DEF OnlyAt
  <2>2. QED
    BY <2>1 DEF Course, Entrance, PortsKnown, Known
<1>8. KnownAs(h)'
  <2>1. ASSUME NEW n \in Node, NEW q \in Peer, peerState'[n][q] # peerState[n][q]
        PROVE  MayBe(h, n, q, peerState'[n][q])
    <3>1. n = a /\ q = p /\ peerState'[n][q] = "CONNECTED"
      BY <1>2, <2>1
    <3>2. p[2] \in {"entry", "caller"} /\ (p[2] = "entry" => Id(p) = h) /\ a # h
      BY DEF Greeted, Asking
    <3>3. QED
      BY <3>1, <3>2 DEF MayBe, Answering
  <2>2. QED
    BY <1>4, <2>1, KnownAsKept DEF Course, Entrance
<1>9. RingAt(a)'
  <2>1. Ids(groups'[a][localGroup'[a]].ring) = Ids(peers'[a])
    <3>1. Ids(peers'[a]) = Ids(peers[a]) \cup {Id(p)}
      BY MeetsParts
    <3>2. Ids(groups'[a][localGroup'[a]].ring) = Ids(peers[a]) \cup {Id(p)}
      BY DEF Meets
    <3>3. QED
      BY <3>1, <3>2
  <2>2. state'[a] # "CONNECTED"
    BY <1>3 DEF Greeted, Entering
  <2>3. QED
    BY <2>1, <2>2 DEF RingAt
<1>10. \A n \in Node : RingAt(n)'
  BY <1>3, <1>9, RingKept DEF Course, Entrance, OnlyAt
<1>11. QED
  BY <1>5, <1>6, <1>7, <1>8, <1>10 DEF Entrance

LEMMA MeetsOrderly ==
    ASSUME NEW h \in Node, Course(h), NEW a \in Node, NEW p \in Peer, NEW m,
           Greeted(h, a, p, m), Meets(a, p, m)
    PROVE  Orderly(h)'
<1>1. HoldsLess(inbox', a, Id(p), m) /\ m.type = "JOIN_ACK"
  BY MeetsParts DEF Greeted
<1>2. /\ UNCHANGED <<state, joinTimers, readyTimers, logs>>
      /\ OnlyAt(a) /\ a # h
  BY DEF Meets, Greeted
<1>3. Ids(peers'[a]) = Ids(peers[a]) \cup {Id(p)}
  BY MeetsParts
<1>4. Flows(h, {}, {}, {})
  <2>1. \A r, k \in Node, e \in Message :
           /\ Holds(inbox', r, k, e) => Holds(inbox, r, k, e)
           /\ Holds(inbox, r, k, e) =>
                 Holds(inbox', r, k, e) \/ (r = a /\ k = Id(p) /\ e.type = "JOIN_ACK")
    BY <1>1 DEF HoldsLess
  <2>2. \A n, y \in Node : Heard(n, y)' <=> Heard(n, y)
    BY <1>2 DEF Heard
  <2>3. \A n, y \in Node : NotifAt(n, y)' <=> NotifAt(n, y)
    BY <2>1 DEF NotifAt
  <2>4. \A y, n \in Node : /\ AckFrom(y, n)' => AckFrom(y, n)
                           /\ AckFrom(y, n) => AckFrom(y, n)' \/ n \in Ids(peers'[y])
    BY <1>3, <2>1 DEF AckFrom
  <2>5. \A y \in Node : ReadyAt(y)' <=> ReadyAt(y)
    <3>1. ReadyMsg \in Message /\ ReadyMsg.type = "READY"
      BY DEF ReadyMsg, Message
    <3>2. QED
      BY <2>1, <3>1 DEF ReadyAt
  <2>6. QED
    BY <2>2, <2>3, <2>4, <2>5 DEF Flows
<1>5. Moves(h, h, {}, {}, {}, {})
  <2>1. \A q \in Peer : Told(inbox', h, q) =>
           Told(inbox, h, q) /\ (Once(inbox[h][q]) => Once(inbox'[h][q]))
    BY MeetsParts DEF ReadFrom, Told
  <2>2. QED
    BY <1>2, <1>4, <2>1 DEF Moves, OnlyAt, Spreads
<1>6. May(h, h, {}, {}, {}, {})
  BY DEF May
<1>7. Id(p) \in Whole(h) \ {a} /\ ~Member(h, a)
  <2>1. Id(p) \in Node /\ Heard(Id(p), a)
    BY Kinds DEF Greeted
  <2>2. Id(p) # a /\ Member(h, Id(p))
    BY <2>1 DEF Course, Orderly, MembersHear
  <2>3. Id(p) \in Whole(h)
    BY <2>1, <2>2, ConnectedIn DEF Member, Whole
  <2>4. QED
    BY <1>2, <2>2, <2>3 DEF Member, Greeted, Entering
<1>8. Views(h, h, {}, {})
  <2>1. \A n \in Node \ {a} : peers'[n] = peers[n]
    BY <1>2 DEF OnlyAt
  <2>2. QED
    BY <1>3, <1>7, <2>1 DEF Views
<1>9. QED
  BY <1>5, <1>6, <1>8, MovesOrderly

LEMMA MeetsAwaits ==
    ASSUME NEW h \in Node, Course(h), Awaits, NEW a \in Node, NEW p \in Peer, NEW m,
           Greeted(h, a, p, m), Meets(a, p, m)
    PROVE  Awaits'
<1>1. /\ UNCHANGED <<state, joinTimers, joinToken>> /\ OnlyAt(a)
      /\ ~Member(h, a) /\ ~Known(a, p)
  BY DEF Meets, Greeted, Entering, Member
<1>2. \A n \in Node, q \in Peer :
         peerState'[n][q] = IF n = a /\ q = p THEN "CONNECTED" ELSE peerState[n][q]
  BY MeetsParts
<1>3. \A n \in Node, q \in Peer : Told(inbox, n, q) => Told(inbox', n, q)
  <2>1. m # ReadyNotifMsg
    BY DEF Greeted, ReadyNotifMsg
  <2>2. QED
    BY <2>1, MeetsParts DEF ReadFrom, Told
<1>4. ASSUME NEW q \in peers[a]
      PROVE  q \in Peer /\ peerState[a][q] = "CONNECTED" /\ q # p
  BY <1>1, ViewKinds
<1>5. ASSUME NEW n \in Node \ {a}
      PROVE  Awaited(n)' /\ TokenTaken(n)'
  <2>1. Awaited(n) /\ TokenTaken(n)
    BY DEF Awaits
  <2>2. /\ peers'[n] = peers[n] /\ groups'[n] = groups[n]
        /\ localGroup'[n] = localGroup[n] /\ joinTimers'[n] = joinTimers[n]
        /\ joinToken'[n] = joinToken[n] /\ peerState'[n] = peerState[n]
    BY <1>1 DEF OnlyAt
  <2>3. \A q \in peers[n] : Told(inbox, n, q) => Told(inbox', n, q)
    BY <1>3 DEF Course, Calm, IInv, TypeOK
  <2>4. Awaited(n)'
    BY <1>1, <2>1, <2>2, <2>3, AwaitedKept
  <2>5. TokenTaken(n)'
    BY <2>1, <2>2, TokenTakenKept
  <2>6. QED
    BY <2>4, <2>5
<1>6. Awaited(a)'
  <2>1. \A q \in peers'[a] : q = p \/ q \in peers[a]
    BY DEF Meets, Put
  <2>2. \A q \in peers'[a] : peerState'[a][q] = "CONNECTED"
    BY <1>2, <1>4, <2>1
  <2>3. QED
    BY <2>2 DEF Awaited
<1>7. TokenTaken(a)'
  <2>1. TokenTaken(a)
    BY DEF Awaits
  <2>2. joinToken[a]
    BY <1>4, <2>1 DEF TokenTaken
  <2>3. QED
    BY <1>1, <2>2 DEF TokenTaken
<1>8. QED
  BY <1>5, <1>6, <1>7 DEF Awaits

LEMMA AckCourse ==
    ASSUME NEW h \in Node, Course(h), Awaits, NEW a \in Node, NEW p \in Peer,
           HandleJoinAck(a, p)
    PROVE  Entrance(h)' /\ Orderly(h)' /\ Awaits'
<1>1. PICK m : m = Head(inbox[a][p])
  OBVIOUS
<1>2. Greeted(h, a, p, m) /\ Meets(a, p, m)
  BY <1>1, AckGreeted, AckMeets
<1>3. QED
  BY <1>2, MeetsEntrance, MeetsOrderly, MeetsAwaits

-----------------------------------------------------------------------------
(* READY is sent                                                           *)

\* The entry point sends READY to p, whose announcement everybody has read.
Readies(h, p) ==
    /\ UNCHANGED <<state, joinToken, newPeers, joinTimers, peers, peerState, logs>>
    /\ UNCHANGED <<localGroup, groups>>
    /\ Spreads(h, Id(p)) /\ readyTimers' = [readyTimers EXCEPT ![h] = EraseId(@, Id(p))]
    /\ HoldsMore(inbox', inbox, h, {Id(p)}, ReadyMsg) /\ inbox' \in Inboxes
    /\ \A r \in Node, q \in Peer :
          /\ Told(inbox', r, q) <=> Told(inbox, r, q)
          /\ Once(inbox[r][q]) => Once(inbox'[r][q])

LEMMA SendReadies ==
    ASSUME NEW h \in Node, Course(h), NEW a \in Node, NEW p \in Peer, SendReady(a, p)
    PROVE  a = h /\ Readies(h, p) /\ (Timely => Arrived(Id(p)))
<1>1. TypeOK /\ AllRun /\ inbox \in Inboxes
  BY DEF Course, Calm, IInv, TypeOK, Inboxes, Peace
<1>2. /\ UNCHANGED <<state, joinToken, newPeers, joinTimers, peers, peerState, logs>>
      /\ UNCHANGED <<localGroup, groups>>
      /\ readyTimers' = [readyTimers EXCEPT ![a] = EraseId(@, Id(p))]
      /\ inbox' = Deliver(inbox, a, {p}, ReadyMsg)
      /\ p \in readyTimers[a] /\ (Timely => Acknowledged(Id(p)))
  BY DEF SendReady, viewVars, groupVars
<1>3. a = h
  BY <1>2 DEF Course, Entrance, OthersDoNotAnswer
<1>4. Spreads(h, Id(p)) /\ Id(p) \in Node
  BY <1>2, <1>3, Kinds DEF Spreads, Ids
<1>5. ReadyMsg \in Message /\ ReadyMsg # ReadyNotifMsg
  BY DEF Message, ReadyMsg, ReadyNotifMsg
<1>6. PICK box2, M, m : box2 = inbox' /\ M = {p} /\ m = ReadyMsg
  OBVIOUS
<1>7. M \in SUBSET Peer /\ Ids(M) = {Id(p)} /\ box2 = Deliver(inbox, h, M, m)
      /\ m \in Message
  BY <1>2, <1>3, <1>5, <1>6 DEF Ids
<1>8. HoldsMore(box2, inbox, h, Ids(M), m)
  BY <1>1, <1>7, DeliverHolds
<1>9. box2 \in Inboxes /\ SentOn(box2, inbox, h, M, m)
  BY <1>1, <1>7, DeliverIs
<1>10. \A r \in Node, q \in Peer :
          /\ Told(inbox', r, q) <=> Told(inbox, r, q)
          /\ Once(inbox[r][q]) => Once(inbox'[r][q])
  BY <1>5, <1>6, <1>9 DEF SentOn, Told
<1>11. Readies(h, p)
  BY <1>2, <1>3, <1>4, <1>6, <1>7, <1>8, <1>9, <1>10 DEF Readies
<1>12. QED
  BY <1>1, <1>2, <1>3, <1>4, <1>11, AcknowledgedIsArrived

\* By then it has gone round.
LEMMA AllHaveHeard ==
    ASSUME NEW h \in Node, Course(h), NEW x \in Node, Spreads(h, x), Arrived(x)
    PROVE  \A m \in Whole(h) \ {x} : Heard(m, x)
<1>1. PICK T \in SUBSET Node : T = Whole(h) \ {x}
  BY DEF Whole
<1>2. PICK S \in SUBSET Node : S = {m \in Node : Heard(m, x)}
  OBVIOUS
<1>3. Heard(h, x) /\ GoesRound(h)
  BY DEF Course, Orderly, Stages, Under
<1>4. S \subseteq T
  <2>1. \A m \in S : m # x /\ Member(h, m)
    BY <1>2 DEF Course, Orderly, MembersHear
  <2>2. \A m \in S : m \in Whole(h)
    BY <1>2, <2>1, ConnectedIn DEF Member, Whole
  <2>3. QED
    BY <1>1, <2>1, <2>2
<1>5. S # {}
  BY <1>2, <1>3
<1>6. \A m \in S, i \in RingIndex : Id(Successor(i, Canon(T), Local(m))) \in S
  <2> TAKE m \in S, i \in RingIndex
  <2>1. PICK s : s = Id(Successor(i, Canon(T), Local(m)))
    OBVIOUS
  <2>2. s \in Node
    <3>1. Canon(T) \in SUBSET Peer /\ Canon(T) # {} /\ Local(m) \in Peer
      BY <1>4, <1>5, CanonIsPeerMap DEF IsPeerMap, Ids, Local, Peer, PeerKind
    <3>2. Successor(i, Canon(T), Local(m)) \in Canon(T)
      BY <3>1, NeighbourInRing
    <3>3. QED
      BY <2>1, <3>1, <3>2, Kinds
  <2>3. HasTold(h, x, m)
    BY <1>2, <1>3 DEF GoesRound
  <2>4. Heard(s, x) \/ NotifAt(s, x)
    BY <1>1, <2>1, <2>2, <2>3 DEF HasTold
  <2>5. ~NotifAt(s, x)
    BY <2>2 DEF Arrived, NotifAt, Holds
  <2>6. QED
    BY <1>2, <2>1, <2>2, <2>4, <2>5
<1>7. S = T
  <2>1. PICK i \in RingIndex : TRUE
    BY RingAssumption
  <2>2. S \in SUBSET T /\ \A m \in S : Id(Successor(i, Canon(T), Local(m))) \in S
    BY <1>4, <1>6
  <2>3. QED
    BY <1>5, <2>2, ClosedIdsAreWhole
<1>8. QED
  BY <1>1, <1>2, <1>7

LEMMA ReadiesEntrance ==
    ASSUME NEW h \in Node, Course(h), NEW p \in Peer, Readies(h, p)
    PROVE  Entrance(h)'
<1>1. /\ UNCHANGED <<state, newPeers, joinTimers, peers, peerState, logs>>
      /\ UNCHANGED <<localGroup, groups>>
  BY DEF Readies
<1>2. LogsGrow
  BY <1>1 DEF LogsGrow
<1>3. NoticesLogged(h)'
  <2>1. PICK M : M = {}
    OBVIOUS
  <2>2. \A n \in Node : \A e \in logs'[n] :
           e.type = "JOIN_NOTIF" => e \in Notifs \cup M
    BY <1>1, NotifsAre
  <2>3. ASSUME NEW n \in Node, NEW q \in Peer, NEW e \in Range(inbox'[n][q]),
               e.type = "JOIN_NOTIF"
        PROVE  e \in Notifs \cup M
    <3>1. PICK s \in Seq(Message) : s = inbox'[n][q]
      BY DEF Readies, Inboxes
    <3>2. e \in Message
      BY <2>3, <3>1 DEF Range
    <3>3. PICK k \in Node : k = Id(q) /\ Holds(inbox', n, k, e)
      BY <2>3, Kinds DEF Holds
    <3>4. e # ReadyMsg
      BY <2>3 DEF ReadyMsg
    <3>5. Holds(inbox, n, k, e)
      BY <3>2, <3>3, <3>4 DEF Readies, HoldsMore
    <3>6. QED
      BY <2>3, <3>5, NotifsAre DEF Holds
  <2>4. NoticesLogged(h)
    BY DEF Course, Entrance
  <2>5. QED
    BY <1>2, <2>1, <2>2, <2>3, <2>4, NoticesKept
<1>4. OthersDoNotAnswer(h)'
  <2>1. \A n \in Node \ {h} : readyTimers'[n] = readyTimers[n]
    BY DEF Readies, Course, Calm, IInv, TypeOK
  <2>2. QED
    BY <2>1 DEF Course, Entrance, OthersDoNotAnswer
<1>5. AnsweredWait' /\ PortsKnown(h)'
  BY <1>1, PortsKept DEF Course, Entrance, AnsweredWait
<1>6. KnownAs(h)'
  BY <1>1, <1>2, KnownAsKept DEF Course, Entrance
<1>7. \A n \in Node : RingAt(n)'
  BY <1>1, RingKept DEF Course, Entrance
<1>8. QED
  BY <1>3, <1>4, <1>5, <1>6, <1>7 DEF Entrance

LEMMA ReadiesOrderly ==
    ASSUME NEW h \in Node, Course(h), NEW p \in Peer, Readies(h, p), Arrived(Id(p))
    PROVE  Orderly(h)'
<1>1. PICK x \in Node : x = Id(p) /\ Spreads(h, x) /\ Arrived(x)
  BY Kinds DEF Readies
<1>2. /\ UNCHANGED <<state, joinToken, joinTimers, peers, peerState, logs>>
      /\ UNCHANGED <<localGroup, groups>>
  BY DEF Readies
<1>3. Flows(h, {}, {}, {x})
  <2>1. \A r, k \in Node, e \in Message :
           Holds(inbox', r, k, e)
           <=> Holds(inbox, r, k, e) \/ (k = h /\ r = x /\ e = ReadyMsg)
    BY <1>1 DEF Readies, HoldsMore
  <2>2. ReadyMsg \in Message /\ ReadyMsg.type = "READY"
    BY DEF Message, ReadyMsg
  <2>3. \A n, y \in Node : Heard(n, y)' <=> Heard(n, y)
    BY <1>2 DEF Heard
  <2>4. \A n, y \in Node : NotifAt(n, y)' <=> NotifAt(n, y)
    BY <2>1, <2>2 DEF NotifAt
  <2>5. \A y, n \in Node : AckFrom(y, n)' <=> AckFrom(y, n)
    BY <2>1, <2>2 DEF AckFrom
  <2>6. \A y \in Node : ReadyAt(y)' <=> ReadyAt(y) \/ y = x
    BY <2>1, <2>2 DEF ReadyAt
  <2>7. QED
    BY <2>3, <2>4, <2>5, <2>6 DEF Flows
<1>4. \A y \in Node : Spreads(h, y)' <=> Spreads(h, y) /\ y \notin {x}
  <2>1. readyTimers'[h] = EraseId(readyTimers[h], x)
    BY <1>1 DEF Readies, Course, Calm, IInv, TypeOK
  <2>2. QED
    BY <2>1 DEF Spreads, Ids, EraseId
<1>5. Moves(h, h, {}, {}, {x}, {})
  <2>1. \A q \in Peer : Told(inbox', h, q) =>
           Told(inbox, h, q) /\ (Once(inbox[h][q]) => Once(inbox'[h][q]))
    BY DEF Readies
  <2>2. QED
    BY <1>2, <1>3, <1>4, <2>1 DEF Moves
<1>6. May(h, h, {}, {}, {x}, {})
  BY <1>1, AllHaveHeard DEF May
<1>7. Views(h, h, {}, {})
  BY <1>2 DEF Views
<1>8. QED
  BY <1>5, <1>6, <1>7, MovesOrderly

LEMMA SendReadyCourse ==
    ASSUME NEW h \in Node, Timely, Course(h), Awaits, NEW a \in Node, NEW p \in Peer,
           SendReady(a, p)
    PROVE  Entrance(h)' /\ Orderly(h)' /\ Awaits'
<1>1. Readies(h, p) /\ Arrived(Id(p))
  BY SendReadies
<1>2. Entrance(h)' /\ Orderly(h)'
  BY <1>1, ReadiesEntrance, ReadiesOrderly
<1>3. ASSUME NEW n \in Node
      PROVE  Awaited(n)' /\ TokenTaken(n)'
  <2>1. Awaited(n) /\ TokenTaken(n)
    BY DEF Awaits
  <2>2. /\ UNCHANGED <<state, joinToken, joinTimers, peers, peerState>>
        /\ UNCHANGED <<localGroup, groups>>
    BY <1>1 DEF Readies
  <2>3. \A q \in peers[n] : Told(inbox, n, q) => Told(inbox', n, q)
    BY <1>1 DEF Readies, Course, Calm, IInv, TypeOK
  <2>4. Awaited(n)'
    BY <2>1, <2>2, <2>3, AwaitedKept
  <2>5. TokenTaken(n)'
    BY <2>1, <2>2, TokenTakenKept
  <2>6. QED
    BY <2>4, <2>5
<1>4. QED
  BY <1>2, <1>3 DEF Awaits

-----------------------------------------------------------------------------
(* The newcomer is ready                                                   *)

\* On which of its own connections node n and the newcomer write to each other
EntryKind(h, n) == IF n = h THEN "joiner" ELSE "called"

\* x has called nobody: it writes to the entry point and to those who called it.
LEMMA NewcomerWrites ==
    ASSUME NEW h \in Node, Course(h), NEW x \in Node, Entering(h, x),
           NEW d \in Peer, d \in Written(x), d # Local(x)
    PROVE  OtherEnd(x, d) = <<x, EntryKind(h, Id(d))>>
<1>1. CInv /\ Known(x, d) /\ x # h
  BY CInvAt, EntryConnected DEF Course, Calm, WrittenAt, Entering
<1>2. PICK r \in Node, q \in Peer : r = Id(d) /\ q = OtherEnd(x, d)
  BY Kinds
<1>3. OtherEnd(r, q) = d /\ Id(q) = x /\ q = <<x, q[2]>> /\ q[2] \in PeerKind
  BY <1>2, Kinds
<1>4. /\ d[2] # "local" /\ d[2] # "joiner"
      /\ d[2] = "entry" => r = h
  BY <1>1, <1>2 DEF Course, Entrance, KnownAs, MayBe
<1>5. d[2] \notin Answering
  <2> SUFFICES ASSUME d[2] \in Answering
               PROVE  FALSE
    OBVIOUS
  <2>1. Heard(x, r)
    BY <1>1, <1>2, CInvAt DEF FreshAt
  <2>2. Member(h, x)
    BY <2>1 DEF Course, Orderly, MembersHear
  <2>3. QED
    BY <1>1, <2>2 DEF Member, Entering
<1>6. d[2] \in {"entry", "caller"}
  BY <1>4, <1>5, Kinds DEF Answering, PeerKind
<1>7. q[2] = IF d[2] = "entry" THEN "joiner" ELSE "called"
  BY <1>2, <1>6 DEF OtherEnd, OtherKind
<1>8. q[2] \in Answering
  BY <1>7 DEF Answering
<1>9. d[2] = "caller" => r # h
  <2> SUFFICES ASSUME q[2] = "called", r = h
               PROVE  FALSE
    BY <1>7
  <2>1. AnsweredAt(r, q)
    BY <1>1, CInvAt
  <2>2. Known(r, q)
    BY <1>1, <1>3, <1>8, <2>1 DEF AnsweredAt, Opened
  <2>3. QED
    BY <2>2 DEF Course, Entrance, KnownAs, MayBe
<1>10. QED
  BY <1>2, <1>3, <1>4, <1>6, <1>7, <1>9 DEF EntryKind

\* By the time x reads READY it knows everybody.
LEMMA NewcomerKnows ==
    ASSUME NEW h \in Node, Course(h), NEW x \in Node, Entering(h, x),
           ~Spreads(h, x), Arrived(x)
    PROVE  /\ Ids(peers[x]) = Whole(h) \ {x}
           /\ localGroup[x] # NoGroup /\ localGroup[x] \in GroupId
           /\ groupIds[x] = {localGroup[x]}
<1>1. \A m \in Node : ~AckFrom(x, m)
  BY DEF AckFrom, Holds, Arrived
<1>2. /\ Ids(peers[x]) \subseteq Whole(h) \ {x}
      /\ \A m \in Node : Heard(m, x) => m \in Ids(peers[x])
  BY <1>1 DEF Course, Orderly, NewcomerSees
<1>3. \A m \in Whole(h) \ {x} : m \in Node /\ Heard(m, x)
  BY DEF Course, Orderly, GoesRound, Whole
<1>4. Ids(peers[x]) = Whole(h) \ {x}
  BY <1>2, <1>3
<1>5. localGroup[x] # NoGroup
  <2>1. h \in Ids(peers[x])
    BY <1>2 DEF Entering
  <2>2. peers[x] # {}
    BY <2>1 DEF Ids
  <2>3. QED
    BY <2>2 DEF Course, Calm, IInv, LocalGroupKept, KeptAt
<1>6. /\ localGroup[x] = localGroup[h] /\ localGroup[h] \in GroupId
      /\ groupIds[x] = {localGroup[h]}
  BY <1>5, GroupAt DEF Course, Calm, Peace
<1>7. QED
  BY <1>4, <1>5, <1>6

\* a takes its place in the rings g, and says so to its neighbours.
Arrives(h, a, p, g, box) ==
    /\ OnlyAt(a) /\ state'[a] = "CONNECTED" /\ groups'[a][localGroup[a]] = g
    /\ UNCHANGED <<peers, peerState, localGroup, joinToken, newPeers>>
    /\ UNCHANGED <<readyTimers, joinTimers, logs>>
    /\ ReadFrom(box, a, p, ReadyMsg) /\ HoldsLess(box, a, Id(p), ReadyMsg)
    /\ SentOn(inbox', box, a, Neighbours(g), ReadyNotifMsg)
    /\ HoldsMore(inbox', box, a, Ids(Neighbours(g)), ReadyNotifMsg)

\* They are those of the others.
InPlace(h, a, g) ==
    /\ Entering(h, a) /\ a # h /\ ~Spreads(h, a) /\ Under(h, a)
    /\ Ids(peers[a]) = Whole(h) \ {a} /\ localGroup[a] # NoGroup
    /\ g \in Group /\ g = UpdateNeighbours(g, a) /\ Ids(g.ring) = Whole(h)
    /\ \A d \in Neighbours(g) :
          d \in Peer /\ OtherEnd(a, d) = <<a, EntryKind(h, Id(d))>>

LEMMA ReadyArrives ==
    ASSUME NEW h \in Node, Course(h), NEW a \in Node, NEW p \in Peer,
           HandleReady(a, p), state[a] # "CONNECTED", NEW box, box = Consume(a, p),
           NEW g, g = EnterRings(groups[a][localGroup[a]], a)
    PROVE  InPlace(h, a, g) /\ Arrives(h, a, p, g, box)
<1>1. TypeOK /\ AllRun /\ CInv /\ IInv
  BY DEF Course, Calm, IInv, Peace
<1>2. /\ ReadyMsg \in Range(inbox[a][p]) /\ Head(inbox[a][p]) = ReadyMsg
      /\ inbox[a][p] # <<>> /\ box \in Inboxes
  BY <1>1, ReadsReady
<1>3. /\ Entering(h, a) /\ a # h /\ ~Spreads(h, a) /\ Under(h, a) /\ Arrived(a)
  BY <1>2, ReadyEnters
<1>4. PICK gid : gid = localGroup[a]
  OBVIOUS
<1>5. /\ Ids(peers[a]) = Whole(h) \ {a} /\ gid # NoGroup /\ gid \in GroupId
      /\ groupIds[a] = {gid}
  BY <1>3, <1>4, NewcomerKnows
<1>6. PICK f \in Group : f = groups[a][gid] /\ Touched(f) \subseteq Written(a)
  <2>1. groups[a][gid] \in Group
    BY <1>1, <1>5 DEF TypeOK
  <2>2. Touched(groups[a][gid]) \subseteq Written(a)
    BY <1>5 DEF Written
  <2>3. QED
    BY <2>1, <2>2
<1>7. PICK e \in Group : e = AddToRings(f, Local(a)) /\ Local(a) \in Peer
  BY GroupOperationsType DEF Local, Peer, PeerKind
<1>8. g = UpdateNeighbours(e, a) /\ g = UpdateNeighbours(AddToRings(f, Local(a)), a)
  BY <1>4, <1>6, <1>7 DEF EnterRings
<1>9. g \in Group /\ g = UpdateNeighbours(g, a) /\ Sound(g, a)
  BY <1>7, <1>8, FreshAgain, GroupOperationsType, UpdateNeighboursSound
<1>10. Ids(g.ring) = Whole(h)
  <2>1. Ids(f.ring) = Ids(peers[a]) \cup {}
    BY <1>3, <1>4, <1>5, <1>6 DEF Course, Entrance, RingAt, Entering
  <2>2. Ids(g.ring) = Ids(f.ring) \cup {Id(Local(a))}
    BY <1>7, <1>8, RingIds
  <2>3. Id(Local(a)) = a /\ a \in Whole(h)
    BY <1>3 DEF Local, Id, Entering, Whole
  <2>4. QED
    BY <1>5, <2>1, <2>2, <2>3
<1>11. ASSUME NEW d \in Neighbours(g)
       PROVE  d \in Peer /\ OtherEnd(a, d) = <<a, EntryKind(h, Id(d))>>
  <2>1. d \in Peer /\ d \in Touched(g)
    BY <1>9 DEF Neighbours, Touched, Group
  <2>2. Id(d) # a
    BY <1>9 DEF Sound, Ids
  <2>3. d # Local(a)
    BY <2>2 DEF Local, Id
  <2>4. Touched(g) \subseteq Touched(f) \cup {Local(a)}
    <3>1. Touched(g) \subseteq Touched(e)
      BY <1>7, <1>8, TouchedByOperations
    <3>2. Touched(e) \subseteq Touched(f) \cup {Local(a)}
      BY <1>7, TouchedByOperations
    <3>3. QED
      BY <3>1, <3>2
  <2>5. d \in Written(a)
    BY <1>6, <2>1, <2>3, <2>4
  <2>6. QED
    BY <1>3, <2>1, <2>3, <2>5, NewcomerWrites
<1>12. InPlace(h, a, g)
  BY <1>3, <1>4, <1>5, <1>9, <1>10, <1>11 DEF InPlace
<1>13. ToEnter(a) = {gid}
  BY <1>3, <1>5 DEF ToEnter, Entering
<1>14. PICK entered : entered = [k \in GroupId |->
                         IF k \in ToEnter(a) THEN EnterRings(groups[a][k], a)
                         ELSE groups[a][k]]
  OBVIOUS
<1>15. PICK directs : directs = UNION {Neighbours(entered[k]) : k \in ToEnter(a)}
  OBVIOUS
<1>16. /\ UNCHANGED <<peers, peerState, localGroup, joinToken, newPeers>>
       /\ UNCHANGED <<readyTimers, joinTimers, logs>>
       /\ groups' = [groups EXCEPT ![a] = entered]
       /\ state' = [state EXCEPT ![a] = "CONNECTED"]
       /\ inbox' = Deliver(box, a, directs, ReadyNotifMsg)
  BY <1>4, <1>5, <1>14, <1>15 DEF HandleReady, joinVars, viewVars
<1>17. entered[gid] = g
  BY <1>4, <1>5, <1>13, <1>14
<1>18. directs = Neighbours(g)
  BY <1>13, <1>15, <1>17
<1>19. PICK M \in SUBSET Peer : M = Neighbours(g)
  BY <1>11
<1>20. ReadyNotifMsg \in Message
  BY DEF Message
<1>21. PICK box2 : box2 = inbox'
  OBVIOUS
<1>22. SentOn(box2, box, a, M, ReadyNotifMsg)
  BY <1>1, <1>2, <1>16, <1>18, <1>19, <1>20, <1>21, DeliverIs
<1>23. HoldsMore(box2, box, a, Ids(M), ReadyNotifMsg)
  BY <1>1, <1>2, <1>16, <1>18, <1>19, <1>20, <1>21, DeliverHolds
<1>24. ReadFrom(box, a, p, ReadyMsg)
  <2>1. PICK m : m = ReadyMsg
    OBVIOUS
  <2>2. ReadFrom(box, a, p, m)
    BY <1>1, <1>2, <2>1, ConsumeIs
  <2>3. QED
    BY <2>1, <2>2
<1>25. HoldsLess(box, a, Id(p), ReadyMsg)
  BY <1>24, ConsumeHolds
<1>26. OnlyAt(a) /\ state'[a] = "CONNECTED" /\ groups'[a][gid] = g
  BY <1>1, <1>16, <1>17 DEF OnlyAt, TypeOK
<1>27. Arrives(h, a, p, g, box)
  BY <1>4, <1>16, <1>19, <1>21, <1>22, <1>23, <1>24, <1>25, <1>26 DEF Arrives
<1>28. QED
  BY <1>12, <1>27

LEMMA ArrivesEntrance ==
    ASSUME NEW h \in Node, Course(h), NEW a \in Node, NEW p \in Peer, NEW g, NEW box,
           InPlace(h, a, g), Arrives(h, a, p, g, box)
    PROVE  Entrance(h)'
<1>1. /\ UNCHANGED <<peers, peerState, localGroup, newPeers, readyTimers, joinTimers, logs>>
      /\ OnlyAt(a) /\ a \in Whole(h)
  BY DEF Arrives, InPlace, Entering, Whole
<1>2. LogsGrow
  BY <1>1 DEF LogsGrow
<1>3. NoticesLogged(h)'
  <2>1. PICK M : M = {}
    OBVIOUS
  <2>2. \A n \in Node : \A e \in logs'[n] :
           e.type = "JOIN_NOTIF" => e \in Notifs \cup M
    BY <1>1, NotifsAre
  <2>3. ASSUME NEW n \in Node, NEW q \in Peer, NEW e \in Range(inbox'[n][q]),
               e.type = "JOIN_NOTIF"
        PROVE  e \in Notifs \cup M
    <3>1. e \in Range(box[n][q]) \cup {ReadyNotifMsg}
      BY <2>3 DEF Arrives, SentOn
    <3>2. e # ReadyNotifMsg
      BY <2>3 DEF ReadyNotifMsg
    <3>3. e \in Range(inbox[n][q])
      BY <3>1, <3>2 DEF Arrives, ReadFrom
    <3>4. QED
      BY <2>3, <3>3, NotifsAre
  <2>4. NoticesLogged(h)
    BY DEF Course, Entrance
  <2>5. QED
    BY <1>2, <2>1, <2>2, <2>3, <2>4, NoticesKept
<1>4. OthersDoNotAnswer(h)' /\ AnsweredWait'
  BY <1>1 DEF Course, Entrance, OthersDoNotAnswer, AnsweredWait
<1>5. PortsKnown(h)'
  BY <1>1, PortsKept DEF Course, Entrance
<1>6. KnownAs(h)'
  BY <1>1, <1>2, KnownAsKept DEF Course, Entrance
<1>7. RingAt(a)'
  <2>1. Ids(groups'[a][localGroup'[a]].ring) = Whole(h)
    BY <1>1 DEF Arrives, InPlace
  <2>2. Ids(peers'[a]) \cup {a} = Whole(h)
    BY <1>1 DEF InPlace
  <2>3. state'[a] = "CONNECTED"
    BY DEF Arrives
  <2>4. QED
    BY <2>1, <2>2, <2>3 DEF RingAt
<1>8. \A n \in Node : RingAt(n)'
  BY <1>1, <1>7, RingKept DEF Course, Entrance, OnlyAt
<1>9. QED
  BY <1>3, <1>4, <1>5, <1>6, <1>8 DEF Entrance

\* The neighbours of a are those of whom a is one.
LEMMA NearArrival ==
    ASSUME NEW h \in Node, Course(h), NEW a \in Node, NEW g, InPlace(h, a, g),
           NEW n \in Node, state[n] = "CONNECTED"
    PROVE  n \in Ids(Neighbours(g)) <=> Near(n, a)
<1>1. PICK f : f = groups[n][localGroup[n]]
  OBVIOUS
<1>2. f \in Group /\ f = UpdateNeighbours(f, n) /\ Ids(f.ring) = Present(h, n) \cup {n}
  BY <1>1, RingOfMember
<1>3. n \in Whole(h) /\ a \in Whole(h) /\ a \in Ids(g.ring)
  BY ConnectedIn DEF InPlace, Entering, Whole
<1>4. \A y \in Node : ~Spreads(h, y)
  BY OthersAreIn DEF InPlace
<1>5. Present(h, n) = Whole(h) \ {n}
  BY <1>4 DEF Present, Whole
<1>6. Ids(f.ring) = Whole(h)
  BY <1>2, <1>3, <1>5
<1>7. g \in Group /\ g = UpdateNeighbours(g, a) /\ Ids(g.ring) = Whole(h)
  BY DEF InPlace
<1>8. /\ n \in Ids(Neighbours(g)) => a \in Ids(Neighbours(f))
      /\ a \in Ids(Neighbours(f)) => n \in Ids(Neighbours(g))
  BY <1>2, <1>3, <1>6, <1>7, FreshNear
<1>9. QED
  BY <1>1, <1>8 DEF Near

LEMMA ArrivesOrderly ==
    ASSUME NEW h \in Node, Course(h), NEW a \in Node, NEW p \in Peer, NEW g, NEW box,
           InPlace(h, a, g), Arrives(h, a, p, g, box)
    PROVE  Orderly(h)'
<1>1. /\ UNCHANGED <<peers, peerState, localGroup, joinToken, readyTimers, joinTimers, logs>>
      /\ OnlyAt(a) /\ a # h /\ state'[a] = "CONNECTED"
  BY DEF Arrives, InPlace
<1>2. Flows(h, {}, {}, {})
  <2>1. \A r, k \in Node, e \in Message :
           /\ Holds(inbox', r, k, e) => Holds(inbox, r, k, e) \/ e = ReadyNotifMsg
           /\ Holds(inbox, r, k, e) =>
                 Holds(inbox', r, k, e) \/ (r = a /\ e = ReadyMsg)
    BY DEF Arrives, HoldsMore, HoldsLess
  <2>2. /\ ReadyMsg \in Message /\ ReadyMsg.type = "READY"
        /\ ReadyNotifMsg.type = "READY_NOTIF"
    BY DEF Message, ReadyMsg, ReadyNotifMsg
  <2>3. \A n, y \in Node : Heard(n, y)' <=> Heard(n, y)
    BY <1>1 DEF Heard
  <2>4. \A n, y \in Node : NotifAt(n, y)' <=> NotifAt(n, y)
    BY <2>1, <2>2 DEF NotifAt
  <2>5. \A y, n \in Node : AckFrom(y, n)' <=> AckFrom(y, n)
    BY <2>1, <2>2 DEF AckFrom
  <2>6. \A y \in Node : /\ ReadyAt(y)' => ReadyAt(y)
                        /\ ReadyAt(y) => ReadyAt(y)' \/ state'[y] = "CONNECTED"
    BY <1>1, <2>1, <2>2 DEF ReadyAt
  <2>7. QED
    BY <2>3, <2>4, <2>5, <2>6 DEF Flows
<1>3. ASSUME NEW q \in Peer, Told(inbox', h, q)
      PROVE  \/ Told(inbox, h, q) /\ (Once(inbox[h][q]) => Once(inbox'[h][q]))
             \/ /\ Under(h, Id(q)) /\ Near(h, Id(q)) /\ Id(q) \in {a}
                /\ Once(inbox'[h][q]) /\ q[2] = "joiner"
  <2>1. CASE ~(Id(q) = a /\ OtherEnd(h, q) \in Neighbours(g))
    <3>1. Told(box, h, q) /\ (Once(box[h][q]) => Once(inbox'[h][q]))
      BY <1>3, <2>1 DEF Arrives, SentOn, Told
    <3>2. QED
      BY <3>1 DEF Arrives, ReadFrom, Told
  <2>2. CASE Id(q) = a /\ OtherEnd(h, q) \in Neighbours(g)
    <3>1. PICK d \in Neighbours(g) : d = OtherEnd(h, q)
      BY <2>2
    <3>2. Id(d) = h /\ OtherEnd(a, d) = q
      BY <2>2, <3>1, Kinds
    <3>3. q = <<a, EntryKind(h, h)>>
      BY <3>1, <3>2 DEF InPlace
    <3>4. q[2] = "joiner"
      BY <3>3 DEF EntryKind
    <3>5. Under(h, a) /\ state[h] = "CONNECTED"
      BY EntryConnected DEF InPlace, Under
    <3>6. h \in Ids(Neighbours(g))
      BY <3>1, <3>2 DEF Ids
    <3>7. Near(h, a)
      BY <3>5, <3>6, NearArrival
    <3>8. ~Told(inbox, h, q)
      BY <2>2 DEF Course, Orderly, Waits, InPlace, Entering
    <3>9. PICK s \in Seq(Message) : s = inbox[h][q]
      BY DEF Course, Calm, IInv, TypeOK
    <3>10. Once(inbox[h][q])
      BY <3>8, <3>9 DEF Once, Told, Range
    <3>11. ~Told(box, h, q) /\ Once(box[h][q])
      BY <3>8, <3>10 DEF Arrives, ReadFrom, Told
    <3>12. Once(inbox'[h][q])
      BY <3>11 DEF Arrives, SentOn, Told
    <3>13. QED
      BY <2>2, <3>4, <3>5, <3>7, <3>12
  <2>3. QED
    BY <2>1, <2>2
<1>4. Moves(h, h, {}, {}, {}, {a})
  BY <1>1, <1>2, <1>3 DEF Moves, OnlyAt, Spreads
<1>5. May(h, h, {}, {}, {}, {a})
  BY DEF May, InPlace
<1>6. Views(h, h, {}, {a})
  BY <1>1 DEF Views, InPlace
<1>7. QED
  BY <1>4, <1>5, <1>6, MovesOrderly

LEMMA ArrivesAwaits ==
    ASSUME NEW h \in Node, Course(h), Awaits, NEW a \in Node, NEW p \in Peer, NEW g,
           NEW box, InPlace(h, a, g), Arrives(h, a, p, g, box)
    PROVE  Awaits'
<1>1. /\ UNCHANGED <<peers, peerState, localGroup, joinToken, readyTimers, joinTimers, logs>>
      /\ OnlyAt(a) /\ ~Member(h, a) /\ Under(h, a)
  BY DEF Arrives, InPlace, Entering, Member
<1>2. \A n \in Node, q \in Peer : Told(inbox, n, q) => Told(inbox', n, q)
  <2>1. ReadyMsg # ReadyNotifMsg
    BY DEF ReadyMsg, ReadyNotifMsg
  <2>2. \A n \in Node, q \in Peer : Told(inbox, n, q) => Told(box, n, q)
    BY <2>1 DEF Arrives, ReadFrom, Told
  <2>3. \A n \in Node, q \in Peer : Told(box, n, q) => Told(inbox', n, q)
    BY DEF Arrives, SentOn, Told
  <2>4. QED
    BY <2>2, <2>3
<1>3. ASSUME NEW n \in Node, NEW q \in peers[n], Id(q) = a,
             peerState[n][q] # "CONNECTED", Near(n, a)
      PROVE  Told(inbox', n, q)
  <2>1. /\ q \in Peer /\ q[2] = EntryKind(h, n) /\ Member(h, n)
    BY <1>3, ViewKinds DEF EntryKind
  <2>2. state[n] = "CONNECTED"
    BY <1>1, <2>1, EntryConnected DEF Member, Under
  <2>3. n \in Ids(Neighbours(g))
    BY <1>3, <2>2, NearArrival
  <2>4. PICK d \in Neighbours(g) : Id(d) = n
    BY <2>3 DEF Ids
  <2>5. d \in Peer /\ OtherEnd(a, d) = <<a, EntryKind(h, n)>>
    BY <2>4 DEF InPlace
  <2>6. q = <<a, EntryKind(h, n)>>
    BY <1>3, <2>1, Kinds
  <2>7. OtherEnd(n, q) = d
    BY <2>4, <2>5, <2>6, Kinds
  <2>8. QED
    BY <1>3, <2>1, <2>4, <2>7 DEF Arrives, SentOn, Told
<1>4. ASSUME NEW n \in Node, Awaited(n), NEW q \in peers[n],
             peerState[n][q] # "CONNECTED"
      PROVE  \/ q \in joinTimers[n]
             \/ state'[Id(q)] # "CONNECTED" /\ Near(n, Id(q))
             \/ Told(inbox', n, q)
  <2>1. q \in Peer /\ Id(q) \in Node
    BY ViewKinds, Kinds
  <2>2. state'[Id(q)] = state[Id(q)] \/ Id(q) = a
    BY <1>1, <2>1 DEF OnlyAt
  <2>3. Told(inbox, n, q) => Told(inbox', n, q)
    BY <1>2, <2>1
  <2>4. CASE q \in joinTimers[n]
    BY <2>4
  <2>5. CASE state[Id(q)] # "CONNECTED" /\ Near(n, Id(q))
    BY <1>3, <1>4, <2>2, <2>5
  <2>6. CASE Told(inbox, n, q)
    BY <2>3, <2>6
  <2>7. QED
    BY <1>4, <2>4, <2>5, <2>6 DEF Awaited
<1>5. ASSUME NEW n \in Node
      PROVE  Awaited(n)' /\ TokenTaken(n)'
  <2>1. Awaited(n) /\ TokenTaken(n)
    BY DEF Awaits
  <2>2. TokenTaken(n)'
    BY <1>1, <2>1, TokenTakenKept
  <2>3. CASE n = a
    <3>1. \A q \in peers[a] : peerState[a][q] = "CONNECTED"
      BY <1>1, ViewKinds
    <3>2. \A q \in peers'[a] : peerState'[a][q] = "CONNECTED"
      BY <1>1, <3>1
    <3>3. Awaited(n)'
      BY <2>3, <3>2 DEF Awaited
    <3>4. QED
      BY <2>2, <3>3
  <2>4. CASE n # a
    <3>1. groups'[n] = groups[n] /\ localGroup'[n] = localGroup[n]
      BY <1>1, <2>4 DEF OnlyAt
    <3>2. \A x : Near(n, x)' <=> Near(n, x)
      BY <3>1 DEF Near
    <3>3. ASSUME NEW q \in peers[n], peerState'[n][q] # "CONNECTED"
          PROVE  \/ q \in joinTimers'[n]
                 \/ state'[Id(q)] # "CONNECTED" /\ Near(n, Id(q))'
                 \/ Told(inbox', n, q)
      <4>1. peerState[n][q] # "CONNECTED" /\ joinTimers' = joinTimers
        BY <1>1, <3>3
      <4>2. \/ q \in joinTimers[n]
            \/ state'[Id(q)] # "CONNECTED" /\ Near(n, Id(q))
            \/ Told(inbox', n, q)
        BY <1>4, <2>1, <4>1
      <4>3. QED
        BY <3>2, <4>1, <4>2
    <3>4. peers' = peers
      BY <1>1
    <3>5. Awaited(n)'
      BY <3>3, <3>4 DEF Awaited, Told
    <3>6. QED
      BY <2>2, <3>5
  <2>5. QED
    BY <2>3, <2>4
<1>6. QED
  BY <1>5 DEF Awaits

LEMMA ReadyCourse ==
    ASSUME NEW h \in Node, Course(h), Awaits, NEW a \in Node, NEW p \in Peer,
           HandleReady(a, p)
    PROVE  Entrance(h)' /\ Orderly(h)' /\ Awaits'
<1>1. CASE state[a] = "CONNECTED"
  <2>1. Aside(h, a)
    BY <1>1, ReadyAside DEF Course
  <2>2. QED
    BY <2>1, AsideEntrance, AsideOrderly DEF Course
<1>2. CASE state[a] # "CONNECTED"
  <2>1. PICK g, box : /\ g = EnterRings(groups[a][localGroup[a]], a)
                      /\ box = Consume(a, p)
    OBVIOUS
  <2>2. InPlace(h, a, g) /\ Arrives(h, a, p, g, box)
    BY <1>2, <2>1, ReadyArrives
  <2>3. QED
    BY <2>2, ArrivesEntrance, ArrivesOrderly, ArrivesAwaits
<1>3. QED
  BY <1>1, <1>2

-----------------------------------------------------------------------------
(* Every step keeps the course of the joins, until somebody quits          *)

LEMMA CourseInit ==
    ASSUME NEW h \in Node, Init
    PROVE  Entrance(h) /\ Orderly(h) /\ Awaits
<1>1. /\ \A n \in Node, q \in Peer : Range(inbox[n][q]) = {} /\ peerState[n][q] = "NEW"
      /\ \A n \in Node : /\ logs[n] = {} /\ peers[n] = {} /\ joinToken[n]
                         /\ readyTimers[n] = {} /\ joinTimers[n] = {}
                         /\ state[n] # "CONNECTED" /\ localGroup[n] = NoGroup
  BY DEF Init, Range
<1>2. /\ \A n, x \in Node : ~Heard(n, x) /\ ~NotifAt(n, x) /\ ~AckFrom(n, x)
      /\ \A n \in Node : ~ReadyAt(n)
      /\ \A n \in Node, q \in Peer : ~Told(inbox, n, q) /\ ~Known(n, q)
  BY <1>1 DEF Heard, NotifAt, AckFrom, ReadyAt, Holds, Told, Known
<1>3. Ids({}) = {}
  BY DEF Ids
<1>4. NoticesLogged(h)
  <2>1. ASSUME NEW e \in Notifs
        PROVE  FALSE
    <3>1. PICK n \in Node : e \in logs[n] \/ \E q \in Peer : e \in Range(inbox[n][q])
      BY <2>1 DEF Notifs
    <3>2. QED
      BY <1>1, <3>1
  <2>2. QED
    BY <2>1 DEF NoticesLogged
<1>5. PortsKnown(h)
  <2>1. \A k \in Addr : newPeers[h][k].peer = NoPeer
    BY DEF Init, NoEntry
  <2>2. QED
    BY <2>1 DEF PortsKnown
<1>6. Entrance(h)
  BY <1>1, <1>2, <1>4, <1>5
     DEF Entrance, OthersDoNotAnswer, KnownAs, AnsweredWait, RingAt
<1>7. \A x \in Node : ~Under(h, x) /\ ~Spreads(h, x) /\ ~Entering(h, x)
  BY <1>1, <1>2, <1>3 DEF Under, Spreads, Entering
<1>8. OneAtATime(h) /\ Stages(h) /\ MembersHear(h) /\ GoesRound(h)
  BY <1>2, <1>7 DEF OneAtATime, Stages, MembersHear, GoesRound
<1>9. Waits(h)
  BY <1>1, <1>2 DEF Waits
<1>10. ASSUME NEW n \in Node
       PROVE  MemberSees(h, n) /\ NewcomerSees(h, n)
  <2>1. Member(h, n) => n = h
    BY <1>1 DEF Member
  <2>2. Present(h, h) = {}
    BY <1>2 DEF Present, Whole
  <2>3. QED
    BY <1>1, <1>3, <1>7, <2>1, <2>2 DEF MemberSees, NewcomerSees
<1>11. Awaits
  BY <1>1 DEF Awaits, Awaited, TokenTaken
<1>12. QED
  BY <1>6, <1>8, <1>9, <1>10, <1>11 DEF Orderly

\* Every announcement is of the group of who reads it, and of a node that can
\* be called.
LEMMA NoticesServe ==
    ASSUME NEW h \in Node, Course(h), NEW a \in Node, NEW p \in Peer
    PROVE  ~HandleForeignNotif(a, p) /\ ~HandleNotifRefused(a, p)
<1> SUFFICES ASSUME ReadsNotif(a, p), NEW m, m = Head(inbox[a][p])
             PROVE  Ours(a, m) /\ m.port \in Node /\ m.port # NoNode /\ Up(m.port)
  BY DEF HandleForeignNotif, HandleNotifRefused
<1>1. /\ TypeOK /\ CInv /\ IInv /\ AllRun /\ Grouped(h) /\ Sends(h) /\ Belongs
  BY DEF Course, Calm, IInv, Peace
<1>2. Reads(a, p, "JOIN_NOTIF")
  BY DEF ReadsNotif
<1>3. /\ m \in Message /\ m \in Range(inbox[a][p]) /\ m.type = "JOIN_NOTIF"
      /\ m \in Notifs /\ m \in LaterMsg /\ Known(a, p)
  BY <1>1, <1>2, ReadParts
<1>4. localGroup[a] # NoGroup
  BY <1>1, <1>3 DEF Belongs
<1>5. localGroup[a] = localGroup[h] /\ groupIds[a] = {localGroup[h]}
  BY <1>1, <1>4, GroupAt
<1>6. m.group = localGroup[h]
  BY <1>1, <1>3 DEF Sends, InGroup, Carries
<1>7. m.peer \in Node /\ m.port = m.peer
  BY <1>3, MessageFields DEF Course, Entrance, NoticesLogged
<1>8. QED
  BY <1>1, <1>5, <1>6, <1>7, NetworkAssumption DEF Ours, AllRun, Running, Up

LEMMA CourseStep ==
    ASSUME NEW h \in Node, DistinctAddresses, Timely, Prompt, Course(h), Awaits,
           [Next]_vars
    PROVE  (Entrance(h)' /\ Orderly(h)' /\ Awaits') \/ \E a \in Leaver : Quit(a)
<1>1. /\ Calm(h) /\ IInv /\ CInv /\ TimersKept /\ Peace(h) /\ EntryKept(h)
      /\ Entrance(h)
  BY DEF Course, Calm
<1>2. ASSUME NEW a \in Node, Aside(h, a)
      PROVE  Entrance(h)' /\ Orderly(h)' /\ Awaits'
  BY <1>1, <1>2, AsideEntrance, AsideOrderly
<1>3. CASE UNCHANGED vars
  <2>1. /\ UNCHANGED <<state, peers, peerState, groups, localGroup, joinToken>>
        /\ UNCHANGED <<newPeers, readyTimers, joinTimers, logs, inbox>>
    BY <1>3 DEF vars, procVars, joinVars, viewVars, groupVars, netVars
  <2>2. Passes(inbox')
    BY <2>1, SamePasses
  <2>3. Aside(h, h)
    BY <2>1, <2>2, PortsKept DEF Aside, OnlyAt
  <2>4. QED
    BY <1>2, <2>3
<1>4. ASSUME NEW a \in Node, NEW p \in Peer, Receive(a, p)
      PROVE  Entrance(h)' /\ Orderly(h)' /\ Awaits'
  <2>1. \/ HandleDuplicate(a, p) \/ HandleText(a, p) \/ HandleData(a, p)
        \/ HandleJoin(a, p) \/ HandleJoinNotif(a, p) \/ HandleJoinAck(a, p)
        \/ HandleReady(a, p) \/ HandleReadyNotif(a, p)
    BY <1>1, <1>4, NothingCrashes, NoticesServe DEF Receive
  <2>2. CASE HandleDuplicate(a, p) \/ HandleText(a, p) \/ HandleData(a, p)
    BY <1>1, <1>2, <2>2, ReadsAside
  <2>3. QED
    BY <2>1, <2>2, JoinCourse, NotifCourse, AckCourse, ReadyCourse, CheckersCourse
<1>5. ASSUME NEW a \in Node, NEW p \in Peer, TimerExpires(a, p)
      PROVE  Entrance(h)' /\ Orderly(h)' /\ Awaits'
  BY <1>1, <1>5, NothingCrashes, SendReadyCourse, CheckersCourse DEF TimerExpires
<1>6. ASSUME NEW a \in Node, NEW p \in Peer, Accept(a, p) \/ ReadTogether(a, p)
      PROVE  Entrance(h)' /\ Orderly(h)' /\ Awaits'
  <2>1. Accept(a, p)
    BY <1>6 DEF ReadTogether
  <2>2. QED
    BY <1>1, <1>2, <2>1, AcceptAside
<1>7. ASSUME NEW a \in Node,
             \/ \E m \in JoinTo[a] : UIJoinConnect(a, m)
             \/ UIBroadcastCheck(a) \/ UIStep(a) \/ UISend(a)
      PROVE  Entrance(h)' /\ Orderly(h)' /\ Awaits'
  <2>1. Local(a) \in Peer
    BY <1>7 DEF Local, Peer, PeerKind
  <2>2. ~UIBroadcastCrash(a) /\ ~UIJoinThrows(a)
    BY <1>1, <2>1, NothingCrashes
  <2>3. Aside(h, a)
    BY <1>1, <1>7, <2>2, CommandsAside, JoinMarkAside, JoinSendAside DEF UIStep
  <2>4. QED
    BY <1>2, <2>3
<1>8. ASSUME NEW a \in Node, Quit(a)
      PROVE  \E n \in Leaver : Quit(n)
  BY <1>8 DEF Quit
<1>9. QED
  BY <1>3, <1>4, <1>5, <1>6, <1>7, <1>8 DEF Next, IOStep

LEMMA CourseInvariant ==
    ASSUME NEW h \in Node, EntryPoint(h), DistinctAddresses, Timely, Prompt
    PROVE  Spec => [](Quitted \/ (Course(h) /\ Awaits))
<1>1. Init => Entrance(h) /\ Orderly(h) /\ Awaits
  BY CourseInit
<1>2. /\ IInv /\ (Quitted \/ Calm(h)) /\ [Next]_vars
      /\ (Quitted \/ (Entrance(h) /\ Orderly(h) /\ Awaits))
      => (Quitted \/ (Entrance(h) /\ Orderly(h) /\ Awaits))'
  <2> SUFFICES ASSUME IInv, Quitted \/ Calm(h), [Next]_vars,
                      Quitted \/ (Entrance(h) /\ Orderly(h) /\ Awaits)
               PROVE  Quitted' \/ (Entrance(h)' /\ Orderly(h)' /\ Awaits')
    OBVIOUS
  <2>1. ASSUME NEW a \in Leaver, Quit(a)
        PROVE  Quitted'
    BY <2>1, DepartureSeen DEF IInv
  <2>2. CASE Quitted
    BY <2>2, QuittedStep
  <2>3. CASE Course(h) /\ Awaits
    BY <2>1, <2>3, CourseStep
  <2>4. QED
    BY <2>2, <2>3 DEF Course
<1>3. (Quitted \/ Calm(h)) /\ (Quitted \/ (Entrance(h) /\ Orderly(h) /\ Awaits))
      => Quitted \/ (Course(h) /\ Awaits)
  BY DEF Course
<1>4. QED
  BY <1>1, <1>2, <1>3, Invariant, CalmInvariant, PTL DEF Spec

-----------------------------------------------------------------------------
(* When nothing is under way                                               *)

LEMMA QuietStands ==
    ASSUME NEW h \in Node, Course(h), Awaits, Quiet
    PROVE  /\ \A x \in Node : Heard(h, x) => state[x] = "CONNECTED"
           /\ \A n \in Node : \A p \in peers[n] : peerState[n][p] = "CONNECTED"
           /\ \A n \in Members : Members = Whole(h) /\ Present(h, n) = Members \ {n}
<1>1. \A n \in Node : /\ Running(n) /\ readyTimers[n] = {} /\ joinTimers[n] = {}
                      /\ \A q \in Peer : Range(inbox[n][q]) = {}
  BY DEF Course, Calm, Peace, AllRun, Quiet, Range
<1>2. \A x \in Node : ~Spreads(h, x) /\ ~ReadyAt(x)
  BY <1>1 DEF Spreads, Ids, ReadyAt, Holds
<1>3. ASSUME NEW x \in Node, Heard(h, x)
      PROVE  state[x] = "CONNECTED"
  BY <1>2, <1>3 DEF Course, Orderly, Stages, Entering
<1>4. ASSUME NEW n \in Node, NEW p \in peers[n], peerState[n][p] # "CONNECTED"
      PROVE  FALSE
  <2>1. p \in Peer /\ p[2] \in Answering
    BY <1>4, ViewKinds DEF Answering
  <2>2. PICK x \in Node : x = Id(p) /\ Heard(n, x)
    <3>1. Heard(n, Id(p))
      BY <2>1, ViewKinds
    <3>2. Id(p) \in Node
      BY <2>1, Kinds
    <3>3. QED
      BY <3>1, <3>2
  <2>3. state[x] = "CONNECTED"
    BY <1>3, <2>2, HeardAtEntry DEF Course, Entrance
  <2>4. p \notin joinTimers[n] /\ ~Told(inbox, n, p)
    BY <1>1, <2>1 DEF Told
  <2>5. QED
    BY <1>4, <2>2, <2>3, <2>4 DEF Awaits, Awaited
<1>5. ASSUME NEW n \in Members
      PROVE  Members = Whole(h) /\ Present(h, n) = Members \ {n}
  <2>1. state[h] = "CONNECTED"
    BY ConnectedIn DEF Members
  <2>2. \A x \in Whole(h) : x \in Members
    BY <1>1, <1>3, <2>1 DEF Whole, Members
  <2>3. \A x \in Members : x \in Whole(h)
    BY ConnectedIn DEF Members
  <2>4. Members = Whole(h)
    BY <2>2, <2>3
  <2>5. Present(h, n) = Whole(h) \ {n}
    BY <1>2 DEF Present, Whole
  <2>6. QED
    BY <2>4, <2>5
<1>6. QED
  BY <1>3, <1>4, <1>5

LEMMA QuietRings ==
    ASSUME NEW h \in Node, Course(h), Awaits, Quiet, NEW n \in Members,
           NEW g, g = groups[n][localGroup[n]]
    PROVE  /\ g \in Group /\ g = UpdateNeighbours(g, n)
           /\ Ids(g.ring) = Members /\ Ids(peers[n]) = Members \ {n}
           /\ Ids(g.members) = Members \ {n}
<1>1. n \in Node /\ state[n] = "CONNECTED"
  BY DEF Members
<1>2. Present(h, n) = Members \ {n}
  BY QuietStands
<1>3. Ids(peers[n]) = Members \ {n}
  BY <1>1, <1>2 DEF Course, Orderly, MemberSees, Member
<1>4. /\ g \in Group /\ g = UpdateNeighbours(g, n)
      /\ Ids(g.ring) = Present(h, n) \cup {n}
  BY <1>1, RingOfMember
<1>5. Ids(g.ring) = Members
  BY <1>2, <1>4
<1>6. Ids(g.members) = Ids(peers[n])
  BY <1>1, ConnectedIn DEF Course, Calm, Peace, Matched
<1>7. QED
  BY <1>3, <1>4, <1>5, <1>6

\* Where all join through one node, READY_TIME and JOIN_COMPLETE_TIME are long
\* enough and no two messages are read together, every member ends up with every
\* other one in its view (Network::peers), as a CONNECTED peer, in its group and
\* in its rings, and with nobody else, until somebody quits: answer_join_request
\* holds the token until the announcement has gone round.
THEOREM ViewsAgreeAtRest ==
    ASSUME NEW h \in Node, EntryPoint(h), DistinctAddresses, Timely, Prompt
    PROVE  Spec => [](Quitted \/ ViewsAgree)
<1>1. Course(h) /\ Awaits => ViewsAgree
  <2> SUFFICES ASSUME Course(h), Awaits, Quiet, NEW n \in Members,
                      NEW g, g = groups[n][localGroup[n]]
               PROVE  /\ Ids(peers[n]) = Members \ {n}
                      /\ Ids(g.members) = Members \ {n}
                      /\ Ids(g.ring) = Members
                      /\ \A p \in peers[n] : peerState[n][p] = "CONNECTED"
    BY DEF ViewsAgree
  <2>1. \A p \in peers[n] : peerState[n][p] = "CONNECTED"
    BY QuietStands DEF Members
  <2>2. QED
    BY <2>1, QuietRings
<1>2. QED
  BY <1>1, CourseInvariant, PTL

\* Under the same conditions update_neighbours leaves every member with the
\* successors that count it among their predecessors.
THEOREM NeighboursAgreeAtRest ==
    ASSUME NEW h \in Node, EntryPoint(h), DistinctAddresses, Timely, Prompt
    PROVE  Spec => [](Quitted \/ NeighboursAgree)
<1>1. Course(h) /\ Awaits => NeighboursAgree
  <2> SUFFICES ASSUME Course(h), Awaits, Quiet, NEW m \in Members, NEW n \in Members,
                      NEW f, f = groups[m][localGroup[m]],
                      NEW g, g = groups[n][localGroup[n]]
               PROVE  m \in Ids(g.succs) <=> n \in Ids(f.preds)
    BY DEF NeighboursAgree
  <2>1. f \in Group /\ f = UpdateNeighbours(f, m) /\ Ids(f.ring) = Members
    BY QuietRings
  <2>2. g \in Group /\ g = UpdateNeighbours(g, n) /\ Ids(g.ring) = Members
    BY QuietRings
  <2>3. m \in Node /\ n \in Node
    BY DEF Members
  <2>4. CASE m = n
    <3>1. Ids(Neighbours(g)) \subseteq Members \ {n}
      BY <2>2, <2>3, FreshRelays DEF Members
    <3>2. Ids(g.succs) \cup Ids(g.preds) = Ids(Neighbours(g))
      BY DEF Ids, Neighbours
    <3>3. f = g
      BY <2>4
    <3>4. QED
      BY <2>4, <3>1, <3>2, <3>3
  <2>5. CASE m # n
    BY <2>1, <2>2, <2>3, <2>5, FreshMutual
  <2>6. QED
    BY <2>4, <2>5
<1>2. QED
  BY <1>1, CourseInvariant, PTL

\* Under the same conditions check_for_new_peers gives the token back: nobody is
\* left without it when nothing is under way.
THEOREM TokenIsReleased ==
    ASSUME NEW h \in Node, EntryPoint(h), DistinctAddresses, Timely, Prompt
    PROVE  Spec => [](Quitted \/ TokenReleased)
<1>1. Course(h) /\ Awaits => TokenReleased
  <2> SUFFICES ASSUME Course(h), Awaits, Quiet, NEW n \in Node
               PROVE  joinToken[n]
    BY DEF TokenReleased
  <2>1. \A p \in peers[n] : peerState[n][p] # "JOINING"
    BY QuietStands
  <2>2. QED
    BY <2>1 DEF Awaits, TokenTaken
<1>2. QED
  BY <1>1, CourseInvariant, PTL
=============================================================================
