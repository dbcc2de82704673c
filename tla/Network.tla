------------------------------- MODULE Network ------------------------------
(***************************************************************************)
(* A system of rac-kun processes: Network.cpp, Listener.cpp and the user   *)
(* interface of Main.cpp, over the groups and rings of module Group.       *)
(*                                                                         *)
(* Each process has two threads.  The io_service thread runs one handler   *)
(* at a time, to its end: a handler is one action.  The main thread runs   *)
(* the user interface and shares the Network object without a lock: a      *)
(* command that checks the local state and then acts on it is several      *)
(* actions.                                                                *)
(*                                                                         *)
(* A connection is two Peers, one at each end, and a FIFO of messages in   *)
(* each direction.  It is a stream: a read may return several messages, of *)
(* which the first is parsed and the others are lost (ReadTogether).       *)
(***************************************************************************)
EXTENDS Group, Sequences, Functions

CONSTANTS
    JoinTo,     \* the entry points each node may be told to join
    AddrOf,     \* the IP address of each node
    GroupKey,   \* the order of group IDs in a GroupMap
    MaxGroups,  \* bound: how many groups a node creates
    MaxData,    \* bound: how many messages each node broadcasts
    Leaver,     \* bound: the nodes that may quit
    Talker,     \* bound: the nodes that send text, one at a time
    Timely,     \* whether READY_TIME and JOIN_COMPLETE_TIME are long enough
    Prompt,     \* whether each message is read before the next one arrives
    NoNode,     \* port 0
    NoPeer,     \* a null shared_ptr<Peer>
    NoGroup     \* a null shared_ptr<Group>

\* A group ID is the digest of its creator's ID and of the time of creation.
GroupId == Node \X (1 .. MaxGroups)

Addr == {AddrOf[n] : n \in Node}

ASSUME NetworkAssumption ==
    /\ JoinTo \in [Node -> SUBSET Node]
    /\ \A n \in Node : n \notin JoinTo[n]
    /\ AddrOf \in [Node -> Nat]
    /\ GroupKey \in [GroupId -> Nat]
    /\ \A g, h \in GroupId : GroupKey[g] = GroupKey[h] => g = h
    /\ MaxGroups \in Nat
    /\ MaxData \in [Node -> Nat]
    /\ Leaver \subseteq Node
    /\ Talker \subseteq Node
    /\ Timely \in BOOLEAN
    /\ Prompt \in BOOLEAN
    /\ NoNode \notin Node
    /\ NoPeer \notin Peer
    /\ NoGroup \notin GroupId

VARIABLES
    status,       \* of the process
    ui,           \* the command the main thread is in the middle of
    entry,        \* the entry point of the join command; itself before any
    outgoing,     \* what the broadcast command has sent and not logged yet
    state,        \* local_peer's state
    joinToken,    \* join_token
    peers,        \* peers: all members except local_peer
    peerState,    \* the state of each Peer; NEW until it is identified
    newPeers,     \* new_peers, by address
    localGroup,   \* local_group
    groupIds,     \* the keys of groups
    groups,       \* the values of groups
    markers,      \* the groups whose own marker channel_markers maps
    logs,         \* the broadcast messages in logs
    readyTimers,  \* ready_timers
    joinTimers,   \* join_timers
    conns,        \* the Peers whose socket the process reads
    backlog,      \* connections the listener has not accepted yet
    reset,        \* the Peers whose socket the other end may have reset
    inbox         \* inbox[n][p]: what is still to be read on p's socket at n

procVars == <<status, ui, entry, outgoing>>
joinVars == <<joinToken, newPeers, readyTimers, joinTimers>>
viewVars == <<peers, peerState>>
groupVars == <<localGroup, groupIds, groups, markers>>
netVars == <<conns, backlog, reset, inbox>>
vars == <<procVars, state, joinVars, viewVars, groupVars, logs, netVars>>

-----------------------------------------------------------------------------
PeerState == {"NEW", "JOINING", "CONNECTED"}

\* The ID, key and port of a message about its own emitter are those of the
\* node at the other end of the connection.
JoinMsg == [type |-> "JOIN"]
NotifMsg(g, n, m, port) ==
    [type |-> "JOIN_NOTIF", group |-> g, from |-> n, peer |-> m, port |-> port]
AckMsg(g) == [type |-> "JOIN_ACK", group |-> g]
ReadyMsg == [type |-> "READY"]
ReadyNotifMsg == [type |-> "READY_NOTIF"]
DataMsg(g, n, k) == [type |-> "DATA", group |-> g, from |-> n, seq |-> k]
\* what the send command writes: no message, parse_message throws
Text == [type |-> "TEXT"]
\* not messages, but how a read fails
Eof == [type |-> "EOF"]
Rst == [type |-> "RST"]

BCastMessage ==
    [type : {"JOIN_NOTIF"}, group : GroupId, from : Node, peer : Node,
     port : Node \cup {NoNode}]
    \cup [type : {"DATA"}, group : GroupId, from : Node, seq : Nat \ {0}]

Message ==
    BCastMessage \cup [type : {"JOIN_ACK"}, group : GroupId]
    \cup {JoinMsg, ReadyMsg, ReadyNotifMsg, Text, Eof, Rst}

\* new_peers[address]: a Peer and the port it listens on (0 until its JOIN)
NewPeerEntry == [peer : Peer \cup {NoPeer}, port : Node \cup {NoNode}]
NoEntry == [peer |-> NoPeer, port |-> NoNode]

AddrOfPeer(p) == AddrOf[Id(p)]

\* The Peer at the other end of p's connection, p being a Peer of node n
OtherKind == [entry |-> "joiner", joiner |-> "entry", called |-> "caller",
              caller |-> "called", local |-> "local"]
OtherEnd(n, p) == <<n, OtherKind[p[2]]>>

Running(n) == status[n] = "running"

\* The kernel of a process that is up accepts connections and data.
Up(n) == status[n] \in {"running", "hung"}

Known(n, p) == peerState[n][p] # "NEW"

\* What box becomes when node n sends message m to each Peer of M
Deliver(box, n, M, m) ==
    [r \in Node |-> [q \in Peer |->
        IF Id(q) = n /\ OtherEnd(r, q) \in M /\ Up(r)
        THEN Append(box[r][q], m) ELSE box[r][q]]]

\* Data for a process that is gone is answered with a reset.
Bounced(M) == {p \in M : ~Up(Id(p))}

Consume(n, p) == [inbox EXCEPT ![n][p] = Tail(@)]

\* p's socket may have been reset by the other end, whether n has read so or not.
MayBeReset(n, p) == p \in reset[n] \/ Rst \in Range(inbox[n][p])

-----------------------------------------------------------------------------
(***************************************************************************)
(* Parts of handlers.  Where one is reached with part of the state already *)
(* changed, the new values are its parameters: gid and gs are the local    *)
(* group and the groups, box the messages in flight, timers the join       *)
(* timers.                                                                 *)
(***************************************************************************)

\* The process ends: its sockets are closed, with a reset where it leaves data
\* unread.
Exit(n, how) ==
    /\ status' = [status EXCEPT ![n] = how]
    /\ inbox' = [r \in Node |-> [q \in Peer |->
          IF Id(q) = n /\ q \in conns[r] \cup backlog[r]
          THEN IF /\ inbox[n][OtherEnd(r, q)] = <<>>
                  /\ OtherEnd(r, q) \notin backlog[n]
               THEN Append(inbox[r][q], Eof) ELSE Append(inbox[r][q], Rst)
          ELSE inbox[r][q]]]
    /\ UNCHANGED <<ui, entry, outgoing, state, joinVars, viewVars, groupVars,
                   logs, conns, backlog, reset>>

Crash(n) == Exit(n, "crashed")

\* Faulty: the neighbours are not updated for the new peer.
AcknowledgeJoin_Stale(n, p, gid, gs, box, written, timers) ==
    LET g == AddPeer(gs[gid], p)
    IN  /\ peers' = [peers EXCEPT ![n] = Put(@, p)]
        /\ groups' = [groups EXCEPT ![n] = [gs EXCEPT ![gid] = g]]
        /\ inbox' = Deliver(box, n, {p}, AckMsg(gid))
        /\ reset' = [reset EXCEPT ![n] = @ \cup Bounced(written \cup {p})]
        /\ joinTimers' = [joinTimers EXCEPT ![n] =
                IF Id(p) \in Ids(Neighbours(g)) THEN timers ELSE Put(timers, p)]

\* p joins the group: written are the Peers the handler has written to before.
AcknowledgeJoin(n, p, gid, gs, box, written, timers) ==
    LET g == UpdateNeighbours(AddPeer(gs[gid], p), n)
    IN  /\ peers' = [peers EXCEPT ![n] = Put(@, p)]
        /\ groups' = [groups EXCEPT ![n] = [gs EXCEPT ![gid] = g]]
        /\ inbox' = Deliver(box, n, {p}, AckMsg(gid))
        /\ reset' = [reset EXCEPT ![n] = @ \cup Bounced(written \cup {p})]
        /\ joinTimers' = [joinTimers EXCEPT ![n] =
                IF Id(p) \in Ids(Neighbours(g)) THEN timers ELSE Put(timers, p)]

\* Faulty: the answered peer is left in new_peers.
AnswerJoinRequest_KeepsEntry(n, p, port, gid, gs, box, timers) ==
    LET notif == NotifMsg(gid, n, Id(p), port)
        succs == gs[gid].succs
    IN  /\ joinToken' = [joinToken EXCEPT ![n] = FALSE]
        /\ logs' = [logs EXCEPT ![n] = @ \cup {notif}]
        /\ AcknowledgeJoin(n, p, gid, gs, Deliver(box, n, succs, notif), succs,
                           timers)
        /\ readyTimers' = [readyTimers EXCEPT ![n] = Put(@, p)]
        /\ UNCHANGED newPeers

\* p's join is announced to the group and p acknowledged; READY comes later.
AnswerJoinRequest(n, p, port, gid, gs, box, timers) ==
    LET notif == NotifMsg(gid, n, Id(p), port)
        succs == gs[gid].succs
    IN  /\ joinToken' = [joinToken EXCEPT ![n] = FALSE]
        /\ newPeers' = [newPeers EXCEPT ![n][AddrOfPeer(p)] = NoEntry]
        /\ logs' = [logs EXCEPT ![n] = @ \cup {notif}]
        /\ AcknowledgeJoin(n, p, gid, gs, Deliver(box, n, succs, notif), succs,
                           timers)
        /\ readyTimers' = [readyTimers EXCEPT ![n] = Put(@, p)]

\* Faulty: the state is not set.
Identified_StaysNew(n, p, s) == UNCHANGED peerState

\* Peer::init and set_state: p has said who it is.
Identified(n, p, s) == peerState' = [peerState EXCEPT ![n][p] = s]

\* The addresses whose Peer is known by now, and those whose Peer is null
Pending(n, states) ==
    {a \in Addr : /\ newPeers[n][a].peer # NoPeer
                  /\ states[newPeers[n][a].peer] # "NEW"}

NullEntries(n) ==
    {a \in Addr : newPeers[n][a].peer = NoPeer /\ newPeers[n][a] # NoEntry}

\* new_peers is searched in the order of addresses; a null Peer on the way is
\* dereferenced, and so is local_group for the Peer that is found.
DereferencesNull(n, states) ==
    \/ \E a \in NullEntries(n) : \A b \in Pending(n, states) : a < b
    \/ Pending(n, states) # {} /\ localGroup[n] = NoGroup

\* Faulty: the token is released without a look at who waits.
CheckForNewPeers_Blind(n, states, box, timers) ==
    /\ joinToken' = [joinToken EXCEPT ![n] = TRUE]
    /\ inbox' = box
    /\ joinTimers' = [joinTimers EXCEPT ![n] = timers]
    /\ UNCHANGED <<newPeers, logs, peers, groups, reset, readyTimers>>

\* Faulty: the token is never released.
CheckForNewPeers_KeepsToken(n, states, box, timers) ==
    /\ inbox' = box
    /\ joinTimers' = [joinTimers EXCEPT ![n] = timers]
    /\ UNCHANGED <<joinToken, newPeers, logs, peers, groups, reset, readyTimers>>

\* The token goes to the next one who waits, or is released.
CheckForNewPeers(n, states, box, timers) ==
    \/ /\ ~DereferencesNull(n, states)
       /\ \E a \in Pending(n, states) :
             /\ \A b \in Pending(n, states) : a <= b
             /\ AnswerJoinRequest(n, newPeers[n][a].peer, newPeers[n][a].port,
                                  localGroup[n], groups[n], box, timers)
    \/ /\ Pending(n, states) = {}
       /\ NullEntries(n) = {}
       /\ joinToken' = [joinToken EXCEPT ![n] = TRUE]
       /\ inbox' = box
       /\ joinTimers' = [joinTimers EXCEPT ![n] = timers]
       /\ UNCHANGED <<newPeers, logs, peers, groups, reset, readyTimers>>

-----------------------------------------------------------------------------
(* The main thread: the commands join, broadcast and quit.                 *)

\* The local state is checked and the connection opened ...
UIJoinConnect(n, m) ==
    /\ Running(n) /\ ui[n] = "idle" /\ entry[n] = n /\ m \in JoinTo[n]
    /\ state[n] = "NEW"
    /\ Up(m)
    /\ ui' = [ui EXCEPT ![n] = "join"]
    /\ entry' = [entry EXCEPT ![n] = m]
    /\ conns' = [conns EXCEPT ![n] = @ \cup {<<m, "entry">>}]
    /\ backlog' = [backlog EXCEPT ![m] = @ \cup {<<n, "joiner">>}]
    /\ UNCHANGED <<status, outgoing, state, joinVars, viewVars, groupVars,
                   logs, reset, inbox>>

\* ... then the local state set, without a second look ...
UIJoinMark(n) ==
    /\ Running(n) /\ ui[n] = "join"
    /\ ui' = [ui EXCEPT ![n] = "joining"]
    /\ state' = [state EXCEPT ![n] = "JOINING"]
    /\ UNCHANGED <<status, entry, outgoing, joinVars, viewVars, groupVars, logs,
                   netVars>>

\* ... and the JOIN sent, whatever the state has become.
UIJoinSend(n) ==
    LET p == <<entry[n], "entry">>
    IN  /\ Running(n) /\ ui[n] = "joining"
        /\ ui' = [ui EXCEPT ![n] = "idle"]
        /\ peerState' = [peerState EXCEPT ![n][p] = "NEW"]
        /\ newPeers' = [newPeers EXCEPT ![n][AddrOfPeer(p)] =
                           [peer |-> p, port |-> NoNode]]
        /\ inbox' = Deliver(inbox, n, {p}, JoinMsg)
        /\ reset' = [reset EXCEPT ![n] = @ \cup Bounced({p})]
        /\ UNCHANGED <<status, entry, outgoing, state, joinToken, readyTimers,
                       joinTimers, peers, groupVars, logs, conns, backlog>>

\* ... or not: add_new_peer asks for the address of a socket that has been reset
\* since, and the exception leaves the state as it is.
UIJoinThrows(n) ==
    LET p == <<entry[n], "entry">>
    IN  /\ Running(n) /\ ui[n] = "joining"
        /\ MayBeReset(n, p)
        /\ ui' = [ui EXCEPT ![n] = "idle"]
        /\ conns' = [conns EXCEPT ![n] = @ \ {p}]
        /\ inbox' = [inbox EXCEPT ![n][p] = <<>>]
        /\ UNCHANGED <<status, entry, outgoing, state, joinVars, viewVars,
                       groupVars, logs, backlog, reset>>

\* The data the node has broadcast so far
SentData(n) == {m \in logs[n] \cup outgoing[n] : m.type = "DATA" /\ m.from = n}

\* broadcast: the local state is checked ...
UIBroadcastCheck(n) ==
    /\ Running(n) /\ ui[n] = "idle"
    /\ state[n] = "CONNECTED"
    /\ Cardinality(SentData(n)) < MaxData[n]
    /\ ui' = [ui EXCEPT ![n] = "broadcast"]
    /\ UNCHANGED <<status, entry, outgoing, state, joinVars, viewVars,
                   groupVars, logs, netVars>>

\* ... then local_group dereferenced, whatever it has become, and the data sent
\* to the successors ...
UIBroadcast(n) ==
    LET data == DataMsg(localGroup[n], n, Cardinality(SentData(n)) + 1)
        succs == groups[n][localGroup[n]].succs
    IN  /\ Running(n) /\ ui[n] = "broadcast"
        /\ localGroup[n] # NoGroup
        /\ ui' = [ui EXCEPT ![n] = "log"]
        /\ outgoing' = [outgoing EXCEPT ![n] = {data}]
        /\ inbox' = Deliver(inbox, n, succs, data)
        /\ reset' = [reset EXCEPT ![n] = @ \cup Bounced(succs)]
        /\ UNCHANGED <<status, entry, state, joinVars, viewVars, groupVars, logs,
                       conns, backlog>>

\* log_message looks up the group of a message that is not in the logs yet.
GroupsFound(n, M) ==
    \A m \in M \ logs[n] : m.group \in markers[n] \cap groupIds[n]

\* Faulty: the author does not log its own message.
UIBroadcastLog_Forgotten(n) ==
    /\ Running(n) /\ ui[n] = "log"
    /\ ui' = [ui EXCEPT ![n] = "idle"]
    /\ outgoing' = [outgoing EXCEPT ![n] = {}]
    /\ UNCHANGED <<status, entry, state, joinVars, viewVars, groupVars, logs,
                   netVars>>

\* ... and logged, unless a copy of it has come back before.
UIBroadcastLog(n) ==
    /\ Running(n) /\ ui[n] = "log"
    /\ GroupsFound(n, outgoing[n])
    /\ ui' = [ui EXCEPT ![n] = "idle"]
    /\ logs' = [logs EXCEPT ![n] = @ \cup outgoing[n]]
    /\ outgoing' = [outgoing EXCEPT ![n] = {}]
    /\ UNCHANGED <<status, entry, state, joinVars, viewVars, groupVars, netVars>>

\* A null group, where handle_disconnect has forgotten it in between
UIBroadcastCrash(n) ==
    /\ Running(n)
    /\ \/ ui[n] = "broadcast" /\ localGroup[n] = NoGroup
       \/ ui[n] = "log" /\ ~GroupsFound(n, outgoing[n])
    /\ Crash(n)

\* send_all, in any state
UISend(n) ==
    /\ Running(n) /\ ui[n] = "idle" /\ n \in Talker
    /\ peers[n] # {}
    /\ \A r \in Node, q \in Peer : Id(q) = n => Text \notin Range(inbox[r][q])
    /\ inbox' = Deliver(inbox, n, peers[n], Text)
    /\ reset' = [reset EXCEPT ![n] = @ \cup Bounced(peers[n])]
    /\ UNCHANGED <<procVars, state, joinVars, viewVars, groupVars, logs, conns,
                   backlog>>

Quit(n) ==
    /\ Running(n) /\ ui[n] = "idle" /\ n \in Leaver
    /\ Exit(n, "quit")

-----------------------------------------------------------------------------
(* The io_service thread: the listener, the reads and the timers.          *)

\* p is constructed and entered in new_peers, over whichever Peer was there
\* under its address.
Accept(n, p) ==
    /\ Running(n) /\ p \in backlog[n]
    /\ backlog' = [backlog EXCEPT ![n] = @ \ {p}]
    /\ conns' = [conns EXCEPT ![n] = @ \cup {p}]
    /\ peerState' = [peerState EXCEPT ![n][p] = "NEW"]
    /\ newPeers' = [newPeers EXCEPT ![n][AddrOfPeer(p)] =
                       [peer |-> p, port |-> NoNode]]
    /\ UNCHANGED <<procVars, state, joinToken, readyTimers, joinTimers, peers,
                   groupVars, logs, reset, inbox>>

\* The next read on p's socket returns a message of type t.  The entry point's
\* socket is read once it is in new_peers.
Reads(n, p, t) ==
    /\ Running(n) /\ p \in conns[n]
    /\ ~(ui[n] \in {"join", "joining"} /\ p = <<entry[n], "entry">>)
    /\ inbox[n][p] # <<>>
    /\ Head(inbox[n][p]).type = t

Parsed(m) == m \notin {Eof, Rst}

\* What is left of the messages ms when the next read returns the first two
JoinedWithNext(ms) == <<Head(ms)>> \o Tail(Tail(ms))

\* async_read_some returns all that has arrived: the next message and the one
\* behind it, which is gone unparsed.
ReadTogether(n, p) ==
    LET ms == inbox[n][p]
    IN  /\ ~Prompt
        /\ Running(n) /\ p \in conns[n]
        /\ Len(ms) >= 2 /\ Parsed(ms[1]) /\ Parsed(ms[2])
        /\ inbox' = [inbox EXCEPT ![n][p] = JoinedWithNext(ms)]
        /\ UNCHANGED <<procVars, state, joinVars, viewVars, groupVars, logs,
                       conns, backlog, reset>>

NewGroupId(n) == <<n, Cardinality({g \in markers[n] : g[1] = n}) + 1>>

\* Faulty: the group has no marker.
MapMarker_Forgotten(n, g) == UNCHANGED markers

\* The broadcast marker of g is associated with g.
MapMarker(n, g) == markers' = [markers EXCEPT ![n] = @ \cup {g}]

\* Faulty: the founder's state stays as it is.
FoundGroup_StillNew(n) ==
    LET gid == NewGroupId(n)
    IN  /\ gid \in GroupId
        /\ localGroup' = [localGroup EXCEPT ![n] = gid]
        /\ groupIds' = [groupIds EXCEPT ![n] = @ \cup {gid}]
        /\ MapMarker(n, gid)
        /\ UNCHANGED state

\* Whoever is not CONNECTED founds a group, also while it is JOINING one.
FoundGroup(n) ==
    LET gid == NewGroupId(n)
    IN  /\ gid \in GroupId
        /\ state' = [state EXCEPT ![n] = "CONNECTED"]
        /\ localGroup' = [localGroup EXCEPT ![n] = gid]
        /\ groupIds' = [groupIds EXCEPT ![n] = @ \cup {gid}]
        /\ MapMarker(n, gid)

HandleJoin(n, p) ==
    /\ Reads(n, p, "JOIN")
    /\ \/ /\ state[n] # "CONNECTED"
          /\ FoundGroup(n)
       \/ /\ state[n] = "CONNECTED"
          /\ UNCHANGED <<state, localGroup, groupIds, markers>>
    /\ Identified(n, p, "JOINING")
    /\ LET gs == IF state[n] = "CONNECTED" THEN groups[n]
                 ELSE [groups[n] EXCEPT ![localGroup'[n]] =
                          AddToRings(NewGroup, Local(n))]
       IN  \/ /\ joinToken[n]
              /\ AnswerJoinRequest(n, p, Id(p), localGroup'[n], gs,
                                   Consume(n, p), joinTimers[n])
           \/ /\ ~joinToken[n]
              /\ newPeers' = [newPeers EXCEPT ![n][AddrOfPeer(p)].port = Id(p)]
              /\ groups' = [groups EXCEPT ![n] = gs]
              /\ inbox' = Consume(n, p)
              /\ UNCHANGED <<joinToken, readyTimers, joinTimers, peers, logs,
                             reset>>
    /\ UNCHANGED <<procVars, conns, backlog>>

\* What every broadcast message goes through first.  Its marker leads nowhere:
\* a null group is dereferenced, by log_message if the emitter is known, by
\* broadcast if the group is gone.
Misrouted(n, p, m) ==
    \/ m.group \in markers[n] \ groupIds[n]
    \/ m.group \notin markers[n] /\ Known(n, p)

\* Faulty: nothing is forwarded.
Relays_Nobody(n, m) == {}

\* To whom it is forwarded
Relays(n, m) == IF m.group \in markers[n] THEN groups[n][m.group].succs ELSE {}

LogForwarded(n, m) ==
    logs' = IF m.group \in markers[n]
            THEN [logs EXCEPT ![n] = @ \cup {m}] ELSE logs

\* A broadcast message that is in the logs is only acknowledged there.
HandleDuplicate(n, p) ==
    /\ Reads(n, p, "JOIN_NOTIF") \/ Reads(n, p, "DATA")
    /\ Head(inbox[n][p]) \in logs[n]
    /\ inbox' = Consume(n, p)
    /\ UNCHANGED <<procVars, state, joinVars, viewVars, groupVars, logs,
                   conns, backlog, reset>>

HandleMisrouted(n, p) ==
    /\ Reads(n, p, "JOIN_NOTIF") \/ Reads(n, p, "DATA")
    /\ Head(inbox[n][p]) \notin logs[n]
    /\ Misrouted(n, p, Head(inbox[n][p]))
    /\ Crash(n)

\* cout only: nothing is left of the data but the log
HandleData(n, p) ==
    LET m == Head(inbox[n][p])
    IN  /\ Reads(n, p, "DATA")
        /\ m \notin logs[n] /\ ~Misrouted(n, p, m)
        /\ inbox' = Deliver(Consume(n, p), n, Relays(n, m), m)
        /\ LogForwarded(n, m)
        /\ reset' = [reset EXCEPT ![n] = @ \cup Bounced(Relays(n, m))]
        /\ UNCHANGED <<procVars, state, joinVars, viewVars, groupVars,
                       conns, backlog>>

\* The first reception of a JOIN Notification that can be forwarded.  (The
\* CHANNEL flag is never set by the code: the group is ours or not.)
ReadsNotif(n, p) ==
    LET m == Head(inbox[n][p])
    IN  /\ Reads(n, p, "JOIN_NOTIF")
        /\ m \notin logs[n] /\ ~Misrouted(n, p, m)
        /\ LogForwarded(n, m)

Ours(n, m) == m.group \in groupIds[n] /\ m.group = localGroup[n]

HandleForeignNotif(n, p) ==
    LET m == Head(inbox[n][p])
    IN  /\ ReadsNotif(n, p) /\ ~Ours(n, m)
        /\ inbox' = Deliver(Consume(n, p), n, Relays(n, m), m)
        /\ reset' = [reset EXCEPT ![n] = @ \cup Bounced(Relays(n, m))]
        /\ UNCHANGED <<procVars, state, joinVars, viewVars, groupVars, conns,
                       backlog>>

\* connect_peer throws, the token is taken already.
HandleNotifRefused(n, p) ==
    LET m == Head(inbox[n][p])
    IN  /\ ReadsNotif(n, p) /\ Ours(n, m)
        /\ m.port = NoNode \/ (m.port \in Node /\ ~Up(m.port))
        /\ joinToken' = [joinToken EXCEPT ![n] = FALSE]
        /\ inbox' = Deliver(Consume(n, p), n, Relays(n, m), m)
        /\ reset' = [reset EXCEPT ![n] = @ \cup Bounced(Relays(n, m))]
        /\ UNCHANGED <<procVars, state, newPeers, readyTimers, joinTimers,
                       viewVars, groupVars, conns, backlog>>

\* The member calls the joining node and acknowledges it.  (Where nodes share
\* an address, the port may be another node's: left out.)
HandleJoinNotif(n, p) ==
    LET m == Head(inbox[n][p])
        q == <<m.peer, "called">>
    IN  /\ ReadsNotif(n, p) /\ Ours(n, m)
        /\ m.port = m.peer /\ Up(m.port)
        /\ joinToken' = [joinToken EXCEPT ![n] = FALSE]
        /\ conns' = [conns EXCEPT ![n] = @ \cup {q}]
        /\ backlog' = [backlog EXCEPT ![m.port] = @ \cup {<<n, "caller">>}]
        /\ Identified(n, q, "JOINING")
        /\ AcknowledgeJoin(n, q, m.group, groups[n],
                           Deliver(Consume(n, p), n, Relays(n, m), m),
                           Relays(n, m), joinTimers[n])
        /\ UNCHANGED <<procVars, state, newPeers, readyTimers, localGroup,
                       groupIds, markers>>

\* The first member heard of decides the local group; the members of the local
\* group are put in the rings of every other.  The neighbours wait for READY.
HandleJoinAck(n, p) ==
    LET h == Head(inbox[n][p]).group
        first == h \notin groupIds[n] /\ localGroup[n] = NoGroup
        g == CASE h \in groupIds[n] -> groups[n][h]
               [] first -> NewGroup
               [] OTHER -> AddGroupToRings(NewGroup, groups[n][localGroup[n]])
    IN  /\ Reads(n, p, "JOIN_ACK")
        /\ \/ /\ first
              /\ localGroup' = [localGroup EXCEPT ![n] = h]
              /\ MapMarker(n, h)
           \/ ~first /\ UNCHANGED <<localGroup, markers>>
        /\ groupIds' = [groupIds EXCEPT ![n] = @ \cup {h}]
        /\ groups' = [groups EXCEPT ![n][h] = AddPeer(g, p)]
        /\ Identified(n, p, "CONNECTED")
        /\ newPeers' = [newPeers EXCEPT ![n][AddrOfPeer(p)] = NoEntry]
        /\ peers' = [peers EXCEPT ![n] = Put(@, p)]
        /\ inbox' = Consume(n, p)
        /\ UNCHANGED <<procVars, state, joinToken, readyTimers, joinTimers,
                       logs, conns, backlog, reset>>

\* The groups in which the node has yet to take its place
ToEnter(n) ==
    {g \in groupIds[n] : g # localGroup[n] \/ state[n] # "CONNECTED"}

\* Faulty: the neighbours are not computed.
EnterRings_Stale(g, n) == AddToRings(g, Local(n))

EnterRings(g, n) == UpdateNeighbours(AddToRings(g, Local(n)), n)

\* (A direct neighbour in several groups gets one READY Notification here: the
\* stamps of those sent in one handler are equal within a millisecond.)
HandleReady(n, p) ==
    LET entered == [g \in GroupId |->
                       IF g \in ToEnter(n) THEN EnterRings(groups[n][g], n)
                       ELSE groups[n][g]]
        directs == UNION {Neighbours(entered[g]) : g \in ToEnter(n)}
    IN  /\ Reads(n, p, "READY")
        /\ groups' = [groups EXCEPT ![n] = entered]
        /\ state' = IF localGroup[n] \in groupIds[n]
                    THEN [state EXCEPT ![n] = "CONNECTED"] ELSE state
        /\ inbox' = Deliver(Consume(n, p), n, directs, ReadyNotifMsg)
        /\ reset' = [reset EXCEPT ![n] = @ \cup Bounced(directs)]
        /\ UNCHANGED <<procVars, joinVars, viewVars, localGroup, groupIds,
                       markers, logs, conns, backlog>>

HandleReadyNotif(n, p) ==
    LET states == [peerState[n] EXCEPT ![p] = "CONNECTED"]
    IN  /\ Reads(n, p, "READY_NOTIF")
        /\ peerState' = [peerState EXCEPT ![n] = states]
        /\ CheckForNewPeers(n, states, Consume(n, p), joinTimers[n])
        /\ UNCHANGED <<procVars, state, localGroup, groupIds, markers, conns,
                       backlog>>

\* set_state reports the peer's address, which a reset socket no longer has:
\* it throws, and the handler ends there.
HandleReadyNotifThrows(n, p) ==
    /\ Reads(n, p, "READY_NOTIF")
    /\ MayBeReset(n, p)
    /\ peerState' = [peerState EXCEPT ![n][p] = "CONNECTED"]
    /\ inbox' = Consume(n, p)
    /\ UNCHANGED <<procVars, state, joinVars, peers, groupVars, logs, conns,
                   backlog, reset>>

\* check_for_new_peers dereferences a null pointer.
HandleReadyNotifCrash(n, p) ==
    /\ Reads(n, p, "READY_NOTIF")
    /\ DereferencesNull(n, [peerState[n] EXCEPT ![p] = "CONNECTED"])
    /\ Crash(n)

\* A MessageParseException is reported.
HandleText(n, p) ==
    /\ Reads(n, p, "TEXT")
    /\ inbox' = Consume(n, p)
    /\ UNCHANGED <<procVars, state, joinVars, viewVars, groupVars, logs,
                   conns, backlog, reset>>

\* The first group, in the order of their IDs, that handle_disconnect looks at
FirstGroup(n) ==
    CHOOSE g \in groupIds[n] : \A h \in groupIds[n] : GroupKey[g] <= GroupKey[h]

\* Faulty: a Peer that has not announced that it is ready is overlooked.
Erasable_Connected(n, p) ==
    peerState[n][p] = "CONNECTED" /\ Id(p) \in Ids(peers[n])

\* peers.erase finds the ID of a Peer that has been identified.
Erasable(n, p) == Known(n, p) /\ Id(p) \in Ids(peers[n])

\* Left alone, the node forgets its groups and is NEW again; the token and the
\* timers stay as they are.
LeaveGroups(n, view, pending, gs) ==
    IF view = {} /\ \A a \in Addr : pending[a] = NoEntry
    THEN /\ groupIds' = [groupIds EXCEPT ![n] = {}]
         /\ groups' = [groups EXCEPT ![n] = [g \in GroupId |-> NewGroup]]
         /\ localGroup' = [localGroup EXCEPT ![n] = NoGroup]
         /\ state' = [state EXCEPT ![n] = "NEW"]
    ELSE /\ groups' = [groups EXCEPT ![n] = gs]
         /\ UNCHANGED <<groupIds, localGroup, state>>

\* A member of the local group leaves every group, a member of another group
\* that one.  Only there are the neighbours updated.
GroupsToUpdate(n, p) ==
    IF HasMember(groups[n][localGroup[n]], p) THEN groupIds[n]
    ELSE {FirstGroup(n)}

\* Faulty: the neighbours are not updated.
GroupsWithout_Stale(n, p) ==
    [g \in GroupId |-> IF g \in GroupsToUpdate(n, p)
                       THEN RemovePeer(groups[n][g], p) ELSE groups[n][g]]

\* The groups without p
GroupsWithout(n, p) ==
    [g \in GroupId |->
        CASE g \in GroupsToUpdate(n, p) ->
                UpdateNeighbours(RemovePeer(groups[n][g], p), n)
          [] g \notin GroupsToUpdate(n, p) /\ g = localGroup[n] ->
                RemovePeer(groups[n][g], p)
          [] OTHER -> groups[n][g]]

\* The loop over the groups does not advance.
LoopsForever(n, p) ==
    /\ Erasable(n, p)
    /\ ~HasMember(groups[n][localGroup[n]], p)
    /\ groupIds[n] # {}
    /\ ~HasMember(groups[n][FirstGroup(n)], p)

HandleDisconnect(n, p) ==
    /\ Reads(n, p, "EOF")
    /\ ~LoopsForever(n, p)
    /\ LET view == IF Erasable(n, p) THEN EraseId(peers[n], Id(p)) ELSE peers[n]
           pending == IF Erasable(n, p) THEN newPeers[n]
                      ELSE [newPeers[n] EXCEPT ![AddrOfPeer(p)] = NoEntry]
           gs == IF Erasable(n, p) THEN GroupsWithout(n, p) ELSE groups[n]
       IN  /\ peers' = [peers EXCEPT ![n] = view]
           /\ newPeers' = [newPeers EXCEPT ![n] = pending]
           /\ LeaveGroups(n, view, pending, gs)
    /\ conns' = [conns EXCEPT ![n] = @ \ {p}]
    /\ inbox' = Consume(n, p)
    /\ UNCHANGED <<procVars, joinToken, readyTimers, joinTimers, peerState,
                   markers, logs, backlog, reset>>

HandleDisconnectHangs(n, p) ==
    /\ Reads(n, p, "EOF")
    /\ LoopsForever(n, p)
    /\ status' = [status EXCEPT ![n] = "hung"]
    /\ UNCHANGED <<ui, entry, outgoing, state, joinVars, viewVars, groupVars,
                   logs, netVars>>

\* The address of a socket that has been reset since is asked for: uncaught.
HandleDisconnectCrash(n, p) ==
    /\ Reads(n, p, "EOF")
    /\ MayBeReset(n, p)
    /\ Crash(n)

\* Any other read error is reported and the socket not read again: the peer
\* stays in the view.
HandleReadError(n, p) ==
    /\ Reads(n, p, "RST")
    /\ conns' = [conns EXCEPT ![n] = @ \ {p}]
    /\ reset' = [reset EXCEPT ![n] = @ \cup {p}]
    /\ inbox' = Consume(n, p)
    /\ UNCHANGED <<procVars, state, joinVars, viewVars, groupVars, logs,
                   backlog>>

-----------------------------------------------------------------------------
\* What the delays stand for: READY_TIME lets every member acknowledge node m
\* and m hear of it, JOIN_COMPLETE_TIME lets m announce that it is ready.
MayBeRead(t) ==
    {c \in Node \X Peer :
        Up(c[1]) /\ \E m \in Range(inbox[c[1]][c[2]]) : m.type = t}

Acknowledged(m) ==
    /\ \A c \in MayBeRead("JOIN_ACK") : c[1] # m
    /\ \A c \in MayBeRead("JOIN_NOTIF") :
          \A e \in Range(inbox[c[1]][c[2]]) : e.type = "JOIN_NOTIF" => e.peer # m

Announced(m) ==
    /\ \A r \in Node : m \notin Ids(readyTimers[r])
    /\ \A c \in MayBeRead("READY") : c[1] # m
    /\ \A c \in MayBeRead("READY_NOTIF") : Id(c[2]) # m

\* Faulty: the timer is erased and nothing sent.
SendReady_Lost(n, p) ==
    /\ Running(n) /\ p \in readyTimers[n]
    /\ Timely => Acknowledged(Id(p))
    /\ readyTimers' = [readyTimers EXCEPT ![n] = EraseId(@, Id(p))]
    /\ UNCHANGED <<procVars, state, joinToken, newPeers, joinTimers, viewVars,
                   groupVars, logs, netVars>>

\* READY_TIME after p was answered
SendReady(n, p) ==
    /\ Running(n) /\ p \in readyTimers[n]
    /\ Timely => Acknowledged(Id(p))
    /\ readyTimers' = [readyTimers EXCEPT ![n] = EraseId(@, Id(p))]
    /\ inbox' = Deliver(inbox, n, {p}, ReadyMsg)
    /\ reset' = [reset EXCEPT ![n] = @ \cup Bounced({p})]
    /\ UNCHANGED <<procVars, state, joinToken, newPeers, joinTimers, viewVars,
                   groupVars, logs, conns, backlog>>

CompletesJoin(n, p) ==
    /\ Running(n) /\ p \in joinTimers[n]
    /\ Timely => Announced(Id(p))

CompleteJoin(n, p) ==
    LET states == [peerState[n] EXCEPT ![p] = "CONNECTED"]
    IN  /\ CompletesJoin(n, p)
        /\ peerState' = [peerState EXCEPT ![n] = states]
        /\ CheckForNewPeers(n, states, inbox, EraseId(joinTimers[n], Id(p)))
        /\ UNCHANGED <<procVars, state, localGroup, groupIds, markers, conns,
                       backlog>>

\* A null pointer in check_for_new_peers, or p's socket reset since: outside of
\* any try
CompleteJoinCrash(n, p) ==
    /\ CompletesJoin(n, p)
    /\ \/ MayBeReset(n, p)
       \/ DereferencesNull(n, [peerState[n] EXCEPT ![p] = "CONNECTED"])
    /\ Crash(n)

-----------------------------------------------------------------------------
Init ==
    /\ status = [n \in Node |-> "running"]
    /\ ui = [n \in Node |-> "idle"]
    /\ entry = [n \in Node |-> n]
    /\ outgoing = [n \in Node |-> {}]
    /\ state = [n \in Node |-> "NEW"]
    /\ joinToken = [n \in Node |-> TRUE]
    /\ peers = [n \in Node |-> {}]
    /\ peerState = [n \in Node |-> [p \in Peer |-> "NEW"]]
    /\ newPeers = [n \in Node |-> [a \in Addr |-> NoEntry]]
    /\ localGroup = [n \in Node |-> NoGroup]
    /\ groupIds = [n \in Node |-> {}]
    /\ groups = [n \in Node |-> [g \in GroupId |-> NewGroup]]
    /\ markers = [n \in Node |-> {}]
    /\ logs = [n \in Node |-> {}]
    /\ readyTimers = [n \in Node |-> {}]
    /\ joinTimers = [n \in Node |-> {}]
    /\ conns = [n \in Node |-> {}]
    /\ backlog = [n \in Node |-> {}]
    /\ reset = [n \in Node |-> {}]
    /\ inbox = [n \in Node |-> [p \in Peer |-> <<>>]]

\* The command in progress goes on.
UIStep(n) ==
    \/ UIJoinMark(n) \/ UIJoinSend(n) \/ UIJoinThrows(n)
    \/ UIBroadcast(n) \/ UIBroadcastLog(n) \/ UIBroadcastCrash(n)

\* The handler of a read on p's socket
Receive(n, p) ==
    \/ HandleJoin(n, p)
    \/ HandleDuplicate(n, p) \/ HandleMisrouted(n, p) \/ HandleData(n, p)
    \/ HandleForeignNotif(n, p) \/ HandleNotifRefused(n, p)
    \/ HandleJoinNotif(n, p)
    \/ HandleJoinAck(n, p)
    \/ HandleReady(n, p)
    \/ HandleReadyNotif(n, p) \/ HandleReadyNotifThrows(n, p)
    \/ HandleReadyNotifCrash(n, p)
    \/ HandleText(n, p)
    \/ HandleDisconnect(n, p) \/ HandleDisconnectHangs(n, p)
    \/ HandleDisconnectCrash(n, p)
    \/ HandleReadError(n, p)

TimerExpires(n, p) ==
    SendReady(n, p) \/ CompleteJoin(n, p) \/ CompleteJoinCrash(n, p)

\* Whatever is pending on p: its acceptance, a read, a timer
IOStep(n, p) == Accept(n, p) \/ Receive(n, p) \/ TimerExpires(n, p)

Next ==
    \E n \in Node :
       \/ \E m \in JoinTo[n] : UIJoinConnect(n, m)
       \/ UIBroadcastCheck(n)
       \/ UIStep(n)
       \/ UISend(n)
       \/ Quit(n)
       \/ \E p \in Peer : IOStep(n, p) \/ ReadTogether(n, p)

Spec == Init /\ [][Next]_vars

\* The main thread goes on with a command it has begun, io_service::run calls
\* the handler of whatever is ready; the user need not enter a command.
Fairness ==
    \A n \in Node : /\ WF_vars(UIStep(n))
                    /\ \A p \in Peer : WF_vars(IOStep(n, p))

FairSpec == Spec /\ Fairness

-----------------------------------------------------------------------------
(* Type correctness.                                                       *)

TypeOK ==
    /\ status \in [Node -> {"running", "hung", "crashed", "quit"}]
    /\ ui \in [Node -> {"idle", "join", "joining", "broadcast", "log"}]
    /\ entry \in [Node -> Node]
    /\ outgoing \in [Node -> SUBSET BCastMessage]
    /\ state \in [Node -> PeerState]
    /\ joinToken \in [Node -> BOOLEAN]
    /\ peers \in [Node -> SUBSET Peer]
    /\ peerState \in [Node -> [Peer -> PeerState]]
    /\ newPeers \in [Node -> [Addr -> NewPeerEntry]]
    /\ localGroup \in [Node -> GroupId \cup {NoGroup}]
    /\ groupIds \in [Node -> SUBSET GroupId]
    /\ groups \in [Node -> [GroupId -> Group]]
    /\ markers \in [Node -> SUBSET GroupId]
    /\ logs \in [Node -> SUBSET BCastMessage]
    /\ readyTimers \in [Node -> SUBSET Peer]
    /\ joinTimers \in [Node -> SUBSET Peer]
    /\ conns \in [Node -> SUBSET Peer]
    /\ backlog \in [Node -> SUBSET Peer]
    /\ reset \in [Node -> SUBSET Peer]
    /\ inbox \in [Node -> [Peer -> Seq(Message)]]

-----------------------------------------------------------------------------
(* Safety of one node's bookkeeping, whatever the others do.               *)

\* The Peers of new_peers that have sent a JOIN and wait for its answer
Waiting(n) ==
    {a \in Addr : /\ newPeers[n][a].peer # NoPeer
                  /\ peerState[n][newPeers[n][a].peer] = "JOINING"}

\* The Peers whose JOIN the node has read and, by peers, not answered, wherever
\* new_peers has them
Unserved(n) ==
    {p \in conns[n] : /\ p[2] = "joiner" /\ peerState[n][p] = "JOINING"
                      /\ Id(p) \notin Ids(peers[n])}

\* A join request is never left unanswered while the token is free: nobody
\* would answer it later (join_token and new_peers, looked at by the JOIN
\* handler and by check_for_new_peers).
NoForgottenJoin ==
    \A n \in Node : Running(n) /\ joinToken[n] => Unserved(n) = {}

\* local_group can be dereferenced, and its broadcast marker is mapped, in
\* every state in which some handler does so without a check: there are peers,
\* groups or join requests, or the node is CONNECTED.
LocalGroupSound ==
    \A n \in Node :
        /\ Running(n)
        /\ \/ peers[n] # {} \/ groupIds[n] # {}
           \/ Waiting(n) # {} \/ state[n] = "CONNECTED"
        => localGroup[n] \in groupIds[n] \cap markers[n]

\* Whoever announces that it is ready is known by then: a READY Notification
\* never overtakes the JOIN or the JOIN Acknowledgement of its emitter, so that
\* the handler finds a Peer with an ID, and a local group, there.
ReadyComesLast ==
    \A n \in Node, p \in Peer : Reads(n, p, "READY_NOTIF") => Known(n, p)

\* peers and the groups' own peer maps, which are changed by different calls,
\* name the same nodes: handle_disconnect relies on finding an erased peer in
\* a group.
PeersAreMembers ==
    \A n \in Node : Running(n) =>
        Ids(peers[n]) = UNION {Ids(groups[n][g].members) : g \in groupIds[n]}

\* The address of a Peer is read (get_address throws on a socket that has been
\* reset) by answer_join_request for whoever waits in new_peers, and by the
\* JOIN and JOIN Acknowledgement handlers for the emitter.
AddressReadable ==
    \A n \in Node : Running(n) =>
        /\ \A a \in Pending(n, peerState[n]) : ~MayBeReset(n, newPeers[n][a].peer)
        /\ \A p \in Peer :
              Reads(n, p, "JOIN") \/ Reads(n, p, "JOIN_ACK") => ~MayBeReset(n, p)

\* Nobody relays to itself or to a node that is not in the ring, so that no
\* message goes to the local Peer, which has no socket.
NeighboursInRings ==
    \A n \in Node, g \in GroupId : Running(n) =>
        Ids(Neighbours(groups[n][g])) \subseteq Ids(groups[n][g].ring) \ {n}

\* A node that relays does so on the rings as they are: update_neighbours was
\* called after every change of the rings.
NeighboursFresh ==
    \A n \in Node : Running(n) /\ state[n] = "CONNECTED" =>
        \A g \in groupIds[n] : groups[n][g] = UpdateNeighbours(groups[n][g], n)

\* A Peer of the view that is no longer read is one whose socket failed with
\* something else than EOF (handle_incoming_message only reports it):
\* handle_disconnect forgets all the others, in whatever state they are.
GhostsAreReset ==
    \A n \in Node : Running(n) => \A p \in peers[n] : p \in conns[n] \cup reset[n]

-----------------------------------------------------------------------------
(* The system.                                                             *)

NoCrash == \A n \in Node : status[n] # "crashed"

\* A node dies of another's departure only: the null group the broadcast command
\* may find (Main.cpp), the address of a reset socket, the marker of a cleared
\* group all come from a Peer that has left.
OnlyQuitsCrash ==
    \A n \in Node : status[n] = "crashed" => \E m \in Node : status[m] = "quit"

NoHang == \A n \in Node : status[n] # "hung"

\* While a node sees another one joining, it holds the token back.
TokenHeldDuringJoin ==
    \A n \in Node : \A p \in peers[n] :
        Running(n) /\ peerState[n][p] = "JOINING" => ~joinToken[n]

\* There is one group: nobody founds a second one.
OneGroup ==
    \A m, n \in Node :
        /\ Running(m) /\ Running(n)
        /\ localGroup[m] # NoGroup /\ localGroup[n] # NoGroup
        => localGroup[m] = localGroup[n]

\* Nothing is under way: no message, connection, timer or command.
Quiet ==
    \A n \in Node : Running(n) =>
        /\ ui[n] = "idle" /\ backlog[n] = {}
        /\ readyTimers[n] = {} /\ joinTimers[n] = {}
        /\ \A p \in Peer : inbox[n][p] = <<>>

Members == {n \in Node : Running(n) /\ state[n] = "CONNECTED"}

\* Once a join is over, every member has every other one in its view, as a
\* CONNECTED peer, in its group and in its rings, and nobody else.
ViewsAgree ==
    Quiet => \A n \in Members :
        LET g == groups[n][localGroup[n]]
        IN  /\ Ids(peers[n]) = Members \ {n}
            /\ Ids(g.members) = Members \ {n}
            /\ Ids(g.ring) = Members
            /\ \A p \in peers[n] : peerState[n][p] = "CONNECTED"

\* Relaying is symmetric: n relays to m where m expects it to.
NeighboursAgree ==
    Quiet => \A m, n \in Members :
        LET gm == groups[m][localGroup[m]]
            gn == groups[n][localGroup[n]]
        IN  m \in Ids(gn.succs) <=> n \in Ids(gm.preds)

\* The token is back once nothing is under way.
TokenReleased == Quiet => \A n \in Node : Running(n) => joinToken[n]

\* A node gives up its group only for none at all, when it is left alone: it
\* founds a group if it has been alone so far.
GroupKept ==
    [][\A n \in Node :
          localGroup'[n] # localGroup[n] => NoGroup \in {localGroup[n], localGroup'[n]}
      ]_vars

\* The data in the logs is broadcast as module Broadcast says: log_message lets
\* a message in only after its author's broadcast_data has numbered and sent it.
DataBroadcast ==
    INSTANCE Broadcast WITH
        sent <- [n \in Node |-> Cardinality(SentData(n))],
        got <- [n \in Node |-> {<<m.from, m.seq>> :
                                   m \in {l \in logs[n] : l.type = "DATA"}}]

ImplementsBroadcast == DataBroadcast!Spec

\* Whoever asks to join is let in, also one that has to wait in new_peers for
\* others to be done (check_for_new_peers hands the token on).
JoinCompletes ==
    \A n \in Node : state[n] = "JOINING" ~> state[n] = "CONNECTED"
=============================================================================
