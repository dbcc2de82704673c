# A formal model of rac-kun

rac-kun is a skeletal implementation of the RAC protocol: processes that join a
*group*, place themselves on several virtual *rings*, and broadcast messages
along the rings. This directory holds TLA+ modules that model the program, TLC
configurations that check them on small instances, and TLAPS proofs of what
holds for any number of nodes. Line numbers refer to the sources (`Network.cpp`
is `src/src/Network.cpp`).

## 1. Inventory

| Component | State | Operations | Module |
|---|---|---|---|
| Ring (`Ring.cpp`) | a map from digests to Peers | add_peer, remove_peer, get_successor, get_predecessor | `Ring`, `SingleRing` |
| Group (`Group.cpp`) | member map, RINGS_NB rings, cached predecessors and successors | add_peer, add_to_rings (two forms), remove_peer, update_neighbours | `Group` |
| Join procedure (`Network.cpp`) | join_token, new_peers, ready_timers, join_timers, local state | join, answer_join_request, acknowledge_join, check_for_new_peers, send_ready, complete_join, handlers of JOIN, JOIN_NOTIF, JOIN_ACK, READY, READY_NOTIF | `Network` |
| View maintenance (`Network.cpp`) | peers, groups, local_group, channel_markers | handle_disconnect, read errors | `Network` |
| Broadcast (`Network.cpp`) | logs | broadcast, broadcast_data, log_message, find_log | `Network`, `Broadcast`, `Delivery` |
| Listener (`Listener.cpp`) | connections not accepted yet | handle_accept | `Network` (`Accept`) |
| Peer (`Peer.cpp`) | socket, state, identity | send, listen and what a read returns, get_address, set_state | `Network` (partly) |
| Messages, parsing (`*Message.cpp`, `Utils.cpp`) | none | serialise, parse | records in `Network` (partly) |
| User interface (`Main.cpp`) | the command under way | join, broadcast, send, quit | `Network` |
| History (`Network.hpp`, `Message.cpp`) | logs in the order of reception, control counts by emitter | make_stamp, find_log, log_message, ack_message | `History` |
| Configuration, display, build | | | not modelled |

**How they interact.** A process has two threads. `io_service::run` calls one
handler at a time: accepted connections, reads of each Peer's socket, timers.
The main thread runs the commands and calls the same `Network` object without a
lock. Processes share nothing but TCP connections. To join, a node connects to
an entry point and sends JOIN; the entry point takes its *join token*,
broadcasts a JOIN Notification, acknowledges, and sends READY three seconds
later. Each member takes its own token, calls the joining node back and
acknowledges too. On READY the node enters the rings and sends READY
Notifications to its direct neighbours. A READY Notification, or a timer of six
seconds at members that are no neighbours, gives the token back, or hands it on
to the next request in `new_peers`.

**What is hard.** Commands and handlers interleave between a check and its use.
The two delays stand for agreements nobody checks. Nodes quit in the middle of
a join; writes to them provoke resets, and a reset socket has no address any
more, which throws. A connection is a stream of bytes: what has been sent in two
messages may be read as one, and the second is lost. Several joins overlap, at one entry point and at several. The broadcast command
sends a message before it logs it, and its copies go round the rings by
different ways; whether a node has seen one is decided by a stamp of millisecond
resolution.
The caches (neighbours of a group, `new_peers` by address, `peers` beside each
group's own map) have to be kept in step by hand. `PROJECT.json` lists each
hazard with its line.

**What makes each part correct.**
* Ring: successor and predecessor inverse to each other; following the
  successors visits everyone; only who is alone has none; a change concerns
  neighbours only.
* Group: the cached neighbours are those of the rings, and never oneself.
* Join: no request is forgotten; the token is held during a join and returns;
  every join completes; one group; all views agree once things are quiet.
* View: the maps agree; nothing null is dereferenced; no handler hangs.
* Broadcast: whoever is a member gets the message; a node records only what its
  author has sent, once.
* History: each node logs an author's messages in the order they were broadcast;
  the counts say which predecessors have relayed them.

## 2. Modules

* `Ring` – Peers, peer maps, rings. `GetSuccessor` is get_successor: the Peer
  that `Successor` looks up, or none where the code throws (`NoNeighbour`). A Peer object is the pair of the remote
  node and the role of its connection. All the rings of a group hold the same
  Peers, since every operation of `Group` does the same to each: one set
  `ring` stands for them, and `RingKey[i]` gives the order in ring `i`. The
  digests are injective and arbitrary otherwise.
* `Group` – a record of members, ring, preds, succs, and the operations.
* `SingleRing` – the state machine of one ring under additions and removals.
* `Network` – the system. `peers`, `newPeers`, `localGroup`, `groups`, `logs`,
  `joinToken`, `readyTimers`, `joinTimers` are the fields of `Network`, indexed
  by process. `groupIds` holds the keys of the GroupMap. `markers` holds the
  groups whose own `{g,g}` marker is in `channel_markers`; other markers never
  occur on a message, since nothing is sent over a channel between groups.
  `conns`, `backlog`, `reset` and `inbox` are the TCP connections. A handler is
  one action, with every call it makes: `HandleJoin` includes founding a group,
  answering, logging, acknowledging and starting timers. Outcomes of one
  handler that differ in how it ends (done, exception caught, process lost,
  endless loop) are actions of their own: `HandleDisconnect`,
  `HandleDisconnectHangs`, `HandleDisconnectCrash`.
  A command of the main thread that shares state with the handlers is several
  actions: `UIJoinConnect` looks at the state and connects, `UIJoinMark` sets the
  state, `UIJoinSend` enters the entry point in new_peers and sends the JOIN;
  `UIBroadcastCheck` looks at the state, `UIBroadcast` sends, `UIBroadcastLog`
  logs. `outgoing` holds what is sent and not logged yet.
  `ReadTogether` is a read that returns two messages: parse_message takes the
  first, the second is gone. (More than two: the action is taken again.) `UISend`
  writes text, which the reader cannot parse (`HandleText`).
* `Broadcast` – what the broadcast of data promises: `Send` and `Record`. Network
  implements it (`ImplementsBroadcast`) with the number of messages each node has
  sent, and the data in its logs, as the mapping.
* `History` – the logs in detail, in a group that nobody enters or leaves:
  `logs` in the order of reception, `control` counts, and stamps made of author
  and millisecond. The rings and neighbours are those of `Group`, with everyone
  in them. Every message is read on its own. Time is the clock of the author,
  which does not go back; several messages may have the same time.
* `Delivery` – Network with a history variable: when a node broadcasts, the
  members of its group are owed the message.
* `MCRing`, `MCNetwork`, `MCDelivery`, `MCHistory` – instances for TLC.
* `Ring_proof`, `SingleRing_proof`, `Network_proof` (which begins with the
  lemmas about `Group`), `Bookkeeping_proof`, `Connections_proof`,
  `SingleEntry_proof`, `Agreement_proof`, `History_proof` – the proofs.

Definitions whose name ends in `_` and a word (`MapMarker_Forgotten`), with a
comment that begins with "Faulty:", are not part of the model. Each is a
plausible mistake in the code. With it in place of the real definition, TLC
finds the property it is paired with in `PROJECT.json` violated.

## 3. Runs

| Run | Instance | Shows |
|---|---|---|
| `ring` | 5 nodes, all 120 orders at once, two Peers per node | a ring is one cycle, inverse neighbours, local changes |
| `serial` | 4 nodes, three join through the fourth, timely, nobody quits | no crash, one group, fresh neighbours, agreeing views and neighbours, token returned; every join completes |
| `quits` | 3 nodes, two of them may quit, one broadcasts, one sends text, delays of any length, coalesced reads | no JOIN is forgotten, the maps agree, addresses readable, READY_NOTIF only from known Peers, the group is kept, nobody crashes before somebody quits, a Peer that is not read any more failed with a reset, no handler hangs; `Broadcast` is implemented |
| `split` | 4 nodes on one host, joins through different entry points, one quits, coalesced reads | the local bookkeeping of group and neighbours, with several groups |
| `history` | 4 nodes, two rings of different orders, three messages in two milliseconds | each node logs the author's messages in order, none twice; control counts name the predecessors; every stamp reaches everyone |
| `delivery_aligned` | 3 nodes, one ring, broadcasts during joins | **violated**: a member does not get a message relayed through a node that is not ready |
| `token_lost` | 3 nodes, the joining one quits | **violated**: the token is lost |
| `token_early` | 4 nodes, two joins in a row | **violated**: a late READY_NOTIF frees the token of the next join |
| `one_host` | 3 nodes with one address | **violated**: a null Peer in new_peers is dereferenced |
| `hang` | 4 nodes, two groups, one quits | **violated**: handle_disconnect loops for ever |
| `two_groups` | 3 nodes in a chain | **violated**: a JOINING node founds a group and drops its own |
| `one_stamp` | 2 nodes, two messages in one millisecond | **violated**: nobody logs the second |

The violated runs are the findings of `PROJECT.json`, each against a comment or
a sentence of the repository's README, quoted there.

**Also in the model.** Six more things can go wrong that no run asks for. Each is
reached by the actions of `Network`; TLC shows it where the run named is given
the constants and the formula of the table (`Rank`, `OneHost` and the others are
in `MCNetwork`).

| What happens | Run and constants | Formula that fails |
|---|---|---|
| A JOIN is handled between the join command's look at the state and set_state (`Main.cpp`:73, `Network.cpp`:63): a CONNECTED node starts to join | `two_groups` | `[][\A n \in Node : state[n] # "JOINING" /\ state'[n] = "JOINING" => state[n] = "NEW"]_vars` |
| The last peer quits between the broadcast command's look at the state and its use of local_group (`Main.cpp`:91) | `token_lost`, `MaxData <- DataFromA` | `\A n \in Node : Running(n) /\ ui[n] = "broadcast" => state[n] = "CONNECTED"` |
| A JOIN waits in new_peers, and another connection of the same address is accepted over it (`Network.cpp`:47): nobody answers it | `one_host`, `Node <- Quartet` | `NoForgottenJoin` |
| A node quits with data unread; the reset is only reported (`Network.cpp`:281), and it stays in the views | `token_lost` | `Quiet => \A n \in Node : Running(n) => Ids(peers[n]) \subseteq Members` |
| READY comes before a JOIN Acknowledgement (`Network.cpp`:199), whose reader does not compute its neighbours again | `serial`, `Timely = FALSE` | `NeighboursFresh` |
| Two DATA messages are read at once (`Peer.cpp`:56), and the second is lost | `delivery_aligned`, two nodes, two messages from `a`, `Prompt = FALSE` | `DataReachesMembers` (which holds there with `Prompt = TRUE`) |

**Bounds.** `Node` has at most five (ring) or four (system) members. Four are
enough for a joining node, its entry point, a neighbour and a member that is
no neighbour in one ring, for two requests in the join queue, and for two
groups with a member beyond each founder. `JoinTo` limits who joins through
whom, one join command per node. `MaxGroups` is how many groups a node may
found, `MaxData` how many messages it broadcasts, `Leaver` who may quit, `Talker`
who sends text (one line in flight at a time), `Kind` how many Peers a node may
be added as. With `Prompt` TRUE each message is read before the next arrives:
the runs about agreement and `delivery_aligned` assume it, since no message is sent twice
and one that is lost in a read is lost for good; `quits` and `split`, and all
proofs but those of `Agreement_proof`, do without. In `history`, three messages in two milliseconds (`MaxSent`,
`MaxTime`) give each pattern of equal and different stamps, and four nodes on
two rings three different ways from the author to a node. `RINGS_NB` is 5 in the code; one ring is
the weakest case for delivery and the strongest for joins of non-neighbours.
The runs with `Timely` FALSE let the timers expire at any moment. Those with
`Timely` TRUE assume what the constants are for (comments of `Config.hpp`:76-82
and `Network.hpp`:241-247): READY_TIME lets all members
acknowledge, JOIN_COMPLETE_TIME lets the READY Notifications arrive.

**Stamps.** `src/README.md`:75 promises that every peer receives a message. The
code keeps less than that: of two messages that an author broadcasts in one
millisecond, the second has a stamp that is logged already, and everyone drops
it (`find_log`, `Network.cpp`:294), which is the finding of `one_stamp`. `InOrder`
does not ask for this: it says that what a node logs of an author is in the order
of the broadcast, none of it twice, and that nothing is logged before everything
of an earlier millisecond is there, by its stamp; a program with unique stamps
satisfies it as well. `Reached` is about stamps for the same reason: it is what
is left of the promise, with `EveryMessageReached` the promise itself.

**Fairness.** `JoinCompletes` and `Reached` need it. `FairSpec` assumes weak fairness
of the command that the main thread has begun, and of each Peer's pending
events at each process: `io_service::run` calls the handler of whatever is
ready, and a timer that is set expires. No user command is assumed to be given.
Deadlock is not checked: the system comes to rest when the users are done.

## 4. Proofs

All theorems hold for any set of nodes, order of digests and bounds, and, but
for those of `SingleEntry_proof` and `Agreement_proof`, for any entry points,
addresses and delays,
from `RingAssumption`, `KindAssumption`, `NetworkAssumption` and
`HistoryAssumption` only. (Of several nodes with one address the model leaves one
case out, that of a JOIN Notification whose port belongs to another live node
than the one announced: see section 5. "Any addresses" is to be read with this
exception.) What these say of the program is that IDs are distinct
and digests injective; TLC evaluates them in every run.

* `SingleRing_proof`: `RingInverse`, `RingIsOneCycle`, `RingOnlyNeighboursMove`. Least and greatest digests exist by well-founded
  induction on the naturals (`Ring_proof`), and keys of distinct Peers in a peer
  map differ, which is why `Inverse` needs that a ring is a peer map
  (`RingIsPeerMap`). `OneCycle`
  says that no part of the ring is closed under get_successor, which needs no
  iterated function: of a part that is closed, the Peer of greatest digest has a
  successor in the part only if it is the last of the ring, then the first of the
  ring is in the part, and the least Peer missing from it has a predecessor there
  (`ClosedIsWhole`).
* `Network_proof`: `TypeCorrect` and `LocalGroupIsSound`. `TypeOK` is not
  inductive: a message carries the ID of `local_group`, which is null at times.
  The invariant `IInv` adds that the local group is one of the groups and has a
  marker, and that a node without one has no peers, groups or waiting requests
  and is not CONNECTED (`LocalGroupKept`), and that logs are finite so that
  sent messages can be counted. One lemma per handler, and per shared part of
  handlers (`AcknowledgeJoinType`, `CheckForNewPeersType`).
* `Bookkeeping_proof`: `NeighboursAreInRings` and `EveryRingIsACycle`. For `NeighboursInRings` the obstacle is handle_disconnect,
  which erases a Peer from the rings of the local group without computing the
  neighbours again if it was no member. The invariant `RingsInv` adds that the
  rings of the local group hold members and the node itself only, so that such
  a Peer was no neighbour. `EveryRingIsACycle` carries what `SingleRing_proof` shows
  of one ring over to all the rings of the system: by `MapsInv` no handler leaves
  two Peers of one node in `peers` or in a group, although it has several at hand,
  one per connection. `Ring` assumes that of its arguments.
* `Bookkeeping_proof` also holds `BroadcastIsImplemented`, the refinement: initial states map
  to initial states, and every action to a `Send`, a `Record` or a stutter. What
  the step needs is that a data message in the logs, in a connection or in
  `outgoing` has the number of one its author has sent, and that no sent
  message has a number above their count, which is the abstract `sent`: the next
  number is new. A node that crashes or quits between sending and logging keeps
  `outgoing`: its message counts as sent.
* `History_proof`: `LogsAgree`, `CountsAccountFor` and `QuietIsCleared`. For
  `InOrder`, the inductive invariant `HInv`
  says, beside the types, that what is in a link is in order with respect to what
  its reader has logged (`LinksInOrder`): a message that would be logged comes
  after all the earlier ones of its author, which are logged or ahead of it in
  the link. It holds since every node relays in the order in which it logs
  (`LogsInOrder`), what a node has logged is logged by or on its way to each
  successor (`PassedOn`), and an author, who may read its own message
  before it has logged it, knows all the earlier ones (`OwnKnown`).
  For `Accounted` a second invariant counts: the copies of a stamp that are in
  the link from p to n, together with those that n has counted for p
  (ack_message), are none before p has sent it, at least one afterwards, and one
  where p relays, because whoever is not the author sends under a stamp only when
  it logs it, which find_log lets happen once. `PredecessorsCleared` follows
  where the links are empty.
* `Connections_proof`: `GhostsHaveReset`, `ReadyIsLast` and `AddressesReadable`,
  from one invariant, `CInv`, about the two ends of each connection and what is
  on its way between them. Its parts:
  - a node is announced by one JOIN Notification only (`AnnouncedOnce`), and as
    long as its JOIN is not sent, not read or not answered, by none
    (`BeforeJoin`, `JoinerAt`). This is why the connections made for it are new:
    the join command is given once, to one entry point;
  - until a node has heard of another, their connection is fresh: nothing has been
    written or reset on the answering side, and nothing but failures is on its
    way to the asking side (`FreshAt`);
  - the answering side writes the JOIN Acknowledgement first (`AckAt`,
    `AnsweredAt`), the asking side writes nothing but its JOIN until it has read
    it, and a JOIN comes first (`JoinFirst`). Hence whatever else is read
    comes from a Peer that is known, and a first message is read from a socket
    on which nothing has been written that could have been reset;
  - a node writes to Peers it knows only (`WrittenAt`), a socket fails or is
    reset only where the other end is gone (`FailedAt`), who waits in `new_peers`
    is under its own address and is read, reset, or the Peer of a node that is
    gone (`NewPeerAt`), and a Peer of the view is read or reset (`ViewAt`).

  Most handlers neither connect nor answer: they leave the ends as they are and
  only consume, lose or append messages of members (`PlainStep`), and one lemma
  covers them all (`PlainKeeps`). The others have one each: the exit of a
  process, the join command's two steps, Accept, JOIN, JOIN Notification, JOIN
  Acknowledgement and check_for_new_peers; the four that answer a node share
  `AnswersKeep`. `CInv` was an invariant of the runs `quits` and `split` before
  it was proved.
* `SingleEntry_proof`: what holds where every join command names the same node h
  (`EntryPoint(h)`): the way to start a group with the options of
  `src/README.md`:45-52, one node that waits idly and is the `entry_point` of the
  others. It is a hypothesis on how the program is used; the code does not enforce it.
  - `GroupIsKept` needs no more than that, and holds with quits and crashes.
    `EntryKept(h)` says that h joins nobody and is CONNECTED when it has a group.
    Only h reads a JOIN (`JoinsAtEntry`), so nobody else founds a group, and h reads
    no JOIN Acknowledgement (`NoAckAtEntry`).
  - `ViewIsTheGroup` and `NobodyHangs` need no more either, and hold with quits,
    crashes, equal addresses and messages read together. The invariant `Rooted(h)`
    has three parts. A node has no group but its local one, which is h's own or the
    one it was announced to (`Placed`). A JOIN Acknowledgement carries the group its
    reader was announced to (`AcksAnnounced`); by `CInv` a node is announced once
    (`OneAnnouncement`), so that a second acknowledgement is of the same group.
    And peers and the members of the local group are the same nodes (`Matched`):
    the handlers that change one change the other. Whoever handle_disconnect
    erases from peers is therefore a member of the only group its loop visits, and
    the loop ends (`NeverLoops`).
  - `OnlyDeparturesKill`, `NobodyDies` and `GroupIsOne` need distinct addresses
    too. The invariant `Peace(h)` describes the system until somebody quits: every process runs; all groups, markers and messages are
    of h's group (`Grouped`, `Sends`); a node without a group knows nobody and
    does not broadcast (`Belongs`); no entry of `new_peers` has a null Peer,
    because whoever is about to send a JOIN to h has one (`NoNullEntry`,
    `JoinersWait`); peers and the group's members are the same nodes (`Matched`).
    Together with `CInv`, by which a socket fails only where the other end is
    gone, no action that crashes, hangs or throws can be taken (`NothingCrashes`).
  - `NeighboursAreFresh` needs `Timely` as well. The one handler that changes the
    rings of a node without update_neighbours is that of the JOIN
    Acknowledgement, so one must never be read once the node is CONNECTED. The
    invariant `Settled(h)` says that a node which is CONNECTED, or to which READY
    is on its way (`ReadyMet`), has all its acknowledgements behind it: none is
    left in its connections, and no JOIN Notification that would provoke one is
    left in anybody's (`Arrived`, `ReadyIsLate`). The announcement of a node is new
    when it is made (`Unheard`, from `CInv`), is passed on only while it is still
    around, and READY is sent only when it is over. That the READY of one node is
    not that of another takes `ReadyAwaited`, `ReadyAtEntry` and `MembersHeard`;
    `TokenAtFirst` says that h, when it founds its group, answers at once.

  - `JoinsAreNotForgotten` needs distinct addresses and no more, and holds with
    quits, crashes, short delays and messages read together. That nobody *in*
    `new_peers` waits while the token is free (`QueueServed`) is inductive with
    `IInv`: whoever sets a Peer to JOINING holds the token, check_for_new_peers
    frees it only when it has found nobody, and no other step makes a Peer there
    wait (`NobodyStartsToWait`). It says nothing of a Peer that is not there any
    more, because its entry has been overwritten; that happens with equal addresses. So two more parts
    are needed: whom h has accepted is in the view or in `new_peers` under its
    address (`Queued(h)`), and nobody but h accepts a joiner, h nobody else
    (`AtEntry(h)`, which needs that all announcements are h's own).

  None of the hypotheses can be dropped. Where a node that is joining is an entry
  point itself, `two_groups` violates `GroupKept` and `hang` violates `NoHang`, and
  even with distinct addresses and nobody quitting a node may be told of a group
  whose marker it has not mapped, which `HandleMisrouted` dereferences; with equal
  addresses `one_host` violates `NoCrash`, and a fourth node `NoForgottenJoin`; with a READY that is too early, the
  handler of a late JOIN Acknowledgement leaves stale neighbours (section 3, "Also in the model"). `Rooted`, `Peace`
  and `Settled` were invariants of instances of 3 and 4 nodes before they were
  proved.
* `Agreement_proof`: `ViewsAgreeAtRest`, `NeighboursAgreeAtRest` and
  `TokenIsReleased`, the agreement of a group of any size when nothing is under
  way (`Quiet`), until somebody quits. The hypotheses are those of
  `NeighboursAreFresh` and `Prompt`. The invariant is `Course(h)` with `Awaits`;
  it describes the system in the middle of a join, of which there is one at a
  time.
  - `Entrance(h)` says who knows whom: every announcement is the entry point's, with
    the port of the node it names (`NoticesLogged`, `PortsKnown`); the role of a
    connection tells on which side of which join it was made (`KnownAs`); the
    rings of a node hold its view (`RingAt`).
  - `Orderly(h)` says how far the join is. The token of h is held for one node x at
    most (`OneAtATime`), which is first announced to the group, then sent READY,
    then CONNECTED (`Stages`). While the announcement goes round, each member that
    has read it has told its successors, in the rings without x (`GoesRound`). A
    member's view is the nodes announced, less x where it has not read of x
    (`MemberSees`); x knows who acknowledges it, or the acknowledgement is on its
    way (`NewcomerSees`). h waits for a timer or for x's READY Notification, of
    which there is one, on the connection x made (`Waits`).
  - The step that matters is READY. It is sent when no announcement is left in a
    connection (`Timely`); all who have read one have successors that have, so
    the readers are closed under get_successor, and a ring has no closed part but
    all of it (`ClosedIdsAreWhole`, which is `OneCycle` for peer maps as rings):
    `AllHaveHeard`. Hence the newcomer knows everybody when it enters the rings
    (`NewcomerKnows`).
  - That h's token comes back where x is a neighbour, and is freed by a timer
    where it is not, needs x and h to agree on being neighbours. Their rings hold
    the same nodes then, as different Peers; get_successor depends on nothing but
    the nodes (`NeighboursOfIds`), and is inverse to get_predecessor
    (`SuccessorIsMutual`, `FreshNear`).
  - `Awaits` says for each member, not h only, that a Peer which is not CONNECTED
    yet has a timer, or is a neighbour that is not CONNECTED itself, or its READY
    Notification is there to be read; and that the token is taken only for such a
    Peer. At rest none of these is left, so that all are CONNECTED and all tokens
    back.

  Steps that let nobody in are `Aside`, and one lemma covers them
  (`AsideOrderly`). Those of a join have one lemma each (`JoinCourse`,
  `NotifCourse`, `AckCourse`, `SendReadyCourse`, `ReadyCourse`, `CheckersCourse`
  for the two that call check_for_new_peers), of which the parts that keep the
  join going share `MovesOrderly`; the token's return and the start of the next
  join are `ClosesOrderly` and `OpensOrderly`. Without `Prompt` an announcement
  that is read together with the message before it is gone, and its reader's
  successors may never hear of x. The parts of `Course` and `Awaits` were
  invariants of instances of 3 and 4 nodes, with one ring and two, before they were
  proved.

**Only model-checked.** Liveness (`JoinCompletes`, `Reached`), which is out of
the prover's reach: the three theorems of `Agreement_proof` say what holds when the
system comes to rest, not that it does. `DataReachesMembers` depends on the
digests: `delivery_aligned` shows a ring in which a message is lost at a node that
is not ready, and no condition that the code keeps excludes it. In a group that
nobody enters or leaves, `history` checks that a message gets round (`Reached`). Where there are two entry points `NoHang` fails, as
the run `hang` shows. The theorems of `SingleEntry_proof` and `Agreement_proof` say
nothing of what follows a quit, except `GroupIsKept`, `ViewIsTheGroup`,
`NobodyHangs` and `JoinsAreNotForgotten`.

## 5. Not modelled, and simplified

* The bytes of a message. A read that returns part of one (`Peer.cpp`:56) is left
  out: what parse_message makes of the pieces depends on the bytes, and on
  substrings out of range. A message followed by others is read as the message:
  the fields have fixed lengths or end at a character that is no digit; the text
  of a DATA message would be displayed with the bytes of the next.
* A write is complete when send returns, as it is while the socket has room.
  Short writes, and the lifetime of the write buffer (`Peer.cpp`:67), which is
  gone by the time a delayed write reads it, are undefined behaviour of the
  library call and have no model here.
* Data races inside a map operation. The races between a command's steps and
  handlers are modelled, with these steps: of join, the look at the state and
  connect_peer (`Network.cpp`:62), set_state (63), add_new_peer with send (65-69);
  of broadcast, the look at the state, the sending, the logging. Within one of
  them, no handler runs.
* A second join command in the life of a process, which is possible once the
  state is NEW again (`Network.cpp`:265-269): `UIJoinConnect` is taken once per
  node.
* In `Network`, a message is identified by its contents. Equal stamps within one
  millisecond are the subject of `History`, for data; in `Network` they appear
  only as one READY Notification per direct neighbour in `HandleReady`.
* Two nodes with one ID (`Utils.cpp`:53, a seed of one-second resolution): every
  map of the program is keyed by the ID, and so is the model.
* `rings`, `logs` and `help`, which change nothing; display; the parsing of
  options.
* The `CHANNEL` flag of JOIN Notifications: no code sets it.
* A JOIN Notification whose port, at an address several nodes share, belongs to
  another live node than its entry point meant: the message stays unread in the
  model. With an entry re-created for another
  Peer the port is that of its own JOIN or 0.
* A process whose io_service thread hangs: its main thread is stopped too.
* The join at launch (`Main.cpp`:56), which does not look at the state: the
  join command whose look is immediately followed by other handlers covers it.

## 6. Plan

Done: `Ring`, `Group`, `SingleRing`, `Network`, `Broadcast`, `Delivery`,
`History`, and the theorems above. What is left is to prove under which orders of
the digests `DataReachesMembers` holds.
