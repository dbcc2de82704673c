------------------------------- MODULE History ------------------------------
(***************************************************************************)
(* The logs of a group that nobody enters or leaves (MessageLog, log_-     *)
(* message and ack_message of Network): which data messages a node has     *)
(* logged, in the order of reception, and how often each peer has sent it  *)
(* each of them.                                                           *)
(*                                                                         *)
(* The key of a log is the stamp, a digest of the author, the millisecond  *)
(* and the type: messages that their author broadcasts in one millisecond  *)
(* have the same one.  The rings are those of module Group.  Every message *)
(* is read on its own.                                                     *)
(***************************************************************************)
EXTENDS Group, Sequences, Functions

CONSTANTS
    MaxSent,    \* bound: how many messages each node broadcasts
    MaxTime     \* bound: the last millisecond of the clocks

ASSUME HistoryAssumption ==
    /\ MaxSent \in [Node -> Nat]
    /\ MaxTime \in Nat

VARIABLES
    sent,       \* sent[n]: the times of the messages n has broadcast
    outgoing,   \* what the broadcast command has sent and not logged yet
    logs,       \* t_logs: the messages logged, in the order of reception
    control,    \* control[n][s][p]: how often p sent n what is logged under s
    link        \* link[p][n]: what p has sent to n and n has not read

vars == <<sent, outgoing, logs, control, link>>

Time == 1 .. MaxTime
Stamp == Node \X Time
DataMessage == [from : Node, time : Time, seq : Nat \ {0}]

StampOf(m) == <<m.from, m.time>>

\* Everybody is in the rings; to whom each node relays, and who relays to it
Everyone == [NewGroup EXCEPT !.ring = {Local(n) : n \in Node}]
Succs == [n \in Node |-> Ids(UpdateNeighbours(Everyone, n).succs)]
Preds == [n \in Node |-> Ids(UpdateNeighbours(Everyone, n).preds)]

\* find_log
Logged(n, m) == \E l \in Range(logs[n]) : StampOf(l) = StampOf(m)

\* Faulty: the author is left out, having the message already.
Relay_NotBack(box, n, m) ==
    [p \in Node |-> [q \in Node |->
        IF p = n /\ q \in Succs[n] \ {m.from}
        THEN Append(box[p][q], m) ELSE box[p][q]]]

\* Network::broadcast: n sends m to each of its successors.
Relay(box, n, m) ==
    [p \in Node |-> [q \in Node |->
        IF p = n /\ q \in Succs[n] THEN Append(box[p][q], m) ELSE box[p][q]]]

\* Faulty: the one who sent it first is not acknowledged.
Ack_Duplicates(n, p, m) ==
    control' = IF Logged(n, m)
               THEN [control EXCEPT ![n][StampOf(m)][p] = @ + 1] ELSE control

\* ack_message
Ack(n, p, m) == control' = [control EXCEPT ![n][StampOf(m)][p] = @ + 1]

-----------------------------------------------------------------------------
Init ==
    /\ sent = [n \in Node |-> <<>>]
    /\ outgoing = [n \in Node |-> {}]
    /\ logs = [n \in Node |-> <<>>]
    /\ control = [n \in Node |-> [s \in Stamp |-> [p \in Node |-> 0]]]
    /\ link = [p \in Node |-> [n \in Node |-> <<>>]]

\* The main thread stamps a message with the time of its clock and sends it ...
BroadcastSend(n, t) ==
    /\ outgoing[n] = {} /\ Len(sent[n]) < MaxSent[n]
    /\ \A k \in DOMAIN sent[n] : sent[n][k] <= t
    /\ LET m == [from |-> n, time |-> t, seq |-> Len(sent[n]) + 1]
       IN  /\ outgoing' = [outgoing EXCEPT ![n] = {m}]
           /\ link' = Relay(link, n, m)
    /\ sent' = [sent EXCEPT ![n] = Append(@, t)]
    /\ UNCHANGED <<logs, control>>

\* Faulty: the author adds it to the logs whatever they hold.
BroadcastLog_Again(n) ==
    \E m \in outgoing[n] :
        /\ logs' = [logs EXCEPT ![n] = Append(@, m)]
        /\ outgoing' = [outgoing EXCEPT ![n] = {}]
        /\ UNCHANGED <<sent, control, link>>

\* ... and logs it, unless there is a log under its stamp by then: that of a
\* message of the same millisecond, or of this one, which has come back.
BroadcastLog(n) ==
    \E m \in outgoing[n] :
        /\ logs' = IF Logged(n, m) THEN logs
                   ELSE [logs EXCEPT ![n] = Append(@, m)]
        /\ outgoing' = [outgoing EXCEPT ![n] = {}]
        /\ UNCHANGED <<sent, control, link>>

\* n reads what p sent it.  Nothing but the acknowledgement is left to do for a
\* message whose stamp is in the logs ...
HandleLogged(n, p) ==
    /\ link[p][n] # <<>>
    /\ LET m == Head(link[p][n])
       IN  /\ Logged(n, m)
           /\ Ack(n, p, m)
    /\ link' = [link EXCEPT ![p][n] = Tail(@)]
    /\ UNCHANGED <<sent, outgoing, logs>>

\* Faulty: the message is looked up when it has been logged already.
HandleNew_LoggedFirst(n, p) ==
    /\ link[p][n] # <<>>
    /\ LET m == Head(link[p][n])
       IN  /\ ~Logged(n, m)
           /\ Ack(n, p, m)
           /\ logs' = [logs EXCEPT ![n] = Append(@, m)]
    /\ link' = [link EXCEPT ![p][n] = Tail(@)]
    /\ UNCHANGED <<sent, outgoing>>

\* ... any other is logged and relayed, be it n's own.
HandleNew(n, p) ==
    /\ link[p][n] # <<>>
    /\ LET m == Head(link[p][n])
       IN  /\ ~Logged(n, m)
           /\ Ack(n, p, m)
           /\ logs' = [logs EXCEPT ![n] = Append(@, m)]
           /\ link' = Relay([link EXCEPT ![p][n] = Tail(@)], n, m)
    /\ UNCHANGED <<sent, outgoing>>

Handle(n, p) == HandleLogged(n, p) \/ HandleNew(n, p)

Next ==
    \E n \in Node :
       \/ \E t \in Time : BroadcastSend(n, t)
       \/ BroadcastLog(n)
       \/ \E p \in Node : Handle(n, p)

Spec == Init /\ [][Next]_vars

\* The main thread ends the command it is in, io_service::run calls the handler
\* of whatever is ready.
FairSpec ==
    /\ Spec
    /\ \A n \in Node : /\ WF_vars(BroadcastLog(n))
                       /\ \A p \in Node : WF_vars(Handle(n, p))

-----------------------------------------------------------------------------
\* Whatever ways the messages take round the rings, each node logs those of an
\* author in the order in which it broadcast them, none of them twice, and none
\* before what the author broadcast in an earlier millisecond.  Which messages of
\* one millisecond it logs is left open (find_log, log_message, broadcast).
InOrder ==
    \A n \in Node : \A i \in DOMAIN logs[n] :
        LET m == logs[n][i]
        IN  /\ \A j \in 1 .. i - 1 : logs[n][j].from = m.from => logs[n][j].seq < m.seq
            /\ \A k \in 1 .. m.seq - 1 : sent[m.from][k] < m.time =>
                  \E j \in 1 .. i - 1 : StampOf(logs[n][j]) = <<m.from, sent[m.from][k]>>

\* How many messages of seq have the stamp s
Copies(seq, s) == Cardinality({i \in DOMAIN seq : StampOf(seq[i]) = s})

\* p has broadcast a message under s, or logged one to relay it.
HasSent(p, s) ==
    \/ p = s[1] /\ s[2] \in Range(sent[p])
    \/ \E l \in Range(logs[p]) : StampOf(l) = s

\* The control counts tell who has done its job (ack_message): a count and the
\* copies still under way come from successors of those who have a message to
\* send, at least one each, and from a node that relays for others just one.
Accounted ==
    \A n, p \in Node : \A s \in Stamp :
        LET copies == control[n][s][p] + Copies(link[p][n], s)
        IN  /\ copies > 0 <=> n \in Succs[p] /\ HasSent(p, s)
            /\ p # s[1] => copies <= 1

Quiet ==
    \A n \in Node : outgoing[n] = {} /\ \A p \in Node : link[p][n] = <<>>

\* Once nothing is under way, each node has heard of every message in its logs
\* from all of its predecessors and from nobody else, and so has its author
\* (README.md: lets each node check whether its predecessors did their job).
PredecessorsCleared ==
    Quiet => \A n \in Node : \A m \in Range(logs[n]) :
        {p \in Node : control[n][StampOf(m)][p] > 0} = Preds[n]

\* Every peer receives a message under each stamp that is broadcast.
Reached ==
    \A s \in Stamp :
        HasSent(s[1], s) ~>
            \A n \in Node : \E l \in Range(logs[n]) : StampOf(l) = s

\* "Every peer will receive your message" (README.md), of whatever millisecond:
\* the stamps are to be unique (Message.hpp, make_stamp).
EveryMessageReached ==
    Quiet => \A p \in Node : \A k \in DOMAIN sent[p] : \A n \in Node :
                \E l \in Range(logs[n]) : l.from = p /\ l.seq = k
=============================================================================
