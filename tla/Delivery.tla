------------------------------ MODULE Delivery ------------------------------
(***************************************************************************)
(* What broadcasting promises (README.md of the repository: every peer     *)
(* will receive your message).  A history variable records, when a node    *)
(* broadcasts, which nodes are members of its group: they are owed the     *)
(* message.                                                                *)
(***************************************************************************)
EXTENDS Network

VARIABLE owed    \* pairs of a node and a data message

MembersOf(g) == {m \in Members : localGroup[m] = g}

Owe(n) ==
    owed' = owed \cup MembersOf(localGroup[n]) \X (SentData(n)' \ SentData(n))

DeliveryInit == Init /\ owed = {}

DeliveryNext ==
    \/ \E n \in Node : UIBroadcast(n) /\ Owe(n)
    \/ Next /\ (\A n \in Node : SentData(n)' = SentData(n)) /\ UNCHANGED owed

DeliverySpec == DeliveryInit /\ [][DeliveryNext]_<<vars, owed>>

\* Once nothing is under way, whoever was a member when a message was broadcast
\* has it in its logs.
DataReachesMembers ==
    Quiet => \A o \in owed : Running(o[1]) => o[2] \in logs[o[1]]
=============================================================================
