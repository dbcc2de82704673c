----------------------------- MODULE Broadcast ------------------------------
(***************************************************************************)
(* What the broadcast of data promises, whoever relays to whom: a node     *)
(* records only what its author has broadcast before, each message once    *)
(* (BCastMessage.cpp, Network::broadcast and Network::log_message).  The   *)
(* author records its own like the others, soon or late.  The k-th message *)
(* of node n is <<n, k>>.                                                  *)
(***************************************************************************)
EXTENDS Naturals

CONSTANT Node

VARIABLES
    sent,   \* how many messages each node has broadcast
    got     \* the messages each node has recorded

vars == <<sent, got>>

Init ==
    /\ sent = [n \in Node |-> 0]
    /\ got = [n \in Node |-> {}]

Send(n) ==
    /\ sent' = [sent EXCEPT ![n] = @ + 1]
    /\ UNCHANGED got

Record(n, m, k) ==
    /\ k \in 1 .. sent[m]
    /\ <<m, k>> \notin got[n]
    /\ got' = [got EXCEPT ![n] = @ \cup {<<m, k>>}]
    /\ UNCHANGED sent

Next ==
    \E n \in Node :
       \/ Send(n)
       \/ \E m \in Node : \E k \in 1 .. sent[m] : Record(n, m, k)

Spec == Init /\ [][Next]_vars
=============================================================================
