-------------------------- MODULE Connections_proof -------------------------
(***************************************************************************)
(* The connections between nodes, from the call to the failure of the      *)
(* socket: what may wait at either end, and who may be known there.        *)
(*                                                                         *)
(* A connection is seen from the node n that answers the other one's       *)
(* request on it: p is n's Peer, of kind "joiner" or "called", q the Peer  *)
(* at the other end.  Node n logs the announcement of Id(p) when it        *)
(* answers, so that it answers once: before that, the connection is fresh. *)
(***************************************************************************)
EXTENDS Network_proof

Answering == {"joiner", "called"}
Asking == {"entry", "caller"}

\* The Peers node n may write to; the local Peer, which is in the rings, is
\* counted in from the start.
Touched(g) == g.members \cup g.ring \cup g.preds \cup g.succs

Written(n) ==
    {Local(n)} \cup peers[n] \cup readyTimers[n] \cup joinTimers[n]
        \cup UNION {Touched(groups[n][g]) : g \in GroupId}

\* What is behind the first message of a stream
Rest(s) == {s[i] : i \in 2 .. Len(s)}

AckFirst(s) == s # <<>> /\ Head(s).type = "JOIN_ACK"

Failure == {Eof, Rst}

Silent(s) == Range(s) \subseteq Failure

\* The announcements that wait or are logged somewhere
Notifs ==
    {e \in UNION {logs[n] \cup UNION {Range(inbox[n][p]) : p \in Peer} :
                     n \in Node} :
        e.type = "JOIN_NOTIF"}

Unheard(x) == \A e \in Notifs : e.peer # x

Heard(n, x) == \E e \in logs[n] : e.type = "JOIN_NOTIF" /\ e.peer = x

InNew(n, p) == \E k \in Addr : newPeers[n][k].peer = p

-----------------------------------------------------------------------------
(* The parts of the invariant                                              *)

\* A socket fails, or is reset, only where the other end is gone.
FailedAt(n, p) ==
    (Range(inbox[n][p]) \cap Failure # {} \/ p \in reset[n]) => ~Up(Id(p))

\* A connection is accepted once and read afterwards.
OpenAt(n, p) ==
    /\ p \in conns[n] =>
          /\ p[2] # "local"
          /\ p[2] = "entry" => Id(p) = entry[n] /\ Id(p) # n
    /\ p \in backlog[n] =>
          p[2] \in {"joiner", "caller"} /\ p \notin conns[n] /\ ~Known(n, p)

\* Nobody has heard of a node that has not sent its JOIN.
BeforeJoin(n, m) ==
    /\ Running(n) /\ (entry[n] = n \/ ui[n] \in {"join", "joining"}) =>
          /\ Unheard(n)
          /\ ~Known(m, <<n, "joiner">>)
          /\ inbox[m][<<n, "joiner">>] = <<>>
    /\ entry[n] = n => <<n, "joiner">> \notin conns[m]
    /\ Running(n) /\ ui[n] \in {"join", "joining"} =>
          <<entry[n], "entry">> \in conns[n] /\ entry[n] # n

\* A node is announced by one other node, once.
AnnouncedOnce == \A e, f \in Notifs : e.peer = f.peer => e = f

\* Whoever waits for an answer is not announced yet.
JoinerAt(n, x) ==
    LET q == <<x, "joiner">>
    IN  (q \in backlog[n] \/ InNew(n, q) \/ JoinMsg \in Range(inbox[n][q]))
        => Unheard(x) /\ entry[x] = n /\ n # x

\* A JOIN is the first message of its emitter.
JoinFirst(n, p) ==
    /\ JoinMsg \in Range(inbox[n][p]) => ~Known(n, p) /\ p[2] = "joiner"
    /\ JoinMsg \notin Rest(inbox[n][p])

\* Who is in new_peers
NewPeerAt(n, k) ==
    LET p == newPeers[n][k].peer
    IN  p # NoPeer =>
          /\ k = AddrOfPeer(p) /\ p[2] \in {"joiner", "entry", "caller"}
          /\ p[2] \in Asking => ~Known(n, p)
          /\ p \in conns[n] \cup reset[n] \/ ~Up(Id(p))

\* A connection on which n has not answered yet
FreshAt(n, p) ==
    LET r == Id(p)
        q == OtherEnd(n, p)
    IN  p[2] \in Answering /\ ~Heard(n, r) =>
          /\ p \notin Written(n) /\ p \notin reset[n]
          /\ ~Known(r, q) /\ q \notin Written(r) /\ Silent(inbox[r][q])
          /\ Up(n) => Rst \notin Range(inbox[n][p])
          /\ Range(inbox[n][p]) \subseteq Failure \cup {JoinMsg}
          /\ p[2] = "called" =>
                /\ p \notin conns[n] /\ ~Known(n, p)
                /\ q \notin backlog[r] \cup conns[r]

\* A node writes to Peers that have said who they are.
WrittenAt(n, p) == p \in Written(n) /\ p # Local(n) => Known(n, p)

\* The other end has had the acknowledgement, or will read it first.
Opened(r, q) == Known(r, q) \/ AckFirst(inbox[r][q])

AnsweredAt(n, p) ==
    LET r == Id(p)
        q == OtherEnd(n, p)
    IN  p[2] \in Answering =>
          /\ Opened(r, q) => Known(n, p)
          /\ ~Silent(inbox[r][q]) => Opened(r, q)
          /\ p \in Written(n) /\ Up(r) => Opened(r, q)
          /\ ~Known(r, q) => Range(inbox[n][p]) \subseteq Failure \cup {JoinMsg}
          /\ \A m \in Range(inbox[n][p]) : m.type # "JOIN_ACK"

\* An acknowledgement comes first, on a socket that works.
AckAt(n, p) ==
    LET r == Id(p)
        q == OtherEnd(n, p)
    IN  p[2] \in Answering =>
          \A m \in Range(inbox[r][q]) : m.type = "JOIN_ACK" =>
             /\ ~Known(r, q)
             /\ \A e \in Rest(inbox[r][q]) : e.type # "JOIN_ACK"
             /\ Up(r) => Rst \notin Range(inbox[r][q]) /\ q \notin reset[r]
             /\ Up(r) /\ Up(n) => inbox[n][p] = <<>>

\* A Peer of the view is read, or has been reset.
ViewAt(n, p) ==
    Running(n) /\ p \in peers[n] => p \in conns[n] \cup reset[n]

CInv ==
    /\ AnnouncedOnce
    /\ \A n \in Node, p \in Peer :
          /\ FailedAt(n, p) /\ OpenAt(n, p) /\ JoinFirst(n, p)
          /\ FreshAt(n, p) /\ WrittenAt(n, p) /\ AnsweredAt(n, p) /\ AckAt(n, p)
          /\ ViewAt(n, p)
    /\ \A n, m \in Node : BeforeJoin(n, m) /\ JoinerAt(n, m)
    /\ \A n \in Node, k \in Addr : NewPeerAt(n, k)

-----------------------------------------------------------------------------
(* Streams                                                                 *)

\* What an appended message changes of a stream
LEMMA AppendParts ==
    ASSUME NEW S, NEW s \in Seq(S), NEW m \in S
    PROVE  /\ Range(Append(s, m)) = Range(s) \cup {m}
           /\ Rest(Append(s, m)) \subseteq Rest(s) \cup {m}
           /\ s = <<>> => Rest(Append(s, m)) = {}
           /\ s # <<>> => AckFirst(Append(s, m)) = AckFirst(s)
           /\ s = <<>> => (AckFirst(Append(s, m)) <=> m.type = "JOIN_ACK")
<1> DEFINE t == Append(s, m)
<1>1. /\ t \in Seq(S) /\ Len(t) = Len(s) + 1 /\ t[Len(s) + 1] = m
      /\ \A i \in 1 .. Len(s) : t[i] = s[i]
      /\ Len(s) \in Nat
  OBVIOUS
<1>2. DOMAIN t = 1 .. Len(t) /\ DOMAIN s = 1 .. Len(s)
  BY <1>1
<1>3. Range(t) = Range(s) \cup {m}
  <2> HIDE DEF t
  <2>1. \A i \in 1 .. Len(t) : i \in 1 .. Len(s) \/ i = Len(s) + 1
    BY <1>1
  <2>2. Len(s) + 1 \in 1 .. Len(t) /\ \A i \in 1 .. Len(s) : i \in 1 .. Len(t)
    BY <1>1
  <2>3. QED
    BY <1>1, <1>2, <2>1, <2>2 DEF Range
<1>4. Rest(t) \subseteq Rest(s) \cup {m}
  <2> HIDE DEF t
  <2>1. \A i \in 2 .. Len(t) : (i \in 2 .. Len(s) /\ i \in 1 .. Len(s)) \/ i = Len(s) + 1
    BY <1>1
  <2>2. QED
    BY <1>1, <2>1 DEF Rest
<1>5. s = <<>> => Rest(t) = {} /\ Head(t) = m
  <2> HIDE DEF t
  <2>1. s = <<>> => Len(t) = 1 /\ t[1] = m
    BY <1>1
  <2>2. QED
    BY <1>1, <2>1 DEF Rest
<1>6. s # <<>> => Head(t) = Head(s) /\ Len(s) >= 1
  <2> HIDE DEF t
  <2>1. s # <<>> => Len(s) >= 1
    OBVIOUS
  <2>2. s # <<>> => t[1] = s[1]
    BY <1>1, <2>1
  <2>3. QED
    BY <1>1, <2>1, <2>2
<1> HIDE DEF t
<1>7. t # <<>>
  <2>1. Len(t) # 0 /\ Len(<<>>) = 0
    BY <1>1
  <2>2. QED
    BY <2>1
<1>8. QED
  BY <1>3, <1>4, <1>5, <1>6, <1>7 DEF AckFirst, t

\* What is left of a stream that is read
LEMMA TailParts ==
    ASSUME NEW S, NEW s \in Seq(S), s # <<>>
    PROVE  /\ Range(Tail(s)) = Rest(s)
           /\ Rest(Tail(s)) \subseteq Rest(s)
           /\ Range(s) = {Head(s)} \cup Rest(s)
<1> DEFINE t == Tail(s)
<1>1. /\ t \in Seq(S) /\ Len(t) = Len(s) - 1
      /\ \A i \in 1 .. Len(t) : t[i] = s[i + 1]
      /\ Len(s) \in Nat /\ Len(s) >= 1
  OBVIOUS
<1>2. DOMAIN t = 1 .. Len(t) /\ DOMAIN s = 1 .. Len(s) /\ Head(s) = s[1]
  BY <1>1
<1> HIDE DEF t
<1>3. Range(t) = Rest(s)
  <2>1. \A i \in 2 .. Len(s) : i - 1 \in 1 .. Len(t) /\ s[i] = t[i - 1]
    BY <1>1
  <2>2. \A i \in 1 .. Len(t) : i + 1 \in 2 .. Len(s)
    BY <1>1
  <2>3. Range(t) \subseteq Rest(s)
    BY <1>1, <1>2, <2>2 DEF Range, Rest
  <2>4. Rest(s) \subseteq Range(t)
    BY <1>2, <2>1 DEF Range, Rest
  <2>5. QED
    BY <2>3, <2>4
<1>4. Rest(t) \subseteq Range(t)
  <2>1. \A i \in 2 .. Len(t) : i \in 1 .. Len(t)
    BY <1>1
  <2>2. QED
    BY <1>2, <2>1 DEF Range, Rest
<1>5. Range(s) = {Head(s)} \cup Rest(s)
  <2>1. \A i \in 1 .. Len(s) : i = 1 \/ i \in 2 .. Len(s)
    BY <1>1
  <2>2. 1 \in 1 .. Len(s) /\ \A i \in 2 .. Len(s) : i \in 1 .. Len(s)
    BY <1>1
  <2>3. QED
    BY <1>2, <2>1, <2>2 DEF Range, Rest
<1>6. QED
  BY <1>3, <1>4, <1>5 DEF t

\* An empty stream
LEMMA EmptyParts ==
    ASSUME NEW S, NEW s \in Seq(S)
    PROVE  /\ s = <<>> <=> Range(s) = {}
           /\ s = <<>> => Rest(s) = {} /\ ~AckFirst(s)
           /\ Rest(s) \subseteq Range(s)
<1>1. s = <<>> => Len(s) = 0
  OBVIOUS
<1>2. s = <<>> => Range(s) = {} /\ Rest(s) = {}
  <2>1. s = <<>> => DOMAIN s = {}
    OBVIOUS
  <2>2. QED
    BY <1>1, <2>1 DEF Range, Rest
<1>3. s # <<>> => Head(s) \in Range(s) /\ Rest(s) \subseteq Range(s)
  BY TailParts
<1>4. QED
  BY <1>2, <1>3 DEF AckFirst

\* What is left where two messages are read at once
LEMMA JoinedParts ==
    ASSUME NEW S, NEW s \in Seq(S), Len(s) >= 2
    PROVE  LET t == JoinedWithNext(s)
           IN  /\ t # <<>> /\ Head(t) = Head(s)
               /\ Range(t) \subseteq Range(s) /\ Rest(t) \subseteq Rest(s)
<1> DEFINE mid == Tail(s)
           rest == Tail(mid)
           t == <<Head(s)>> \o rest
<1>0. mid \in Seq(S) /\ Len(mid) = Len(s) - 1 /\ Head(s) \in S /\ s # <<>>
  OBVIOUS
<1>1. /\ mid \in Seq(S) /\ mid # <<>> /\ rest \in Seq(S)
      /\ Head(s) \in S /\ s # <<>>
  <2> HIDE DEF mid
  <2>1. mid # <<>>
    BY <1>0
  <2>2. QED
    BY <1>0, <2>1
<1>2. Range(rest) \subseteq Rest(s)
  <2>1. Range(rest) = Rest(mid) /\ Rest(mid) \subseteq Rest(s)
    <3> HIDE DEF mid
    <3>1. Range(rest) = Rest(mid)
      BY <1>1, TailParts
    <3>2. Rest(mid) \subseteq Rest(s)
      BY <1>1, TailParts DEF mid
    <3>3. QED
      BY <3>1, <3>2
  <2>2. QED
    BY <2>1
<1> HIDE DEF mid, rest
<1>3. /\ t \in Seq(S) /\ Len(t) = Len(rest) + 1 /\ Len(rest) \in Nat
      /\ t # <<>> /\ t[1] = Head(s) /\ Head(t) = Head(s)
      /\ \A i \in 1 .. Len(rest) : t[i + 1] = rest[i]
  BY <1>1
<1> HIDE DEF t
<1>4. Rest(t) \subseteq Range(rest)
  <2>1. \A i \in 2 .. Len(t) : i - 1 \in 1 .. Len(rest) /\ t[i] = rest[i - 1]
    BY <1>3
  <2>2. DOMAIN rest = 1 .. Len(rest)
    BY <1>1
  <2>3. QED
    BY <2>1, <2>2 DEF Range, Rest
<1>5. Range(t) \subseteq Range(s)
  <2>1. Range(t) = {Head(t)} \cup Rest(t)
    BY <1>3, TailParts
  <2>2. Range(s) = {Head(s)} \cup Rest(s)
    BY <1>1, TailParts
  <2>3. QED
    BY <1>2, <1>3, <1>4, <2>1, <2>2
<1>6. QED
  BY <1>2, <1>3, <1>4, <1>5 DEF JoinedWithNext, t, rest, mid

\* Streams(s, t, M): t is what s becomes when it is read, or not, and messages
\* of M come behind; an acknowledgement is not read.
Streams(s, t, M) ==
    /\ Range(t) \subseteq Range(s) \cup M
    /\ Rest(t) \subseteq Rest(s) \cup M
    /\ AckFirst(s) => AckFirst(t)

\* What a node that is up may write to the other end of q at any time
LaterMsg ==
    {m \in Message : m \notin {JoinMsg, Eof, Rst} /\ m.type # "JOIN_ACK"}

Addressed(r, q) == OtherEnd(r, q) \in Written(Id(q)) /\ Up(r)

More(r, q) == IF Addressed(r, q) THEN LaterMsg ELSE {}

\* Everybody's streams move to box that way, and N is all that is announced.
Boxes(box, N) ==
    \A r \in Node, q \in Peer :
        /\ Streams(inbox[r][q], box[r][q], More(r, q))
        /\ \A e \in Range(box[r][q]) : e.type = "JOIN_NOTIF" => e \in Notifs \cup N

\* An announcement is logged or waits.
LEMMA NotifsAre ==
    /\ \A n \in Node : \A e \in logs[n] : e.type = "JOIN_NOTIF" => e \in Notifs
    /\ \A n \in Node, p \in Peer : \A e \in Range(inbox[n][p]) :
          e.type = "JOIN_NOTIF" => e \in Notifs
  BY DEF Notifs

\* Where nothing is read
LEMMA SameBoxes ==
    ASSUME NEW N
    PROVE  Boxes(inbox, N)
  BY NotifsAre DEF Boxes, Streams

\* Where a message is read that is not an acknowledgement
LEMMA ReadBoxes ==
    ASSUME TypeOK, NEW n \in Node, NEW p \in Peer, inbox[n][p] # <<>>,
           ~AckFirst(inbox[n][p]), NEW N
    PROVE  Boxes(Consume(n, p), N)
<1>1. inbox[n][p] \in Seq(Message)
  BY DEF TypeOK
<1>2. Range(Tail(inbox[n][p])) \subseteq Range(inbox[n][p])
  BY <1>1, TailParts, EmptyParts
<1>3. \A M : Streams(inbox[n][p], Tail(inbox[n][p]), M)
  BY <1>1, <1>2, TailParts DEF Streams
<1>4. \A r \in Node, q \in Peer :
         Consume(n, p)[r][q] = IF r = n /\ q = p THEN Tail(inbox[n][p])
                               ELSE inbox[r][q]
  BY DEF Consume, TypeOK
<1>5. \A r \in Node, q \in Peer : \A M : Streams(inbox[r][q], inbox[r][q], M)
  BY DEF Streams
<1>6. ASSUME NEW r \in Node, NEW q \in Peer
      PROVE  /\ Streams(inbox[r][q], Consume(n, p)[r][q], More(r, q))
             /\ Range(Consume(n, p)[r][q]) \subseteq Range(inbox[r][q])
  BY <1>2, <1>3, <1>4, <1>5
<1>7. QED
  BY <1>6, NotifsAre DEF Boxes

\* A message is sent to Peers the node may write to.
LEMMA SendBoxes ==
    ASSUME NEW n \in Node, NEW box \in Inboxes, NEW M, NEW m \in LaterMsg, NEW N,
           M \subseteq Written(n), Boxes(box, N),
           m.type = "JOIN_NOTIF" => m \in Notifs \cup N
    PROVE  Boxes(Deliver(box, n, M, m), N)
<1> SUFFICES ASSUME NEW r \in Node, NEW q \in Peer
             PROVE  /\ Streams(inbox[r][q], Deliver(box, n, M, m)[r][q], More(r, q))
                    /\ \A e \in Range(Deliver(box, n, M, m)[r][q]) :
                          e.type = "JOIN_NOTIF" => e \in Notifs \cup N
  BY DEF Boxes
<1> DEFINE s == box[r][q]
           t == Deliver(box, n, M, m)[r][q]
           d == Id(q) = n /\ OtherEnd(r, q) \in M /\ Up(r)
<1>1. t = IF d THEN Append(s, m) ELSE s
  BY DEF Deliver
<1>2. s \in Seq(Message) /\ m \in Message /\ m.type # "JOIN_ACK"
  BY DEF Inboxes, LaterMsg
<1>3. d => More(r, q) = LaterMsg
  BY DEF More, Addressed
<1>4. /\ Streams(inbox[r][q], s, More(r, q))
      /\ \A e \in Range(s) : e.type = "JOIN_NOTIF" => e \in Notifs \cup N
  BY DEF Boxes
<1> HIDE DEF s, t, d
<1>5. CASE d
  <2>1. /\ Range(t) = Range(s) \cup {m} /\ Rest(t) \subseteq Rest(s) \cup {m}
        /\ AckFirst(s) => AckFirst(t)
    BY <1>1, <1>2, <1>5, AppendParts, EmptyParts
  <2>2. QED
    BY <1>3, <1>4, <1>5, <2>1 DEF Streams, t
<1>6. CASE ~d
  BY <1>1, <1>4, <1>6 DEF t
<1>7. QED
  BY <1>5, <1>6

\* The messages
LEMMA Kinds ==
    /\ JoinMsg.type = "JOIN" /\ Eof.type = "EOF" /\ Rst.type = "RST"
    /\ \A p \in Peer : /\ Id(p) \in Node /\ p = <<Id(p), p[2]>>
                       /\ p[2] \in PeerKind
    /\ \A n \in Node, p \in Peer :
          /\ OtherEnd(n, p) \in Peer /\ Id(OtherEnd(n, p)) = n
          /\ OtherEnd(Id(p), OtherEnd(n, p)) = p
          /\ p[2] \in Answering <=> OtherEnd(n, p)[2] \in Asking
          /\ p[2] = "joiner" => OtherEnd(n, p) = <<n, "entry">>
          /\ p[2] = "called" => OtherEnd(n, p) = <<n, "caller">>
  BY DEF JoinMsg, Eof, Rst, Peer, PeerKind, Id, OtherEnd, OtherKind, Answering,
         Asking

\* The parts of the invariant that concern one connection or one node
LEMMA CInvAt ==
    ASSUME CInv, NEW n \in Node, NEW p \in Peer
    PROVE  /\ FailedAt(n, p) /\ OpenAt(n, p) /\ JoinFirst(n, p)
           /\ FreshAt(n, p) /\ WrittenAt(n, p) /\ AnsweredAt(n, p) /\ AckAt(n, p)
           /\ ViewAt(n, p)
  BY DEF CInv

-----------------------------------------------------------------------------
(* A connection on which nobody calls or acknowledges                      *)

\* The other end of p is q, a Peer of node r.
PairKept(n, p) ==
    LET r == Id(p)
        q == OtherEnd(n, p)
    IN  /\ Up(n)' <=> Up(n)
        /\ Up(r)' <=> Up(r)
        /\ Heard(n, r) => Heard(n, r)'
        /\ p \in Written(n)' => p \in Written(n)
        /\ q \in Written(r)' => q \in Written(r)
        /\ Known(n, p) => Known(n, p)'
        /\ Known(r, q) => Known(r, q)'
        /\ Known(n, p)' => Known(n, p) \/ JoinMsg \in Range(inbox[n][p])
        /\ Known(r, q)' => Known(r, q) \/ JoinMsg \in Range(inbox[r][q])
        /\ Streams(inbox[n][p], inbox'[n][p], More(n, p))
        /\ Streams(inbox[r][q], inbox'[r][q], More(r, q))
        /\ p \in reset'[n] => \/ p \in reset[n] \/ p \in Written(n)
                              \/ Up(n) /\ Rst \in Range(inbox[n][p])
        /\ q \in reset'[r] => \/ q \in reset[r] \/ q \in Written(r)
                              \/ Rst \in Range(inbox[r][q])
        /\ p[2] = "called" =>
              /\ p \in conns'[n] => p \in conns[n]
              /\ q \in conns'[r] => q \in conns[r]
              /\ q \in backlog'[r] => q \in backlog[r]

\* It stays fresh until the first answer.
LEMMA PairFresh ==
    ASSUME CInv, NEW n \in Node, NEW p \in Peer, PairKept(n, p)
    PROVE  FreshAt(n, p)'
<1> DEFINE r == Id(p)
           q == OtherEnd(n, p)
<1>1. /\ r \in Node /\ q \in Peer /\ Id(q) = n /\ OtherEnd(r, q) = p
      /\ p[2] \in Answering => q[2] \in Asking
  BY Kinds
<1>2. /\ FreshAt(n, p) /\ JoinFirst(r, q) /\ JoinFirst(n, p)
      /\ FailedAt(n, p)
  BY <1>1, CInvAt
<1>3. /\ Heard(n, r) => Heard(n, r)'
      /\ p[2] = "called" =>
            /\ p \in conns'[n] => p \in conns[n]
            /\ q \in conns'[r] => q \in conns[r]
            /\ q \in backlog'[r] => q \in backlog[r]
      /\ p \in Written(n)' => p \in Written(n)
      /\ q \in Written(r)' => q \in Written(r)
      /\ Up(n)' <=> Up(n)
  BY DEF PairKept
<1>5. /\ Known(r, q)' => Known(r, q) \/ JoinMsg \in Range(inbox[r][q])
      /\ Known(n, p)' => Known(n, p) \/ JoinMsg \in Range(inbox[n][p])
  BY DEF PairKept
<1>6. /\ Range(inbox'[n][p]) \subseteq Range(inbox[n][p]) \cup More(n, p)
      /\ Range(inbox'[r][q]) \subseteq Range(inbox[r][q]) \cup More(r, q)
  BY DEF PairKept, Streams
<1> HIDE DEF r, q
<1>7. /\ p \notin Written(n) => More(r, q) = {}
      /\ q \notin Written(r) => More(n, p) = {}
  BY <1>1 DEF More, Addressed, r, q
<1>8. p \in reset'[n] => \/ p \in reset[n] \/ p \in Written(n)
                         \/ Up(n) /\ Rst \in Range(inbox[n][p])
  BY DEF PairKept
<1>9. QED
  <2> SUFFICES ASSUME p[2] \in Answering, ~Heard(n, r)'
               PROVE  /\ p \notin Written(n)' /\ p \notin reset'[n]
                      /\ ~Known(r, q)' /\ q \notin Written(r)'
                      /\ Silent(inbox'[r][q])
                      /\ Up(n)' => Rst \notin Range(inbox'[n][p])
                      /\ Range(inbox'[n][p]) \subseteq Failure \cup {JoinMsg}
                      /\ p[2] = "called" =>
                            /\ p \notin conns'[n] /\ ~Known(n, p)'
                            /\ q \notin backlog'[r] \cup conns'[r]
    BY DEF FreshAt, r, q
  <2>1. /\ p \notin Written(n) /\ p \notin reset[n]
        /\ ~Known(r, q) /\ q \notin Written(r) /\ Silent(inbox[r][q])
        /\ Up(n) => Rst \notin Range(inbox[n][p])
        /\ Range(inbox[n][p]) \subseteq Failure \cup {JoinMsg}
        /\ p[2] = "called" =>
              /\ p \notin conns[n] /\ ~Known(n, p)
              /\ q \notin backlog[r] \cup conns[r]
    BY <1>2, <1>3 DEF FreshAt, r, q
  <2>2. /\ JoinMsg \in Range(inbox[r][q]) => q[2] = "joiner"
        /\ JoinMsg \in Range(inbox[n][p]) => p[2] = "joiner"
    BY <1>2 DEF JoinFirst
  <2>3. ~Known(r, q)' /\ (p[2] = "called" => ~Known(n, p)')
    BY <1>1, <1>5, <2>1, <2>2 DEF Asking
  <2>4. QED
    BY <1>3, <1>6, <1>7, <1>8, <2>1, <2>3 DEF Silent

\* What may be written to a Peer of another kind than "local" comes from the
\* other end, which knows the node.
LEMMA MoreKnown ==
    ASSUME CInv, NEW r \in Node, NEW q \in Peer, q[2] # "local"
    PROVE  ~Known(Id(q), OtherEnd(r, q)) => More(r, q) = {}
<1>1. OtherEnd(r, q) \in Peer /\ Id(q) \in Node /\ OtherEnd(r, q) # Local(Id(q))
  BY Kinds DEF OtherEnd, OtherKind, Local, Peer, PeerKind
<1>2. WrittenAt(Id(q), OtherEnd(r, q))
  BY <1>1, CInvAt
<1>3. QED
  BY <1>1, <1>2 DEF WrittenAt, More, Addressed

\* An acknowledgement stays the first message on it.
LEMMA PairAnswered ==
    ASSUME CInv, TypeOK, TypeOK', NEW n \in Node, NEW p \in Peer, PairKept(n, p)
    PROVE  AnsweredAt(n, p)' /\ AckAt(n, p)'
<1> DEFINE r == Id(p)
           q == OtherEnd(n, p)
<1>1. /\ r \in Node /\ q \in Peer /\ Id(q) = n /\ OtherEnd(r, q) = p
      /\ p[2] \in Answering => q[2] \in Asking /\ q[2] # "local" /\ p[2] # "local"
  BY Kinds DEF Answering, Asking
<1>2. /\ AnsweredAt(n, p) /\ AckAt(n, p) /\ JoinFirst(r, q) /\ JoinFirst(n, p)
      /\ FailedAt(r, q)
  BY <1>1, CInvAt
<1>3. p[2] \in Answering =>
         /\ ~Known(n, p) => More(r, q) = {}
         /\ ~Known(r, q) => More(n, p) = {}
  BY <1>1, MoreKnown DEF q, r
<1>4. /\ inbox[n][p] \in Seq(Message) /\ inbox'[n][p] \in Seq(Message)
      /\ inbox[r][q] \in Seq(Message) /\ inbox'[r][q] \in Seq(Message)
  BY <1>1 DEF TypeOK
<1>5. /\ p \in Written(n)' => p \in Written(n)
      /\ q \in Written(r)' => q \in Written(r)
      /\ Up(n)' <=> Up(n)
      /\ Up(r)' <=> Up(r)
  BY DEF PairKept
<1>6. /\ Known(r, q) => Known(r, q)'
      /\ Known(n, p) => Known(n, p)'
      /\ Known(r, q)' => Known(r, q) \/ JoinMsg \in Range(inbox[r][q])
  BY DEF PairKept
<1>7. /\ Range(inbox'[n][p]) \subseteq Range(inbox[n][p]) \cup More(n, p)
      /\ Range(inbox'[r][q]) \subseteq Range(inbox[r][q]) \cup More(r, q)
      /\ Rest(inbox'[r][q]) \subseteq Rest(inbox[r][q]) \cup More(r, q)
      /\ AckFirst(inbox[r][q]) => AckFirst(inbox'[r][q])
  BY DEF PairKept, Streams
<1>9. q \in reset'[r] => \/ q \in reset[r] \/ q \in Written(r)
                         \/ Rst \in Range(inbox[r][q])
  BY DEF PairKept
<1> HIDE DEF r, q
<1>8. /\ p \notin Written(n) \/ ~Up(r) => More(r, q) = {}
      /\ \A m \in More(n, p) \cup More(r, q) :
            m.type # "JOIN_ACK" /\ m \notin Failure
  BY <1>1 DEF More, Addressed, LaterMsg, Failure, q, r
<1>10. q \in Written(r) /\ q[2] # "local" => Known(r, q)
  BY <1>1, CInvAt DEF WrittenAt, Local
<1>11. SUFFICES ASSUME p[2] \in Answering
                PROVE  AnsweredAt(n, p)' /\ AckAt(n, p)'
  BY DEF AnsweredAt, AckAt
<1>12. /\ Opened(r, q) => Known(n, p)
       /\ ~Silent(inbox[r][q]) => Opened(r, q)
       /\ p \in Written(n) /\ Up(r) => Opened(r, q)
       /\ ~Known(r, q) => Range(inbox[n][p]) \subseteq Failure \cup {JoinMsg}
       /\ \A m \in Range(inbox[n][p]) : m.type # "JOIN_ACK"
  BY <1>2, <1>11 DEF AnsweredAt, r, q
<1>13. \A m \in Range(inbox[r][q]) : m.type = "JOIN_ACK" =>
          /\ ~Known(r, q)
          /\ \A e \in Rest(inbox[r][q]) : e.type # "JOIN_ACK"
          /\ Up(r) => Rst \notin Range(inbox[r][q]) /\ q \notin reset[r]
          /\ Up(r) /\ Up(n) => inbox[n][p] = <<>>
  BY <1>2, <1>11 DEF AckAt, r, q
<1>14. Known(r, q)' <=> Known(r, q)
  BY <1>1, <1>2, <1>6, <1>11 DEF JoinFirst, Asking
<1>15. AckFirst(inbox'[r][q]) => AckFirst(inbox[r][q]) \/ Known(r, q)
  <2> SUFFICES ASSUME AckFirst(inbox'[r][q]), ~Known(r, q)
               PROVE  AckFirst(inbox[r][q])
    OBVIOUS
  <2>1. PICK m \in Range(inbox'[r][q]) : m.type = "JOIN_ACK"
    BY <1>4, TailParts DEF AckFirst
  <2>2. m \in Range(inbox[r][q])
    BY <1>7, <1>8, <2>1
  <2>3. ~Silent(inbox[r][q])
    BY <2>1, <2>2, Kinds DEF Silent, Failure
  <2>4. QED
    BY <1>12, <2>3 DEF Opened
<1>16. Opened(r, q) => Opened(r, q)'
  BY <1>7, <1>14 DEF Opened
<1>17. Opened(r, q)' => Known(n, p)'
  BY <1>6, <1>12, <1>14, <1>15 DEF Opened
<1>18. ~Silent(inbox'[r][q]) => Opened(r, q)'
  BY <1>7, <1>8, <1>12, <1>16 DEF Silent
<1>19. p \in Written(n)' /\ Up(r)' => Opened(r, q)'
  BY <1>5, <1>12, <1>16
<1>20. ~Known(r, q)' => Range(inbox'[n][p]) \subseteq Failure \cup {JoinMsg}
  BY <1>3, <1>7, <1>11, <1>12, <1>14
<1>21. \A m \in Range(inbox'[n][p]) : m.type # "JOIN_ACK"
  BY <1>7, <1>8, <1>12
<1>22. ASSUME NEW m \in Range(inbox'[r][q]), m.type = "JOIN_ACK"
       PROVE  /\ ~Known(r, q)'
              /\ \A e \in Rest(inbox'[r][q]) : e.type # "JOIN_ACK"
              /\ Up(r)' => Rst \notin Range(inbox'[r][q]) /\ q \notin reset'[r]
              /\ Up(r)' /\ Up(n)' => inbox'[n][p] = <<>>
  <2>1. m \in Range(inbox[r][q])
    BY <1>7, <1>8, <1>22
  <2>2. /\ ~Known(r, q)
        /\ \A e \in Rest(inbox[r][q]) : e.type # "JOIN_ACK"
        /\ Up(r) => Rst \notin Range(inbox[r][q]) /\ q \notin reset[r]
        /\ Up(r) /\ Up(n) => inbox[n][p] = <<>>
    BY <1>13, <1>22, <2>1
  <2>3. Up(r)' => Rst \notin Range(inbox'[r][q])
    BY <1>5, <1>7, <1>8, <2>2 DEF Failure
  <2>4. Up(r)' => q \notin reset'[r]
    BY <1>1, <1>5, <1>9, <1>10, <1>11, <2>2
  <2>5. Up(r)' /\ Up(n)' => Range(inbox'[n][p]) = {}
    <3>1. Up(r)' /\ Up(n)' => Range(inbox[n][p]) = {}
      BY <1>4, <1>5, <2>2, EmptyParts
    <3>2. QED
      BY <1>3, <1>7, <1>11, <2>2, <3>1
  <2>6. QED
    BY <1>4, <1>7, <1>8, <1>14, <2>2, <2>3, <2>4, <2>5, EmptyParts
<1>23. QED
  BY <1>17, <1>18, <1>19, <1>20, <1>21, <1>22 DEF AnsweredAt, AckAt, r, q

-----------------------------------------------------------------------------
(* Steps that neither call, ask nor answer                                 *)

\* The commands and the connections that wait go on as they were.
ProcessesKept ==
    /\ UNCHANGED <<entry, backlog>>
    /\ \A n \in Node :
          /\ Up(n)' <=> Up(n)
          /\ Running(n)' => Running(n)
          /\ Running(n)' /\ ui'[n] \in {"join", "joining"} => ui[n] \in {"join", "joining"}

\* Who is known stays known; who asks is known once its JOIN is read.
KnownKept ==
    \A n \in Node, p \in Peer :
        /\ Known(n, p) => Known(n, p)'
        /\ Known(n, p)' /\ ~Known(n, p) =>
              /\ p \in conns[n] /\ JoinMsg \in Range(inbox[n][p])
              /\ JoinMsg \notin Range(inbox'[n][p])

\* No connection is made; one that ends is in nobody's view, or reset.
ConnectionsKept ==
    \A n \in Node, p \in Peer :
        /\ p \in conns'[n] => p \in conns[n]
        /\ p \in peers'[n] => p \in peers[n]
        /\ p \in Written(n)' => p \in Written(n)
        /\ p \in conns[n] /\ p \notin conns'[n] =>
              /\ p \in reset'[n] \/ (p \notin peers'[n] /\ ~Up(Id(p)))
              /\ Running(n)' /\ ui'[n] \in {"join", "joining"} => p # <<entry[n], "entry">>

\* A node finds a socket reset where it writes to it or reads it.
ResetsKept ==
    \A n \in Node, p \in Peer :
        /\ p \in reset[n] => p \in reset'[n]
        /\ p \in reset'[n] /\ p \notin reset[n] =>
              /\ Up(n)
              /\ \/ Rst \in Range(inbox[n][p])
                 \/ p \in Written(n) /\ ~Up(Id(p))

NewPeersKept ==
    \A n \in Node, k \in Addr :
        newPeers'[n][k].peer \in {newPeers[n][k].peer, NoPeer}

\* Nothing is announced that has not been.
LogsKept ==
    \A n \in Node :
        /\ logs[n] \subseteq logs'[n]
        /\ \A e \in logs'[n] : e.type = "JOIN_NOTIF" => e \in Notifs

StreamsKept == Boxes(inbox', {})

PlainStep ==
    /\ ProcessesKept /\ KnownKept /\ ConnectionsKept /\ ResetsKept
    /\ NewPeersKept /\ LogsKept /\ StreamsKept

LEMMA NewNotifs ==
    ASSUME NEW M,
           \A n \in Node : \A e \in logs'[n] :
              e.type = "JOIN_NOTIF" => e \in Notifs \cup M,
           \A n \in Node, p \in Peer : \A e \in Range(inbox'[n][p]) :
              e.type = "JOIN_NOTIF" => e \in Notifs \cup M
    PROVE  Notifs' \subseteq Notifs \cup M
<1> SUFFICES ASSUME NEW e \in Notifs'
             PROVE  e \in Notifs \cup M
  OBVIOUS
<1>1. PICK n \in Node : e \in logs'[n] \cup UNION {Range(inbox'[n][p]) : p \in Peer}
  BY DEF Notifs
<1>2. e.type = "JOIN_NOTIF"
  BY DEF Notifs
<1>3. QED
  BY <1>1, <1>2

\* A plain step announces nobody.
LEMMA PlainNotifs ==
    ASSUME PlainStep
    PROVE  /\ Notifs' \subseteq Notifs
           /\ \A x \in Node : Unheard(x) => Unheard(x)'
           /\ \A n, x \in Node : Heard(n, x) => Heard(n, x)'
<1>1. ASSUME NEW n \in Node, NEW p \in Peer, NEW e \in Range(inbox'[n][p]),
             e.type = "JOIN_NOTIF"
      PROVE  e \in Notifs
  BY <1>1 DEF PlainStep, StreamsKept, Boxes
<1>2. ASSUME NEW n \in Node, NEW e \in logs'[n], e.type = "JOIN_NOTIF"
      PROVE  e \in Notifs
  BY <1>2 DEF PlainStep, LogsKept
<1>3. Notifs' \subseteq Notifs \cup {}
  BY <1>1, <1>2, NewNotifs
<1>4. QED
  BY <1>3 DEF PlainStep, LogsKept, Unheard, Heard

\* A Peer that asks is not written to before it is known.
LEMMA PlainFailed ==
    ASSUME CInv, PlainStep, NEW n \in Node, NEW p \in Peer
    PROVE  FailedAt(n, p)'
<1>1. FailedAt(n, p) /\ Id(p) \in Node
  BY CInvAt, Kinds
<1>2. Range(inbox'[n][p]) \subseteq Range(inbox[n][p]) \cup LaterMsg
  BY DEF PlainStep, StreamsKept, Boxes, Streams, More
<1>3. LaterMsg \cap Failure = {}
  BY DEF LaterMsg, Failure
<1>4. p \in reset'[n] => p \in reset[n] \/ Rst \in Range(inbox[n][p]) \/ ~Up(Id(p))
  BY DEF PlainStep, ResetsKept
<1>5. Up(Id(p))' <=> Up(Id(p))
  BY <1>1 DEF PlainStep, ProcessesKept
<1>6. QED
  BY <1>1, <1>2, <1>3, <1>4, <1>5 DEF FailedAt, Failure

LEMMA PlainOpen ==
    ASSUME CInv, PlainStep, NEW n \in Node, NEW p \in Peer
    PROVE  OpenAt(n, p)'
<1>1. OpenAt(n, p)
  BY CInvAt
<1>2. /\ p \in conns'[n] => p \in conns[n]
      /\ entry' = entry /\ backlog' = backlog
      /\ Known(n, p)' => Known(n, p) \/ p \in conns[n]
  BY DEF PlainStep, ConnectionsKept, ProcessesKept, KnownKept
<1>3. QED
  BY <1>1, <1>2 DEF OpenAt

LEMMA PlainJoinFirst ==
    ASSUME CInv, PlainStep, NEW n \in Node, NEW p \in Peer
    PROVE  JoinFirst(n, p)'
<1>1. JoinFirst(n, p)
  BY CInvAt
<1>2. /\ JoinMsg \in Range(inbox'[n][p]) => JoinMsg \in Range(inbox[n][p])
      /\ JoinMsg \in Rest(inbox'[n][p]) => JoinMsg \in Rest(inbox[n][p])
  BY DEF PlainStep, StreamsKept, Boxes, Streams, More, LaterMsg
<1>3. Known(n, p)' => Known(n, p) \/ JoinMsg \notin Range(inbox'[n][p])
  BY DEF PlainStep, KnownKept
<1>4. QED
  BY <1>1, <1>2, <1>3 DEF JoinFirst

LEMMA PlainPair ==
    ASSUME CInv, TypeOK, TypeOK', PlainStep, NEW n \in Node, NEW p \in Peer
    PROVE  FreshAt(n, p)' /\ AnsweredAt(n, p)' /\ AckAt(n, p)'
<1> DEFINE r == Id(p)
           q == OtherEnd(n, p)
<1>1. r \in Node /\ q \in Peer
  BY Kinds
<1>2. /\ Up(n)' <=> Up(n)
      /\ Up(r)' <=> Up(r)
      /\ backlog' = backlog
  BY <1>1 DEF PlainStep, ProcessesKept
<1>3. Heard(n, r) => Heard(n, r)'
  BY <1>1, PlainNotifs
<1> HIDE DEF r, q
<1>4. /\ p \in Written(n)' => p \in Written(n)
      /\ q \in Written(r)' => q \in Written(r)
      /\ p \in conns'[n] => p \in conns[n]
      /\ q \in conns'[r] => q \in conns[r]
  BY <1>1 DEF PlainStep, ConnectionsKept
<1>5. /\ Known(n, p) => Known(n, p)'
      /\ Known(r, q) => Known(r, q)'
      /\ Known(n, p)' => Known(n, p) \/ JoinMsg \in Range(inbox[n][p])
      /\ Known(r, q)' => Known(r, q) \/ JoinMsg \in Range(inbox[r][q])
  BY <1>1 DEF PlainStep, KnownKept
<1>6. /\ Streams(inbox[n][p], inbox'[n][p], More(n, p))
      /\ Streams(inbox[r][q], inbox'[r][q], More(r, q))
  BY <1>1 DEF PlainStep, StreamsKept, Boxes
<1>7. /\ p \in reset'[n] => \/ p \in reset[n] \/ p \in Written(n)
                            \/ Up(n) /\ Rst \in Range(inbox[n][p])
      /\ q \in reset'[r] => \/ q \in reset[r] \/ q \in Written(r)
                            \/ Rst \in Range(inbox[r][q])
  BY <1>1 DEF PlainStep, ResetsKept
<1>8. PairKept(n, p)
  BY <1>2, <1>3, <1>4, <1>5, <1>6, <1>7 DEF PairKept, r, q
<1>9. QED
  BY <1>8, PairFresh, PairAnswered

LEMMA PlainWritten ==
    ASSUME CInv, PlainStep, NEW n \in Node, NEW p \in Peer
    PROVE  WrittenAt(n, p)'
<1>1. WrittenAt(n, p)
  BY CInvAt
<1>2. /\ p \in Written(n)' => p \in Written(n)
      /\ Known(n, p) => Known(n, p)'
  BY DEF PlainStep, ConnectionsKept, KnownKept
<1>3. QED
  BY <1>1, <1>2 DEF WrittenAt

LEMMA PlainView ==
    ASSUME CInv, PlainStep, NEW n \in Node, NEW p \in Peer
    PROVE  ViewAt(n, p)'
<1>1. ViewAt(n, p)
  BY CInvAt
<1>2. /\ Running(n)' => Running(n)
      /\ p \in peers'[n] => p \in peers[n]
      /\ p \in reset[n] => p \in reset'[n]
      /\ p \in conns[n] => p \in conns'[n] \/ p \in reset'[n] \/ p \notin peers'[n]
  BY DEF PlainStep, ProcessesKept, ConnectionsKept, ResetsKept
<1>3. QED
  BY <1>1, <1>2 DEF ViewAt

\* The parts of the invariant that concern two nodes, or an entry of new_peers
LEMMA CInvNodes ==
    ASSUME CInv, NEW n \in Node, NEW m \in Node
    PROVE  BeforeJoin(n, m) /\ JoinerAt(n, m)
  BY DEF CInv

LEMMA CInvNew ==
    ASSUME CInv, NEW n \in Node, NEW k \in Addr
    PROVE  NewPeerAt(n, k)
  BY DEF CInv

LEMMA JoinerPeers ==
    ASSUME NEW n \in Node, NEW x \in Node
    PROVE  /\ <<x, "joiner">> \in Peer /\ Id(<<x, "joiner">>) = x
           /\ <<x, "entry">> \in Peer /\ Id(<<x, "entry">>) = x
           /\ <<x, "joiner">>[2] = "joiner" /\ <<x, "entry">>[2] = "entry"
           /\ OtherEnd(n, <<x, "joiner">>) = <<n, "entry">>
           /\ OtherEnd(n, <<x, "entry">>) = <<n, "joiner">>
  BY DEF Peer, PeerKind, Id, OtherEnd, OtherKind

\* A node that has not asked to join yet is not known to its entry point.
LEMMA NotAsked ==
    ASSUME CInv, NEW n \in Node, NEW m \in Node,
           Running(n), entry[n] = n \/ ui[n] \in {"join", "joining"}
    PROVE  LET p == <<n, "joiner">>
               q == <<m, "entry">>
           IN  /\ Unheard(n) /\ ~Known(m, p) /\ inbox[m][p] = <<>>
               /\ ~Known(n, q) /\ ~AckFirst(inbox[n][q]) /\ Silent(inbox[n][q])
               /\ q \notin Written(n) /\ p \notin Written(m)
<1> DEFINE p == <<n, "joiner">>
           q == <<m, "entry">>
<1>1. /\ p \in Peer /\ q \in Peer /\ Id(p) = n /\ p[2] = "joiner"
      /\ OtherEnd(m, p) = q /\ q[2] = "entry"
  BY JoinerPeers
<1>2. /\ Unheard(n) /\ ~Known(m, p) /\ inbox[m][p] = <<>>
  BY CInvNodes DEF BeforeJoin
<1> HIDE DEF p, q
<1>3. AnsweredAt(m, p) /\ WrittenAt(n, q) /\ WrittenAt(m, p)
  BY <1>1, CInvAt
<1>4. ~Opened(n, q) /\ Silent(inbox[n][q])
  BY <1>1, <1>2, <1>3 DEF AnsweredAt, Answering
<1>5. q \notin Written(n) /\ p \notin Written(m)
  BY <1>1, <1>2, <1>3, <1>4 DEF WrittenAt, Opened, Local
<1>6. QED
  BY <1>2, <1>4, <1>5 DEF Opened, p, q

LEMMA PlainBeforeJoin ==
    ASSUME CInv, TypeOK, TypeOK', PlainStep, NEW n \in Node, NEW m \in Node
    PROVE  BeforeJoin(n, m)'
<1> DEFINE p == <<n, "joiner">>
           q == <<m, "entry">>
<1>1. /\ p \in Peer /\ q \in Peer /\ Id(p) = n /\ p[2] = "joiner"
      /\ OtherEnd(m, p) = q /\ q[2] = "entry"
  BY JoinerPeers
<1>2. BeforeJoin(n, m)
  BY CInvNodes
<1>3. /\ entry' = entry
      /\ Running(n)' => Running(n)
      /\ Running(n)' /\ ui'[n] \in {"join", "joining"} => ui[n] \in {"join", "joining"}
      /\ p \in conns'[m] => p \in conns[m]
  BY <1>1 DEF PlainStep, ProcessesKept, ConnectionsKept
<1>4. Unheard(n) => Unheard(n)'
  BY PlainNotifs
<1>5. ASSUME Running(n)', entry'[n] = n \/ ui'[n] \in {"join", "joining"}
      PROVE  Unheard(n)' /\ ~Known(m, p)' /\ inbox'[m][p] = <<>>
  <2>1. /\ Unheard(n) /\ ~Known(m, p) /\ inbox[m][p] = <<>>
        /\ ~Known(n, q) /\ q \notin Written(n)
    BY <1>3, <1>5, NotAsked
  <2> HIDE DEF p, q
  <2>2. /\ inbox[m][p] \in Seq(Message) /\ inbox'[m][p] \in Seq(Message)
    BY <1>1 DEF TypeOK
  <2>3. More(m, p) = {}
    BY <1>1, <2>1, MoreKnown
  <2>4. Range(inbox[m][p]) = {}
    BY <2>1, <2>2, EmptyParts
  <2>5. Range(inbox'[m][p]) \subseteq Range(inbox[m][p]) \cup More(m, p)
    BY <1>1 DEF PlainStep, StreamsKept, Boxes, Streams
  <2>6. Range(inbox'[m][p]) = {}
    BY <2>3, <2>4, <2>5
  <2>7. inbox'[m][p] = <<>>
    BY <2>2, <2>6, EmptyParts
  <2>8. ~Known(m, p)'
    BY <1>1, <2>1, <2>4 DEF PlainStep, KnownKept
  <2>9. QED
    BY <1>4, <2>1, <2>7, <2>8
<1>6. ASSUME Running(n)', ui'[n] \in {"join", "joining"}
      PROVE  <<entry'[n], "entry">> \in conns'[n] /\ entry'[n] # n
  <2>1. <<entry[n], "entry">> \in conns[n] /\ entry[n] # n
    BY <1>2, <1>3, <1>6 DEF BeforeJoin
  <2>2. <<entry[n], "entry">> \in Peer
    BY <2>1 DEF TypeOK
  <2>3. QED
    BY <1>3, <1>6, <2>1, <2>2 DEF PlainStep, ConnectionsKept
<1>7. QED
  BY <1>2, <1>3, <1>5, <1>6 DEF BeforeJoin

LEMMA PlainJoiner ==
    ASSUME CInv, TypeOK, PlainStep, NEW n \in Node, NEW x \in Node
    PROVE  JoinerAt(n, x)'
<1> DEFINE q == <<x, "joiner">>
<1>1. JoinerAt(n, x) /\ q \in Peer
  BY CInvNodes, JoinerPeers
<1>2. /\ entry' = entry /\ backlog' = backlog
  BY DEF PlainStep, ProcessesKept
<1>3. Unheard(x) => Unheard(x)'
  BY PlainNotifs
<1>4. NoPeer \notin Peer
  BY NetworkAssumption
<1>5. InNew(n, q)' => InNew(n, q)
  BY <1>1, <1>4 DEF PlainStep, NewPeersKept, InNew
<1>6. JoinMsg \in Range(inbox'[n][q]) => JoinMsg \in Range(inbox[n][q])
  BY <1>1 DEF PlainStep, StreamsKept, Boxes, Streams, More, LaterMsg
<1>7. QED
  BY <1>1, <1>2, <1>3, <1>5, <1>6 DEF JoinerAt

LEMMA PlainNew ==
    ASSUME CInv, TypeOK, PlainStep, NEW n \in Node, NEW k \in Addr
    PROVE  NewPeerAt(n, k)'
<1>0. PICK p : p = newPeers[n][k].peer
  OBVIOUS
<1>1. newPeers'[n][k].peer = p \/ newPeers'[n][k].peer = NoPeer
  BY <1>0 DEF PlainStep, NewPeersKept
<1>2. SUFFICES ASSUME newPeers'[n][k].peer = p, p # NoPeer
               PROVE  /\ k = AddrOfPeer(p) /\ p[2] \in {"joiner", "entry", "caller"}
                      /\ p[2] \in Asking => ~Known(n, p)'
                      /\ p \in conns'[n] \cup reset'[n] \/ ~(Up(Id(p)))'
  BY <1>1 DEF NewPeerAt
<1>3. p \in Peer
  BY <1>0, <1>2 DEF TypeOK, NewPeerEntry
<1>4. /\ k = AddrOfPeer(p) /\ p[2] \in {"joiner", "entry", "caller"}
      /\ p[2] \in Asking => ~Known(n, p)
      /\ p \in conns[n] \cup reset[n] \/ ~Up(Id(p))
  BY <1>0, <1>2, CInvNew DEF NewPeerAt
<1>5. /\ Known(n, p)' => Known(n, p) \/ JoinMsg \in Range(inbox[n][p])
      /\ JoinMsg \in Range(inbox[n][p]) => p[2] = "joiner"
  BY <1>3, CInvAt DEF PlainStep, KnownKept, JoinFirst
<1>6. /\ Up(Id(p))' <=> Up(Id(p))
      /\ p \in conns[n] => p \in conns'[n] \cup reset'[n] \/ ~Up(Id(p))
      /\ p \in reset[n] => p \in reset'[n]
  BY <1>3, Kinds DEF PlainStep, ProcessesKept, ConnectionsKept, ResetsKept
<1>7. QED
  BY <1>4, <1>5, <1>6 DEF Asking

\* A step that neither calls, asks nor answers keeps the invariant.
LEMMA PlainKeeps ==
    ASSUME CInv, TypeOK, TypeOK', PlainStep
    PROVE  CInv'
<1>1. AnnouncedOnce'
  BY PlainNotifs DEF CInv, AnnouncedOnce
<1>2. \A n \in Node, k \in Addr : NewPeerAt(n, k)'
  BY PlainNew
<1>3. \A n, m \in Node : BeforeJoin(n, m)' /\ JoinerAt(n, m)'
  BY PlainBeforeJoin, PlainJoiner
<1>4. ASSUME NEW n \in Node, NEW p \in Peer
      PROVE  /\ FailedAt(n, p)' /\ OpenAt(n, p)' /\ JoinFirst(n, p)'
             /\ FreshAt(n, p)' /\ WrittenAt(n, p)' /\ AnsweredAt(n, p)'
             /\ AckAt(n, p)' /\ ViewAt(n, p)'
  BY PlainFailed, PlainOpen, PlainJoinFirst, PlainPair, PlainWritten,
     PlainView
<1>5. QED
  BY <1>1, <1>2, <1>3, <1>4 DEF CInv

-----------------------------------------------------------------------------
(* The end of a process                                                    *)

\* What the others read when node a ends: a failure behind what is there, and a
\* reset only where a has not read everything.
LEMMA ExitStreams ==
    ASSUME TypeOK, NEW a \in Node, NEW how, Exit(a, how),
           NEW r \in Node, NEW q \in Peer
    PROVE  /\ Range(inbox'[r][q]) \subseteq Range(inbox[r][q]) \cup Failure
           /\ Rest(inbox'[r][q]) \subseteq Rest(inbox[r][q]) \cup Failure
           /\ AckFirst(inbox'[r][q]) <=> AckFirst(inbox[r][q])
           /\ Id(q) # a \/ q \notin conns[r] \cup backlog[r] =>
                 inbox'[r][q] = inbox[r][q]
           /\ Rst \in Range(inbox'[r][q]) =>
                 \/ Rst \in Range(inbox[r][q])
                 \/ inbox[a][OtherEnd(r, q)] # <<>>
                 \/ OtherEnd(r, q) \in backlog[a]
<1> DEFINE s == inbox[r][q]
           t == inbox'[r][q]
           clean == inbox[a][OtherEnd(r, q)] = <<>> /\ OtherEnd(r, q) \notin backlog[a]
<1>1. t = IF Id(q) = a /\ q \in conns[r] \cup backlog[r]
          THEN IF clean THEN Append(s, Eof) ELSE Append(s, Rst)
          ELSE s
  BY DEF Exit
<1>2. s \in Seq(Message) /\ Eof \in Message /\ Rst \in Message
  BY DEF TypeOK, Message
<1>3. Eof.type # "JOIN_ACK" /\ Rst.type # "JOIN_ACK" /\ Eof # Rst
  BY DEF Eof, Rst
<1> HIDE DEF s, t, clean
<1>4. \A f \in Failure : /\ Range(Append(s, f)) = Range(s) \cup {f}
                         /\ Rest(Append(s, f)) \subseteq Rest(s) \cup {f}
                         /\ AckFirst(Append(s, f)) <=> AckFirst(s)
  BY <1>2, <1>3, AppendParts, EmptyParts DEF Failure
<1>5. CASE t = s
  BY <1>5 DEF s, t
<1>6. CASE t # s
  <2>1. /\ Id(q) = a /\ q \in conns[r] \cup backlog[r]
        /\ t = IF clean THEN Append(s, Eof) ELSE Append(s, Rst)
    BY <1>1, <1>6
  <2>2. CASE clean
    <3>1. /\ Range(t) = Range(s) \cup {Eof} /\ Rest(t) \subseteq Rest(s) \cup {Eof}
          /\ AckFirst(t) <=> AckFirst(s)
      BY <1>4, <2>1, <2>2 DEF Failure
    <3>2. QED
      BY <1>3, <2>1, <3>1 DEF s, t, Failure
  <2>3. CASE ~clean
    <3>1. /\ Range(t) = Range(s) \cup {Rst} /\ Rest(t) \subseteq Rest(s) \cup {Rst}
          /\ AckFirst(t) <=> AckFirst(s)
      BY <1>4, <2>1, <2>3 DEF Failure
    <3>2. QED
      BY <2>1, <2>3, <3>1 DEF s, t, Failure, clean
  <2>4. QED
    BY <2>2, <2>3
<1>7. QED
  BY <1>5, <1>6

\* Apart from the streams, only the state of the process changes.
LEMMA ExitElse ==
    ASSUME TypeOK, NEW a \in Node, NEW how \in {"crashed", "quit"}, Exit(a, how)
    PROVE  /\ UNCHANGED <<ui, entry, logs, newPeers, conns, backlog, reset, peers>>
           /\ \A n \in Node : /\ Up(n)' <=> Up(n) /\ n # a
                              /\ Running(n)' <=> Running(n) /\ n # a
                              /\ Written(n)' = Written(n)
           /\ \A n \in Node, p \in Peer : Known(n, p)' <=> Known(n, p)
           /\ Notifs' \subseteq Notifs
           /\ \A x \in Node : Unheard(x) => Unheard(x)'
           /\ \A n, x \in Node : Heard(n, x)' <=> Heard(n, x)
<1>1. /\ UNCHANGED <<ui, entry, logs, newPeers, conns, backlog, reset, peers,
                     peerState, groups, readyTimers, joinTimers>>
      /\ status' = [status EXCEPT ![a] = how]
  BY DEF Exit, joinVars, viewVars, groupVars
<1>2. \A n \in Node : /\ Up(n)' <=> Up(n) /\ n # a
                      /\ Running(n)' <=> Running(n) /\ n # a
  BY <1>1 DEF Up, Running, TypeOK
<1>3. \A n \in Node : Written(n)' = Written(n)
  BY <1>1 DEF Written
<1>4. \A n \in Node, p \in Peer : Known(n, p)' <=> Known(n, p)
  BY <1>1 DEF Known
<1>5. Notifs' \subseteq Notifs \cup {}
  <2>1. \A n \in Node, p \in Peer : \A e \in Range(inbox'[n][p]) :
           e.type = "JOIN_NOTIF" => e \in Notifs
    <3> SUFFICES ASSUME NEW n \in Node, NEW p \in Peer,
                        NEW e \in Range(inbox'[n][p]), e.type = "JOIN_NOTIF"
                 PROVE  e \in Notifs
      OBVIOUS
    <3>1. e \in Range(inbox[n][p]) \cup Failure
      BY ExitStreams
    <3>2. QED
      BY <3>1, NotifsAre, Kinds DEF Failure
  <2>2. \A n \in Node : \A e \in logs'[n] : e.type = "JOIN_NOTIF" => e \in Notifs
    BY <1>1, NotifsAre
  <2>3. QED
    BY <2>1, <2>2, NewNotifs
<1>6. QED
  BY <1>1, <1>2, <1>3, <1>4, <1>5 DEF Unheard, Heard

LEMMA ExitLocal ==
    ASSUME CInv, TypeOK, NEW a \in Node, NEW how \in {"crashed", "quit"},
           Exit(a, how), NEW n \in Node, NEW p \in Peer
    PROVE  /\ FailedAt(n, p)' /\ OpenAt(n, p)' /\ JoinFirst(n, p)'
           /\ WrittenAt(n, p)' /\ ViewAt(n, p)'
<1>1. /\ FailedAt(n, p) /\ OpenAt(n, p) /\ JoinFirst(n, p)
      /\ WrittenAt(n, p) /\ ViewAt(n, p) /\ Id(p) \in Node
  BY CInvAt, Kinds
<1>2. /\ UNCHANGED <<entry, conns, backlog, reset, peers>>
      /\ Up(Id(p))' <=> Up(Id(p)) /\ Id(p) # a
      /\ Running(n)' => Running(n)
      /\ Written(n)' = Written(n)
      /\ Known(n, p)' <=> Known(n, p)
  BY <1>1, ExitElse
<1>3. /\ Range(inbox'[n][p]) \subseteq Range(inbox[n][p]) \cup Failure
      /\ Rest(inbox'[n][p]) \subseteq Rest(inbox[n][p]) \cup Failure
      /\ Id(p) # a => inbox'[n][p] = inbox[n][p]
  BY ExitStreams
<1>4. JoinMsg \notin Failure
  BY Kinds DEF Failure
<1>5. FailedAt(n, p)'
  BY <1>1, <1>2, <1>3 DEF FailedAt
<1>6. OpenAt(n, p)'
  BY <1>1, <1>2 DEF OpenAt
<1>7. JoinFirst(n, p)'
  BY <1>1, <1>2, <1>3, <1>4 DEF JoinFirst
<1>8. WrittenAt(n, p)' /\ ViewAt(n, p)'
  BY <1>1, <1>2 DEF WrittenAt, ViewAt
<1>9. QED
  BY <1>5, <1>6, <1>7, <1>8

\* A fresh connection is closed with nothing unread on it.
LEMMA ExitFresh ==
    ASSUME CInv, TypeOK, NEW a \in Node, NEW how \in {"crashed", "quit"},
           Exit(a, how), NEW n \in Node, NEW p \in Peer
    PROVE  FreshAt(n, p)'
<1> DEFINE r == Id(p)
           q == OtherEnd(n, p)
<1>1. /\ r \in Node /\ q \in Peer /\ Id(q) = n /\ OtherEnd(r, q) = p
      /\ p[2] = "joiner" => q[2] = "entry"
      /\ inbox[r][q] \in Seq(Message)
  BY Kinds DEF TypeOK
<1>2. FreshAt(n, p) /\ FailedAt(r, q) /\ OpenAt(r, q)
  BY <1>1, CInvAt
<1> HIDE DEF r, q
<1>3. /\ UNCHANGED <<conns, backlog, reset>>
      /\ Up(n)' <=> Up(n) /\ n # a
      /\ Written(n)' = Written(n) /\ Written(r)' = Written(r)
      /\ Known(r, q)' <=> Known(r, q)
      /\ Known(n, p)' <=> Known(n, p)
      /\ Heard(n, r)' <=> Heard(n, r)
  BY <1>1, ExitElse
<1>4. /\ Range(inbox'[n][p]) \subseteq Range(inbox[n][p]) \cup Failure
      /\ Range(inbox'[r][q]) \subseteq Range(inbox[r][q]) \cup Failure
      /\ r # a => inbox'[n][p] = inbox[n][p]
      /\ Rst \in Range(inbox'[n][p]) =>
            Rst \in Range(inbox[n][p]) \/ inbox[a][q] # <<>> \/ q \in backlog[a]
  BY <1>1, ExitStreams DEF r, q
<1>5. SUFFICES ASSUME p[2] \in Answering, ~Heard(n, r)
               PROVE  /\ p \notin Written(n)' /\ p \notin reset'[n]
                      /\ ~Known(r, q)' /\ q \notin Written(r)'
                      /\ Silent(inbox'[r][q])
                      /\ Up(n)' => Rst \notin Range(inbox'[n][p])
                      /\ Range(inbox'[n][p]) \subseteq Failure \cup {JoinMsg}
                      /\ p[2] = "called" =>
                            /\ p \notin conns'[n] /\ ~Known(n, p)'
                            /\ q \notin backlog'[r] \cup conns'[r]
  BY <1>3 DEF FreshAt, r, q
<1>6. /\ p \notin Written(n) /\ p \notin reset[n]
      /\ ~Known(r, q) /\ q \notin Written(r) /\ Silent(inbox[r][q])
      /\ Up(n) => Rst \notin Range(inbox[n][p])
      /\ Range(inbox[n][p]) \subseteq Failure \cup {JoinMsg}
      /\ p[2] = "called" =>
            /\ p \notin conns[n] /\ ~Known(n, p)
            /\ q \notin backlog[r] \cup conns[r]
  BY <1>2, <1>5 DEF FreshAt, r, q
<1>7. Up(n) => inbox[r][q] = <<>>
  <2>1. Up(n) => Range(inbox[r][q]) = {}
    BY <1>1, <1>2, <1>6 DEF Silent, FailedAt
  <2>2. QED
    BY <1>1, <2>1, EmptyParts
<1>8. q \notin backlog[r]
  BY <1>1, <1>2, <1>5, <1>6 DEF OpenAt, Answering
<1>9. Up(n)' => Rst \notin Range(inbox'[n][p])
  BY <1>3, <1>4, <1>6, <1>7, <1>8
<1>10. QED
  BY <1>3, <1>4, <1>6, <1>9 DEF Silent

\* An acknowledgement that waits is followed by a clean end.
LEMMA ExitAnswered ==
    ASSUME CInv, TypeOK, NEW a \in Node, NEW how \in {"crashed", "quit"},
           Running(a), Exit(a, how), NEW n \in Node, NEW p \in Peer
    PROVE  AnsweredAt(n, p)' /\ AckAt(n, p)'
<1> DEFINE r == Id(p)
           q == OtherEnd(n, p)
<1>1. /\ r \in Node /\ q \in Peer /\ Id(q) = n /\ OtherEnd(r, q) = p
      /\ inbox[r][q] \in Seq(Message)
  BY Kinds DEF TypeOK
<1>2. AnsweredAt(n, p) /\ AckAt(n, p) /\ OpenAt(n, p)
  BY <1>1, CInvAt
<1> HIDE DEF r, q
<1>3. /\ reset' = reset
      /\ Up(n)' <=> Up(n) /\ n # a
      /\ Up(r)' <=> Up(r) /\ r # a
      /\ Written(n)' = Written(n)
      /\ Known(r, q)' <=> Known(r, q)
      /\ Known(n, p)' <=> Known(n, p)
  BY <1>1, ExitElse
<1>4. /\ Range(inbox'[n][p]) \subseteq Range(inbox[n][p]) \cup Failure
      /\ Range(inbox'[r][q]) \subseteq Range(inbox[r][q]) \cup Failure
      /\ Rest(inbox'[r][q]) \subseteq Rest(inbox[r][q]) \cup Failure
      /\ AckFirst(inbox'[r][q]) <=> AckFirst(inbox[r][q])
      /\ r # a => inbox'[n][p] = inbox[n][p]
      /\ n # a => inbox'[r][q] = inbox[r][q]
      /\ Rst \in Range(inbox'[r][q]) =>
            Rst \in Range(inbox[r][q]) \/ inbox[a][p] # <<>> \/ p \in backlog[a]
  BY <1>1, ExitStreams DEF r, q
<1>5. Opened(r, q)' <=> Opened(r, q)
  BY <1>3, <1>4 DEF Opened
<1>6. \A f \in Failure : f.type # "JOIN_ACK"
  BY Kinds DEF Failure
<1>7. SUFFICES ASSUME p[2] \in Answering
               PROVE  AnsweredAt(n, p)' /\ AckAt(n, p)'
  BY DEF AnsweredAt, AckAt
<1>8. AnsweredAt(n, p)'
  <2>1. /\ Opened(r, q) => Known(n, p)
        /\ ~Silent(inbox[r][q]) => Opened(r, q)
        /\ p \in Written(n) /\ Up(r) => Opened(r, q)
        /\ ~Known(r, q) => Range(inbox[n][p]) \subseteq Failure \cup {JoinMsg}
        /\ \A m \in Range(inbox[n][p]) : m.type # "JOIN_ACK"
    BY <1>2, <1>7 DEF AnsweredAt, r, q
  <2>2. /\ Opened(r, q)' => Known(n, p)'
        /\ ~Silent(inbox'[r][q]) => Opened(r, q)'
        /\ p \in Written(n)' /\ Up(r)' => Opened(r, q)'
        /\ ~Known(r, q)' => Range(inbox'[n][p]) \subseteq Failure \cup {JoinMsg}
        /\ \A m \in Range(inbox'[n][p]) : m.type # "JOIN_ACK"
    BY <1>3, <1>4, <1>5, <1>6, <2>1 DEF Silent
  <2>3. QED
    BY <2>2 DEF AnsweredAt, r, q
<1>9. ASSUME NEW m \in Range(inbox'[r][q]), m.type = "JOIN_ACK"
      PROVE  /\ ~Known(r, q)'
             /\ \A e \in Rest(inbox'[r][q]) : e.type # "JOIN_ACK"
             /\ Up(r)' => Rst \notin Range(inbox'[r][q]) /\ q \notin reset'[r]
             /\ Up(r)' /\ Up(n)' => inbox'[n][p] = <<>>
  <2>1. m \in Range(inbox[r][q])
    BY <1>4, <1>6, <1>9
  <2>2. /\ ~Known(r, q)
        /\ \A e \in Rest(inbox[r][q]) : e.type # "JOIN_ACK"
        /\ Up(r) => Rst \notin Range(inbox[r][q]) /\ q \notin reset[r]
        /\ Up(r) /\ Up(n) => inbox[n][p] = <<>>
    BY <1>2, <1>7, <1>9, <2>1 DEF AckAt, r, q
  <2>3. ~Silent(inbox[r][q])
    BY <1>6, <1>9, <2>1 DEF Silent
  <2>4. Known(n, p)
    BY <1>2, <1>7, <2>3 DEF AnsweredAt, r, q
  <2>5. p \notin backlog[n]
    BY <1>2, <2>4 DEF OpenAt
  <2>6. Up(a)
    BY DEF Up, Running
  <2>7. Up(r)' => Rst \notin Range(inbox'[r][q])
    <3>1. CASE n = a
      BY <1>3, <1>4, <2>2, <2>5, <2>6, <3>1
    <3>2. CASE n # a
      BY <1>3, <1>4, <2>2, <3>2
    <3>3. QED
      BY <3>1, <3>2
  <2>8. Up(r)' /\ Up(n)' => inbox'[n][p] = <<>>
    BY <1>3, <1>4, <2>2
  <2>9. QED
    BY <1>3, <1>4, <1>6, <2>2, <2>7, <2>8
<1>10. QED
  BY <1>8, <1>9 DEF AckAt, r, q

LEMMA ExitNodes ==
    ASSUME CInv, TypeOK, NEW a \in Node, NEW how \in {"crashed", "quit"},
           Exit(a, how), NEW n \in Node, NEW m \in Node
    PROVE  BeforeJoin(n, m)' /\ JoinerAt(n, m)'
<1> DEFINE p == <<n, "joiner">>
           q == <<m, "joiner">>
<1>1. /\ p \in Peer /\ Id(p) = n /\ q \in Peer
  BY JoinerPeers
<1>2. BeforeJoin(n, m) /\ JoinerAt(n, m)
  BY CInvNodes
<1>3. /\ UNCHANGED <<ui, entry, newPeers, conns, backlog>>
      /\ Running(n)' <=> Running(n) /\ n # a
      /\ Known(m, p)' <=> Known(m, p)
      /\ \A x \in Node : Unheard(x) => Unheard(x)'
  BY <1>1, ExitElse
<1>4. n # a => inbox'[m][p] = inbox[m][p]
  BY <1>1, ExitStreams
<1>5. JoinMsg \in Range(inbox'[n][q]) => JoinMsg \in Range(inbox[n][q])
  <2>1. Range(inbox'[n][q]) \subseteq Range(inbox[n][q]) \cup Failure
    BY <1>1, ExitStreams
  <2>2. JoinMsg \notin Failure
    BY Kinds DEF Failure
  <2>3. QED
    BY <2>1, <2>2
<1>6. BeforeJoin(n, m)'
  BY <1>2, <1>3, <1>4 DEF BeforeJoin
<1>7. JoinerAt(n, m)'
  BY <1>2, <1>3, <1>5 DEF JoinerAt, InNew
<1>8. QED
  BY <1>6, <1>7

LEMMA ExitNew ==
    ASSUME CInv, TypeOK, NEW a \in Node, NEW how \in {"crashed", "quit"},
           Exit(a, how), NEW n \in Node, NEW k \in Addr
    PROVE  NewPeerAt(n, k)'
<1>1. PICK p : p = newPeers[n][k].peer
  OBVIOUS
<1>2. /\ UNCHANGED <<newPeers, conns, reset>>
      /\ \A r \in Node : Up(r)' => Up(r)
      /\ \A q \in Peer : Known(n, q)' <=> Known(n, q)
  BY ExitElse
<1>3. SUFFICES ASSUME p # NoPeer
               PROVE  /\ k = AddrOfPeer(p) /\ p[2] \in {"joiner", "entry", "caller"}
                      /\ p[2] \in Asking => ~Known(n, p)'
                      /\ p \in conns'[n] \cup reset'[n] \/ ~(Up(Id(p)))'
  BY <1>1, <1>2 DEF NewPeerAt
<1>4. p \in Peer /\ Id(p) \in Node
  BY <1>1, <1>3, Kinds DEF TypeOK, NewPeerEntry
<1>5. /\ k = AddrOfPeer(p) /\ p[2] \in {"joiner", "entry", "caller"}
      /\ p[2] \in Asking => ~Known(n, p)
      /\ p \in conns[n] \cup reset[n] \/ ~Up(Id(p))
  BY <1>1, <1>3, CInvNew DEF NewPeerAt
<1>6. QED
  BY <1>2, <1>4, <1>5

\* The end of a process keeps the invariant.
LEMMA ExitKeeps ==
    ASSUME CInv, TypeOK, NEW a \in Node, NEW how \in {"crashed", "quit"},
           Running(a), Exit(a, how)
    PROVE  CInv'
<1>1. AnnouncedOnce'
  BY ExitElse DEF CInv, AnnouncedOnce
<1>2. \A n \in Node, k \in Addr : NewPeerAt(n, k)'
  BY ExitNew
<1>3. \A n, m \in Node : BeforeJoin(n, m)' /\ JoinerAt(n, m)'
  BY ExitNodes
<1>4. ASSUME NEW n \in Node, NEW p \in Peer
      PROVE  /\ FailedAt(n, p)' /\ OpenAt(n, p)' /\ JoinFirst(n, p)'
             /\ FreshAt(n, p)' /\ WrittenAt(n, p)' /\ AnsweredAt(n, p)'
             /\ AckAt(n, p)' /\ ViewAt(n, p)'
  BY ExitLocal, ExitFresh, ExitAnswered
<1>5. QED
  BY <1>1, <1>2, <1>3, <1>4 DEF CInv

-----------------------------------------------------------------------------
(* A node asks to join                                                     *)

\* The connection to the entry point is new at both ends.
LEMMA ConnectKeeps ==
    ASSUME CInv, TypeOK, NEW a \in Node, NEW m \in JoinTo[a], UIJoinConnect(a, m)
    PROVE  CInv'
<1> DEFINE pe == <<m, "entry">>
           pj == <<a, "joiner">>
<1>1. m \in Node /\ m # a
  BY NetworkAssumption
<1>2. /\ pe \in Peer /\ Id(pe) = m /\ pe[2] = "entry"
      /\ pj \in Peer /\ Id(pj) = a /\ pj[2] = "joiner"
  BY <1>1, JoinerPeers
<1>3. /\ Running(a) /\ ui[a] = "idle" /\ entry[a] = a
      /\ ui' = [ui EXCEPT ![a] = "join"]
      /\ entry' = [entry EXCEPT ![a] = m]
      /\ conns' = [conns EXCEPT ![a] = @ \cup {pe}]
      /\ backlog' = [backlog EXCEPT ![m] = @ \cup {pj}]
      /\ UNCHANGED <<status, joinVars, viewVars, groupVars, logs, reset, inbox>>
  BY DEF UIJoinConnect
<1>4. /\ \A n \in Node, p \in Peer :
            /\ p \in conns'[n] <=> p \in conns[n] \/ (n = a /\ p = pe)
            /\ p \in backlog'[n] <=> p \in backlog[n] \/ (n = m /\ p = pj)
      /\ \A n \in Node : /\ entry'[n] = IF n = a THEN m ELSE entry[n]
                         /\ ui'[n] = IF n = a THEN "join" ELSE ui[n]
  BY <1>1, <1>3 DEF TypeOK
<1>5. /\ UNCHANGED <<status, peers, newPeers, logs, reset, inbox>>
      /\ \A n \in Node : /\ Up(n)' <=> Up(n)
                         /\ Running(n)' <=> Running(n)
                         /\ Written(n)' = Written(n)
      /\ \A n \in Node, p \in Peer : Known(n, p)' <=> Known(n, p)
      /\ Notifs' = Notifs
      /\ \A x \in Node : Unheard(x)' <=> Unheard(x)
      /\ \A n, x \in Node : Heard(n, x)' <=> Heard(n, x)
  BY <1>3 DEF joinVars, viewVars, groupVars, Up, Running, Written, Known, Notifs,
              Unheard, Heard
<1>6. BeforeJoin(a, m) /\ Unheard(a) /\ ~Known(m, pj)
  BY <1>1, <1>3, CInvNodes, NotAsked
<1> HIDE DEF pe, pj
<1>7. AnnouncedOnce'
  BY <1>5 DEF CInv, AnnouncedOnce
<1>8. ASSUME NEW n \in Node, NEW k \in Addr
      PROVE  NewPeerAt(n, k)'
  <2>1. PICK p : p = newPeers[n][k].peer
    OBVIOUS
  <2>2. SUFFICES ASSUME p # NoPeer
                 PROVE  /\ k = AddrOfPeer(p) /\ p[2] \in {"joiner", "entry", "caller"}
                        /\ p[2] \in Asking => ~Known(n, p)'
                        /\ p \in conns'[n] \cup reset'[n] \/ ~(Up(Id(p)))'
    BY <2>1, <1>5 DEF NewPeerAt
  <2>3. p \in Peer /\ Id(p) \in Node
    BY <2>1, <2>2, Kinds DEF TypeOK, NewPeerEntry
  <2>4. /\ k = AddrOfPeer(p) /\ p[2] \in {"joiner", "entry", "caller"}
        /\ p[2] \in Asking => ~Known(n, p)
        /\ p \in conns[n] \cup reset[n] \/ ~Up(Id(p))
    BY <2>1, <2>2, CInvNew DEF NewPeerAt
  <2>5. QED
    BY <1>4, <1>5, <2>3, <2>4
<1>9. ASSUME NEW n \in Node, NEW x \in Node
      PROVE  BeforeJoin(n, x)' /\ JoinerAt(n, x)'
  <2> DEFINE p == <<n, "joiner">>
             q == <<x, "joiner">>
  <2>1. p \in Peer /\ q \in Peer /\ p[2] = "joiner" /\ (q = pj => x = a)
    BY JoinerPeers DEF pj
  <2>2. BeforeJoin(n, x) /\ JoinerAt(n, x)
    BY CInvNodes
  <2>3. p # pe
    BY <1>2, <2>1
  <2>4. JoinerAt(n, x)'
    <3>1. InNew(n, q)' <=> InNew(n, q)
      BY <1>5 DEF InNew
    <3>2. x = a => ~(q \in backlog[n] \/ InNew(n, q) \/ JoinMsg \in Range(inbox[n][q]))
      BY <1>3, <2>2 DEF JoinerAt
    <3> HIDE DEF q
    <3>3. (q \in backlog[n] \/ InNew(n, q) \/ JoinMsg \in Range(inbox[n][q]))
             => Unheard(x) /\ entry[x] = n /\ n # x
      BY <2>2 DEF JoinerAt, q
    <3>4. q \in backlog'[n] => q \in backlog[n] \/ (n = m /\ x = a)
      BY <1>4, <2>1
    <3>5. (q \in backlog[n] \/ InNew(n, q) \/ JoinMsg \in Range(inbox[n][q])
             \/ (n = m /\ x = a)) => Unheard(x) /\ entry'[x] = n /\ n # x
      BY <1>1, <1>4, <1>6, <3>2, <3>3
    <3>6. QED
      BY <1>5, <3>1, <3>4, <3>5 DEF JoinerAt, q
  <2>5. BeforeJoin(n, x)'
    <3>1. Known(x, p)' <=> Known(x, p)
      BY <1>5, <2>1
    <3>2. /\ p \in conns'[x] => p \in conns[x]
      BY <1>4, <2>1, <2>3
    <3>3. Running(n)' /\ ui'[n] \in {"join", "joining"} =>
             <<entry'[n], "entry">> \in conns'[n] /\ entry'[n] # n
      <4>1. CASE n = a
        BY <1>1, <1>2, <1>4, <4>1 DEF pe
      <4>2. CASE n # a
        <5>1. entry'[n] = entry[n] /\ <<entry[n], "entry">> \in Peer
          <6>1. entry[n] \in Node
            BY DEF TypeOK
          <6>2. QED
            BY <1>4, <4>2, <6>1, JoinerPeers
        <5>2. QED
          BY <1>4, <1>5, <2>2, <4>2, <5>1 DEF BeforeJoin
      <4>3. QED
        BY <4>1, <4>2
    <3>4. /\ entry'[n] = n => entry[n] = n
          /\ ui'[n] \in {"join", "joining"} => ui[n] \in {"join", "joining"} \/ entry[n] = n
      BY <1>1, <1>3, <1>4
    <3>5. QED
      BY <1>5, <2>2, <3>1, <3>2, <3>3, <3>4 DEF BeforeJoin
  <2>6. QED
    BY <2>4, <2>5
<1>10. ASSUME NEW n \in Node, NEW p \in Peer
       PROVE  /\ FailedAt(n, p)' /\ OpenAt(n, p)' /\ JoinFirst(n, p)'
              /\ FreshAt(n, p)' /\ WrittenAt(n, p)' /\ AnsweredAt(n, p)'
              /\ AckAt(n, p)' /\ ViewAt(n, p)'
  <2>1. /\ FailedAt(n, p) /\ OpenAt(n, p) /\ JoinFirst(n, p)
        /\ FreshAt(n, p) /\ WrittenAt(n, p) /\ AnsweredAt(n, p)
        /\ AckAt(n, p) /\ ViewAt(n, p)
    BY CInvAt
  <2>2. /\ Id(p) \in Node /\ OtherEnd(n, p) \in Peer
        /\ p[2] = "called" => OtherEnd(n, p)[2] = "caller"
    BY Kinds
  <2>3. /\ FailedAt(n, p)' /\ JoinFirst(n, p)' /\ WrittenAt(n, p)'
    BY <1>5, <2>1, <2>2 DEF FailedAt, JoinFirst, WrittenAt
  <2>4. ViewAt(n, p)'
    BY <1>4, <1>5, <2>1 DEF ViewAt
  <2>5. /\ Opened(Id(p), OtherEnd(n, p))' <=> Opened(Id(p), OtherEnd(n, p))
    BY <1>5, <2>2 DEF Opened
  <2>6. AnsweredAt(n, p)' /\ AckAt(n, p)'
    BY <1>5, <2>1, <2>2, <2>5 DEF AnsweredAt, AckAt
  <2>7. OpenAt(n, p)'
    <3>1. p \in conns'[n] => p[2] # "local" /\ (p[2] = "entry" => Id(p) = entry'[n] /\ Id(p) # n)
      <4>1. CASE n = a
        BY <1>1, <1>2, <1>3, <1>4, <2>1, <4>1 DEF OpenAt
      <4>2. CASE n # a
        BY <1>4, <2>1, <4>2 DEF OpenAt
      <4>3. QED
        BY <4>1, <4>2
    <3>2. p \in backlog'[n] => p[2] \in {"joiner", "caller"} /\ p \notin conns'[n]
                               /\ ~Known(n, p)'
      <4>1. pj \notin conns[m]
        BY <1>3, <1>6 DEF BeforeJoin, pj
      <4>2. QED
        BY <1>1, <1>2, <1>4, <1>5, <1>6, <2>1, <4>1 DEF OpenAt
    <3>3. QED
      BY <3>1, <3>2 DEF OpenAt
  <2>8. FreshAt(n, p)'
    <3>1. p[2] = "called" => OtherEnd(n, p) # pe /\ OtherEnd(n, p) # pj /\ p # pe
      BY <1>2, <2>2
    <3>2. QED
      BY <1>4, <1>5, <2>1, <2>2, <3>1 DEF FreshAt
  <2>9. QED
    BY <2>1, <2>3, <2>4, <2>6, <2>7, <2>8
<1>11. QED
  BY <1>7, <1>8, <1>9, <1>10 DEF CInv

\* The JOIN is the first thing its emitter writes, on a connection that nothing
\* has come back on.
LEMMA SendKeeps ==
    ASSUME CInv, TypeOK, TypeOK', NEW a \in Node, UIJoinSend(a)
    PROVE  CInv'
<1>0. PICK m \in Node : m = entry[a]
  BY DEF TypeOK
<1> DEFINE pe == <<m, "entry">>
           pj == <<a, "joiner">>
<1>1. /\ Running(a) /\ ui[a] = "joining"
      /\ ui' = [ui EXCEPT ![a] = "idle"]
      /\ peerState' = [peerState EXCEPT ![a][pe] = "NEW"]
      /\ newPeers' = [newPeers EXCEPT ![a][AddrOfPeer(pe)] =
                         [peer |-> pe, port |-> NoNode]]
      /\ inbox' = Deliver(inbox, a, {pe}, JoinMsg)
      /\ reset' = [reset EXCEPT ![a] = @ \cup Bounced({pe})]
      /\ UNCHANGED <<status, entry, readyTimers, joinTimers, peers, groups,
                     logs, conns, backlog>>
  BY <1>0 DEF UIJoinSend, groupVars
<1>2. /\ pe \in Peer /\ Id(pe) = m /\ pe[2] = "entry"
      /\ pj \in Peer /\ Id(pj) = a /\ pj[2] = "joiner"
      /\ OtherEnd(m, pj) = pe
      /\ AddrOfPeer(pe) \in Addr /\ pe # NoPeer
  BY JoinerPeers, EntryType, NetworkAssumption
<1>3. /\ Unheard(a) /\ ~Known(m, pj) /\ inbox[m][pj] = <<>>
      /\ ~Known(a, pe) /\ ~AckFirst(inbox[a][pe]) /\ Silent(inbox[a][pe])
      /\ pe \notin Written(a) /\ pj \notin Written(m)
  BY <1>1, NotAsked
<1>4. pe \in conns[a] /\ m # a
  <2>1. BeforeJoin(a, a)
    BY CInvNodes
  <2>2. QED
    BY <1>0, <1>1, <2>1 DEF BeforeJoin
<1>5. \A r \in Node, q \in Peer : r # m \/ q # pj => inbox'[r][q] = inbox[r][q]
  <2> SUFFICES ASSUME NEW r \in Node, NEW q \in Peer, r # m \/ q # pj
               PROVE  inbox'[r][q] = inbox[r][q]
    OBVIOUS
  <2>1. ~(Id(q) = a /\ OtherEnd(r, q) = pe)
    BY DEF OtherEnd, OtherKind, Id, Peer, PeerKind
  <2>2. QED
    BY <1>1, <2>1 DEF Deliver
<1>6. /\ Range(inbox'[m][pj]) \subseteq {JoinMsg}
      /\ Rest(inbox'[m][pj]) = {}
  <2>1. inbox'[m][pj] = IF Up(m) THEN Append(<<>>, JoinMsg) ELSE <<>>
    BY <1>1, <1>2, <1>3 DEF Deliver
  <2>2. <<>> \in Seq(Message) /\ JoinMsg \in Message
    BY DEF Message
  <2>3. Range(<<>>) = {} /\ Rest(<<>>) = {}
    BY <2>2, EmptyParts
  <2>4. /\ Range(Append(<<>>, JoinMsg)) = Range(<<>>) \cup {JoinMsg}
        /\ Rest(Append(<<>>, JoinMsg)) = {}
    <3>1. PICK s \in Seq(Message) : s = <<>>
      BY <2>2
    <3>2. PICK e \in Message : e = JoinMsg
      BY <2>2
    <3>3. Range(Append(s, e)) = Range(s) \cup {e}
      BY AppendParts
    <3>4. Rest(Append(s, e)) = {}
      BY <3>1, AppendParts
    <3>5. QED
      BY <3>1, <3>2, <3>3, <3>4
  <2>5. QED
    BY <2>1, <2>3, <2>4
<1>7. /\ \A n \in Node : /\ Up(n)' <=> Up(n)
                         /\ Running(n)' <=> Running(n)
                         /\ Written(n)' = Written(n)
                         /\ ui'[n] = IF n = a THEN "idle" ELSE ui[n]
      /\ \A n, x \in Node : Heard(n, x)' <=> Heard(n, x)
  BY <1>1 DEF Up, Running, Written, Heard, TypeOK
<1>8. \A n \in Node, p \in Peer :
         /\ Known(n, p)' <=> Known(n, p)
         /\ p \in reset'[n] <=> p \in reset[n] \/ (n = a /\ p = pe /\ ~Up(m))
  <2> HIDE DEF pe, pj
  <2>1. \A n \in Node, p \in Peer :
           peerState'[n][p] = IF n = a /\ p = pe THEN "NEW" ELSE peerState[n][p]
    <3>1. peerState' = [peerState EXCEPT ![a] = [@ EXCEPT ![pe] = "NEW"]]
      BY <1>1
    <3>2. DOMAIN peerState = Node /\ \A n \in Node : DOMAIN peerState[n] = Peer
      BY DEF TypeOK
    <3>3. QED
      BY <1>2, <3>1, <3>2
  <2>2. \A n \in Node, p \in Peer : Known(n, p)' <=> Known(n, p)
    BY <1>3, <2>1 DEF Known
  <2>3. Bounced({pe}) = IF Up(m) THEN {} ELSE {pe}
    BY <1>2 DEF Bounced
  <2>4. \A n \in Node : reset'[n] = IF n = a THEN reset[a] \cup Bounced({pe}) ELSE reset[n]
    BY <1>1 DEF TypeOK
  <2>5. QED
    BY <2>2, <2>3, <2>4
<1> HIDE DEF pe, pj
<1>9. \A n \in Node, p \in Peer : \A e \in Range(inbox'[n][p]) :
         e # JoinMsg => e \in Range(inbox[n][p])
  BY <1>5, <1>6
<1>10. Notifs' \subseteq Notifs \cup {}
  <2>1. \A n \in Node, p \in Peer : \A e \in Range(inbox'[n][p]) :
           e.type = "JOIN_NOTIF" => e \in Notifs
    BY <1>9, NotifsAre, Kinds
  <2>2. \A n \in Node : \A e \in logs'[n] : e.type = "JOIN_NOTIF" => e \in Notifs
    BY <1>1, NotifsAre
  <2>3. QED
    BY <2>1, <2>2, NewNotifs
<1>11. \A x \in Node : Unheard(x) => Unheard(x)'
  BY <1>10 DEF Unheard
<1>12. AnnouncedOnce'
  BY <1>10 DEF CInv, AnnouncedOnce
<1>13. ASSUME NEW n \in Node, NEW k \in Addr
       PROVE  NewPeerAt(n, k)'
  <2>1. PICK p : p = newPeers'[n][k].peer
    OBVIOUS
  <2>2. SUFFICES ASSUME p # NoPeer
                 PROVE  /\ k = AddrOfPeer(p) /\ p[2] \in {"joiner", "entry", "caller"}
                        /\ p[2] \in Asking => ~Known(n, p)'
                        /\ p \in conns'[n] \cup reset'[n] \/ ~(Up(Id(p)))'
    BY <2>1 DEF NewPeerAt
  <2>3. CASE n = a /\ k = AddrOfPeer(pe)
    <3>1. p = pe
      BY <1>1, <1>2, <2>1, <2>3 DEF TypeOK
    <3>2. QED
      BY <1>1, <1>2, <1>3, <1>4, <1>8, <2>3, <3>1
  <2>4. CASE ~(n = a /\ k = AddrOfPeer(pe))
    <3>1. p = newPeers[n][k].peer
      BY <1>1, <2>1, <2>4 DEF TypeOK
    <3>2. p \in Peer /\ Id(p) \in Node
      BY <2>2, <3>1, Kinds DEF TypeOK, NewPeerEntry
    <3>3. /\ k = AddrOfPeer(p) /\ p[2] \in {"joiner", "entry", "caller"}
          /\ p[2] \in Asking => ~Known(n, p)
          /\ p \in conns[n] \cup reset[n] \/ ~Up(Id(p))
      BY <2>2, <3>1, CInvNew DEF NewPeerAt
    <3>4. QED
      BY <1>1, <1>7, <1>8, <3>2, <3>3
  <2>5. QED
    BY <2>3, <2>4
<1>14. ASSUME NEW n \in Node, NEW x \in Node
       PROVE  BeforeJoin(n, x)' /\ JoinerAt(n, x)'
  <2> DEFINE p == <<n, "joiner">>
             q == <<x, "joiner">>
  <2>1. /\ p \in Peer /\ q \in Peer /\ q[2] = "joiner"
        /\ p = pj <=> n = a
        /\ q = pj <=> x = a
    BY JoinerPeers DEF pj
  <2>2. BeforeJoin(n, x) /\ JoinerAt(n, x)
    BY CInvNodes
  <2>3. JoinerAt(n, x)'
    <3>1. q # pe
      BY <1>2, <2>1
    <3> HIDE DEF q
    <3>2. (q \in backlog[n] \/ InNew(n, q) \/ JoinMsg \in Range(inbox[n][q]))
             => Unheard(x) /\ entry[x] = n /\ n # x
      BY <2>2 DEF JoinerAt, q
    <3>3. InNew(n, q)' => InNew(n, q)
      BY <1>1, <1>2, <3>1 DEF InNew, TypeOK
    <3>4. JoinMsg \in Range(inbox'[n][q]) =>
             JoinMsg \in Range(inbox[n][q]) \/ (n = m /\ x = a)
      BY <1>5, <2>1
    <3>5. n = m /\ x = a => Unheard(x) /\ entry[x] = n /\ n # x
      BY <1>0, <1>3, <1>4
    <3>6. QED
      BY <1>1, <1>11, <3>2, <3>3, <3>4, <3>5 DEF JoinerAt, q
  <2>4. BeforeJoin(n, x)'
    <3>1. CASE n = a
      BY <1>0, <1>1, <1>4, <1>7, <2>2, <3>1 DEF BeforeJoin
    <3>2. CASE n # a
      <4>1. inbox'[x][p] = inbox[x][p] /\ (Known(x, p)' <=> Known(x, p))
        BY <1>5, <1>8, <2>1, <3>2
      <4>2. QED
        BY <1>1, <1>7, <1>11, <2>2, <3>2, <4>1 DEF BeforeJoin
    <3>3. QED
      BY <3>1, <3>2
  <2>5. QED
    BY <2>3, <2>4
<1>15. ASSUME NEW n \in Node, NEW p \in Peer
       PROVE  /\ FailedAt(n, p)' /\ OpenAt(n, p)' /\ JoinFirst(n, p)'
              /\ FreshAt(n, p)' /\ WrittenAt(n, p)' /\ AnsweredAt(n, p)'
              /\ AckAt(n, p)' /\ ViewAt(n, p)'
  <2> DEFINE r == Id(p)
             q == OtherEnd(n, p)
  <2>1. /\ FailedAt(n, p) /\ OpenAt(n, p) /\ JoinFirst(n, p)
        /\ FreshAt(n, p) /\ WrittenAt(n, p) /\ AnsweredAt(n, p)
        /\ AckAt(n, p) /\ ViewAt(n, p)
    BY CInvAt
  <2>2. /\ r \in Node /\ q \in Peer /\ OtherEnd(r, q) = p /\ Id(q) = n
        /\ p[2] \in Answering => q[2] \in Asking
    BY Kinds
  <2>3. FailedAt(n, p)'
    <3>1. JoinMsg \notin Failure
      BY Kinds DEF Failure
    <3>2. QED
      BY <1>2, <1>7, <1>8, <1>9, <2>1, <2>2, <3>1 DEF FailedAt
  <2>4. OpenAt(n, p)' /\ WrittenAt(n, p)' /\ ViewAt(n, p)'
    BY <1>1, <1>7, <1>8, <2>1 DEF OpenAt, WrittenAt, ViewAt
  <2>5. JoinFirst(n, p)'
    BY <1>2, <1>3, <1>5, <1>6, <1>8, <2>1 DEF JoinFirst
  <2> HIDE DEF r, q
  <2>6. p[2] \in Answering => inbox'[r][q] = inbox[r][q]
    BY <1>2, <1>5, <2>2 DEF Asking
  <2>7. Range(inbox'[n][p]) \subseteq Range(inbox[n][p]) \cup {JoinMsg}
    BY <1>9
  <2>8. p[2] \in Answering => (p \in reset'[n] <=> p \in reset[n])
    BY <1>2, <1>8 DEF Answering
  <2>9. FreshAt(n, p)'
    BY <1>1, <1>7, <1>8, <2>1, <2>2, <2>6, <2>7, <2>8, Kinds DEF FreshAt, r, q
  <2>10. p[2] \in Answering => (Opened(r, q)' <=> Opened(r, q))
    BY <1>8, <2>2, <2>6 DEF Opened
  <2>11. AnsweredAt(n, p)'
    <3> SUFFICES ASSUME p[2] \in Answering
                 PROVE  AnsweredAt(n, p)'
      BY DEF AnsweredAt
    <3>1. /\ Opened(r, q) => Known(n, p)
          /\ ~Silent(inbox[r][q]) => Opened(r, q)
          /\ p \in Written(n) /\ Up(r) => Opened(r, q)
          /\ ~Known(r, q) => Range(inbox[n][p]) \subseteq Failure \cup {JoinMsg}
          /\ \A e \in Range(inbox[n][p]) : e.type # "JOIN_ACK"
      BY <2>1 DEF AnsweredAt, r, q
    <3>2. /\ Opened(r, q)' => Known(n, p)'
          /\ ~Silent(inbox'[r][q]) => Opened(r, q)'
          /\ p \in Written(n)' /\ Up(r)' => Opened(r, q)'
          /\ ~Known(r, q)' => Range(inbox'[n][p]) \subseteq Failure \cup {JoinMsg}
          /\ \A e \in Range(inbox'[n][p]) : e.type # "JOIN_ACK"
      BY <1>7, <1>8, <2>2, <2>6, <2>7, <2>10, <3>1, Kinds
    <3>3. QED
      BY <3>2 DEF AnsweredAt, r, q
  <2>12. AckAt(n, p)'
    <3>1. CASE r = a /\ q = pe
      <4>1. p[2] \in Answering => Silent(inbox'[r][q])
        BY <1>3, <2>6, <3>1
      <4>2. QED
        BY <4>1, Kinds DEF AckAt, r, q, Silent, Failure
    <3>2. CASE ~(r = a /\ q = pe)
      <4>1. n # m \/ p # pj
        BY <1>2, <3>2 DEF r, q
      <4>2. inbox'[n][p] = inbox[n][p] /\ (q \in reset'[r] <=> q \in reset[r])
        BY <1>5, <1>8, <2>2, <3>2, <4>1
      <4>3. QED
        BY <1>7, <1>8, <2>1, <2>2, <2>6, <4>2 DEF AckAt, r, q
    <3>3. QED
      BY <3>1, <3>2
  <2>13. QED
    BY <2>3, <2>4, <2>5, <2>9, <2>11, <2>12
<1>16. QED
  BY <1>12, <1>13, <1>14, <1>15 DEF CInv

\* A connection that is accepted is read from then on; nobody is known there.
LEMMA AcceptKeeps ==
    ASSUME CInv, TypeOK, NEW a \in Node, NEW c \in Peer, Accept(a, c)
    PROVE  CInv'
<1>1. /\ Running(a) /\ c \in backlog[a]
      /\ backlog' = [backlog EXCEPT ![a] = @ \ {c}]
      /\ conns' = [conns EXCEPT ![a] = @ \cup {c}]
      /\ peerState' = [peerState EXCEPT ![a][c] = "NEW"]
      /\ newPeers' = [newPeers EXCEPT ![a][AddrOfPeer(c)] =
                         [peer |-> c, port |-> NoNode]]
      /\ UNCHANGED <<status, ui, entry, readyTimers, joinTimers, peers, groups,
                     logs, reset, inbox>>
  BY DEF Accept, procVars, groupVars
<1>2. /\ c[2] \in {"joiner", "caller"} /\ c \notin conns[a] /\ ~Known(a, c)
      /\ Id(c) \in Node /\ AddrOfPeer(c) \in Addr /\ c # NoPeer
      /\ c[2] = "joiner" => c = <<Id(c), "joiner">>
  <2>1. OpenAt(a, c)
    BY CInvAt
  <2>2. QED
    BY <1>1, <2>1, EntryType, Kinds, NetworkAssumption DEF OpenAt
<1>3. /\ \A n \in Node : /\ Up(n)' <=> Up(n)
                         /\ Running(n)' <=> Running(n)
                         /\ Written(n)' = Written(n)
      /\ Notifs' = Notifs
      /\ \A x \in Node : Unheard(x)' <=> Unheard(x)
      /\ \A n, x \in Node : Heard(n, x)' <=> Heard(n, x)
  BY <1>1 DEF Up, Running, Written, Notifs, Unheard, Heard
<1>4. \A n \in Node, p \in Peer :
         /\ Known(n, p)' <=> Known(n, p)
         /\ p \in conns'[n] <=> p \in conns[n] \/ (n = a /\ p = c)
         /\ p \in backlog'[n] <=> p \in backlog[n] /\ ~(n = a /\ p = c)
  <2>1. \A n \in Node, p \in Peer :
           peerState'[n][p] = IF n = a /\ p = c THEN "NEW" ELSE peerState[n][p]
    BY <1>1 DEF TypeOK
  <2>2. \A n \in Node, p \in Peer : Known(n, p)' <=> Known(n, p)
    BY <1>2, <2>1 DEF Known
  <2>3. QED
    BY <1>1, <2>2 DEF TypeOK
<1>5. AnnouncedOnce'
  BY <1>3 DEF CInv, AnnouncedOnce
<1>6. ASSUME NEW n \in Node, NEW k \in Addr
      PROVE  NewPeerAt(n, k)'
  <2>1. PICK p : p = newPeers'[n][k].peer
    OBVIOUS
  <2>2. SUFFICES ASSUME p # NoPeer
                 PROVE  /\ k = AddrOfPeer(p) /\ p[2] \in {"joiner", "entry", "caller"}
                        /\ p[2] \in Asking => ~Known(n, p)'
                        /\ p \in conns'[n] \cup reset'[n] \/ ~(Up(Id(p)))'
    BY <2>1 DEF NewPeerAt
  <2>3. CASE n = a /\ k = AddrOfPeer(c)
    <3>1. p = c
      BY <1>1, <1>2, <2>1, <2>3 DEF TypeOK
    <3>2. QED
      BY <1>2, <1>4, <2>3, <3>1
  <2>4. CASE ~(n = a /\ k = AddrOfPeer(c))
    <3>1. p = newPeers[n][k].peer
      BY <1>1, <2>1, <2>4 DEF TypeOK
    <3>2. p \in Peer /\ Id(p) \in Node
      BY <2>2, <3>1, Kinds DEF TypeOK, NewPeerEntry
    <3>3. /\ k = AddrOfPeer(p) /\ p[2] \in {"joiner", "entry", "caller"}
          /\ p[2] \in Asking => ~Known(n, p)
          /\ p \in conns[n] \cup reset[n] \/ ~Up(Id(p))
      BY <2>2, <3>1, CInvNew DEF NewPeerAt
    <3>4. QED
      BY <1>1, <1>3, <1>4, <3>2, <3>3
  <2>5. QED
    BY <2>3, <2>4
<1>7. ASSUME NEW n \in Node, NEW x \in Node
      PROVE  BeforeJoin(n, x)' /\ JoinerAt(n, x)'
  <2> DEFINE p == <<n, "joiner">>
             q == <<x, "joiner">>
  <2>1. p \in Peer /\ q \in Peer /\ Id(p) = n
    BY JoinerPeers
  <2>2. BeforeJoin(n, x) /\ JoinerAt(n, x) /\ JoinerAt(x, n)
    BY CInvNodes
  <2> HIDE DEF p, q
  <2>3. JoinerAt(n, x)'
    <3>1. (q \in backlog[n] \/ InNew(n, q) \/ JoinMsg \in Range(inbox[n][q]))
             => Unheard(x) /\ entry[x] = n /\ n # x
      BY <2>2 DEF JoinerAt, q
    <3>2. InNew(n, q)' => InNew(n, q) \/ q \in backlog[n]
      BY <1>1, <1>2 DEF InNew, TypeOK
    <3>3. q \in backlog'[n] => q \in backlog[n]
      BY <1>4, <2>1
    <3>4. QED
      BY <1>1, <1>3, <3>1, <3>2, <3>3 DEF JoinerAt, q
  <2>4. BeforeJoin(n, x)'
    <3>1. (Known(x, p)' <=> Known(x, p))
          /\ (p \in conns'[x] => p \in conns[x] \/ p \in backlog[x])
      BY <1>1, <1>4, <2>1
    <3>2. entry[n] = n => p \notin backlog[x] /\ p \notin conns[x]
      BY <2>2 DEF JoinerAt, BeforeJoin, p
    <3>3. <<entry[n], "entry">> \in conns[n] => <<entry[n], "entry">> \in conns'[n]
      <4>1. <<entry[n], "entry">> \in Peer
        BY JoinerPeers DEF TypeOK
      <4>2. QED
        BY <1>4, <4>1
    <3>4. QED
      BY <1>1, <1>3, <2>2, <3>1, <3>2, <3>3 DEF BeforeJoin, p
  <2>5. QED
    BY <2>3, <2>4
<1>8. ASSUME NEW n \in Node, NEW p \in Peer
      PROVE  /\ FailedAt(n, p)' /\ OpenAt(n, p)' /\ JoinFirst(n, p)'
             /\ FreshAt(n, p)' /\ WrittenAt(n, p)' /\ AnsweredAt(n, p)'
             /\ AckAt(n, p)' /\ ViewAt(n, p)'
  <2>1. /\ FailedAt(n, p) /\ OpenAt(n, p) /\ JoinFirst(n, p)
        /\ FreshAt(n, p) /\ WrittenAt(n, p) /\ AnsweredAt(n, p)
        /\ AckAt(n, p) /\ ViewAt(n, p)
    BY CInvAt
  <2>2. /\ Id(p) \in Node /\ OtherEnd(n, p) \in Peer
    BY Kinds
  <2>3. /\ FailedAt(n, p)' /\ JoinFirst(n, p)' /\ WrittenAt(n, p)'
    BY <1>1, <1>3, <1>4, <2>1, <2>2 DEF FailedAt, JoinFirst, WrittenAt
  <2>4. ViewAt(n, p)' /\ OpenAt(n, p)'
    BY <1>1, <1>2, <1>3, <1>4, <2>1 DEF ViewAt, OpenAt
  <2>5. Opened(Id(p), OtherEnd(n, p))' <=> Opened(Id(p), OtherEnd(n, p))
    BY <1>1, <1>4, <2>2 DEF Opened
  <2>6. AnsweredAt(n, p)' /\ AckAt(n, p)'
    BY <1>1, <1>3, <1>4, <2>1, <2>2, <2>5 DEF AnsweredAt, AckAt
  <2>7. FreshAt(n, p)'
    <3>1. p[2] = "called" => ~(n = a /\ p = c)
      BY <1>2
    <3>2. QED
      BY <1>1, <1>3, <1>4, <2>1, <2>2, <3>1 DEF FreshAt
  <2>8. QED
    BY <2>1, <2>3, <2>4, <2>6, <2>7
<1>9. QED
  BY <1>5, <1>6, <1>7, <1>8 DEF CInv

-----------------------------------------------------------------------------
(* Whom a node may write to                                                *)

\* The operations of Group bring in no other Peers.
LEMMA TouchedByOperations ==
    ASSUME NEW n \in Node, NEW g \in Group, NEW p \in Peer
    PROVE  /\ Touched(UpdateNeighbours(g, n)) \subseteq Touched(g)
           /\ Touched(AddToRings(g, p)) \subseteq Touched(g) \cup {p}
           /\ Touched(AddPeer(g, p)) \subseteq Touched(g) \cup {p}
           /\ Touched(RemovePeer(g, p)) \subseteq Touched(g)
           /\ Touched(NewGroup) = {}
           /\ \A h \in Group : Touched(AddGroupToRings(NewGroup, h)) \subseteq Touched(h)
<1> USE DEF Touched, Group
<1>1. Touched(UpdateNeighbours(g, n)) \subseteq Touched(g)
  <2>1. CASE NoNeighbour(g.ring, n)
    BY <2>1 DEF UpdateNeighbours
  <2>2. CASE ~NoNeighbour(g.ring, n)
    <3>1. Predecessors(g.ring, n) \cup Successors(g.ring, n) \subseteq g.ring
      <4>1. g.ring # {}
        BY <2>2 DEF NoNeighbour, Ids
      <4>2. Local(n) \in Peer
        BY DEF Local, Peer, PeerKind
      <4>3. QED
        BY <4>1, <4>2, NeighbourInRing DEF Predecessors, Successors
    <3>2. UpdateNeighbours(g, n) = [g EXCEPT !.preds = Predecessors(g.ring, n),
                                             !.succs = Successors(g.ring, n)]
      BY <2>2 DEF UpdateNeighbours
    <3>3. QED
      BY <3>1, <3>2
  <2>3. QED
    BY <2>1, <2>2
<1>2. /\ Touched(AddToRings(g, p)) \subseteq Touched(g) \cup {p}
      /\ Touched(AddPeer(g, p)) \subseteq Touched(g) \cup {p}
  BY DEF AddToRings, AddPeer, Put, InsertNew
<1>3. Touched(RemovePeer(g, p)) \subseteq Touched(g)
  BY DEF RemovePeer, EraseId
<1>4. Touched(NewGroup) = {}
  BY DEF NewGroup
<1>5. \A h \in Group : Touched(AddGroupToRings(NewGroup, h)) \subseteq Touched(h)
  BY DEF AddGroupToRings, NewGroup, PutAll
<1>6. QED
  BY <1>1, <1>2, <1>3, <1>4, <1>5

\* Where it is looked up
LEMMA WrittenFrom ==
    ASSUME NEW n \in Node, NEW K,
           /\ peers'[n] \subseteq Written(n) \cup K
           /\ readyTimers'[n] \subseteq Written(n) \cup K
           /\ joinTimers'[n] \subseteq Written(n) \cup K
           /\ \A g \in GroupId : Touched(groups'[n][g]) \subseteq Written(n) \cup K
    PROVE  Written(n)' \subseteq Written(n) \cup K
<1>1. Written(n)' = {Local(n)} \cup peers'[n] \cup readyTimers'[n] \cup joinTimers'[n]
                       \cup UNION {Touched(groups'[n][g]) : g \in GroupId}
  BY DEF Written, Touched, Local
<1>2. UNION {Touched(groups'[n][g]) : g \in GroupId} \subseteq Written(n) \cup K
  OBVIOUS
<1>3. Local(n) \in Written(n)
  BY DEF Written
<1>4. QED
  BY <1>1, <1>2, <1>3

LEMMA WrittenParts ==
    ASSUME NEW n \in Node
    PROVE  /\ peers[n] \cup readyTimers[n] \cup joinTimers[n] \subseteq Written(n)
           /\ \A g \in GroupId :
                 /\ Touched(groups[n][g]) \subseteq Written(n)
                 /\ groups[n][g].succs \subseteq Written(n)
                 /\ Neighbours(groups[n][g]) \subseteq Written(n)
                 /\ groups[n][g].members \subseteq Written(n)
  BY DEF Written, Touched, Neighbours

\* Nothing is looked up elsewhere.
LEMMA WrittenKept ==
    ASSUME NEW n \in Node, UNCHANGED <<peers[n], readyTimers[n], joinTimers[n], groups[n]>>
    PROVE  Written(n)' = Written(n)
  BY DEF Written

-----------------------------------------------------------------------------
(* An acknowledgement is read                                              *)

\* The emitter is known, and in the view, from then on.
LEMMA AckEffects ==
    ASSUME IInv, NEW a \in Node, NEW c \in Peer, HandleJoinAck(a, c)
    PROVE  /\ Running(a) /\ c \in conns[a] /\ AckFirst(inbox[a][c])
           /\ UNCHANGED <<status, ui, entry, logs, conns, backlog, reset>>
           /\ \A n \in Node, p \in Peer :
                 /\ Known(n, p)' <=> Known(n, p) \/ (n = a /\ p = c)
                 /\ p \in peers'[n] => p \in peers[n] \/ (n = a /\ p = c)
                 /\ p \in Written(n)' => p \in Written(n) \/ (n = a /\ p = c)
                 /\ inbox'[n][p] = IF n = a /\ p = c THEN Tail(inbox[n][p])
                                   ELSE inbox[n][p]
           /\ \A n \in Node, k \in Addr :
                 newPeers'[n][k] = IF n = a /\ k = AddrOfPeer(c) THEN NoEntry
                                   ELSE newPeers[n][k]
<1> DEFINE h == Head(inbox[a][c]).group
           first == h \notin groupIds[a] /\ localGroup[a] = NoGroup
           g == CASE h \in groupIds[a] -> groups[a][h]
                  [] first -> NewGroup
                  [] OTHER -> AddGroupToRings(NewGroup, groups[a][localGroup[a]])
<1>1. /\ Reads(a, c, "JOIN_ACK")
      /\ groups' = [groups EXCEPT ![a][h] = AddPeer(g, c)]
      /\ peerState' = [peerState EXCEPT ![a][c] = "CONNECTED"]
      /\ newPeers' = [newPeers EXCEPT ![a][AddrOfPeer(c)] = NoEntry]
      /\ peers' = [peers EXCEPT ![a] = Put(@, c)]
      /\ inbox' = Consume(a, c)
      /\ UNCHANGED <<procVars, readyTimers, joinTimers, logs, conns, backlog, reset>>
  BY DEF HandleJoinAck, Identified
<1>2. TypeOK
  BY DEF IInv
<1>3. h \in GroupId
  BY <1>1, <1>2, ReadType, MessageFields DEF Reads
<1>4. g \in Group /\ Touched(g) \subseteq Written(a)
  <2>1. groups[a][h] \in Group /\ NewGroup \in Group
    BY <1>2, <1>3 DEF TypeOK, Group, NewGroup
  <2>2. CASE h \in groupIds[a]
    BY <1>3, <2>1, <2>2, WrittenParts
  <2>3. CASE h \notin groupIds[a] /\ first
    BY <2>1, <2>3, TouchedByOperations, Kinds
  <2>4. CASE h \notin groupIds[a] /\ ~first
    <3>1. localGroup[a] \in GroupId
      BY <1>2, <2>4 DEF TypeOK
    <3>2. groups[a][localGroup[a]] \in Group
      BY <1>2, <3>1 DEF TypeOK
    <3>3. g = AddGroupToRings(NewGroup, groups[a][localGroup[a]])
      BY <2>4
    <3>4. /\ AddGroupToRings(NewGroup, groups[a][localGroup[a]]) \in Group
          /\ Touched(AddGroupToRings(NewGroup, groups[a][localGroup[a]]))
                \subseteq Touched(groups[a][localGroup[a]])
      BY <2>1, <3>2, TouchedByOperations, GroupOperationsType
    <3>5. QED
      BY <3>1, <3>3, <3>4, WrittenParts
  <2>5. QED
    BY <2>2, <2>3, <2>4
<1> HIDE DEF h, g
<1>5. Touched(AddPeer(g, c)) \subseteq Written(a) \cup {c}
  BY <1>4, TouchedByOperations
<1>6. Written(a)' \subseteq Written(a) \cup {c}
  <2>1. \A i \in GroupId : Touched(groups'[a][i]) \subseteq Written(a) \cup {c}
    <3> SUFFICES ASSUME NEW i \in GroupId
                 PROVE  Touched(groups'[a][i]) \subseteq Written(a) \cup {c}
      OBVIOUS
    <3>1. groups'[a][i] = IF i = h THEN AddPeer(g, c) ELSE groups[a][i]
      BY <1>1, <1>2, <1>3 DEF TypeOK
    <3>2. QED
      BY <1>5, <3>1, WrittenParts
  <2>2. /\ peers'[a] \subseteq Written(a) \cup {c}
        /\ readyTimers'[a] \subseteq Written(a) \cup {c}
        /\ joinTimers'[a] \subseteq Written(a) \cup {c}
    BY <1>1, <1>2, WrittenParts DEF TypeOK, Put
  <2>3. QED
    BY <2>1, <2>2, WrittenFrom
<1>7. \A n \in Node : n # a => Written(n)' = Written(n)
  <2> SUFFICES ASSUME NEW n \in Node, n # a
               PROVE  Written(n)' = Written(n)
    OBVIOUS
  <2>1. UNCHANGED <<peers[n], readyTimers[n], joinTimers[n], groups[n]>>
    BY <1>1, <1>2 DEF TypeOK
  <2>2. QED
    BY <2>1, WrittenKept
<1>8. /\ Running(a) /\ c \in conns[a] /\ AckFirst(inbox[a][c])
      /\ UNCHANGED <<status, ui, entry, logs, conns, backlog, reset>>
  BY <1>1 DEF Reads, AckFirst, procVars
<1>9. \A n \in Node, p \in Peer :
         Known(n, p)' <=> Known(n, p) \/ (n = a /\ p = c)
  <2>1. \A n \in Node, p \in Peer :
           peerState'[n][p] = IF n = a /\ p = c THEN "CONNECTED" ELSE peerState[n][p]
    BY <1>1, <1>2 DEF TypeOK
  <2>2. QED
    BY <2>1 DEF Known
<1>10. \A n \in Node, p \in Peer :
          /\ p \in peers'[n] => p \in peers[n] \/ (n = a /\ p = c)
          /\ inbox'[n][p] = IF n = a /\ p = c THEN Tail(inbox[n][p])
                            ELSE inbox[n][p]
  BY <1>1, <1>2 DEF TypeOK, Put, Consume
<1>11. \A n \in Node, k \in Addr :
          newPeers'[n][k] = IF n = a /\ k = AddrOfPeer(c) THEN NoEntry
                            ELSE newPeers[n][k]
  BY <1>1, <1>2, EntryType DEF TypeOK
<1>12. \A n \in Node, p \in Peer :
          p \in Written(n)' => p \in Written(n) \/ (n = a /\ p = c)
  BY <1>6, <1>7
<1>13. QED
  BY <1>8, <1>9, <1>10, <1>11, <1>12

LEMMA AckReadKeeps ==
    ASSUME CInv, IInv, NEW a \in Node, NEW c \in Peer, HandleJoinAck(a, c)
    PROVE  CInv'
<1>1. /\ Running(a) /\ c \in conns[a] /\ AckFirst(inbox[a][c])
      /\ UNCHANGED <<status, ui, entry, logs, conns, backlog, reset>>
      /\ \A n \in Node, p \in Peer :
            /\ Known(n, p)' <=> Known(n, p) \/ (n = a /\ p = c)
            /\ p \in peers'[n] => p \in peers[n] \/ (n = a /\ p = c)
            /\ p \in Written(n)' => p \in Written(n) \/ (n = a /\ p = c)
            /\ inbox'[n][p] = IF n = a /\ p = c THEN Tail(inbox[n][p])
                              ELSE inbox[n][p]
      /\ \A n \in Node, k \in Addr :
            newPeers'[n][k] = IF n = a /\ k = AddrOfPeer(c) THEN NoEntry
                              ELSE newPeers[n][k]
  BY AckEffects
<1>2. TypeOK
  BY DEF IInv
<1>3. \A n \in Node, p \in Peer :
         /\ n # a \/ p # c => inbox'[n][p] = inbox[n][p]
         /\ Range(inbox'[n][p]) \subseteq Range(inbox[n][p])
         /\ Rest(inbox'[n][p]) \subseteq Rest(inbox[n][p])
  <2>1. inbox[a][c] \in Seq(Message) /\ inbox[a][c] # <<>>
    BY <1>1, <1>2 DEF TypeOK, AckFirst
  <2>2. /\ Range(Tail(inbox[a][c])) \subseteq Range(inbox[a][c])
        /\ Rest(Tail(inbox[a][c])) \subseteq Rest(inbox[a][c])
    BY <2>1, TailParts, EmptyParts
  <2>3. QED
    BY <1>1, <2>2
<1>4. Range(inbox'[a][c]) \subseteq Rest(inbox[a][c])
  BY <1>1, <1>2, TailParts DEF TypeOK, AckFirst
<1>5. PICK e0 \in Range(inbox[a][c]) : e0.type = "JOIN_ACK"
  BY <1>1, <1>2, TailParts DEF TypeOK, AckFirst
<1>6. /\ OpenAt(a, c) /\ FailedAt(a, c)
      /\ Id(c) \in Node /\ OtherEnd(a, c) \in Peer
      /\ OtherEnd(Id(c), OtherEnd(a, c)) = c /\ Id(OtherEnd(a, c)) = a
  BY CInvAt, Kinds
\* c is the Peer of the node that asked.
<1>7. c[2] \in Asking /\ OtherEnd(a, c)[2] \in Answering
  <2>1. c[2] \notin Answering
    <3>1. AnsweredAt(a, c)
      BY CInvAt
    <3>2. QED
      BY <1>5, <3>1 DEF AnsweredAt
  <2>2. c[2] # "local"
    BY <1>1, <1>6 DEF OpenAt
  <2>3. QED
    BY <2>1, <2>2, Kinds DEF OtherEnd, OtherKind, Asking, Answering, PeerKind
<1>8. /\ Known(Id(c), OtherEnd(a, c)) /\ ~Known(a, c)
      /\ \A e \in Rest(inbox[a][c]) : e.type # "JOIN_ACK"
  <2>1. AnsweredAt(Id(c), OtherEnd(a, c)) /\ AckAt(Id(c), OtherEnd(a, c))
    BY <1>6, CInvAt
  <2>2. QED
    BY <1>1, <1>5, <1>6, <1>7, <2>1 DEF AnsweredAt, AckAt, Opened
<1>9. /\ \A n \in Node : /\ Up(n)' <=> Up(n)
                         /\ Running(n)' <=> Running(n)
      /\ \A n, x \in Node : Heard(n, x)' <=> Heard(n, x)
  BY <1>1 DEF Up, Running, Heard
<1>10. Notifs' \subseteq Notifs \cup {}
  <2>1. \A n \in Node, p \in Peer : \A e \in Range(inbox'[n][p]) :
           e.type = "JOIN_NOTIF" => e \in Notifs
    BY <1>3, NotifsAre
  <2>2. \A n \in Node : \A e \in logs'[n] : e.type = "JOIN_NOTIF" => e \in Notifs
    BY <1>1, NotifsAre
  <2>3. QED
    BY <2>1, <2>2, NewNotifs
<1>11. \A x \in Node : Unheard(x) => Unheard(x)'
  BY <1>10 DEF Unheard
<1>12. AnnouncedOnce'
  BY <1>10 DEF CInv, AnnouncedOnce
<1>13. ASSUME NEW n \in Node, NEW k \in Addr
       PROVE  NewPeerAt(n, k)'
  <2>1. PICK p : p = newPeers'[n][k].peer
    OBVIOUS
  <2>2. SUFFICES ASSUME p # NoPeer
                 PROVE  /\ k = AddrOfPeer(p) /\ p[2] \in {"joiner", "entry", "caller"}
                        /\ p[2] \in Asking => ~Known(n, p)'
                        /\ p \in conns'[n] \cup reset'[n] \/ ~(Up(Id(p)))'
    BY <2>1 DEF NewPeerAt
  <2>3. ~(n = a /\ k = AddrOfPeer(c))
    BY <1>1, <2>1, <2>2 DEF NoEntry
  <2>4. p = newPeers[n][k].peer
    BY <1>1, <2>1, <2>3
  <2>5. p \in Peer /\ Id(p) \in Node
    BY <1>2, <2>2, <2>4, Kinds DEF TypeOK, NewPeerEntry
  <2>6. /\ k = AddrOfPeer(p) /\ p[2] \in {"joiner", "entry", "caller"}
        /\ p[2] \in Asking => ~Known(n, p)
        /\ p \in conns[n] \cup reset[n] \/ ~Up(Id(p))
    BY <2>2, <2>4, CInvNew DEF NewPeerAt
  <2>7. QED
    BY <1>1, <1>9, <2>3, <2>5, <2>6
<1>14. ASSUME NEW n \in Node, NEW x \in Node
       PROVE  BeforeJoin(n, x)' /\ JoinerAt(n, x)'
  <2> DEFINE p == <<n, "joiner">>
             q == <<x, "joiner">>
  <2>1. p \in Peer /\ q \in Peer /\ p # c /\ q # c
    BY <1>7, JoinerPeers DEF Asking
  <2>2. BeforeJoin(n, x) /\ JoinerAt(n, x)
    BY CInvNodes
  <2> HIDE DEF p, q
  <2>3. JoinerAt(n, x)'
    <3>1. InNew(n, q)' => InNew(n, q)
      BY <1>1, <2>1, NetworkAssumption DEF InNew, NoEntry
    <3>2. JoinMsg \in Range(inbox'[n][q]) => JoinMsg \in Range(inbox[n][q])
      BY <1>3, <2>1
    <3>3. QED
      BY <1>1, <1>11, <2>2, <3>1, <3>2 DEF JoinerAt, q
  <2>4. BeforeJoin(n, x)'
    <3>1. (Known(x, p)' <=> Known(x, p)) /\ inbox'[x][p] = inbox[x][p]
      BY <1>1, <2>1
    <3>2. QED
      BY <1>1, <1>9, <1>11, <2>2, <3>1 DEF BeforeJoin, p
  <2>5. QED
    BY <2>3, <2>4
<1>15. ASSUME NEW n \in Node, NEW p \in Peer
       PROVE  /\ FailedAt(n, p)' /\ OpenAt(n, p)' /\ JoinFirst(n, p)'
              /\ FreshAt(n, p)' /\ WrittenAt(n, p)' /\ AnsweredAt(n, p)'
              /\ AckAt(n, p)' /\ ViewAt(n, p)'
  <2> DEFINE r == Id(p)
             q == OtherEnd(n, p)
  <2>1. /\ FailedAt(n, p) /\ OpenAt(n, p) /\ JoinFirst(n, p)
        /\ FreshAt(n, p) /\ WrittenAt(n, p) /\ AnsweredAt(n, p)
        /\ AckAt(n, p) /\ ViewAt(n, p)
    BY CInvAt
  <2>2. /\ r \in Node /\ q \in Peer /\ OtherEnd(r, q) = p /\ Id(q) = n
        /\ p[2] \in Answering => q[2] \in Asking
    BY Kinds
  <2> HIDE DEF r, q
  <2>3. FailedAt(n, p)' /\ OpenAt(n, p)'
    BY <1>1, <1>3, <1>9, <2>1, <2>2 DEF FailedAt, OpenAt, r
  <2>4. WrittenAt(n, p)' /\ ViewAt(n, p)'
    BY <1>1, <1>9, <2>1 DEF WrittenAt, ViewAt
  <2>5. JoinFirst(n, p)'
    BY <1>1, <1>3, <1>7, <2>1 DEF JoinFirst, Asking
  <2>6. p[2] \in Answering => /\ inbox'[n][p] = inbox[n][p]
                              /\ Known(n, p)' <=> Known(n, p)
                              /\ p \in Written(n)' => p \in Written(n)
    BY <1>1, <1>7 DEF Asking, Answering
  <2>7. FreshAt(n, p)'
    <3>1. SUFFICES ASSUME p[2] \in Answering, ~Heard(n, r)
                   PROVE  FreshAt(n, p)'
      BY <1>9, <2>2 DEF FreshAt, r
    <3>2. Silent(inbox[r][q])
      BY <2>1, <3>1 DEF FreshAt, r, q
    <3>3. ~(r = a /\ q = c)
      BY <1>5, <3>2, Kinds DEF Silent, Failure
    <3>4. /\ Known(r, q)' <=> Known(r, q)
          /\ q \in Written(r)' => q \in Written(r)
          /\ inbox'[r][q] = inbox[r][q]
      BY <1>1, <2>2, <3>3
    <3>5. QED
      BY <1>1, <1>9, <2>1, <2>2, <2>6, <3>1, <3>4 DEF FreshAt, r, q
  <2>8. CASE p[2] \in Answering /\ r = a /\ q = c
    <3>1. Known(r, q)' /\ Known(n, p)
      BY <1>1, <1>6, <1>8, <2>2, <2>8 DEF r, q
    <3>2. \A e \in Range(inbox'[r][q]) : e.type # "JOIN_ACK"
      BY <1>4, <1>8, <2>8
    <3>3. QED
      BY <2>1, <2>3, <2>4, <2>5, <2>6, <2>7, <2>8, <3>1, <3>2
         DEF AnsweredAt, AckAt, Opened, r, q
  <2>9. CASE p[2] \in Answering /\ ~(r = a /\ q = c)
    <3>1. /\ inbox'[r][q] = inbox[r][q]
          /\ Known(r, q)' <=> Known(r, q)
          /\ Opened(r, q)' <=> Opened(r, q)
      BY <1>1, <2>2, <2>9 DEF Opened
    <3>2. AnsweredAt(n, p)' /\ AckAt(n, p)'
      BY <1>1, <1>9, <2>1, <2>2, <2>6, <2>9, <3>1 DEF AnsweredAt, AckAt, r, q
    <3>3. QED
      BY <2>3, <2>4, <2>5, <2>7, <3>2
  <2>10. CASE p[2] \notin Answering
    BY <2>3, <2>4, <2>5, <2>7, <2>10 DEF AnsweredAt, AckAt
  <2>11. QED
    BY <2>8, <2>9, <2>10
<1>16. QED
  BY <1>12, <1>13, <1>14, <1>15 DEF CInv

-----------------------------------------------------------------------------
(* A node answers a request                                                *)

\* Node a announces the node of c, once.
Announces(a, c) ==
    /\ ~Heard(a, Id(c)) /\ Heard(a, Id(c))'
    /\ \A n \in Node : logs[n] \subseteq logs'[n]
    /\ \E e : /\ Notifs' \subseteq Notifs \cup {e} /\ e.peer = Id(c)
              /\ c[2] = "joiner" => Unheard(Id(c))
              /\ c[2] = "called" => e \in Notifs

\* A member calls the node that joins; whoever has called the member is read,
\* or is done with.
Connects(a, c) ==
    /\ UNCHANGED <<status, ui, entry>>
    /\ \A n \in Node, p \in Peer :
          /\ p \in conns'[n] <=>
                p \in conns[n] \/ (c[2] = "called" /\ n = a /\ p = c)
          /\ p \in backlog'[n] <=>
                \/ p \in backlog[n]
                \/ c[2] = "called" /\ n = Id(c) /\ p = OtherEnd(a, c)
          /\ p \in reset[n] => p \in reset'[n]
          /\ p \in reset'[n] /\ p \notin reset[n] =>
                n = a /\ ~Up(Id(p)) /\ (p \in Written(a) \/ p = c)
    /\ c \notin backlog[a]
    /\ c \in conns'[a] \cup reset'[a]

\* c is known from then on, and waits no more.
Identifies(a, c) ==
    /\ \A n \in Node, p \in Peer :
          /\ Known(n, p)' <=> Known(n, p) \/ (n = a /\ p = c)
          /\ p \in Written(n)' => p \in Written(n) \/ (n = a /\ p = c)
          /\ p \in peers'[n] => p \in peers[n] \/ (n = a /\ p = c)
    /\ \A n \in Node, k \in Addr :
          newPeers'[n][k].peer \in {newPeers[n][k].peer, NoPeer}
    /\ c[2] = "joiner" =>
          /\ entry[Id(c)] = a /\ a # Id(c)
          /\ Known(a, c) \/ JoinMsg \in Range(inbox[a][c])
          /\ newPeers'[a][AddrOfPeer(c)].peer = NoPeer

\* The acknowledgement is what the other end of c has to read.
Acknowledges(a, c) ==
    /\ JoinMsg \notin Range(inbox'[a][c])
    /\ \A r \in Node, q \in Peer :
          IF r = Id(c) /\ q = OtherEnd(a, c)
          THEN \E m \in Message :
                  /\ m.type = "JOIN_ACK"
                  /\ inbox'[r][q] = IF Up(r) THEN Append(inbox[r][q], m)
                                    ELSE inbox[r][q]
          ELSE Streams(inbox[r][q], inbox'[r][q], More(r, q))

Answers(a, c) ==
    /\ Running(a) /\ c[2] \in Answering
    /\ Announces(a, c) /\ Connects(a, c) /\ Identifies(a, c) /\ Acknowledges(a, c)

\* What is there where node a has not answered
LEMMA Unanswered ==
    ASSUME CInv, TypeOK, NEW a \in Node, NEW c \in Peer,
           Running(a), c[2] \in Answering, ~Heard(a, Id(c))
    PROVE  LET r == Id(c)
               q == OtherEnd(a, c)
           IN  /\ r \in Node /\ q \in Peer /\ q[2] \in Asking
               /\ inbox[r][q] = <<>> /\ ~Known(r, q) /\ q \notin Written(r)
               /\ q \notin reset[r] /\ c \notin Written(a) /\ c \notin reset[a]
               /\ Up(r) => Range(inbox[a][c]) \subseteq {JoinMsg}
               /\ Range(inbox[a][c]) \subseteq Failure \cup {JoinMsg}
               /\ c[2] = "called" =>
                     /\ c \notin conns[a] /\ ~Known(a, c)
                     /\ q \notin backlog[r] \cup conns[r]
<1> DEFINE r == Id(c)
           q == OtherEnd(a, c)
<1>1. r \in Node /\ q \in Peer /\ Id(q) = a /\ q[2] \in Asking
  BY Kinds
<1>2. FreshAt(a, c) /\ FailedAt(r, q) /\ FailedAt(a, c)
  BY <1>1, CInvAt
<1> HIDE DEF r, q
<1>3. Up(a)
  BY DEF Running, Up
<1>4. /\ c \notin Written(a) /\ c \notin reset[a]
      /\ ~Known(r, q) /\ q \notin Written(r) /\ Silent(inbox[r][q])
      /\ Range(inbox[a][c]) \subseteq Failure \cup {JoinMsg}
      /\ c[2] = "called" =>
            /\ c \notin conns[a] /\ ~Known(a, c)
            /\ q \notin backlog[r] \cup conns[r]
  BY <1>2 DEF FreshAt, r, q
<1>5. Range(inbox[r][q]) = {} /\ q \notin reset[r]
  BY <1>1, <1>2, <1>3, <1>4 DEF FailedAt, Silent
<1>6. inbox[r][q] = <<>>
  <2>1. inbox[r][q] \in Seq(Message)
    BY <1>1 DEF TypeOK
  <2>2. QED
    BY <1>5, <2>1, EmptyParts
<1>7. Up(r) => Range(inbox[a][c]) \subseteq {JoinMsg}
  BY <1>2, <1>4 DEF FailedAt, r
<1>8. QED
  BY <1>1, <1>4, <1>5, <1>6, <1>7 DEF r, q

\* The far end of the connection has one thing to read, if it can.
LEMMA AnswerRead ==
    ASSUME CInv, TypeOK, NEW a \in Node, NEW c \in Peer, Answers(a, c)
    PROVE  LET r == Id(c)
               s == inbox'[r][OtherEnd(a, c)]
           IN  /\ Rest(s) = {} /\ \A m \in Range(s) : m.type = "JOIN_ACK"
               /\ Up(r) => AckFirst(s)
               /\ ~Up(r) => Range(s) = {}
<1> DEFINE r == Id(c)
           q == OtherEnd(a, c)
<1>1. r \in Node /\ q \in Peer /\ inbox[r][q] = <<>>
  BY Unanswered DEF Answers, Announces
<1>2. inbox[r][q] \in Seq(Message)
  BY <1>1 DEF TypeOK
<1> HIDE DEF r, q
<1>3. PICK m \in Message :
         /\ m.type = "JOIN_ACK"
         /\ inbox'[r][q] = IF Up(r) THEN Append(inbox[r][q], m) ELSE inbox[r][q]
  BY <1>1 DEF Answers, Acknowledges, r, q
<1>4. /\ Range(inbox[r][q]) = {} /\ Rest(inbox[r][q]) = {}
  BY <1>1, <1>2, EmptyParts
<1>5. PICK s : s = inbox'[r][q]
  OBVIOUS
<1>6. /\ Rest(s) = {} /\ \A e \in Range(s) : e.type = "JOIN_ACK"
      /\ Up(r) => AckFirst(s)
      /\ ~Up(r) => Range(s) = {}
  <2>1. CASE Up(r)
    <3>1. s = Append(inbox[r][q], m)
      BY <1>3, <1>5, <2>1
    <3>2. Range(s) = {m} /\ Rest(s) = {} /\ AckFirst(s)
      <4>1. PICK e \in Seq(Message) : e = inbox[r][q]
        BY <1>2
      <4>2. e = <<>> /\ Range(e) = {} /\ s = Append(e, m) /\ m.type = "JOIN_ACK"
        BY <1>1, <1>3, <1>4, <3>1, <4>1
      <4>3. /\ Range(Append(e, m)) = Range(e) \cup {m}
            /\ e = <<>> => Rest(Append(e, m)) = {}
            /\ e = <<>> => (AckFirst(Append(e, m)) <=> m.type = "JOIN_ACK")
        BY AppendParts
      <4>4. QED
        BY <4>2, <4>3
    <3>3. QED
      BY <1>3, <2>1, <3>2
  <2>2. CASE ~Up(r)
    BY <1>3, <1>4, <1>5, <2>2
  <2>3. QED
    BY <2>1, <2>2
<1>7. QED
  BY <1>5, <1>6 DEF r, q

\* The connections on which a has answered, or where it is not a that answers,
\* go on as they were.
LEMMA AnswerElse ==
    ASSUME CInv, TypeOK, TypeOK', NEW a \in Node, NEW c \in Peer, Answers(a, c),
           NEW n \in Node, NEW p \in Peer, p[2] \in Answering, n # a \/ p # c
    PROVE  FreshAt(n, p)' /\ AnsweredAt(n, p)' /\ AckAt(n, p)'
<1> DEFINE r == Id(p)
           q == OtherEnd(n, p)
<1>1. /\ r \in Node /\ q \in Peer /\ q[2] \in Asking
      /\ c[2] \in Answering /\ q # c
  BY Kinds DEF Answers, Answering, Asking
<1>2. /\ ~(r = Id(c) /\ q = OtherEnd(a, c))
      /\ ~(n = Id(c) /\ p = OtherEnd(a, c))
  <2>1. OtherEnd(a, c)[2] \in Asking
    BY <1>1, Kinds
  <2>2. r = Id(c) /\ q = OtherEnd(a, c) => n = a /\ p = c
    <3>1. Id(q) = n /\ OtherEnd(r, q) = p
      BY Kinds
    <3>2. Id(OtherEnd(a, c)) = a /\ OtherEnd(Id(c), OtherEnd(a, c)) = c
      BY Kinds
    <3> HIDE DEF r, q
    <3>3. QED
      BY <3>1, <3>2
  <2>3. QED
    BY <2>1, <2>2 DEF Answering, Asking
<1>3. UNCHANGED status /\ Up(n)' = Up(n) /\ Up(r)' = Up(r)
  BY DEF Answers, Connects, Up
<1>4. Heard(n, r) => Heard(n, r)'
  BY DEF Answers, Announces, Heard
<1> HIDE DEF r, q
<1>5. /\ p \in Written(n)' => p \in Written(n)
      /\ q \in Written(r)' => q \in Written(r)
      /\ Known(n, p)' <=> Known(n, p)
      /\ Known(r, q)' <=> Known(r, q)
  BY <1>1 DEF Answers, Identifies
<1>6. /\ Streams(inbox[n][p], inbox'[n][p], More(n, p))
      /\ Streams(inbox[r][q], inbox'[r][q], More(r, q))
  BY <1>1, <1>2 DEF Answers, Acknowledges
<1>7. /\ p \in reset'[n] => p \in reset[n] \/ p \in Written(n)
      /\ q \in reset'[r] => q \in reset[r] \/ q \in Written(r)
      /\ p \in conns'[n] => p \in conns[n]
      /\ q \in conns'[r] => q \in conns[r]
      /\ q \in backlog'[r] => q \in backlog[r]
  BY <1>1, <1>2 DEF Answers, Connects
<1>8. PairKept(n, p)
  BY <1>3, <1>4, <1>5, <1>6, <1>7 DEF PairKept, r, q
<1>9. QED
  BY <1>8, PairFresh, PairAnswered

\* On the connection itself, the acknowledgement waits at the other end.
LEMMA AnswerHere ==
    ASSUME CInv, TypeOK, TypeOK', NEW a \in Node, NEW c \in Peer, Answers(a, c)
    PROVE  FreshAt(a, c)' /\ AnsweredAt(a, c)' /\ AckAt(a, c)'
<1> DEFINE r == Id(c)
           q == OtherEnd(a, c)
<1>1. Running(a) /\ c[2] \in Answering /\ ~Heard(a, Id(c)) /\ Heard(a, Id(c))'
  BY DEF Answers, Announces
<1>2. /\ r \in Node /\ q \in Peer /\ q[2] \in Asking /\ Id(q) = a
      /\ ~Known(r, q) /\ q \notin Written(r) /\ q \notin reset[r]
      /\ Up(r) => Range(inbox[a][c]) \subseteq {JoinMsg}
      /\ Range(inbox[a][c]) \subseteq Failure \cup {JoinMsg}
  BY <1>1, Unanswered, Kinds
<1>3. /\ UNCHANGED status /\ (Up(r)' <=> Up(r)) /\ Up(a)
  BY <1>1 DEF Answers, Connects, Up, Running
<1>4. FreshAt(a, c)'
  BY <1>1 DEF FreshAt
<1>5. /\ Rest(inbox'[r][q]) = {}
      /\ \A m \in Range(inbox'[r][q]) : m.type = "JOIN_ACK"
      /\ Up(r) => AckFirst(inbox'[r][q])
      /\ ~Up(r) => Range(inbox'[r][q]) = {}
  BY AnswerRead
<1>6. /\ ~(a = Id(c) /\ c = OtherEnd(a, c)) /\ q # c
  BY <1>1, <1>2 DEF Answering, Asking
<1>7. Range(inbox'[a][c]) \subseteq Range(inbox[a][c])
  <2>1. OtherEnd(a, c) = q /\ Id(c) = r
    OBVIOUS
  <2>2. More(a, c) = {}
    BY <1>2, <2>1 DEF More, Addressed
  <2>3. Streams(inbox[a][c], inbox'[a][c], More(a, c))
    BY <1>6 DEF Answers, Acknowledges
  <2>4. QED
    BY <2>2, <2>3 DEF Streams
<1>8. JoinMsg \notin Range(inbox'[a][c])
  BY DEF Answers, Acknowledges
<1> HIDE DEF r, q
<1>9. ~Known(r, q)' /\ Known(a, c)'
  BY <1>2, <1>6 DEF Answers, Identifies
<1>10. q \notin reset'[r]
  BY <1>2, <1>3 DEF Answers, Connects
<1>11. Up(r) => Range(inbox'[a][c]) = {}
  BY <1>2, <1>7, <1>8
<1>12. Up(r) => inbox'[a][c] = <<>>
  <2>1. inbox'[a][c] \in Seq(Message)
    BY DEF TypeOK
  <2>2. QED
    BY <1>11, <2>1, EmptyParts
<1>13. JoinMsg.type # "JOIN_ACK" /\ Rst.type # "JOIN_ACK" /\ Eof.type # "JOIN_ACK"
  BY Kinds
<1>14. AnsweredAt(a, c)'
  BY <1>2, <1>3, <1>5, <1>7, <1>9, <1>13 DEF AnsweredAt, Opened, Silent, Failure, r, q
<1>15. AckAt(a, c)'
  BY <1>2, <1>3, <1>5, <1>9, <1>10, <1>12, <1>13 DEF AckAt, r, q
<1>16. QED
  BY <1>4, <1>14, <1>15

\* The node that is answered is no one else that waits or has yet to ask.
LEMMA AnswerUnheard ==
    ASSUME NEW a \in Node, NEW c \in Peer, Answers(a, c), NEW x \in Node,
           Unheard(x), c[2] = "joiner" => x # Id(c)
    PROVE  x # Id(c) /\ Unheard(x)'
<1>1. PICK e : /\ Notifs' \subseteq Notifs \cup {e} /\ e.peer = Id(c)
               /\ c[2] = "called" => e \in Notifs
  BY DEF Answers, Announces
<1>2. c[2] \in {"joiner", "called"}
  BY DEF Answers, Answering
<1>3. QED
  BY <1>1, <1>2 DEF Unheard

LEMMA AnswerBeforeJoin ==
    ASSUME CInv, TypeOK, TypeOK', NEW a \in Node, NEW c \in Peer, Answers(a, c),
           NEW n \in Node, NEW m \in Node
    PROVE  BeforeJoin(n, m)'
<1> DEFINE p == <<n, "joiner">>
           q == <<m, "entry">>
<1>1. /\ p \in Peer /\ q \in Peer /\ Id(p) = n /\ p[2] = "joiner"
      /\ OtherEnd(m, p) = q
  BY JoinerPeers
<1>2. BeforeJoin(n, m) /\ BeforeJoin(n, a)
  BY CInvNodes
<1>3. /\ UNCHANGED <<status, ui, entry>> /\ (Running(n)' <=> Running(n))
      /\ \A r \in Node, s \in Peer : s \in conns[r] => s \in conns'[r]
      /\ p \in conns'[m] => p \in conns[m]
  BY <1>1 DEF Answers, Connects, Running
<1>4. ASSUME Running(n), entry[n] = n \/ ui[n] \in {"join", "joining"}
      PROVE  Unheard(n)' /\ ~Known(m, p)' /\ inbox'[m][p] = <<>>
  <2>1. /\ Unheard(n) /\ ~Known(m, p) /\ inbox[m][p] = <<>> /\ q \notin Written(n)
    BY <1>4, NotAsked
  <2>2. ~Known(a, p) /\ inbox[a][p] = <<>>
    BY <1>4, NotAsked
  <2> HIDE DEF p, q
  <2>3. Range(inbox[a][p]) = {} /\ Range(inbox[m][p]) = {}
    <3>1. Range(<<>>) = {}
      BY DEF Range
    <3>2. QED
      BY <2>1, <2>2, <3>1
  <2>4. p # c
    BY <1>1, <2>2, <2>3 DEF Answers, Identifies
  <2>5. c[2] = "joiner" => n # Id(c)
    <3>1. c[2] = "joiner" => c = <<Id(c), "joiner">>
      BY Kinds
    <3>2. QED
      BY <2>4, <3>1 DEF p
  <2>6. Unheard(n)'
    BY <2>1, <2>5, AnswerUnheard
  <2>7. ~Known(m, p)'
    BY <1>1, <2>1, <2>4 DEF Answers, Identifies
  <2>8. p # OtherEnd(a, c)
    BY <1>1, Kinds DEF Answers, Asking
  <2>9. More(m, p) = {}
    BY <1>1, <2>1 DEF More, Addressed
  <2>10. Range(inbox'[m][p]) = {}
    BY <1>1, <2>3, <2>8, <2>9 DEF Answers, Acknowledges, Streams
  <2>11. inbox'[m][p] \in Seq(Message)
    BY <1>1 DEF TypeOK
  <2>12. QED
    BY <2>6, <2>7, <2>10, <2>11, EmptyParts
<1>5. Running(n) /\ ui[n] \in {"join", "joining"} =>
         <<entry[n], "entry">> \in conns'[n] /\ entry[n] # n
  <2>1. <<entry[n], "entry">> \in Peer
    BY JoinerPeers DEF TypeOK
  <2>2. QED
    BY <1>2, <1>3, <2>1 DEF BeforeJoin
<1>6. QED
  BY <1>2, <1>3, <1>4, <1>5 DEF BeforeJoin

LEMMA AnswerJoiner ==
    ASSUME CInv, TypeOK, NEW a \in Node, NEW c \in Peer, Answers(a, c),
           NEW n \in Node, NEW x \in Node
    PROVE  JoinerAt(n, x)'
<1> DEFINE q == <<x, "joiner">>
           Waits == q \in backlog[n] \/ InNew(n, q) \/ JoinMsg \in Range(inbox[n][q])
<1>1. /\ q \in Peer /\ q[2] = "joiner" /\ Id(q) = x
      /\ JoinerAt(n, x)
      /\ c[2] = "joiner" /\ x = Id(c) => q = c
  <2>1. c[2] = "joiner" => c = <<Id(c), "joiner">>
    BY Kinds
  <2>2. q \in Peer /\ q[2] = "joiner" /\ Id(q) = x /\ JoinerAt(n, x)
    BY CInvNodes, JoinerPeers
  <2>3. QED
    BY <2>1, <2>2
<1> HIDE DEF q
<1>2. q # OtherEnd(a, c)
  BY <1>1, Kinds DEF Answers, Asking
<1>3. /\ q \in backlog'[n] => q \in backlog[n]
      /\ InNew(n, q)' => InNew(n, q)
      /\ JoinMsg \in Range(inbox'[n][q]) => JoinMsg \in Range(inbox[n][q])
  <2>1. q \in backlog'[n] => q \in backlog[n]
    BY <1>1, <1>2 DEF Answers, Connects
  <2>2. InNew(n, q)' => InNew(n, q)
    BY <1>1, NetworkAssumption DEF Answers, Identifies, InNew
  <2>3. JoinMsg \in Range(inbox'[n][q]) => JoinMsg \in Range(inbox[n][q])
    BY <1>1, <1>2 DEF Answers, Acknowledges, Streams, More, LaterMsg
  <2>4. QED
    BY <2>1, <2>2, <2>3
<1>4. CASE q # c
  <2>1. Waits => Unheard(x) /\ entry[x] = n /\ n # x
    BY <1>1 DEF JoinerAt, q
  <2>2. Waits => Unheard(x)'
    BY <1>1, <1>4, <2>1, AnswerUnheard
  <2>3. entry' = entry
    BY DEF Answers, Connects
  <2>4. QED
    BY <1>3, <2>1, <2>2, <2>3 DEF JoinerAt, q
<1>5. CASE q = c
  <2>1. Waits => n = a
    BY <1>1, <1>5 DEF JoinerAt, Answers, Identifies, q
  <2>2. c \notin backlog[a] /\ JoinMsg \notin Range(inbox'[a][c])
    BY DEF Answers, Connects, Acknowledges
  <2>3. ~InNew(a, c)'
    <3> SUFFICES ASSUME NEW k \in Addr, newPeers'[a][k].peer = c
                 PROVE  FALSE
      BY DEF InNew
    <3>1. newPeers[a][k].peer = c /\ c # NoPeer
      BY NetworkAssumption DEF Answers, Identifies
    <3>2. k = AddrOfPeer(c)
      BY <3>1, CInvNew DEF NewPeerAt
    <3>3. QED
      BY <1>1, <1>5, <3>1, <3>2 DEF Answers, Identifies
  <2>4. ~(Waits /\ (q \in backlog'[n] \/ InNew(n, q)' \/ JoinMsg \in Range(inbox'[n][q])))
    BY <1>3, <1>5, <2>1, <2>2, <2>3
  <2>5. QED
    BY <1>3, <2>4 DEF JoinerAt, q
<1>6. QED
  BY <1>4, <1>5

LEMMA AnswerNew ==
    ASSUME CInv, TypeOK, NEW a \in Node, NEW c \in Peer, Answers(a, c),
           NEW n \in Node, NEW k \in Addr
    PROVE  NewPeerAt(n, k)'
<1>0. PICK p : p = newPeers[n][k].peer
  OBVIOUS
<1>1. newPeers'[n][k].peer = p \/ newPeers'[n][k].peer = NoPeer
  BY <1>0 DEF Answers, Identifies
<1>2. SUFFICES ASSUME newPeers'[n][k].peer = p, p # NoPeer
               PROVE  /\ k = AddrOfPeer(p) /\ p[2] \in {"joiner", "entry", "caller"}
                      /\ p[2] \in Asking => ~Known(n, p)'
                      /\ p \in conns'[n] \cup reset'[n] \/ ~(Up(Id(p)))'
  BY <1>1 DEF NewPeerAt
<1>3. p \in Peer
  BY <1>0, <1>2 DEF TypeOK, NewPeerEntry
<1>4. /\ k = AddrOfPeer(p) /\ p[2] \in {"joiner", "entry", "caller"}
      /\ p[2] \in Asking => ~Known(n, p)
      /\ p \in conns[n] \cup reset[n] \/ ~Up(Id(p))
  BY <1>0, <1>2, CInvNew DEF NewPeerAt
<1>5. p[2] \in Asking => ~Known(n, p)'
  BY <1>3, <1>4 DEF Answers, Identifies, Answering, Asking
<1>6. /\ p \in conns[n] => p \in conns'[n]
      /\ p \in reset[n] => p \in reset'[n]
      /\ Up(Id(p))' <=> Up(Id(p))
  BY <1>3, Kinds DEF Answers, Connects, Up
<1>7. QED
  BY <1>4, <1>5, <1>6

LEMMA AnswerLocal ==
    ASSUME CInv, TypeOK, NEW a \in Node, NEW c \in Peer, Answers(a, c),
           NEW n \in Node, NEW p \in Peer
    PROVE  /\ FailedAt(n, p)' /\ OpenAt(n, p)' /\ JoinFirst(n, p)'
           /\ WrittenAt(n, p)' /\ ViewAt(n, p)'
<1> DEFINE far == n = Id(c) /\ p = OtherEnd(a, c)
<1>1. /\ FailedAt(n, p) /\ OpenAt(n, p) /\ JoinFirst(n, p)
      /\ WrittenAt(n, p) /\ ViewAt(n, p)
  BY CInvAt
<1>2. /\ Id(p) \in Node /\ OtherEnd(a, c) \in Peer /\ Id(c) \in Node
      /\ OtherEnd(a, c)[2] \in Asking /\ c[2] \in Answering
      /\ c[2] = "called" => OtherEnd(a, c)[2] = "caller"
      /\ ~(far /\ n = a /\ p = c)
  BY Kinds DEF Answers, Answering, Asking
<1>3. /\ UNCHANGED <<status, ui, entry>>
      /\ \A x \in Node : (Up(x)' <=> Up(x)) /\ (Running(x)' <=> Running(x))
  BY DEF Answers, Connects, Up, Running
<1>4. /\ far => ~Known(n, p) /\ (c[2] = "called" => p \notin conns[n])
  BY <1>2, Unanswered DEF Answers, Announces
<1>5. far => \A m \in Range(inbox'[n][p]) : m.type = "JOIN_ACK"
  BY AnswerRead
<1>6. ~far => /\ Range(inbox'[n][p]) \subseteq Range(inbox[n][p]) \cup LaterMsg
              /\ Rest(inbox'[n][p]) \subseteq Rest(inbox[n][p]) \cup LaterMsg
  BY DEF Answers, Acknowledges, Streams, More
<1>7. /\ JoinMsg \notin LaterMsg /\ LaterMsg \cap Failure = {}
      /\ \A m \in Failure \cup {JoinMsg} : m.type # "JOIN_ACK"
  BY Kinds DEF LaterMsg, Failure
<1> HIDE DEF far
<1>8. FailedAt(n, p)'
  <2>1. p \in reset'[n] => p \in reset[n] \/ ~Up(Id(p))
    BY DEF Answers, Connects
  <2>2. Range(inbox'[n][p]) \cap Failure # {} => Range(inbox[n][p]) \cap Failure # {}
    BY <1>5, <1>6, <1>7
  <2>3. QED
    BY <1>1, <1>2, <1>3, <2>1, <2>2 DEF FailedAt
<1>9. /\ Known(n, p)' <=> Known(n, p) \/ (n = a /\ p = c)
      /\ p \in Written(n)' => p \in Written(n) \/ (n = a /\ p = c)
      /\ p \in peers'[n] => p \in peers[n] \/ (n = a /\ p = c)
  BY DEF Answers, Identifies
<1>10. /\ p \in conns'[n] <=> p \in conns[n] \/ (c[2] = "called" /\ n = a /\ p = c)
       /\ p \in backlog'[n] <=> p \in backlog[n] \/ (c[2] = "called" /\ far)
       /\ p \in reset[n] => p \in reset'[n]
       /\ c \notin backlog[a]
       /\ c \in conns'[a] \cup reset'[a]
  BY DEF Answers, Connects, far
<1>11. OpenAt(n, p)'
  <2>1. far => p[2] = OtherEnd(a, c)[2] /\ p # c
    BY <1>2 DEF far, Answering, Asking
  <2>2. p \in conns'[n] => p[2] # "local" /\ (p[2] = "entry" => Id(p) = entry'[n] /\ Id(p) # n)
    BY <1>1, <1>3, <1>10 DEF OpenAt
  <2>3. p \in backlog'[n] => p[2] \in {"joiner", "caller"} /\ p \notin conns'[n]
                             /\ ~Known(n, p)'
    <3>1. CASE p \in backlog[n]
      BY <1>1, <1>9, <1>10, <3>1 DEF OpenAt
    <3>2. CASE c[2] = "called" /\ far
      BY <1>2, <1>4, <1>9, <1>10, <2>1, <3>2
    <3>3. QED
      BY <1>10, <3>1, <3>2
  <2>4. QED
    BY <2>2, <2>3 DEF OpenAt
<1>12. JoinFirst(n, p)'
  <2>1. n = a /\ p = c => JoinMsg \notin Range(inbox'[n][p])
    BY DEF Answers, Acknowledges
  <2>2. CASE far
    <3>1. Rest(inbox'[n][p]) = {} /\ JoinMsg \notin Range(inbox'[n][p])
      BY <1>5, <1>7, <2>2, AnswerRead DEF far
    <3>2. QED
      BY <3>1 DEF JoinFirst
  <2>3. CASE ~far
    BY <1>1, <1>6, <1>7, <1>9, <2>1, <2>3 DEF JoinFirst
  <2>4. QED
    BY <2>2, <2>3
<1>13. WrittenAt(n, p)' /\ ViewAt(n, p)'
  BY <1>1, <1>3, <1>9, <1>10 DEF WrittenAt, ViewAt
<1>14. QED
  BY <1>8, <1>11, <1>12, <1>13

\* An answer keeps the invariant.
LEMMA AnswersKeep ==
    ASSUME CInv, TypeOK, TypeOK', NEW a \in Node, NEW c \in Peer, Answers(a, c)
    PROVE  CInv'
<1>1. AnnouncedOnce'
  <2>1. PICK e : /\ Notifs' \subseteq Notifs \cup {e} /\ e.peer = Id(c)
                 /\ c[2] = "joiner" => Unheard(Id(c))
                 /\ c[2] = "called" => e \in Notifs
    BY DEF Answers, Announces
  <2>2. c[2] \in {"joiner", "called"} /\ AnnouncedOnce
    BY DEF Answers, Answering, CInv
  <2>3. QED
    BY <2>1, <2>2 DEF AnnouncedOnce, Unheard
<1>2. \A n \in Node, k \in Addr : NewPeerAt(n, k)'
  BY AnswerNew
<1>3. \A n, m \in Node : BeforeJoin(n, m)' /\ JoinerAt(n, m)'
  BY AnswerBeforeJoin, AnswerJoiner
<1>4. ASSUME NEW n \in Node, NEW p \in Peer
      PROVE  FreshAt(n, p)' /\ AnsweredAt(n, p)' /\ AckAt(n, p)'
  <2>1. CASE p[2] \in Answering /\ (n # a \/ p # c)
    BY <2>1, AnswerElse
  <2>2. CASE n = a /\ p = c
    BY <2>2, AnswerHere
  <2>3. CASE p[2] \notin Answering
    BY <2>3 DEF FreshAt, AnsweredAt, AckAt
  <2>4. QED
    BY <2>1, <2>2, <2>3
<1>5. ASSUME NEW n \in Node, NEW p \in Peer
      PROVE  /\ FailedAt(n, p)' /\ OpenAt(n, p)' /\ JoinFirst(n, p)'
             /\ FreshAt(n, p)' /\ WrittenAt(n, p)' /\ AnsweredAt(n, p)'
             /\ AckAt(n, p)' /\ ViewAt(n, p)'
  BY <1>4, AnswerLocal
<1>6. QED
  BY <1>1, <1>2, <1>3, <1>5 DEF CInv

\* What acknowledge_join does, wherever it is called: box is what there was to
\* read before, with the announcements N.
AcknowledgedOn(a, c, box, N) ==
    /\ \A n \in Node, p \in Peer :
          /\ p \in Written(n)' => p \in Written(n) \/ (n = a /\ p = c)
          /\ p \in peers'[n] => p \in peers[n] \/ (n = a /\ p = c)
          /\ p \in reset[n] => p \in reset'[n]
          /\ p \in reset'[n] /\ p \notin reset[n] =>
                n = a /\ ~Up(Id(p)) /\ (p \in Written(a) \/ p = c)
    /\ ~Up(Id(c)) => c \in reset'[a]
    /\ \A n \in Node, p \in Peer : \A e \in Range(inbox'[n][p]) :
          e.type = "JOIN_NOTIF" => e \in Notifs \cup N
    /\ inbox'[a][c] = box[a][c]
    /\ \A r \in Node, q \in Peer :
          IF r = Id(c) /\ q = OtherEnd(a, c)
          THEN \E m \in Message :
                  /\ m.type = "JOIN_ACK"
                  /\ inbox'[r][q] = IF Up(r) THEN Append(inbox[r][q], m)
                                    ELSE inbox[r][q]
          ELSE Streams(inbox[r][q], inbox'[r][q], More(r, q))

LEMMA AcknowledgeParts ==
    ASSUME TypeOK, NEW a \in Node, NEW c \in Peer, c[2] \in Answering,
           NEW gid \in GroupId, NEW gs \in [GroupId -> Group],
           \A i \in GroupId : Touched(gs[i]) \subseteq Written(a),
           NEW box \in Inboxes, NEW N, Boxes(box, N),
           box[Id(c)][OtherEnd(a, c)] = inbox[Id(c)][OtherEnd(a, c)],
           NEW M, M \subseteq Written(a), NEW timers, timers \subseteq Written(a),
           AcknowledgeJoin(a, c, gid, gs, box, M, timers),
           readyTimers'[a] \subseteq Written(a) \cup {c},
           \A n \in Node : n # a => readyTimers'[n] = readyTimers[n]
    PROVE  AcknowledgedOn(a, c, box, N)
<1> DEFINE g == UpdateNeighbours(AddPeer(gs[gid], c), a)
           ack == AckMsg(gid)
<1>1. /\ peers' = [peers EXCEPT ![a] = Put(@, c)]
      /\ groups' = [groups EXCEPT ![a] = [gs EXCEPT ![gid] = g]]
      /\ inbox' = Deliver(box, a, {c}, ack)
      /\ reset' = [reset EXCEPT ![a] = @ \cup Bounced(M \cup {c})]
      /\ joinTimers' = [joinTimers EXCEPT ![a] =
              IF Id(c) \in Ids(Neighbours(g)) THEN timers ELSE Put(timers, c)]
  BY DEF AcknowledgeJoin
<1>2. Touched(g) \subseteq Written(a) \cup {c}
  <2>1. AddPeer(gs[gid], c) \in Group
    BY GroupOperationsType
  <2>2. /\ Touched(AddPeer(gs[gid], c)) \subseteq Touched(gs[gid]) \cup {c}
        /\ Touched(g) \subseteq Touched(AddPeer(gs[gid], c))
    BY <2>1, TouchedByOperations
  <2>3. QED
    BY <2>2
<1>3. ack \in Message /\ ack.type = "JOIN_ACK"
  BY MessageTypes DEF AckMsg
<1> HIDE DEF g, ack
<1>4. Written(a)' \subseteq Written(a) \cup {c}
  <2>1. /\ peers'[a] \subseteq Written(a) \cup {c}
        /\ joinTimers'[a] \subseteq Written(a) \cup {c}
    BY <1>1, WrittenParts DEF TypeOK, Put
  <2>2. \A i \in GroupId : Touched(groups'[a][i]) \subseteq Written(a) \cup {c}
    <3> SUFFICES ASSUME NEW i \in GroupId
                 PROVE  Touched(groups'[a][i]) \subseteq Written(a) \cup {c}
      OBVIOUS
    <3>1. groups'[a][i] = IF i = gid THEN g ELSE gs[i]
      BY <1>1 DEF TypeOK
    <3>2. QED
      BY <1>2, <3>1
  <2>3. QED
    BY <2>1, <2>2, WrittenFrom
<1>5. \A n \in Node : n # a => Written(n)' = Written(n)
  <2> SUFFICES ASSUME NEW n \in Node, n # a
               PROVE  Written(n)' = Written(n)
    OBVIOUS
  <2>1. UNCHANGED <<peers[n], readyTimers[n], joinTimers[n], groups[n]>>
    BY <1>1 DEF TypeOK
  <2>2. QED
    BY <2>1, WrittenKept
<1>6. \A n \in Node, p \in Peer :
         /\ p \in peers'[n] => p \in peers[n] \/ (n = a /\ p = c)
         /\ p \in reset[n] => p \in reset'[n]
         /\ p \in reset'[n] /\ p \notin reset[n] =>
               n = a /\ ~Up(Id(p)) /\ (p \in Written(a) \/ p = c)
  BY <1>1 DEF TypeOK, Put, Bounced
<1>7. ~Up(Id(c)) => c \in reset'[a]
  BY <1>1 DEF TypeOK, Bounced
<1>8. \A r \in Node, q \in Peer :
         (Id(q) = a /\ OtherEnd(r, q) = c) <=> (r = Id(c) /\ q = OtherEnd(a, c))
  <2> SUFFICES ASSUME NEW r \in Node, NEW q \in Peer
               PROVE  (Id(q) = a /\ OtherEnd(r, q) = c)
                         <=> (r = Id(c) /\ q = OtherEnd(a, c))
    OBVIOUS
  <2>1. /\ Id(OtherEnd(r, q)) = r /\ OtherEnd(Id(q), OtherEnd(r, q)) = q
        /\ Id(OtherEnd(a, c)) = a /\ OtherEnd(Id(c), OtherEnd(a, c)) = c
    BY Kinds
  <2>2. QED
    BY <2>1
<1>9. \A r \in Node, q \in Peer :
         inbox'[r][q] = IF r = Id(c) /\ q = OtherEnd(a, c) /\ Up(r)
                        THEN Append(box[r][q], ack) ELSE box[r][q]
  BY <1>1, <1>8 DEF Deliver
<1>10. inbox'[a][c] = box[a][c]
  <2>1. c # OtherEnd(a, c)
    BY Kinds DEF Answering, Asking
  <2>2. QED
    BY <1>9, <2>1
<1>11. ASSUME NEW n \in Node, NEW p \in Peer, NEW e \in Range(inbox'[n][p]),
              e.type = "JOIN_NOTIF"
       PROVE  e \in Notifs \cup N
  <2>1. PICK s \in Seq(Message) : s = box[n][p]
    BY DEF Inboxes
  <2>2. Range(Append(s, ack)) = Range(s) \cup {ack}
    BY <1>3, AppendParts
  <2>3. e \in Range(s) \cup {ack}
    BY <1>9, <1>11, <2>1, <2>2
  <2>4. QED
    BY <1>3, <1>11, <2>1, <2>3 DEF Boxes
<1>12. ASSUME NEW r \in Node, NEW q \in Peer
       PROVE  IF r = Id(c) /\ q = OtherEnd(a, c)
              THEN \E m \in Message :
                      /\ m.type = "JOIN_ACK"
                      /\ inbox'[r][q] = IF Up(r) THEN Append(inbox[r][q], m)
                                        ELSE inbox[r][q]
              ELSE Streams(inbox[r][q], inbox'[r][q], More(r, q))
  <2>1. Streams(inbox[r][q], box[r][q], More(r, q))
    BY DEF Boxes
  <2>2. QED
    BY <1>3, <1>9, <2>1
<1>13. QED
  BY <1>4, <1>5, <1>6, <1>7, <1>10, <1>11, <1>12 DEF AcknowledgedOn

\* answer_join_request announces a node that nobody has heard of.
LEMMA RequestAnswered ==
    ASSUME CInv, IInv, NEW a \in Node, NEW c \in Peer, NEW port \in Node \cup {NoNode},
           NEW gid \in GroupId, NEW gs \in [GroupId -> Group],
           \A i \in GroupId : Touched(gs[i]) \subseteq Written(a),
           NEW box \in Inboxes, Boxes(box, {}),
           box[Id(c)][OtherEnd(a, c)] = inbox[Id(c)][OtherEnd(a, c)],
           JoinMsg \notin Range(box[a][c]),
           NEW timers, timers \subseteq Written(a),
           Running(a), c[2] = "joiner",
           Unheard(Id(c)), entry[Id(c)] = a, a # Id(c),
           Known(a, c) \/ JoinMsg \in Range(inbox[a][c]),
           c \notin backlog[a], c \in conns[a] \cup reset[a] \/ ~Up(Id(c)),
           AnswerJoinRequest(a, c, port, gid, gs, box, timers),
           UNCHANGED <<status, ui, entry, conns, backlog>>,
           \A n \in Node, p \in Peer :
              Known(n, p)' <=> Known(n, p) \/ (n = a /\ p = c)
    PROVE  Answers(a, c)
<1> DEFINE notif == NotifMsg(gid, a, Id(c), port)
           succs == gs[gid].succs
           after == Deliver(box, a, succs, notif)
<1>1. TypeOK
  BY DEF IInv
<1>2. /\ notif \in LaterMsg /\ notif \in Message /\ notif.type = "JOIN_NOTIF"
      /\ notif.peer = Id(c)
  <2>1. Id(c) \in Node
    BY Kinds
  <2>2. notif \in Message /\ notif.type = "JOIN_NOTIF" /\ notif.peer = Id(c)
    BY <2>1, MessageTypes DEF NotifMsg
  <2>3. QED
    BY <2>2, Kinds DEF LaterMsg
<1>3. succs \subseteq Written(a)
  BY DEF Touched
<1>4. /\ newPeers' = [newPeers EXCEPT ![a][AddrOfPeer(c)] = NoEntry]
      /\ logs' = [logs EXCEPT ![a] = @ \cup {notif}]
      /\ AcknowledgeJoin(a, c, gid, gs, after, succs, timers)
      /\ readyTimers' = [readyTimers EXCEPT ![a] = Put(@, c)]
  BY DEF AnswerJoinRequest
<1>5. /\ Id(c) \in Node /\ OtherEnd(a, c) \in Peer /\ OtherEnd(Id(c), OtherEnd(a, c)) = c
      /\ AddrOfPeer(c) \in Addr
  BY Kinds, EntryType
<1>6. ~Heard(a, Id(c))
  BY NotifsAre DEF Heard, Unheard
<1>7. c \notin Written(a)
  BY <1>1, <1>6, Unanswered DEF Answering
<1>8. /\ after[Id(c)][OtherEnd(a, c)] = inbox[Id(c)][OtherEnd(a, c)]
      /\ after[a][c] = box[a][c]
  <2> HIDE DEF succs, notif
  <2>1. after[Id(c)][OtherEnd(a, c)] = box[Id(c)][OtherEnd(a, c)]
    BY <1>3, <1>5, <1>7 DEF Deliver
  <2>2. after[a][c] = box[a][c]
    BY DEF Deliver
  <2>3. QED
    BY <2>1, <2>2
<1>9. Boxes(box, {notif})
  BY DEF Boxes
<1>10. after \in Inboxes /\ Boxes(after, {notif})
  <2> HIDE DEF succs, notif
  <2>1. after \in Inboxes
    BY <1>2, DeliverType
  <2>2. notif \in Notifs \cup {notif}
    OBVIOUS
  <2>3. QED
    BY <1>2, <1>3, <1>9, <2>1, <2>2, SendBoxes
<1>11. /\ readyTimers'[a] \subseteq Written(a) \cup {c}
       /\ \A n \in Node : n # a => readyTimers'[n] = readyTimers[n]
  BY <1>1, <1>4, WrittenParts DEF TypeOK, Put
<1> HIDE DEF notif, succs, after
<1>12. c[2] \in Answering
  BY DEF Answering
<1>13. AcknowledgedOn(a, c, after, {notif})
  <2>1. PICK A : A = after
    OBVIOUS
  <2>2. PICK M : M = succs
    OBVIOUS
  <2>3. /\ AcknowledgeJoin(a, c, gid, gs, A, M, timers) /\ M \subseteq Written(a)
        /\ A[Id(c)][OtherEnd(a, c)] = inbox[Id(c)][OtherEnd(a, c)]
        /\ A \in Inboxes /\ Boxes(A, {notif})
    BY <1>3, <1>4, <1>8, <1>10, <2>1, <2>2
  <2>4. PICK N : N = {notif}
    OBVIOUS
  <2>5. Boxes(A, N)
    BY <2>3, <2>4
  <2>6. AcknowledgedOn(a, c, A, N)
    BY <1>1, <1>11, <1>12, <2>3, <2>5, AcknowledgeParts
  <2>7. QED
    BY <2>1, <2>4, <2>6
<1>14. Announces(a, c)
  <2>1. /\ \A n \in Node : logs[n] \subseteq logs'[n]
        /\ notif \in logs'[a]
        /\ \A n \in Node : \A e \in logs'[n] : e \in logs[n] \/ e = notif
    BY <1>1, <1>4 DEF TypeOK
  <2>2. \A n \in Node : \A e \in logs'[n] :
           e.type = "JOIN_NOTIF" => e \in Notifs \cup {notif}
    BY <2>1, NotifsAre
  <2>3. Notifs' \subseteq Notifs \cup {notif}
    BY <1>13, <2>2, NewNotifs DEF AcknowledgedOn
  <2>4. Heard(a, Id(c))'
    BY <1>2, <2>1 DEF Heard
  <2>5. QED
    BY <1>2, <1>6, <2>1, <2>3, <2>4 DEF Announces
<1>15. Connects(a, c)
  BY <1>13 DEF Connects, AcknowledgedOn
<1>16. Identifies(a, c)
  <2>1. \A n \in Node, k \in Addr :
           newPeers'[n][k] = IF n = a /\ k = AddrOfPeer(c) THEN NoEntry
                             ELSE newPeers[n][k]
    BY <1>1, <1>4, <1>5 DEF TypeOK
  <2>2. NoEntry.peer = NoPeer
    BY DEF NoEntry
  <2>3. QED
    BY <1>5, <1>13, <2>1, <2>2 DEF Identifies, AcknowledgedOn
<1>17. Acknowledges(a, c)
  BY <1>8, <1>13 DEF Acknowledges, AcknowledgedOn
<1>18. QED
  BY <1>12, <1>14, <1>15, <1>16, <1>17 DEF Answers

-----------------------------------------------------------------------------
(* Reads, and what is sent                                                 *)

\* What is read, unless it is an acknowledgement
LEMMA ReadParts ==
    ASSUME CInv, TypeOK, NEW a \in Node, NEW p \in Peer, NEW t, Reads(a, p, t),
           t # "JOIN_ACK"
    PROVE  LET m == Head(inbox[a][p])
           IN  /\ Running(a) /\ p \in conns[a] /\ inbox[a][p] # <<>>
               /\ m \in Message /\ m \in Range(inbox[a][p]) /\ m.type = t
               /\ Consume(a, p) \in Inboxes /\ Boxes(Consume(a, p), {})
               /\ Consume(a, p)[a][p] = Tail(inbox[a][p])
               /\ Range(Consume(a, p)[a][p]) = Rest(inbox[a][p])
               /\ t \notin {"JOIN", "EOF", "RST"} => m \in LaterMsg /\ Known(a, p)
               /\ t = "JOIN_NOTIF" => m \in Notifs
               /\ t = "JOIN" => m = JoinMsg
               /\ t = "EOF" => m = Eof
               /\ t = "RST" => m = Rst
<1> DEFINE s == inbox[a][p]
           m == Head(s)
<1>1. /\ Running(a) /\ p \in conns[a] /\ s # <<>> /\ m.type = t
      /\ s \in Seq(Message)
  BY DEF Reads, TypeOK
<1>2. m \in Message /\ Consume(a, p) \in Inboxes
  BY <1>1, ReadType
<1>3. m \in Range(s) /\ Range(Tail(s)) = Rest(s)
  BY <1>1, TailParts
<1>4. ~AckFirst(s)
  BY <1>1 DEF AckFirst
<1>5. Boxes(Consume(a, p), {})
  BY <1>1, <1>4, ReadBoxes
<1>6. Consume(a, p)[a][p] = Tail(s)
  BY DEF Consume, TypeOK
<1>7. /\ t = "JOIN" => m = JoinMsg
      /\ t = "EOF" => m = Eof
      /\ t = "RST" => m = Rst
  BY <1>1, <1>2 DEF Message, BCastMessage, JoinMsg, Eof, Rst, ReadyMsg,
                    ReadyNotifMsg, Text
<1>8. t = "JOIN_NOTIF" => m \in Notifs
  BY <1>1, <1>3, NotifsAre
<1>9. ASSUME t \notin {"JOIN", "EOF", "RST"}
      PROVE  m \in LaterMsg /\ Known(a, p)
  <2>1. m \in LaterMsg /\ m \notin Failure \cup {JoinMsg}
    BY <1>1, <1>2, <1>9, Kinds DEF LaterMsg, Failure
  <2>2. /\ Id(p) \in Node /\ OtherEnd(a, p) \in Peer /\ Id(OtherEnd(a, p)) = a
        /\ OtherEnd(Id(p), OtherEnd(a, p)) = p
        /\ p[2] \in Answering <=> OtherEnd(a, p)[2] \in Asking
        /\ p[2] \in PeerKind
    BY Kinds
  <2>3. p[2] # "local"
    BY <1>1, CInvAt DEF OpenAt
  <2>4. CASE p[2] \in Answering
    <3>1. AnsweredAt(a, p)
      BY CInvAt
    <3> HIDE DEF m, s
    <3>2. Known(Id(p), OtherEnd(a, p))
      BY <1>3, <2>1, <2>4, <3>1 DEF AnsweredAt, s
    <3>3. QED
      BY <2>1, <2>4, <3>1, <3>2 DEF AnsweredAt, Opened
  <2>5. CASE p[2] \in Asking
    <3>1. OtherEnd(a, p)[2] \in Answering
      BY <2>3, <2>5 DEF OtherEnd, OtherKind, Asking, Answering
    <3>2. AnsweredAt(Id(p), OtherEnd(a, p))
      BY <2>2, CInvAt
    <3> HIDE DEF m
    <3>3. ~Silent(s)
      BY <1>3, <2>1 DEF Silent
    <3>4. QED
      BY <1>4, <2>1, <2>2, <3>1, <3>2, <3>3 DEF AnsweredAt, Opened
  <2>6. QED
    BY <2>2, <2>3, <2>4, <2>5 DEF PeerKind, Answering, Asking
<1>10. QED
  BY <1>1, <1>2, <1>3, <1>5, <1>6, <1>7, <1>8, <1>9

\* What a node sends where it may
LEMMA SendParts ==
    ASSUME TypeOK, NEW a \in Node, Running(a), NEW box \in Inboxes, Boxes(box, {}),
           NEW m \in LaterMsg, m.type = "JOIN_NOTIF" => m \in Notifs,
           NEW M, M \subseteq Written(a),
           inbox' = Deliver(box, a, M, m),
           reset' = [reset EXCEPT ![a] = @ \cup Bounced(M)]
    PROVE  StreamsKept /\ ResetsKept
<1>1. PICK N : N = {}
  OBVIOUS
<1>2. Boxes(Deliver(box, a, M, m), N)
  BY <1>1, SendBoxes
<1>3. ResetsKept
  BY DEF ResetsKept, TypeOK, Bounced, Running, Up
<1>4. QED
  BY <1>1, <1>2, <1>3 DEF StreamsKept

\* What stays as it is
LEMMA Unchanged ==
    /\ UNCHANGED <<status, ui, entry, backlog>> => ProcessesKept
    /\ UNCHANGED peerState => KnownKept
    /\ UNCHANGED <<conns, peers, readyTimers, joinTimers, groups>> => ConnectionsKept
    /\ UNCHANGED reset => ResetsKept
    /\ UNCHANGED newPeers => NewPeersKept
    /\ UNCHANGED logs => LogsKept
    /\ UNCHANGED inbox => StreamsKept
<1>1. UNCHANGED <<status, ui, entry, backlog>> => ProcessesKept
  BY DEF ProcessesKept, Up, Running
<1>2. UNCHANGED peerState => KnownKept
  BY DEF KnownKept, Known
<1>3. UNCHANGED <<conns, peers, readyTimers, joinTimers, groups>> => ConnectionsKept
  BY DEF ConnectionsKept, Written
<1>4. UNCHANGED logs => LogsKept
  BY NotifsAre DEF LogsKept
<1>5. UNCHANGED inbox => StreamsKept
  <2>1. \A N : Boxes(inbox, N)
    BY SameBoxes
  <2>2. QED
    BY <2>1 DEF StreamsKept
<1>6. QED
  BY <1>1, <1>2, <1>3, <1>4, <1>5 DEF ResetsKept, NewPeersKept

\* The part of the view and of the rings that is written to only shrinks.
LEMMA Shrinks ==
    ASSUME UNCHANGED conns,
           \A n \in Node : peers'[n] \subseteq peers[n] /\ Written(n)' \subseteq Written(n)
    PROVE  ConnectionsKept
  BY DEF ConnectionsKept

\* Data and announcements are forwarded by those who log them.
LEMMA ForwardParts ==
    ASSUME CInv, IInv, NEW a \in Node, NEW p \in Peer,
           Reads(a, p, "JOIN_NOTIF") \/ Reads(a, p, "DATA")
    PROVE  LET m == Head(inbox[a][p])
           IN  /\ m \in LaterMsg /\ (m.type = "JOIN_NOTIF" => m \in Notifs)
               /\ Consume(a, p) \in Inboxes /\ Boxes(Consume(a, p), {})
               /\ Running(a)
               /\ Relays(a, m) \subseteq Written(a)
               /\ LogForwarded(a, m) => LogsKept
<1> DEFINE m == Head(inbox[a][p])
<1>1. TypeOK
  BY DEF IInv
<1>2. /\ m \in LaterMsg /\ (m.type = "JOIN_NOTIF" => m \in Notifs)
      /\ Consume(a, p) \in Inboxes /\ Boxes(Consume(a, p), {})
      /\ Running(a)
  <2>1. CASE Reads(a, p, "JOIN_NOTIF")
    BY <1>1, <2>1, ReadParts
  <2>2. CASE Reads(a, p, "DATA")
    BY <1>1, <2>2, ReadParts
  <2>3. QED
    BY <2>1, <2>2
<1>3. m \in BCastMessage /\ m.group \in GroupId
  BY ForwardType
<1> HIDE DEF m
<1>4. Relays(a, m) \subseteq Written(a)
  BY <1>3, WrittenParts DEF Relays
<1>5. LogForwarded(a, m) => LogsKept
  <2>1. LogForwarded(a, m) =>
           \A n \in Node : /\ logs[n] \subseteq logs'[n]
                           /\ \A e \in logs'[n] : e \in logs[n] \/ e = m
    BY <1>1 DEF LogForwarded, TypeOK
  <2>2. QED
    BY <1>2, <2>1, NotifsAre DEF LogsKept
<1>6. QED
  BY <1>2, <1>4, <1>5 DEF m

-----------------------------------------------------------------------------
(* The plain steps                                                         *)

\* The commands that call nobody
LEMMA CommandsPlain ==
    ASSUME CInv, IInv, NEW a \in Node,
           \/ UIBroadcastCheck(a) \/ UIBroadcast(a) \/ UIBroadcastLog(a)
           \/ UIJoinMark(a) \/ UISend(a) \/ vars' = vars
    PROVE  PlainStep
<1>1. TypeOK
  BY DEF IInv
<1>2. \A n \in Node : ui'[n] \in {"join", "joining"} => ui[n] \in {"join", "joining"}
  BY <1>1 DEF UIBroadcastCheck, UIBroadcast, UIBroadcastLog, UIJoinMark, UISend,
              procVars, vars, TypeOK
<1>3. UNCHANGED <<status, entry, backlog, peerState, conns, peers, readyTimers,
                  joinTimers, groups, newPeers>>
  BY DEF UIBroadcastCheck, UIBroadcast, UIBroadcastLog, UIJoinMark, UISend,
         procVars, joinVars, viewVars, groupVars, netVars, vars
<1>4. ProcessesKept /\ KnownKept /\ ConnectionsKept /\ NewPeersKept
  <2>1. ProcessesKept
    BY <1>2, <1>3 DEF ProcessesKept, Up, Running
  <2>2. QED
    BY <1>3, <2>1, Unchanged
<1>5. CASE UIBroadcastCheck(a) \/ UIJoinMark(a) \/ vars' = vars
  <2>1. UNCHANGED <<logs, reset, inbox>>
    BY <1>5 DEF UIBroadcastCheck, UIJoinMark, netVars, vars
  <2>2. QED
    BY <1>4, <2>1, Unchanged DEF PlainStep
<1>6. CASE UIBroadcast(a)
  <2> DEFINE data == DataMsg(localGroup[a], a, Cardinality(SentData(a)) + 1)
             succs == groups[a][localGroup[a]].succs
  <2>1. /\ Running(a) /\ localGroup[a] # NoGroup
        /\ inbox' = Deliver(inbox, a, succs, data)
        /\ reset' = [reset EXCEPT ![a] = @ \cup Bounced(succs)]
        /\ UNCHANGED logs
    BY <1>6 DEF UIBroadcast
  <2>2. localGroup[a] \in GroupId
    BY <1>1, <2>1 DEF TypeOK
  <2>3. data \in LaterMsg /\ data.type = "DATA"
    <3>1. Cardinality(SentData(a)) + 1 \in Nat \ {0}
      <4>1. IsFiniteSet(SentData(a))
        BY SentDataFinite
      <4>2. QED
        BY <4>1, FS_CardinalityType
    <3>2. data \in Message /\ data.type = "DATA"
      BY <2>2, <3>1, MessageTypes DEF DataMsg
    <3>3. QED
      BY <3>2, Kinds DEF LaterMsg
  <2>4. succs \subseteq Written(a)
    BY <2>2, WrittenParts
  <2>5. inbox \in Inboxes
    BY <1>1 DEF TypeOK, Inboxes
  <2>6. Boxes(inbox, {})
    BY SameBoxes
  <2> HIDE DEF data, succs
  <2>7. StreamsKept /\ ResetsKept
    <3>1. PICK b \in Inboxes : b = inbox
      BY <2>5
    <3>2. PICK m \in LaterMsg : m = data
      BY <2>3
    <3>3. PICK M : M = succs
      OBVIOUS
    <3>4. /\ inbox' = Deliver(b, a, M, m)
          /\ reset' = [reset EXCEPT ![a] = @ \cup Bounced(M)]
          /\ Boxes(b, {}) /\ M \subseteq Written(a) /\ m.type # "JOIN_NOTIF"
      BY <2>1, <2>3, <2>4, <2>6, <3>1, <3>2, <3>3
    <3>5. QED
      BY <1>1, <2>1, <3>4, SendParts
  <2>8. QED
    BY <1>4, <2>1, <2>7, Unchanged DEF PlainStep
<1>7. CASE UIBroadcastLog(a)
  <2>1. LogsKept
    <3>1. \A e \in outgoing[a] : e.type # "JOIN_NOTIF"
      BY DEF IInv, OutgoingKept, OutgoingAt
    <3>2. \A n \in Node : /\ logs[n] \subseteq logs'[n]
                          /\ \A e \in logs'[n] : e \in logs[n] \/ e \in outgoing[a]
      BY <1>1, <1>7 DEF UIBroadcastLog, TypeOK
    <3>3. QED
      BY <3>1, <3>2, NotifsAre DEF LogsKept
  <2>2. UNCHANGED <<reset, inbox>>
    BY <1>7 DEF UIBroadcastLog, netVars
  <2>3. QED
    BY <1>4, <2>1, <2>2, Unchanged DEF PlainStep
<1>8. CASE UISend(a)
  <2>1. /\ Running(a)
        /\ inbox' = Deliver(inbox, a, peers[a], Text)
        /\ reset' = [reset EXCEPT ![a] = @ \cup Bounced(peers[a])]
        /\ UNCHANGED logs
    BY <1>8 DEF UISend
  <2>2. Text \in LaterMsg /\ Text.type # "JOIN_NOTIF"
    BY Kinds DEF LaterMsg, Message, Text
  <2>3. peers[a] \subseteq Written(a)
    BY WrittenParts
  <2>4. PICK b \in Inboxes : b = inbox
    BY <1>1 DEF TypeOK, Inboxes
  <2>5. PICK M : M = peers[a]
    OBVIOUS
  <2>6. Boxes(b, {})
    BY <2>4, SameBoxes
  <2>7. StreamsKept /\ ResetsKept
    BY <1>1, <2>1, <2>2, <2>3, <2>4, <2>5, <2>6, SendParts
  <2>8. QED
    BY <1>4, <2>1, <2>7, Unchanged DEF PlainStep
<1>9. QED
  BY <1>5, <1>6, <1>7, <1>8

\* A message is read and nothing sent.
LEMMA ReadsPlain ==
    ASSUME CInv, IInv, NEW a \in Node, NEW p \in Peer,
           \/ HandleDuplicate(a, p) \/ HandleText(a, p)
           \/ HandleReadyNotifThrows(a, p) \/ ReadTogether(a, p)
           \/ HandleReadError(a, p)
    PROVE  PlainStep
<1>1. TypeOK
  BY DEF IInv
<1>2. UNCHANGED <<status, ui, entry, backlog, peers, readyTimers, joinTimers,
                  groups, newPeers, logs>>
  BY DEF HandleDuplicate, HandleText, HandleReadyNotifThrows, ReadTogether,
         HandleReadError, procVars, joinVars, viewVars, groupVars
<1>3. ProcessesKept /\ NewPeersKept /\ LogsKept
  BY <1>2, Unchanged
<1>4. CASE HandleDuplicate(a, p) \/ HandleText(a, p)
  <2>1. inbox' = Consume(a, p) /\ UNCHANGED <<peerState, conns, reset>>
    BY <1>4 DEF HandleDuplicate, HandleText, viewVars
  <2>2. StreamsKept
    BY <1>1, <1>4, <2>1, ReadParts DEF HandleDuplicate, HandleText, StreamsKept
  <2>3. QED
    BY <1>2, <1>3, <2>1, <2>2, Unchanged DEF PlainStep
<1>5. CASE HandleReadyNotifThrows(a, p)
  <2>1. /\ Reads(a, p, "READY_NOTIF")
        /\ peerState' = [peerState EXCEPT ![a][p] = "CONNECTED"]
        /\ inbox' = Consume(a, p) /\ UNCHANGED <<conns, reset>>
    BY <1>5 DEF HandleReadyNotifThrows
  <2>2. StreamsKept /\ Known(a, p)
    BY <1>1, <2>1, ReadParts DEF StreamsKept
  <2>3. KnownKept
    BY <1>1, <2>1, <2>2 DEF KnownKept, Known, TypeOK
  <2>4. QED
    BY <1>2, <1>3, <2>1, <2>2, <2>3, Unchanged DEF PlainStep
<1>6. CASE ReadTogether(a, p)
  <2>1. /\ Len(inbox[a][p]) >= 2
        /\ inbox' = [inbox EXCEPT ![a][p] = JoinedWithNext(inbox[a][p])]
        /\ UNCHANGED <<peerState, conns, reset>>
    BY <1>6 DEF ReadTogether, viewVars
  <2>2. PICK s \in Seq(Message) : s = inbox[a][p]
    BY <1>1 DEF TypeOK
  <2>3. PICK t : t = JoinedWithNext(s)
    OBVIOUS
  <2>4. /\ t # <<>> /\ Head(t) = Head(s)
        /\ Range(t) \subseteq Range(s) /\ Rest(t) \subseteq Rest(s)
    BY <2>1, <2>2, <2>3, JoinedParts
  <2>5. \A r \in Node, q \in Peer :
           inbox'[r][q] = IF r = a /\ q = p THEN t ELSE inbox[r][q]
    BY <1>1, <2>1, <2>2, <2>3 DEF TypeOK
  <2>6. ASSUME NEW r \in Node, NEW q \in Peer
        PROVE  /\ Streams(inbox[r][q], inbox'[r][q], More(r, q))
               /\ Range(inbox'[r][q]) \subseteq Range(inbox[r][q])
    BY <2>2, <2>4, <2>5 DEF Streams, AckFirst
  <2>7. StreamsKept
    BY <2>6, NotifsAre DEF StreamsKept, Boxes
  <2>8. QED
    BY <1>2, <1>3, <2>1, <2>7, Unchanged DEF PlainStep
<1>7. CASE HandleReadError(a, p)
  <2>1. /\ Reads(a, p, "RST")
        /\ conns' = [conns EXCEPT ![a] = @ \ {p}]
        /\ reset' = [reset EXCEPT ![a] = @ \cup {p}]
        /\ inbox' = Consume(a, p) /\ UNCHANGED peerState
    BY <1>7 DEF HandleReadError, viewVars
  <2>2. /\ StreamsKept /\ Rst \in Range(inbox[a][p]) /\ Running(a)
    BY <1>1, <2>1, ReadParts DEF StreamsKept
  <2>3. ResetsKept
    BY <1>1, <2>1, <2>2 DEF ResetsKept, TypeOK, Running, Up
  <2>4. ConnectionsKept
    <3>1. \A n \in Node : Written(n)' = Written(n)
      BY <1>2 DEF Written
    <3>2. p # <<entry[a], "entry">> \/ ui[a] \notin {"join", "joining"}
      BY <2>1 DEF Reads
    <3>3. \A n \in Node, q \in Peer :
             /\ q \in conns'[n] => q \in conns[n]
             /\ q \in conns[n] /\ q \notin conns'[n] => n = a /\ q = p /\ q \in reset'[n]
      BY <1>1, <2>1 DEF TypeOK
    <3>4. QED
      BY <1>2, <3>1, <3>2, <3>3 DEF ConnectionsKept
  <2>5. QED
    BY <1>2, <1>3, <2>1, <2>2, <2>3, <2>4, Unchanged DEF PlainStep
<1>8. QED
  BY <1>4, <1>5, <1>6, <1>7

\* A message is forwarded.
LEMMA ForwardsPlain ==
    ASSUME CInv, IInv, NEW a \in Node, NEW p \in Peer,
           \/ HandleData(a, p) \/ HandleForeignNotif(a, p)
           \/ HandleNotifRefused(a, p)
    PROVE  PlainStep
<1> DEFINE m == Head(inbox[a][p])
<1>1. /\ Reads(a, p, "JOIN_NOTIF") \/ Reads(a, p, "DATA")
      /\ LogForwarded(a, m)
      /\ inbox' = Deliver(Consume(a, p), a, Relays(a, m), m)
      /\ reset' = [reset EXCEPT ![a] = @ \cup Bounced(Relays(a, m))]
      /\ UNCHANGED <<status, ui, entry, backlog, peerState, conns, peers,
                     readyTimers, joinTimers, groups, newPeers>>
  BY DEF HandleData, HandleForeignNotif, HandleNotifRefused, ReadsNotif,
         procVars, joinVars, viewVars, groupVars
<1>2. /\ m \in LaterMsg /\ (m.type = "JOIN_NOTIF" => m \in Notifs)
      /\ Consume(a, p) \in Inboxes /\ Boxes(Consume(a, p), {})
      /\ Running(a)
      /\ Relays(a, m) \subseteq Written(a)
      /\ LogsKept
  BY <1>1, ForwardParts
<1>3. TypeOK
  BY DEF IInv
<1>4. StreamsKept /\ ResetsKept
  <2>1. PICK b \in Inboxes : b = Consume(a, p)
    BY <1>2
  <2>2. PICK e \in LaterMsg : e = m
    BY <1>2
  <2>3. PICK M : M = Relays(a, m)
    OBVIOUS
  <2> HIDE DEF m
  <2>4. /\ inbox' = Deliver(b, a, M, e)
        /\ reset' = [reset EXCEPT ![a] = @ \cup Bounced(M)]
        /\ Boxes(b, {}) /\ M \subseteq Written(a)
        /\ e.type = "JOIN_NOTIF" => e \in Notifs
    BY <1>1, <1>2, <2>1, <2>2, <2>3
  <2>5. QED
    BY <1>2, <1>3, <2>4, SendParts
<1>5. QED
  BY <1>1, <1>2, <1>4, Unchanged DEF PlainStep

\* READY is read or sent: the node enters its rings and tells its neighbours.
LEMMA ReadyPlain ==
    ASSUME CInv, IInv, NEW a \in Node, NEW p \in Peer,
           HandleReady(a, p) \/ SendReady(a, p)
    PROVE  PlainStep
<1>1. TypeOK
  BY DEF IInv
<1>2. UNCHANGED <<status, ui, entry, backlog, peerState, conns, peers,
                  joinTimers, newPeers, logs>>
  BY DEF HandleReady, SendReady, procVars, joinVars, viewVars
<1>3. CASE HandleReady(a, p)
  <2> DEFINE entered == [g \in GroupId |->
                            IF g \in ToEnter(a) THEN EnterRings(groups[a][g], a)
                            ELSE groups[a][g]]
             directs == UNION {Neighbours(entered[g]) : g \in ToEnter(a)}
  <2>1. /\ Reads(a, p, "READY")
        /\ groups' = [groups EXCEPT ![a] = entered]
        /\ inbox' = Deliver(Consume(a, p), a, directs, ReadyNotifMsg)
        /\ reset' = [reset EXCEPT ![a] = @ \cup Bounced(directs)]
        /\ UNCHANGED readyTimers
    BY <1>3 DEF HandleReady, joinVars
  <2>2. \A g \in GroupId : Touched(entered[g]) \subseteq Written(a)
    <3> SUFFICES ASSUME NEW g \in GroupId
                 PROVE  Touched(entered[g]) \subseteq Written(a)
      OBVIOUS
    <3>1. /\ groups[a][g] \in Group /\ Local(a) \in Peer
          /\ Touched(groups[a][g]) \subseteq Written(a) /\ Local(a) \in Written(a)
      BY <1>1, WrittenParts DEF TypeOK, Local, Peer, PeerKind, Written
    <3>2. AddToRings(groups[a][g], Local(a)) \in Group
      BY <3>1, GroupOperationsType
    <3>3. Touched(EnterRings(groups[a][g], a)) \subseteq Written(a)
      <4>1. Touched(AddToRings(groups[a][g], Local(a)))
               \subseteq Touched(groups[a][g]) \cup {Local(a)}
        BY <3>1, TouchedByOperations
      <4>2. Touched(UpdateNeighbours(AddToRings(groups[a][g], Local(a)), a))
               \subseteq Touched(AddToRings(groups[a][g], Local(a)))
        BY <3>2, TouchedByOperations
      <4>3. QED
        BY <3>1, <4>1, <4>2 DEF EnterRings
    <3>4. QED
      BY <3>1, <3>3
  <2>3. directs \subseteq Written(a)
    <3>1. ToEnter(a) \subseteq GroupId
      BY <1>1 DEF ToEnter, TypeOK
    <3>2. \A g \in GroupId : Neighbours(entered[g]) \subseteq Touched(entered[g])
      BY DEF Neighbours, Touched
    <3> HIDE DEF entered
    <3>3. QED
      BY <2>2, <3>1, <3>2
  <2>4. \A n \in Node : Written(n)' \subseteq Written(n)
    <3> HIDE DEF entered, directs
    <3> SUFFICES ASSUME NEW n \in Node
                 PROVE  Written(n)' \subseteq Written(n)
      OBVIOUS
    <3>1. CASE n = a
      <4>1. groups'[a] = entered
        BY <1>1, <2>1 DEF TypeOK
      <4>2. \A g \in GroupId : Touched(groups'[a][g]) \subseteq Written(a) \cup {}
        BY <2>2, <4>1
      <4>3. /\ peers'[a] \subseteq Written(a) \cup {}
            /\ readyTimers'[a] \subseteq Written(a) \cup {}
            /\ joinTimers'[a] \subseteq Written(a) \cup {}
        BY <1>2, <2>1, WrittenParts
      <4>4. Written(a)' \subseteq Written(a) \cup {}
        BY <4>2, <4>3, WrittenFrom
      <4>5. QED
        BY <3>1, <4>4
    <3>2. CASE n # a
      <4>1. UNCHANGED <<peers[n], readyTimers[n], joinTimers[n], groups[n]>>
        BY <1>1, <1>2, <2>1, <3>2 DEF TypeOK
      <4>2. QED
        BY <4>1, WrittenKept
    <3>3. QED
      BY <3>1, <3>2
  <2>5. Boxes(Consume(a, p), {}) /\ Consume(a, p) \in Inboxes /\ Running(a)
    BY <1>1, <2>1, ReadParts
  <2>6. ReadyNotifMsg \in LaterMsg /\ ReadyNotifMsg.type # "JOIN_NOTIF"
    BY Kinds DEF LaterMsg, Message, ReadyNotifMsg
  <2>7. StreamsKept /\ ResetsKept
    <3>1. PICK b \in Inboxes : b = Consume(a, p)
      BY <2>5
    <3>2. PICK M : M = directs
      OBVIOUS
    <3> HIDE DEF directs
    <3>3. /\ inbox' = Deliver(b, a, M, ReadyNotifMsg)
          /\ reset' = [reset EXCEPT ![a] = @ \cup Bounced(M)]
          /\ Boxes(b, {}) /\ M \subseteq Written(a)
      BY <2>1, <2>3, <2>5, <3>1, <3>2
    <3>4. QED
      BY <1>1, <2>5, <2>6, <3>3, SendParts
  <2>8. ConnectionsKept
    BY <1>2, <2>4, Shrinks
  <2>9. QED
    BY <1>2, <2>7, <2>8, Unchanged DEF PlainStep
<1>4. CASE SendReady(a, p)
  <2>1. /\ Running(a) /\ p \in readyTimers[a]
        /\ readyTimers' = [readyTimers EXCEPT ![a] = EraseId(@, Id(p))]
        /\ inbox' = Deliver(inbox, a, {p}, ReadyMsg)
        /\ reset' = [reset EXCEPT ![a] = @ \cup Bounced({p})]
        /\ UNCHANGED groups
    BY <1>4 DEF SendReady, groupVars
  <2>2. \A n \in Node : Written(n)' \subseteq Written(n)
    BY <1>1, <1>2, <2>1 DEF Written, EraseId, TypeOK
  <2>3. ReadyMsg \in LaterMsg /\ ReadyMsg.type # "JOIN_NOTIF"
    BY Kinds DEF LaterMsg, Message, ReadyMsg
  <2>4. PICK b \in Inboxes : b = inbox
    BY <1>1 DEF TypeOK, Inboxes
  <2>5. Boxes(b, {}) /\ {p} \subseteq Written(a)
    BY <2>1, <2>4, SameBoxes, WrittenParts
  <2>6. StreamsKept /\ ResetsKept
    BY <1>1, <2>1, <2>3, <2>4, <2>5, SendParts
  <2>7. ConnectionsKept
    BY <1>2, <2>2, Shrinks
  <2>8. QED
    BY <1>2, <2>6, <2>7, Unchanged DEF PlainStep
<1>5. QED
  BY <1>3, <1>4

\* The join command fails: nothing has come back on that connection.
LEMMA JoinThrowsPlain ==
    ASSUME CInv, IInv, NEW a \in Node, UIJoinThrows(a)
    PROVE  PlainStep
<1> DEFINE p == <<entry[a], "entry">>
<1>1. TypeOK
  BY DEF IInv
<1>2. /\ Running(a) /\ ui[a] \in {"join", "joining"} /\ MayBeReset(a, p)
      /\ ui' = [ui EXCEPT ![a] = "idle"]
      /\ conns' = [conns EXCEPT ![a] = @ \ {p}]
      /\ inbox' = [inbox EXCEPT ![a][p] = <<>>]
      /\ UNCHANGED <<status, entry, peerState, peers, readyTimers, joinTimers,
                     groups, newPeers, logs, backlog, reset>>
  BY DEF UIJoinThrows, joinVars, viewVars, groupVars
<1>3. entry[a] \in Node /\ p \in Peer
  BY <1>1, JoinerPeers DEF TypeOK
<1>4. p \notin Written(a) /\ ~AckFirst(inbox[a][p])
  BY <1>2, <1>3, NotAsked
<1> HIDE DEF p
<1>5. ~Up(Id(p))
  <2>1. FailedAt(a, p)
    BY <1>3, CInvAt
  <2>2. QED
    BY <1>2, <2>1 DEF FailedAt, MayBeReset, Failure
<1>6. ProcessesKept
  BY <1>1, <1>2 DEF ProcessesKept, Up, Running, TypeOK
<1>7. ConnectionsKept
  <2>1. \A n \in Node : Written(n)' = Written(n)
    BY <1>2 DEF Written
  <2>2. p \notin peers[a] /\ ui'[a] = "idle"
    BY <1>1, <1>2, <1>4, WrittenParts DEF TypeOK
  <2>3. \A n \in Node, q \in Peer :
           /\ q \in conns'[n] => q \in conns[n]
           /\ q \in conns[n] /\ q \notin conns'[n] => n = a /\ q = p
    BY <1>1, <1>2 DEF TypeOK
  <2>4. QED
    BY <1>2, <1>5, <2>1, <2>2, <2>3 DEF ConnectionsKept
<1>8. StreamsKept
  <2>1. \A r \in Node, q \in Peer :
           inbox'[r][q] = IF r = a /\ q = p THEN <<>> ELSE inbox[r][q]
    BY <1>1, <1>2, <1>3 DEF TypeOK
  <2>2. Range(<<>>) = {} /\ Rest(<<>>) = {}
    <3>1. <<>> \in Seq(Message)
      OBVIOUS
    <3>2. QED
      BY <3>1, EmptyParts
  <2>3. ASSUME NEW r \in Node, NEW q \in Peer
        PROVE  /\ Streams(inbox[r][q], inbox'[r][q], More(r, q))
               /\ Range(inbox'[r][q]) \subseteq Range(inbox[r][q])
    BY <1>4, <2>1, <2>2 DEF Streams
  <2>4. QED
    BY <2>3, NotifsAre DEF StreamsKept, Boxes
<1>9. QED
  BY <1>2, <1>6, <1>7, <1>8, Unchanged DEF PlainStep

\* The Peer of a node that is gone is forgotten, or else was in nobody's view.
LEMMA DisconnectPlain ==
    ASSUME CInv, IInv, NEW a \in Node, NEW p \in Peer,
           HandleDisconnect(a, p) \/ HandleDisconnectHangs(a, p)
    PROVE  PlainStep
<1>1. TypeOK
  BY DEF IInv
<1>2. CASE HandleDisconnectHangs(a, p)
  <2>1. /\ Running(a) /\ status' = [status EXCEPT ![a] = "hung"]
        /\ UNCHANGED <<ui, entry, backlog, peerState, conns, peers, readyTimers,
                       joinTimers, groups, newPeers, logs, reset, inbox>>
    BY <1>2 DEF HandleDisconnectHangs, Reads, joinVars, viewVars, groupVars, netVars
  <2>2. ProcessesKept
    BY <1>1, <2>1 DEF ProcessesKept, Up, Running, TypeOK
  <2>3. QED
    BY <2>1, <2>2, Unchanged DEF PlainStep
<1>3. CASE HandleDisconnect(a, p)
  <2> DEFINE view == IF Erasable(a, p) THEN EraseId(peers[a], Id(p)) ELSE peers[a]
             pending == IF Erasable(a, p) THEN newPeers[a]
                        ELSE [newPeers[a] EXCEPT ![AddrOfPeer(p)] = NoEntry]
             gs == IF Erasable(a, p) THEN GroupsWithout(a, p) ELSE groups[a]
  <2>1. /\ Reads(a, p, "EOF")
        /\ peers' = [peers EXCEPT ![a] = view]
        /\ newPeers' = [newPeers EXCEPT ![a] = pending]
        /\ LeaveGroups(a, view, pending, gs)
        /\ conns' = [conns EXCEPT ![a] = @ \ {p}]
        /\ inbox' = Consume(a, p)
        /\ UNCHANGED <<status, ui, entry, backlog, peerState, readyTimers,
                       joinTimers, logs, reset>>
    BY <1>3 DEF HandleDisconnect, procVars
  <2>2. /\ StreamsKept /\ Eof \in Range(inbox[a][p]) /\ p \in conns[a]
    BY <1>1, <2>1, ReadParts DEF StreamsKept
  <2>3. ~Up(Id(p)) /\ p # Local(a)
    <3>1. FailedAt(a, p) /\ OpenAt(a, p)
      BY CInvAt
    <3>2. QED
      BY <2>2, <3>1 DEF FailedAt, Failure, OpenAt, Local
  <2>4. view \subseteq peers[a] /\ p \notin view
    <3>1. p \in peers[a] => Erasable(a, p)
      <4>1. p \in peers[a] => Known(a, p)
        BY <2>3, WrittenParts, CInvAt DEF WrittenAt
      <4>2. QED
        BY <4>1 DEF Erasable, Ids
    <3>2. QED
      BY <3>1 DEF EraseId
  <2>5. \A g \in GroupId : Touched(gs[g]) \subseteq Written(a)
    <3> SUFFICES ASSUME NEW g \in GroupId
                 PROVE  Touched(gs[g]) \subseteq Written(a)
      OBVIOUS
    <3>1. groups[a][g] \in Group /\ Touched(groups[a][g]) \subseteq Written(a)
      BY <1>1, WrittenParts DEF TypeOK
    <3>2. RemovePeer(groups[a][g], p) \in Group
      BY <3>1, GroupOperationsType
    <3>3. /\ Touched(RemovePeer(groups[a][g], p)) \subseteq Touched(groups[a][g])
          /\ Touched(UpdateNeighbours(RemovePeer(groups[a][g], p), a))
                \subseteq Touched(RemovePeer(groups[a][g], p))
      BY <3>1, <3>2, TouchedByOperations
    <3>4. GroupsWithout(a, p)[g] \in {groups[a][g], RemovePeer(groups[a][g], p),
                         UpdateNeighbours(RemovePeer(groups[a][g], p), a)}
      BY DEF GroupsWithout
    <3>5. Touched(GroupsWithout(a, p)[g]) \subseteq Written(a)
      BY <3>1, <3>3, <3>4
    <3>6. QED
      BY <3>1, <3>5
  <2>6. pending \in [Addr -> NewPeerEntry]
        /\ \A k \in Addr : pending[k].peer \in {newPeers[a][k].peer, NoPeer}
    <3>1. NoEntry \in NewPeerEntry /\ NoEntry.peer = NoPeer
      BY EntryType DEF NoEntry
    <3>2. newPeers[a] \in [Addr -> NewPeerEntry]
      BY <1>1 DEF TypeOK
    <3>3. QED
      BY <3>1, <3>2
  <2> HIDE DEF view, pending, gs
  <2>7. /\ \A n \in Node : n # a => groups'[n] = groups[n]
        /\ \A g \in GroupId : Touched(groups'[a][g]) \subseteq Written(a) \cup {}
    <3>1. CASE groups' = [groups EXCEPT ![a] = [g \in GroupId |-> NewGroup]]
      <4>1. Touched(NewGroup) = {}
        BY DEF Touched, NewGroup
      <4>2. QED
        BY <1>1, <3>1, <4>1 DEF TypeOK
    <3>2. CASE groups' = [groups EXCEPT ![a] = gs]
      BY <1>1, <2>5, <3>2 DEF TypeOK
    <3>3. QED
      BY <2>1, <3>1, <3>2 DEF LeaveGroups
  <2>8. /\ \A n \in Node : peers'[n] \subseteq peers[n]
        /\ p \notin peers'[a]
        /\ \A n \in Node : n # a => peers'[n] = peers[n]
    BY <1>1, <2>1, <2>4 DEF TypeOK
  <2>9. \A n \in Node : Written(n)' \subseteq Written(n)
    <3> SUFFICES ASSUME NEW n \in Node
                 PROVE  Written(n)' \subseteq Written(n)
      OBVIOUS
    <3>1. CASE n = a
      <4>1. /\ peers'[a] \subseteq Written(a) \cup {}
            /\ readyTimers'[a] \subseteq Written(a) \cup {}
            /\ joinTimers'[a] \subseteq Written(a) \cup {}
        BY <2>1, <2>8, WrittenParts
      <4>2. Written(a)' \subseteq Written(a) \cup {}
        BY <2>7, <4>1, WrittenFrom
      <4>3. QED
        BY <3>1, <4>2
    <3>2. CASE n # a
      <4>1. UNCHANGED <<peers[n], readyTimers[n], joinTimers[n], groups[n]>>
        BY <2>1, <2>7, <2>8, <3>2
      <4>2. QED
        BY <4>1, WrittenKept
    <3>3. QED
      BY <3>1, <3>2
  <2>10. ConnectionsKept
    <3>1. p # <<entry[a], "entry">> \/ ui[a] \notin {"join", "joining"}
      BY <2>1 DEF Reads
    <3>2. \A n \in Node, q \in Peer :
             /\ q \in conns'[n] => q \in conns[n]
             /\ q \in conns[n] /\ q \notin conns'[n] => n = a /\ q = p
      BY <1>1, <2>1 DEF TypeOK
    <3>3. QED
      BY <2>1, <2>3, <2>8, <2>9, <3>1, <3>2 DEF ConnectionsKept
  <2>11. NewPeersKept
    <3>1. \A n \in Node : newPeers'[n] = IF n = a THEN pending ELSE newPeers[n]
      BY <1>1, <2>1 DEF TypeOK
    <3>2. QED
      BY <2>6, <3>1 DEF NewPeersKept
  <2>12. QED
    BY <2>1, <2>2, <2>10, <2>11, Unchanged DEF PlainStep
<1>4. QED
  BY <1>2, <1>3

-----------------------------------------------------------------------------
(* The steps that answer                                                   *)

\* A join request is answered, or waits.
LEMMA JoinOutcome ==
    ASSUME CInv, IInv, NEW a \in Node, NEW c \in Peer, HandleJoin(a, c)
    PROVE  PlainStep \/ Answers(a, c)
<1> DEFINE gsOf == IF state[a] = "CONNECTED" THEN groups[a]
                   ELSE [groups[a] EXCEPT ![localGroup'[a]] =
                            AddToRings(NewGroup, Local(a))]
<1>1. /\ Reads(a, c, "JOIN")
      /\ peerState' = [peerState EXCEPT ![a][c] = "JOINING"]
      /\ \/ AnswerJoinRequest(a, c, Id(c), localGroup'[a], gsOf, Consume(a, c),
                              joinTimers[a])
         \/ /\ newPeers' = [newPeers EXCEPT ![a][AddrOfPeer(c)].port = Id(c)]
            /\ groups' = [groups EXCEPT ![a] = gsOf]
            /\ inbox' = Consume(a, c)
            /\ UNCHANGED <<readyTimers, joinTimers, peers, logs, reset>>
      /\ state[a] = "CONNECTED" => localGroup' = localGroup
      /\ state[a] # "CONNECTED" => NewGroupId(a) \in GroupId
            /\ localGroup' = [localGroup EXCEPT ![a] = NewGroupId(a)]
      /\ UNCHANGED <<status, ui, entry, conns, backlog>>
  BY DEF HandleJoin, Identified, FoundGroup, procVars
<1>2. TypeOK
  BY DEF IInv
<1>3. /\ Running(a) /\ c \in conns[a] /\ inbox[a][c] # <<>>
      /\ JoinMsg \in Range(inbox[a][c])
      /\ Consume(a, c) \in Inboxes /\ Boxes(Consume(a, c), {})
      /\ Range(Consume(a, c)[a][c]) = Rest(inbox[a][c])
  BY <1>1, <1>2, ReadParts
<1>4. /\ c[2] = "joiner" /\ c = <<Id(c), "joiner">> /\ Id(c) \in Node
      /\ JoinMsg \notin Rest(inbox[a][c])
  BY <1>3, CInvAt, Kinds DEF JoinFirst
<1>5. Unheard(Id(c)) /\ entry[Id(c)] = a /\ a # Id(c)
  BY <1>3, <1>4, CInvNodes DEF JoinerAt
<1>6. localGroup'[a] \in GroupId
  <2>1. state[a] = "CONNECTED" => localGroup[a] \in GroupId
    BY NetworkAssumption DEF IInv, LocalGroupKept, KeptAt, TypeOK
  <2>2. QED
    BY <1>1, <1>2, <2>1 DEF TypeOK
<1>7. /\ gsOf \in [GroupId -> Group]
      /\ \A g \in GroupId : Touched(gsOf[g]) \subseteq Written(a)
  <2>1. NewGroup \in Group /\ Local(a) \in Peer /\ Local(a) \in Written(a)
    BY DEF NewGroup, Group, Local, Peer, PeerKind, Written
  <2>2. /\ AddToRings(NewGroup, Local(a)) \in Group
        /\ Touched(AddToRings(NewGroup, Local(a))) \subseteq {Local(a)}
    <3>1. Touched(AddToRings(NewGroup, Local(a))) \subseteq Touched(NewGroup) \cup {Local(a)}
      BY <2>1, TouchedByOperations
    <3>2. Touched(NewGroup) = {}
      BY DEF Touched, NewGroup
    <3>3. QED
      BY <2>1, <3>1, <3>2, GroupOperationsType
  <2>3. groups[a] \in [GroupId -> Group]
    BY <1>2 DEF TypeOK
  <2>4. QED
    BY <2>1, <2>2, <2>3, WrittenParts
<1>8. \A n \in Node, p \in Peer : Known(n, p)' <=> Known(n, p) \/ (n = a /\ p = c)
  <2>1. \A n \in Node, p \in Peer :
           peerState'[n][p] = IF n = a /\ p = c THEN "JOINING" ELSE peerState[n][p]
    <3>1. peerState' = [peerState EXCEPT ![a][c] = "JOINING"]
      BY <1>1
    <3>2. QED
      BY <1>2, <3>1 DEF TypeOK
  <2>2. QED
    BY <2>1 DEF Known
<1> HIDE DEF gsOf
<1>9. CASE AnswerJoinRequest(a, c, Id(c), localGroup'[a], gsOf, Consume(a, c),
                             joinTimers[a])
  <2>1. PICK gid \in GroupId : gid = localGroup'[a]
    BY <1>6
  <2>2. PICK gs \in [GroupId -> Group] : gs = gsOf
    BY <1>7
  <2>3. PICK box \in Inboxes : box = Consume(a, c)
    BY <1>3
  <2>4. PICK timers : timers = joinTimers[a]
    OBVIOUS
  <2>5. PICK port \in Node \cup {NoNode} : port = Id(c)
    BY <1>4
  <2>6. /\ AnswerJoinRequest(a, c, port, gid, gs, box, timers)
        /\ \A i \in GroupId : Touched(gs[i]) \subseteq Written(a)
        /\ Boxes(box, {}) /\ JoinMsg \notin Range(box[a][c])
        /\ timers \subseteq Written(a)
    BY <1>3, <1>4, <1>7, <1>9, <2>1, <2>2, <2>3, <2>4, <2>5, WrittenParts
  <2>7. box[Id(c)][OtherEnd(a, c)] = inbox[Id(c)][OtherEnd(a, c)]
    BY <1>2, <1>4, <1>5, <2>3, Kinds DEF Consume, TypeOK
  <2>8. c \notin backlog[a]
    BY <1>3, CInvAt DEF OpenAt
  <2>9. /\ UNCHANGED <<status, ui, entry, conns, backlog>>
        /\ c \in conns[a] \cup reset[a] \/ ~Up(Id(c))
        /\ Known(a, c) \/ JoinMsg \in Range(inbox[a][c])
        /\ Running(a) /\ c[2] = "joiner"
    BY <1>1, <1>3, <1>4
  <2>10. Answers(a, c)
    BY <1>5, <1>8, <2>6, <2>7, <2>8, <2>9, RequestAnswered
  <2>11. QED
    BY <2>10
<1>10. CASE /\ newPeers' = [newPeers EXCEPT ![a][AddrOfPeer(c)].port = Id(c)]
            /\ groups' = [groups EXCEPT ![a] = gsOf]
            /\ inbox' = Consume(a, c)
            /\ UNCHANGED <<readyTimers, joinTimers, peers, logs, reset>>
  <2>1. KnownKept
    BY <1>3, <1>4, <1>8, <1>10 DEF KnownKept
  <2>2. \A n \in Node : Written(n)' \subseteq Written(n)
    <3> SUFFICES ASSUME NEW n \in Node
                 PROVE  Written(n)' \subseteq Written(n)
      OBVIOUS
    <3>1. CASE n = a
      <4>1. \A g \in GroupId : Touched(groups'[a][g]) \subseteq Written(a) \cup {}
        BY <1>2, <1>7, <1>10 DEF TypeOK
      <4>2. /\ peers'[a] \subseteq Written(a) \cup {}
            /\ readyTimers'[a] \subseteq Written(a) \cup {}
            /\ joinTimers'[a] \subseteq Written(a) \cup {}
        BY <1>10, WrittenParts
      <4>3. Written(a)' \subseteq Written(a) \cup {}
        BY <4>1, <4>2, WrittenFrom
      <4>4. QED
        BY <3>1, <4>3
    <3>2. CASE n # a
      <4>1. UNCHANGED <<peers[n], readyTimers[n], joinTimers[n], groups[n]>>
        BY <1>2, <1>10, <3>2 DEF TypeOK
      <4>2. QED
        BY <4>1, WrittenKept
    <3>3. QED
      BY <3>1, <3>2
  <2>3. ConnectionsKept
    BY <1>1, <1>10, <2>2, Shrinks
  <2>4. NewPeersKept
    <3>1. AddrOfPeer(c) \in Addr
      BY EntryType
    <3>2. \A n \in Node, k \in Addr : newPeers[n][k] \in NewPeerEntry
      BY <1>2 DEF TypeOK
    <3>3. QED
      BY <1>2, <1>10, <3>1, <3>2 DEF NewPeersKept, TypeOK, NewPeerEntry
  <2>5. StreamsKept
    BY <1>3, <1>10 DEF StreamsKept
  <2>6. PlainStep
    BY <1>1, <1>10, <2>1, <2>3, <2>4, <2>5, Unchanged DEF PlainStep
  <2>7. QED
    BY <2>6
<1>11. QED
  BY <1>1, <1>9, <1>10

\* check_for_new_peers answers somebody who has sent a JOIN, or nobody.
LEMMA CheckOutcome ==
    ASSUME CInv, IInv, NEW a \in Node, Running(a),
           NEW p \in Peer, Known(a, p), NEW states,
           states = [peerState[a] EXCEPT ![p] = "CONNECTED"],
           peerState' = [peerState EXCEPT ![a] = states],
           NEW box \in Inboxes, Boxes(box, {}),
           \A r \in Node, q \in Peer :
              /\ Range(box[r][q]) \subseteq Range(inbox[r][q])
              /\ inbox[r][q] = <<>> => box[r][q] = <<>>,
           NEW timers, timers \subseteq joinTimers[a],
           CheckForNewPeers(a, states, box, timers),
           UNCHANGED <<status, ui, entry, conns, backlog>>
    PROVE  PlainStep \/ \E c \in Peer : c[2] = "joiner" /\ Answers(a, c)
<1>1. TypeOK
  BY DEF IInv
<1>2. /\ \A n \in Node, q \in Peer : Known(n, q)' <=> Known(n, q)
      /\ \A q \in Peer : states[q] # "NEW" => Known(a, q)
  <2>1. /\ \A n \in Node, q \in Peer :
              peerState'[n][q] = IF n = a /\ q = p THEN "CONNECTED" ELSE peerState[n][q]
        /\ \A q \in Peer : states[q] = IF q = p THEN "CONNECTED" ELSE peerState[a][q]
    BY <1>1 DEF TypeOK
  <2>2. QED
    BY <2>1 DEF Known
<1>3. timers \subseteq Written(a)
  BY WrittenParts
<1>4. ASSUME ~DereferencesNull(a, states), NEW k \in Pending(a, states),
             AnswerJoinRequest(a, newPeers[a][k].peer, newPeers[a][k].port,
                               localGroup[a], groups[a], box, timers)
      PROVE  \E c \in Peer : c[2] = "joiner" /\ Answers(a, c)
  <2>1. PICK c \in Peer : c = newPeers[a][k].peer
    BY <1>4, PendingType
  <2>2. PICK port \in Node \cup {NoNode} : port = newPeers[a][k].port
    BY <1>4, PendingType
  <2>3. PICK gid \in GroupId : gid = localGroup[a]
    BY <1>4, PendingType
  <2>4. PICK gs \in [GroupId -> Group] : gs = groups[a]
    BY <1>1 DEF TypeOK
  <2>5. k \in Addr /\ Known(a, c) /\ c # NoPeer
    BY <1>2, <1>4, <2>1 DEF Pending
  <2>6. /\ c[2] = "joiner" /\ c = <<Id(c), "joiner">> /\ Id(c) \in Node
        /\ c \in conns[a] \cup reset[a] \/ ~Up(Id(c))
    <3>1. NewPeerAt(a, k)
      BY <2>5, CInvNew
    <3>2. QED
      BY <2>1, <2>5, <3>1, Kinds DEF NewPeerAt, Asking
  <2>7. Unheard(Id(c)) /\ entry[Id(c)] = a /\ a # Id(c)
    <3>1. InNew(a, c)
      BY <2>1, <2>5 DEF InNew
    <3>2. JoinerAt(a, Id(c))
      BY <2>6, CInvNodes
    <3>3. QED
      BY <2>6, <3>1, <3>2 DEF JoinerAt
  <2>8. c \notin backlog[a] /\ JoinMsg \notin Range(box[a][c])
    <3>1. OpenAt(a, c) /\ JoinFirst(a, c)
      BY CInvAt
    <3>2. QED
      BY <2>5, <3>1 DEF OpenAt, JoinFirst
  <2>9. box[Id(c)][OtherEnd(a, c)] = inbox[Id(c)][OtherEnd(a, c)]
    <3>1. ~Heard(a, Id(c))
      BY <2>7, NotifsAre DEF Heard, Unheard
    <3>2. inbox[Id(c)][OtherEnd(a, c)] = <<>> /\ OtherEnd(a, c) \in Peer
      BY <1>1, <2>6, <3>1, Unanswered DEF Answering
    <3>3. QED
      BY <2>6, <3>2
  <2>10. \A n \in Node, q \in Peer : Known(n, q)' <=> Known(n, q) \/ (n = a /\ q = c)
    BY <1>2, <2>5
  <2>11. \A i \in GroupId : Touched(gs[i]) \subseteq Written(a)
    BY <2>4, WrittenParts
  <2>12. AnswerJoinRequest(a, c, port, gid, gs, box, timers)
    BY <1>4, <2>1, <2>2, <2>3, <2>4
  <2>13. Answers(a, c)
    <3>1. Known(a, c) \/ JoinMsg \in Range(inbox[a][c])
      BY <2>5
    <3>2. c[2] = "joiner" /\ (c \in conns[a] \cup reset[a] \/ ~Up(Id(c)))
      BY <2>6
    <3>3. UNCHANGED <<status, ui, entry, conns, backlog>>
      OBVIOUS
    <3>4. QED
      BY <1>3, <2>7, <2>8, <2>9, <2>10, <2>11, <2>12, <3>1, <3>2, <3>3,
         RequestAnswered
  <2>14. QED
    BY <2>6, <2>13
<1>5. ASSUME inbox' = box, joinTimers' = [joinTimers EXCEPT ![a] = timers],
             UNCHANGED <<newPeers, logs, peers, groups, reset, readyTimers>>
      PROVE  PlainStep
  <2>1. KnownKept
    BY <1>2 DEF KnownKept
  <2>2. \A n \in Node : Written(n)' \subseteq Written(n)
    BY <1>1, <1>5 DEF Written, TypeOK
  <2>3. ConnectionsKept
    BY <1>5, <2>2, Shrinks
  <2>4. StreamsKept
    BY <1>5 DEF StreamsKept
  <2>5. QED
    BY <1>5, <2>1, <2>3, <2>4, Unchanged DEF PlainStep
<1>6. QED
  BY <1>4, <1>5 DEF CheckForNewPeers

\* Nobody waits for the local Peer to be ready.
TimersKept == \A n \in Node : Local(n) \notin joinTimers[n]

\* READY Notifications and timers hand the token on.
LEMMA CheckersOutcome ==
    ASSUME CInv, IInv, TimersKept, NEW a \in Node, NEW p \in Peer,
           HandleReadyNotif(a, p) \/ CompleteJoin(a, p)
    PROVE  PlainStep \/ \E c \in Peer : c[2] = "joiner" /\ Answers(a, c)
<1>1. TypeOK
  BY DEF IInv
<1>2. PICK states : states = [peerState[a] EXCEPT ![p] = "CONNECTED"]
  OBVIOUS
<1>3. CASE HandleReadyNotif(a, p)
  <2>1. /\ Reads(a, p, "READY_NOTIF")
        /\ peerState' = [peerState EXCEPT ![a] = states]
        /\ CheckForNewPeers(a, states, Consume(a, p), joinTimers[a])
        /\ UNCHANGED <<status, ui, entry, conns, backlog>>
    BY <1>2, <1>3 DEF HandleReadyNotif, procVars
  <2>2. /\ Running(a) /\ Known(a, p) /\ inbox[a][p] # <<>>
        /\ Consume(a, p) \in Inboxes /\ Boxes(Consume(a, p), {})
        /\ Range(Consume(a, p)[a][p]) = Rest(inbox[a][p])
    BY <1>1, <2>1, ReadParts
  <2>3. PICK box \in Inboxes : box = Consume(a, p)
    BY <2>2
  <2>4. PICK timers : timers = joinTimers[a]
    OBVIOUS
  <2>5. \A r \in Node, q \in Peer :
           /\ Range(box[r][q]) \subseteq Range(inbox[r][q])
           /\ inbox[r][q] = <<>> => box[r][q] = <<>>
    <3>1. \A r \in Node, q \in Peer : r # a \/ q # p => box[r][q] = inbox[r][q]
      BY <1>1, <2>3 DEF Consume, TypeOK
    <3>2. inbox[a][p] \in Seq(Message)
      BY <1>1 DEF TypeOK
    <3>3. Rest(inbox[a][p]) \subseteq Range(inbox[a][p])
      BY <3>2, EmptyParts
    <3>4. QED
      BY <2>2, <2>3, <3>1, <3>3
  <2>6. /\ CheckForNewPeers(a, states, box, timers) /\ Boxes(box, {})
        /\ timers \subseteq joinTimers[a]
    BY <2>1, <2>2, <2>3, <2>4
  <2>7. QED
    BY <1>2, <2>1, <2>2, <2>5, <2>6, CheckOutcome
<1>4. CASE CompleteJoin(a, p)
  <2>1. /\ Running(a) /\ p \in joinTimers[a]
        /\ peerState' = [peerState EXCEPT ![a] = states]
        /\ CheckForNewPeers(a, states, inbox, EraseId(joinTimers[a], Id(p)))
        /\ UNCHANGED <<status, ui, entry, conns, backlog>>
    BY <1>2, <1>4 DEF CompleteJoin, CompletesJoin, procVars
  <2>2. CASE Known(a, p)
    <3>1. PICK box \in Inboxes : box = inbox
      BY <1>1 DEF TypeOK, Inboxes
    <3>2. PICK timers : timers = EraseId(joinTimers[a], Id(p))
      OBVIOUS
    <3>3. timers \subseteq joinTimers[a]
      BY <3>2 DEF EraseId
    <3>4. Boxes(box, {}) /\ CheckForNewPeers(a, states, box, timers)
      BY <2>1, <3>1, <3>2, SameBoxes
    <3>5. \A r \in Node, q \in Peer :
             /\ Range(box[r][q]) \subseteq Range(inbox[r][q])
             /\ inbox[r][q] = <<>> => box[r][q] = <<>>
      BY <3>1
    <3>6. QED
      BY <1>2, <2>1, <2>2, <3>3, <3>4, <3>5, CheckOutcome
  <2>3. CASE ~Known(a, p)
    <3>1. p \in Written(a)
      BY <2>1, WrittenParts
    <3>2. p = Local(a)
      BY <2>3, <3>1, CInvAt DEF WrittenAt
    <3>3. QED
      BY <2>1, <3>2 DEF TimersKept
  <2>4. QED
    BY <2>2, <2>3
<1>5. QED
  BY <1>3, <1>4

\* A member calls the node that is announced: it has not heard of it before.
LEMMA NotifOutcome ==
    ASSUME CInv, IInv, NEW a \in Node, NEW p \in Peer,
           HandleJoinNotif(a, p)
    PROVE  \E c \in Peer : c[2] = "called" /\ Answers(a, c)
<1> DEFINE m == Head(inbox[a][p])
           c == <<m.peer, "called">>
<1>1. TypeOK
  BY DEF IInv
<1>2. /\ Reads(a, p, "JOIN_NOTIF") /\ m \notin logs[a] /\ LogForwarded(a, m)
      /\ Ours(a, m) /\ m.port = m.peer /\ Up(m.port)
      /\ conns' = [conns EXCEPT ![a] = @ \cup {c}]
      /\ backlog' = [backlog EXCEPT ![m.port] = @ \cup {<<a, "caller">>}]
      /\ peerState' = [peerState EXCEPT ![a][c] = "JOINING"]
      /\ AcknowledgeJoin(a, c, m.group, groups[a],
                         Deliver(Consume(a, p), a, Relays(a, m), m),
                         Relays(a, m), joinTimers[a])
      /\ UNCHANGED <<status, ui, entry, newPeers, readyTimers>>
  BY DEF HandleJoinNotif, ReadsNotif, Identified, procVars
<1>3. /\ m \in BCastMessage /\ m.type = "JOIN_NOTIF" /\ m.group \in GroupId
      /\ m.peer \in Node
  <2>1. m \in BCastMessage /\ m.group \in GroupId
    BY <1>2, ForwardType
  <2>2. m.type = "JOIN_NOTIF"
    BY <1>2 DEF Reads
  <2>3. m \in Message
    BY <2>1 DEF Message
  <2>4. QED
    BY <2>1, <2>2, <2>3, MessageFields
<1>4. /\ m \in LaterMsg /\ m \in Notifs /\ Running(a)
      /\ Consume(a, p) \in Inboxes /\ Boxes(Consume(a, p), {})
      /\ Relays(a, m) \subseteq Written(a)
  BY <1>2, <1>3, ForwardParts
<1>5. /\ c \in Peer /\ Id(c) = m.peer /\ c[2] = "called" /\ c[2] \in Answering
      /\ OtherEnd(a, c) = <<a, "caller">>
  BY <1>3 DEF Peer, PeerKind, Id, OtherEnd, OtherKind, Answering
\* The group has its marker: the announcement is logged.
<1>6. /\ m \in logs'[a]
      /\ \A n \in Node : /\ logs[n] \subseteq logs'[n]
                         /\ \A e \in logs'[n] : e \in logs[n] \/ e = m
  <2>1. m.group \in markers[a]
    <3>1. KeptAt(a) /\ m.group = localGroup[a] /\ m.group # NoGroup
      BY <1>2, <1>3, NetworkAssumption DEF IInv, LocalGroupKept, Ours
    <3>2. QED
      BY <3>1 DEF KeptAt
  <2>2. logs' = [logs EXCEPT ![a] = @ \cup {m}]
    BY <1>2, <2>1 DEF LogForwarded
  <2> HIDE DEF m
  <2>3. QED
    BY <1>1, <2>2 DEF TypeOK
<1>7. ~Heard(a, Id(c))
  <2> SUFFICES ASSUME NEW e \in logs[a], e.type = "JOIN_NOTIF", e.peer = m.peer
               PROVE  FALSE
    BY <1>5 DEF Heard
  <2>1. e \in Notifs
    BY NotifsAre
  <2>2. e = m
    BY <1>4, <2>1 DEF CInv, AnnouncedOnce
  <2>3. QED
    BY <1>2, <2>2
<1> DEFINE r == Id(c)
           q == OtherEnd(a, c)
<1>8. /\ r \in Node /\ q \in Peer /\ inbox[r][q] = <<>>
      /\ c \notin Written(a) /\ JoinMsg \notin Range(inbox[a][c])
      /\ c \notin backlog[a]
  <2>1. /\ r \in Node /\ q \in Peer /\ inbox[r][q] = <<>> /\ c \notin Written(a)
    BY <1>1, <1>4, <1>5, <1>7, Unanswered
  <2>2. OpenAt(a, c) /\ JoinFirst(a, c)
    BY <1>5, CInvAt
  <2>3. QED
    BY <1>5, <2>1, <2>2 DEF OpenAt, JoinFirst
<1> HIDE DEF m, c, r, q
<1>9. PICK box : box = Deliver(Consume(a, p), a, Relays(a, m), m)
  OBVIOUS
<1>10. PICK M : M = Relays(a, m)
  OBVIOUS
<1>11. PICK timers : timers = joinTimers[a]
  OBVIOUS
<1>12. PICK gs \in [GroupId -> Group] : gs = groups[a]
  BY <1>1 DEF TypeOK
<1>13. PICK gid \in GroupId : gid = m.group
  BY <1>3
<1>14. PICK N : N = {}
  OBVIOUS
<1>15. PICK x \in Peer : x = c
  BY <1>5
<1>16. /\ box \in Inboxes /\ Boxes(box, N)
       /\ M \subseteq Written(a) /\ timers \subseteq Written(a)
       /\ \A i \in GroupId : Touched(gs[i]) \subseteq Written(a)
       /\ AcknowledgeJoin(a, x, gid, gs, box, M, timers)
  <2>1. box \in Inboxes
    BY <1>4, <1>9, DeliverType DEF LaterMsg
  <2>2. Boxes(Deliver(Consume(a, p), a, Relays(a, m), m), {})
    BY <1>4, SendBoxes
  <2>3. QED
    BY <1>2, <1>4, <1>9, <1>10, <1>11, <1>12, <1>13, <1>14, <1>15, <2>1, <2>2,
       WrittenParts
\* Nothing is forwarded to the node that is announced.
<1>17. box[r][q] = inbox[r][q] /\ JoinMsg \notin Range(box[a][c])
  <2>1. /\ OtherEnd(r, q) = c /\ Id(q) = a
    BY <1>5, Kinds DEF r, q
  <2>2. box[r][q] = Consume(a, p)[r][q]
    BY <1>4, <1>8, <1>9, <2>1 DEF Deliver
  <2>3. Consume(a, p)[r][q] = inbox[r][q]
    <3>1. inbox[a][p] # <<>>
      BY <1>2 DEF Reads
    <3>2. \A n \in Node, s \in Peer : n # a \/ s # p =>
             Consume(a, p)[n][s] = inbox[n][s]
      BY <1>1 DEF Consume, TypeOK
    <3>3. QED
      BY <1>8, <3>1, <3>2
  <2>4. Range(box[a][c]) \subseteq Range(inbox[a][c]) \cup LaterMsg
    BY <1>5, <1>16 DEF Boxes, Streams, More
  <2>5. QED
    BY <1>8, <2>2, <2>3, <2>4 DEF LaterMsg
<1>18. AcknowledgedOn(a, x, box, N)
  <2>1. box[Id(x)][OtherEnd(a, x)] = inbox[Id(x)][OtherEnd(a, x)]
    BY <1>15, <1>17 DEF r, q
  <2>2. x[2] \in Answering
    BY <1>5, <1>15
  <2>3. /\ readyTimers'[a] \subseteq Written(a) \cup {x}
        /\ \A n \in Node : n # a => readyTimers'[n] = readyTimers[n]
    BY <1>2, WrittenParts
  <2>4. QED
    BY <1>1, <1>16, <2>1, <2>2, <2>3, AcknowledgeParts
<1>19. AcknowledgedOn(a, x, box, {})
  BY <1>14, <1>15, <1>18
<1>20. PICK e : e = m
  OBVIOUS
<1>21. /\ e \in logs'[a] /\ e \in Notifs /\ e.type = "JOIN_NOTIF"
       /\ e.peer = Id(x) /\ e.port = e.peer /\ Id(x) \in Node
       /\ \A n \in Node : /\ logs[n] \subseteq logs'[n]
                          /\ \A k \in logs'[n] : k \in logs[n] \/ k = e
  BY <1>2, <1>3, <1>4, <1>5, <1>6, <1>15, <1>20
<1>22. /\ OtherEnd(a, x) = <<a, "caller">> /\ x[2] = "called" /\ x[2] \in Answering
       /\ ~Heard(a, Id(x)) /\ a \in Node /\ Running(a) /\ Up(Id(x))
       /\ inbox[Id(x)][OtherEnd(a, x)] = <<>> /\ x \notin Written(a)
       /\ JoinMsg \notin Range(inbox[a][x]) /\ x \notin backlog[a]
       /\ box[Id(x)][OtherEnd(a, x)] = inbox[Id(x)][OtherEnd(a, x)]
       /\ JoinMsg \notin Range(box[a][x])
  BY <1>2, <1>3, <1>4, <1>5, <1>7, <1>8, <1>15, <1>17 DEF r, q
<1>23. /\ conns' = [conns EXCEPT ![a] = @ \cup {x}]
       /\ backlog' = [backlog EXCEPT ![e.port] = @ \cup {<<a, "caller">>}]
       /\ peerState' = [peerState EXCEPT ![a][x] = "JOINING"]
       /\ UNCHANGED <<status, ui, entry, newPeers>>
  BY <1>2, <1>15, <1>20
<1>24. Announces(a, x)
  <2>1. Heard(a, Id(x))'
    <3>1. e \in logs'[a] /\ e.type = "JOIN_NOTIF" /\ e.peer = Id(x)
      BY <1>21, <1>22, <1>23
    <3>2. QED
      BY <3>1 DEF Heard
  <2>2. \A n \in Node : \A k \in logs'[n] :
           k.type = "JOIN_NOTIF" => k \in Notifs \cup {}
    BY <1>21, <1>22, <1>23, NotifsAre
  <2>3. \A n \in Node, s \in Peer : \A k \in Range(inbox'[n][s]) :
           k.type = "JOIN_NOTIF" => k \in Notifs \cup {}
    BY <1>19 DEF AcknowledgedOn
  <2>4. Notifs' \subseteq Notifs \cup {}
    BY <2>2, <2>3, NewNotifs
  <2>5. QED
    BY <1>21, <1>22, <1>23, <2>1, <2>4 DEF Announces
<1>25. Connects(a, x)
  <2>1. \A n \in Node, s \in Peer :
           s \in conns'[n] <=> s \in conns[n] \/ (n = a /\ s = x)
    <3>1. conns' = [conns EXCEPT ![a] = @ \cup {x}]
      BY <1>23
    <3>2. conns \in [Node -> SUBSET Peer]
      BY <1>1 DEF TypeOK
    <3>3. QED
      BY <3>1, <3>2, <1>22
  <2>2. \A n \in Node, s \in Peer :
           s \in backlog'[n] <=> s \in backlog[n] \/ (n = Id(x) /\ s = OtherEnd(a, x))
    <3>1. backlog' = [backlog EXCEPT ![e.port] = @ \cup {<<a, "caller">>}]
      BY <1>23
    <3>2. e.port = Id(x) /\ <<a, "caller">> = OtherEnd(a, x) /\ Id(x) \in Node
      BY <1>21, <1>22, <1>23
    <3>3. backlog \in [Node -> SUBSET Peer]
      BY <1>1 DEF TypeOK
    <3>4. backlog' = [backlog EXCEPT ![Id(x)] = @ \cup {OtherEnd(a, x)}]
      BY <3>1, <3>2
    <3>5. QED
      BY <3>2, <3>3, <3>4
  <2>3. QED
    BY <1>21, <1>22, <1>23, <1>19, <2>1, <2>2 DEF Connects, AcknowledgedOn
<1>26. Identifies(a, x)
  <2>1. \A n \in Node, s \in Peer : Known(n, s)' <=> Known(n, s) \/ (n = a /\ s = x)
    <3>1. \A n \in Node, s \in Peer :
             peerState'[n][s] = IF n = a /\ s = x THEN "JOINING" ELSE peerState[n][s]
      <4>1. peerState' = [peerState EXCEPT ![a][x] = "JOINING"]
        BY <1>23
      <4>2. DOMAIN peerState = Node /\ \A n \in Node : DOMAIN peerState[n] = Peer
        BY <1>1 DEF TypeOK
      <4>3. peerState' = [peerState EXCEPT ![a] = [@ EXCEPT ![x] = "JOINING"]]
        BY <4>1
      <4>4. QED
        BY <4>2, <4>3, <1>22
    <3>2. QED
      BY <3>1 DEF Known
  <2>2. x[2] # "joiner"
    BY <1>22
  <2>3. QED
    BY <1>21, <1>22, <1>23, <1>19, <2>1, <2>2 DEF Identifies, AcknowledgedOn
<1>27. Acknowledges(a, x)
  BY <1>21, <1>22, <1>23, <1>19 DEF Acknowledges, AcknowledgedOn
<1>28. Answers(a, x)
  BY <1>21, <1>22, <1>23, <1>24, <1>25, <1>26, <1>27 DEF Answers
<1>29. QED
  BY <1>22, <1>28

\* The answers keep the invariant.
LEMMA AnswerersKeep ==
    ASSUME CInv, IInv, TypeOK', TimersKept, NEW a \in Node, NEW p \in Peer,
           \/ HandleJoin(a, p) \/ HandleJoinNotif(a, p)
           \/ HandleReadyNotif(a, p) \/ CompleteJoin(a, p)
    PROVE  CInv'
<1>1. TypeOK
  BY DEF IInv
<1>2. PlainStep \/ \E c \in Peer : Answers(a, c)
  BY JoinOutcome, CheckersOutcome, NotifOutcome
<1>3. QED
  BY <1>1, <1>2, PlainKeeps, AnswersKeep

-----------------------------------------------------------------------------
(* Every step keeps the invariant                                          *)

LEMMA TimersInit == Init => TimersKept
  BY DEF Init, TimersKept

\* Only Peers of other nodes are waited for.
LEMMA OthersWait ==
    ASSUME TimersKept, TypeOK, NEW a \in Node, NEW p \in Peer, p[2] # "local",
           NEW timers, timers \subseteq joinTimers[a],
           \/ joinTimers' = [joinTimers EXCEPT ![a] = timers]
           \/ joinTimers' = [joinTimers EXCEPT ![a] = Put(timers, p)]
    PROVE  TimersKept'
<1>1. \A n \in Node : joinTimers'[n] \subseteq joinTimers[n] \cup {p}
  <2>1. DOMAIN joinTimers = Node
    BY DEF TypeOK
  <2>2. PICK T : /\ T \subseteq joinTimers[a] \cup {p}
                 /\ joinTimers' = [joinTimers EXCEPT ![a] = T]
    BY DEF Put
  <2>3. QED
    BY <2>1, <2>2
<1>2. \A n \in Node : Local(n) # p
  BY DEF Local
<1>3. QED
  BY <1>1, <1>2 DEF TimersKept

LEMMA AcknowledgedWait ==
    ASSUME TimersKept, TypeOK, NEW a \in Node, NEW p \in Peer, p[2] # "local",
           NEW gid, NEW gs, NEW box, NEW M, NEW timers,
           timers \subseteq joinTimers[a],
           AcknowledgeJoin(a, p, gid, gs, box, M, timers)
    PROVE  TimersKept'
<1>1. \/ joinTimers' = [joinTimers EXCEPT ![a] = timers]
      \/ joinTimers' = [joinTimers EXCEPT ![a] = Put(timers, p)]
  BY DEF AcknowledgeJoin
<1>2. QED
  BY <1>1, OthersWait

LEMMA CheckedWait ==
    ASSUME CInv, TimersKept, TypeOK, NEW a \in Node, NEW states, NEW box,
           NEW timers, timers \subseteq joinTimers[a],
           CheckForNewPeers(a, states, box, timers)
    PROVE  TimersKept'
<1>1. CASE joinTimers' = [joinTimers EXCEPT ![a] = timers]
  <2>1. \A n \in Node : joinTimers'[n] \subseteq joinTimers[n]
    BY <1>1 DEF TypeOK
  <2>2. QED
    BY <2>1 DEF TimersKept
<1>2. CASE \E k \in Pending(a, states) :
              AnswerJoinRequest(a, newPeers[a][k].peer, newPeers[a][k].port,
                                localGroup[a], groups[a], box, timers)
  <2>1. PICK k \in Pending(a, states) :
              AnswerJoinRequest(a, newPeers[a][k].peer, newPeers[a][k].port,
                                localGroup[a], groups[a], box, timers)
    BY <1>2
  <2>2. k \in Addr /\ newPeers[a][k].peer # NoPeer
    BY DEF Pending
  <2>3. newPeers[a][k].peer \in Peer
    <3>1. newPeers[a][k] \in NewPeerEntry
      BY <2>2 DEF TypeOK
    <3>2. QED
      BY <2>2, <3>1 DEF NewPeerEntry
  <2>4. newPeers[a][k].peer[2] # "local"
    BY <2>2 DEF CInv, NewPeerAt
  <2>5. PICK p \in Peer : p = newPeers[a][k].peer
    BY <2>3
  <2>6. \E gid, gs, b, M : AcknowledgeJoin(a, p, gid, gs, b, M, timers)
    BY <2>1, <2>5 DEF AnswerJoinRequest
  <2>7. QED
    BY <2>4, <2>5, <2>6, AcknowledgedWait
<1>3. QED
  BY <1>1, <1>2 DEF CheckForNewPeers

LEMMA TimersStep == IInv /\ CInv /\ TimersKept /\ [Next]_vars => TimersKept'
<1> SUFFICES ASSUME IInv, CInv, TimersKept, [Next]_vars
             PROVE  TimersKept'
  OBVIOUS
<1>1. TypeOK
  BY DEF IInv
<1>2. CASE joinTimers' = joinTimers
  BY <1>2 DEF TimersKept
<1>3. ASSUME NEW a \in Node, NEW p \in Peer, HandleJoin(a, p)
      PROVE  TimersKept'
  <2>1. p[2] # "local"
    <3>1. JoinMsg \in Range(inbox[a][p])
      <4>1. Reads(a, p, "JOIN")
        BY <1>3 DEF HandleJoin
      <4>2. QED
        BY <1>1, <4>1, ReadParts
    <3>2. QED
      BY <3>1, CInvAt DEF JoinFirst
  <2>2. \/ \E gid, gs, b, M : AcknowledgeJoin(a, p, gid, gs, b, M, joinTimers[a])
        \/ joinTimers' = joinTimers
    BY <1>3 DEF HandleJoin, AnswerJoinRequest
  <2>3. QED
    BY <1>1, <1>2, <2>1, <2>2, AcknowledgedWait
<1>4. ASSUME NEW a \in Node, NEW p \in Peer, HandleJoinNotif(a, p)
      PROVE  TimersKept'
  <2>1. PICK q : q = <<Head(inbox[a][p]).peer, "called">>
    OBVIOUS
  <2>2. /\ ReadsNotif(a, p)
        /\ Ours(a, Head(inbox[a][p]))
        /\ \E gid, gs, b, M : AcknowledgeJoin(a, q, gid, gs, b, M, joinTimers[a])
    BY <1>4, <2>1 DEF HandleJoinNotif
  <2>3. q \in Peer /\ q[2] # "local"
    <3>1. /\ Reads(a, p, "JOIN_NOTIF")
          /\ LogForwarded(a, Head(inbox[a][p]))
      BY <2>2 DEF ReadsNotif
    <3>2. Head(inbox[a][p]) \in BCastMessage
      BY <1>1, <3>1, ForwardType
    <3>3. Head(inbox[a][p]).peer \in Node
      BY <3>1, <3>2, MessageFields DEF Reads, Message
    <3>4. QED
      BY <2>1, <3>3 DEF Peer, PeerKind
  <2>4. QED
    BY <1>1, <2>2, <2>3, AcknowledgedWait
<1>5. ASSUME NEW a \in Node, NEW p \in Peer, HandleReadyNotif(a, p)
      PROVE  TimersKept'
  BY <1>1, <1>5, CheckedWait DEF HandleReadyNotif
<1>6. ASSUME NEW a \in Node, NEW p \in Peer, CompleteJoin(a, p)
      PROVE  TimersKept'
  <2>1. EraseId(joinTimers[a], Id(p)) \subseteq joinTimers[a]
    BY DEF EraseId
  <2>2. QED
    BY <1>1, <1>6, <2>1, CheckedWait DEF CompleteJoin
<1> USE DEF joinVars
<1>7. ASSUME NEW a \in Node,
             \/ \E m \in JoinTo[a] : UIJoinConnect(a, m)
             \/ UIBroadcastCheck(a) \/ UIStep(a) \/ UISend(a) \/ Quit(a)
      PROVE  joinTimers' = joinTimers
  BY <1>7 DEF UIJoinConnect, UIBroadcastCheck, UIStep, UIJoinMark, UIJoinSend,
              UIJoinThrows, UIBroadcast, UIBroadcastLog, UIBroadcastCrash, UISend,
              Quit, Crash, Exit
<1>8. ASSUME NEW a \in Node, NEW p \in Peer,
             \/ Accept(a, p) \/ HandleDuplicate(a, p) \/ HandleMisrouted(a, p)
             \/ HandleData(a, p) \/ HandleForeignNotif(a, p)
             \/ HandleNotifRefused(a, p) \/ HandleJoinAck(a, p)
             \/ HandleReady(a, p) \/ HandleReadyNotifThrows(a, p)
             \/ HandleReadyNotifCrash(a, p) \/ HandleText(a, p)
      PROVE  joinTimers' = joinTimers
  BY <1>8 DEF Accept, HandleDuplicate, HandleMisrouted, HandleData,
              HandleForeignNotif, HandleNotifRefused, HandleJoinAck, HandleReady,
              HandleReadyNotifThrows, HandleReadyNotifCrash, HandleText, Crash,
              Exit
<1>9. ASSUME NEW a \in Node, NEW p \in Peer,
             \/ HandleDisconnect(a, p) \/ HandleDisconnectHangs(a, p)
             \/ HandleDisconnectCrash(a, p) \/ HandleReadError(a, p)
             \/ SendReady(a, p) \/ CompleteJoinCrash(a, p) \/ ReadTogether(a, p)
      PROVE  joinTimers' = joinTimers
  BY <1>9 DEF HandleDisconnect, HandleDisconnectHangs, HandleDisconnectCrash,
              HandleReadError, SendReady, CompleteJoinCrash, ReadTogether, Crash,
              Exit
<1>10. CASE UNCHANGED vars
  BY <1>2, <1>10 DEF vars
<1>11. CASE Next
  BY <1>2, <1>3, <1>4, <1>5, <1>6, <1>7, <1>8, <1>9, <1>11
     DEF Next, IOStep, Receive, TimerExpires
<1>12. QED
  BY <1>10, <1>11

LEMMA CInvInit == Init => CInv
<1> SUFFICES ASSUME Init
             PROVE  CInv
  OBVIOUS
<1>1. /\ \A n \in Node, p \in Peer :
            /\ inbox[n][p] = <<>> /\ Range(inbox[n][p]) = {}
            /\ Rest(inbox[n][p]) = {} /\ ~AckFirst(inbox[n][p])
            /\ ~Known(n, p)
      /\ \A n \in Node :
            /\ conns[n] = {} /\ backlog[n] = {} /\ reset[n] = {} /\ logs[n] = {}
            /\ peers[n] = {} /\ entry[n] = n /\ ui[n] = "idle"
            /\ Written(n) = {Local(n)}
  <2>1. /\ \A n \in Node, p \in Peer : inbox[n][p] = <<>> /\ ~Known(n, p)
        /\ \A n \in Node :
              /\ conns[n] = {} /\ backlog[n] = {} /\ reset[n] = {} /\ logs[n] = {}
              /\ peers[n] = {} /\ readyTimers[n] = {} /\ joinTimers[n] = {}
              /\ entry[n] = n /\ ui[n] = "idle"
              /\ \A g \in GroupId : groups[n][g] = NewGroup
    BY DEF Init, Known
  <2>2. Touched(NewGroup) = {}
    BY DEF Touched, NewGroup
  <2>3. \A n \in Node : Written(n) = {Local(n)}
    BY <2>1, <2>2 DEF Written
  <2>4. \A n \in Node, p \in Peer :
           /\ Range(inbox[n][p]) = {} /\ Rest(inbox[n][p]) = {}
           /\ ~AckFirst(inbox[n][p])
    <3>1. <<>> \in Seq(Message)
      OBVIOUS
    <3>2. Range(<<>>) = {} /\ Rest(<<>>) = {} /\ ~AckFirst(<<>>)
      BY <3>1, EmptyParts
    <3>3. QED
      BY <2>1, <3>2
  <2>5. QED
    BY <2>1, <2>3, <2>4
<1>2. Notifs = {}
  BY <1>1 DEF Notifs
<1>3. \A n \in Node, k \in Addr : newPeers[n][k].peer = NoPeer
  BY DEF Init, NoEntry
<1>4. \A n \in Node, p \in Peer :
         /\ Id(p) \in Node /\ OtherEnd(n, p) \in Peer
         /\ p[2] \in Answering => p # Local(n) /\ OtherEnd(n, p) # Local(Id(p))
  BY Kinds DEF Answering, Asking, Local
<1>5. \A n \in Node, p \in Peer :
         /\ FailedAt(n, p) /\ OpenAt(n, p) /\ JoinFirst(n, p)
         /\ WrittenAt(n, p) /\ AckAt(n, p) /\ ViewAt(n, p)
  <2> SUFFICES ASSUME NEW n \in Node, NEW p \in Peer
               PROVE  /\ FailedAt(n, p) /\ OpenAt(n, p) /\ JoinFirst(n, p)
                      /\ WrittenAt(n, p) /\ AckAt(n, p) /\ ViewAt(n, p)
    OBVIOUS
  <2>1. FailedAt(n, p) /\ OpenAt(n, p) /\ JoinFirst(n, p)
    BY <1>1 DEF FailedAt, OpenAt, JoinFirst
  <2>2. WrittenAt(n, p) /\ ViewAt(n, p)
    BY <1>1 DEF WrittenAt, ViewAt
  <2>3. AckAt(n, p)
    <3>1. Range(inbox[Id(p)][OtherEnd(n, p)]) = {}
      BY <1>1, <1>4
    <3>2. QED
      BY <3>1 DEF AckAt
  <2>4. QED
    BY <2>1, <2>2, <2>3
<1>6. \A n \in Node, p \in Peer : FreshAt(n, p) /\ AnsweredAt(n, p)
  <2> SUFFICES ASSUME NEW n \in Node, NEW p \in Peer, p[2] \in Answering
               PROVE  FreshAt(n, p) /\ AnsweredAt(n, p)
    BY DEF FreshAt, AnsweredAt
  <2>1. PICK r \in Node : r = Id(p)
    BY <1>4
  <2>2. PICK q \in Peer : q = OtherEnd(n, p)
    BY <1>4
  <2>3. /\ p \notin Written(n) /\ q \notin Written(r)
        /\ ~Known(r, q) /\ ~AckFirst(inbox[r][q])
        /\ Range(inbox[r][q]) = {} /\ Range(inbox[n][p]) = {}
        /\ conns[n] = {} /\ reset[n] = {} /\ backlog[r] = {} /\ conns[r] = {}
        /\ ~Known(n, p)
    <3>1. p # Local(n) /\ q # Local(r)
      BY <1>4, <2>1, <2>2
    <3>2. p \notin Written(n) /\ q \notin Written(r)
      BY <1>1, <3>1
    <3>3. /\ ~Known(r, q) /\ ~AckFirst(inbox[r][q]) /\ ~Known(n, p)
          /\ Range(inbox[r][q]) = {} /\ Range(inbox[n][p]) = {}
      BY <1>1
    <3>4. conns[n] = {} /\ reset[n] = {} /\ backlog[r] = {} /\ conns[r] = {}
      BY <1>1
    <3>5. QED
      BY <3>2, <3>3, <3>4
  <2>4. FreshAt(n, p)
    BY <2>1, <2>2, <2>3 DEF FreshAt, Silent
  <2>5. AnsweredAt(n, p)
    BY <2>1, <2>2, <2>3 DEF AnsweredAt, Silent, Opened
  <2>6. QED
    BY <2>4, <2>5
<1>7. \A n, m \in Node : BeforeJoin(n, m) /\ JoinerAt(n, m)
  <2>1. \A n \in Node : <<n, "joiner">> \in Peer
    BY DEF Peer, PeerKind
  <2>2. \A n \in Node, p \in Peer : ~InNew(n, p)
    <3>1. NoPeer \notin Peer
      BY NetworkAssumption
    <3>2. QED
      BY <1>3, <3>1 DEF InNew
  <2>3. \A n, m \in Node : BeforeJoin(n, m)
    BY <1>1, <1>2, <2>1 DEF BeforeJoin, Unheard
  <2>4. \A n, m \in Node : JoinerAt(n, m)
    BY <1>1, <1>2, <2>1, <2>2 DEF JoinerAt, Unheard
  <2>5. QED
    BY <2>3, <2>4
<1>8. \A n \in Node, k \in Addr : NewPeerAt(n, k)
  BY <1>3 DEF NewPeerAt
<1>9. QED
  BY <1>2, <1>5, <1>6, <1>7, <1>8 DEF CInv, AnnouncedOnce

LEMMA CInvStep == IInv /\ CInv /\ TimersKept /\ [Next]_vars => CInv'
<1> SUFFICES ASSUME IInv, CInv, TimersKept, [Next]_vars
             PROVE  CInv'
  OBVIOUS
<1>1. TypeOK /\ TypeOK'
  BY TypeStep DEF IInv
<1>2. CASE PlainStep
  BY <1>1, <1>2, PlainKeeps
<1>3. ASSUME NEW a \in Node, NEW how \in {"crashed", "quit"},
             Running(a), Exit(a, how)
      PROVE  CInv'
  BY <1>1, <1>3, ExitKeeps
<1>4. ASSUME NEW a \in Node, \E m \in JoinTo[a] : UIJoinConnect(a, m)
      PROVE  CInv'
  BY <1>1, <1>4, ConnectKeeps
<1>5. ASSUME NEW a \in Node, UIBroadcastCheck(a) \/ UISend(a) \/ Quit(a)
      PROVE  CInv'
  BY <1>2, <1>3, <1>5, CommandsPlain DEF Quit
<1>6. ASSUME NEW a \in Node, UIStep(a)
      PROVE  CInv'
  <2>1. UIBroadcastCrash(a) => Running(a) /\ Exit(a, "crashed")
    BY DEF UIBroadcastCrash, Crash
  <2>2. QED
    BY <1>1, <1>2, <1>3, <1>6, <2>1, SendKeeps, JoinThrowsPlain, CommandsPlain
       DEF UIStep
<1>7. ASSUME NEW a \in Node, NEW p \in Peer, IOStep(a, p) \/ ReadTogether(a, p)
      PROVE  CInv'
  <2>1. CASE \/ HandleMisrouted(a, p) \/ HandleReadyNotifCrash(a, p)
             \/ HandleDisconnectCrash(a, p) \/ CompleteJoinCrash(a, p)
    <3>1. Running(a) /\ Exit(a, "crashed")
      BY <2>1 DEF HandleMisrouted, HandleReadyNotifCrash, HandleDisconnectCrash,
                  CompleteJoinCrash, CompletesJoin, Reads, Crash
    <3>2. QED
      BY <1>3, <3>1
  <2>2. CASE \/ Accept(a, p) \/ HandleJoin(a, p) \/ HandleJoinNotif(a, p)
             \/ HandleJoinAck(a, p) \/ HandleReadyNotif(a, p)
             \/ CompleteJoin(a, p)
    BY <1>1, <2>2, AcceptKeeps, AckReadKeeps, AnswerersKeep
  <2>3. CASE \/ HandleDuplicate(a, p) \/ HandleText(a, p)
             \/ HandleReadyNotifThrows(a, p) \/ ReadTogether(a, p)
             \/ HandleReadError(a, p) \/ HandleData(a, p)
             \/ HandleForeignNotif(a, p) \/ HandleNotifRefused(a, p)
             \/ HandleReady(a, p) \/ SendReady(a, p)
             \/ HandleDisconnect(a, p) \/ HandleDisconnectHangs(a, p)
    BY <1>2, <2>3, ReadsPlain, ForwardsPlain, ReadyPlain, DisconnectPlain
  <2>4. QED
    BY <1>7, <2>1, <2>2, <2>3 DEF IOStep, Receive, TimerExpires
<1>8. CASE UNCHANGED vars
  <2>1. ASSUME NEW a \in Node
        PROVE  CInv'
    BY <1>2, <1>8, CommandsPlain
  <2>2. CASE Node = {}
    <3>1. Peer = {}
      BY <2>2, Kinds
    <3>2. QED
      BY <2>2, <3>1 DEF CInv, AnnouncedOnce, Notifs
  <2>3. QED
    BY <2>1, <2>2
<1>9. QED
  BY <1>4, <1>5, <1>6, <1>7, <1>8 DEF Next

\* The invariant holds in every state.
LEMMA ConnectionInvariant == Spec => []CInv
<1>1. Init => CInv /\ TimersKept
  BY CInvInit, TimersInit
<1>2. IInv /\ CInv /\ TimersKept /\ [Next]_vars => CInv' /\ TimersKept'
  BY CInvStep, TimersStep
<1>3. QED
  BY <1>1, <1>2, Invariant, PTL DEF Spec

-----------------------------------------------------------------------------
(* What it says of the handlers                                            *)

\* A Peer of the view is read, or its socket has been reset: EOF removes it from
\* every map (handle_disconnect), whatever state it is in, and only the errors
\* handle_incoming_message reports leave it in peers.
THEOREM GhostsHaveReset == Spec => []GhostsAreReset
<1>1. IInv /\ CInv => GhostsAreReset
  <2> SUFFICES ASSUME IInv, CInv, NEW n \in Node, Running(n), NEW p \in peers[n]
               PROVE  p \in conns[n] \cup reset[n]
    BY DEF GhostsAreReset
  <2>1. p \in Peer
    BY DEF IInv, TypeOK
  <2>2. QED
    BY <2>1, CInvAt DEF ViewAt
<1>2. QED
  BY <1>1, Invariant, ConnectionInvariant, PTL

\* A READY Notification is read from a Peer that has sent its JOIN or its JOIN
\* Acknowledgement before, on the same connection: the handler finds a Peer with
\* an ID.
THEOREM ReadyIsLast == Spec => []ReadyComesLast
<1>1. IInv /\ CInv => ReadyComesLast
  <2> SUFFICES ASSUME IInv, CInv, NEW n \in Node, NEW p \in Peer,
                      Reads(n, p, "READY_NOTIF")
               PROVE  Known(n, p)
    BY DEF ReadyComesLast
  <2>1. TypeOK
    BY DEF IInv
  <2>2. QED
    BY <2>1, ReadParts
<1>2. QED
  BY <1>1, Invariant, ConnectionInvariant, PTL

\* get_address does not throw where a handler calls it with no try around: the
\* joining Peer of answer_join_request still waits for its first answer, and a
\* JOIN or a JOIN Acknowledgement is the first thing its emitter writes.
THEOREM AddressesReadable == Spec => []AddressReadable
<1>1. IInv /\ CInv => AddressReadable
  <2> SUFFICES ASSUME IInv, CInv, NEW n \in Node, Running(n)
               PROVE  /\ \A k \in Pending(n, peerState[n]) :
                            ~MayBeReset(n, newPeers[n][k].peer)
                      /\ \A p \in Peer :
                            Reads(n, p, "JOIN") \/ Reads(n, p, "JOIN_ACK")
                               => ~MayBeReset(n, p)
    BY DEF AddressReadable
  <2>1. TypeOK /\ Up(n)
    BY DEF IInv, Up, Running
  <2>2. ASSUME NEW p \in Peer, p[2] = "joiner",
               InNew(n, p) \/ JoinMsg \in Range(inbox[n][p])
        PROVE  ~MayBeReset(n, p)
    <3>1. p = <<Id(p), "joiner">> /\ Id(p) \in Node /\ p[2] \in Answering
      BY <2>2, Kinds DEF Answering
    <3>2. Unheard(Id(p))
      BY <2>2, <3>1, CInvNodes DEF JoinerAt
    <3>3. ~Heard(n, Id(p))
      BY <3>2, NotifsAre DEF Heard, Unheard
    <3>4. FreshAt(n, p)
      BY CInvAt
    <3>5. QED
      BY <2>1, <3>1, <3>3, <3>4 DEF FreshAt, MayBeReset
  <2>3. ASSUME NEW k \in Pending(n, peerState[n])
        PROVE  ~MayBeReset(n, newPeers[n][k].peer)
    <3>1. PICK p : p = newPeers[n][k].peer
      OBVIOUS
    <3>2. k \in Addr /\ p # NoPeer /\ Known(n, p)
      BY <3>1 DEF Pending, Known
    <3>3. p \in Peer
      <4>1. newPeers[n][k] \in NewPeerEntry
        BY <2>1, <3>2 DEF TypeOK
      <4>2. QED
        BY <3>1, <3>2, <4>1 DEF NewPeerEntry
    <3>4. p[2] = "joiner"
      BY <3>1, <3>2, CInvNew DEF NewPeerAt, Asking
    <3>5. InNew(n, p)
      BY <3>1, <3>2 DEF InNew
    <3>6. QED
      BY <2>2, <3>1, <3>3, <3>4, <3>5
  <2>4. ASSUME NEW p \in Peer, Reads(n, p, "JOIN")
        PROVE  ~MayBeReset(n, p)
    <3>1. JoinMsg \in Range(inbox[n][p])
      BY <2>1, <2>4, ReadParts
    <3>2. QED
      BY <2>2, <3>1, CInvAt DEF JoinFirst
  <2>5. ASSUME NEW p \in Peer, Reads(n, p, "JOIN_ACK")
        PROVE  ~MayBeReset(n, p)
    <3> DEFINE m == Head(inbox[n][p])
    <3>1. /\ p \in conns[n] /\ m \in Range(inbox[n][p]) /\ m.type = "JOIN_ACK"
      <4>1. inbox[n][p] \in Seq(Message) /\ inbox[n][p] # <<>>
        BY <2>1, <2>5 DEF Reads, TypeOK
      <4>2. m \in Range(inbox[n][p])
        BY <4>1, TailParts
      <4>3. QED
        BY <2>5, <4>2 DEF Reads
    <3> HIDE DEF m
    <3>2. PICK r \in Node : r = Id(p)
      BY Kinds
    <3>3. PICK q \in Peer : q = OtherEnd(n, p)
      BY Kinds
    <3>4. OtherEnd(r, q) = p /\ Id(q) = n
      BY <3>2, <3>3, Kinds
    <3>5. q[2] \in Answering
      <4>1. p[2] \notin Answering
        BY <3>1, CInvAt DEF AnsweredAt
      <4>2. p[2] # "local" /\ p[2] \in PeerKind
        BY <3>1, CInvAt, Kinds DEF OpenAt
      <4>3. p[2] \in Asking
        BY <4>1, <4>2 DEF Answering, Asking, PeerKind
      <4>4. q[2] \in Answering <=> OtherEnd(r, q)[2] \in Asking
        BY Kinds
      <4>5. QED
        BY <3>4, <4>3, <4>4
    <3>6. AckAt(r, q)
      BY CInvAt
    <3>7. QED
      BY <2>1, <3>1, <3>4, <3>5, <3>6 DEF AckAt, MayBeReset
  <2>6. QED
    BY <2>3, <2>4, <2>5
<1>2. QED
  BY <1>1, Invariant, ConnectionInvariant, PTL
=============================================================================
