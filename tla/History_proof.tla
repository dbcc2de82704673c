---------------------------- MODULE History_proof ---------------------------
(***************************************************************************)
(* The logs agree: for any nodes and rings and any numbers of messages,    *)
(* each node logs the messages of an author in the order of broadcast, the *)
(* control counts tell who has sent what, and when nothing is under way    *)
(* every node has heard of what it logged from all of its predecessors.    *)
(***************************************************************************)
EXTENDS History, Ring_proof, FiniteSetTheorems

\* The k-th message of node a, all its messages, and those that are the first
\* under their stamp
Sent(a, k) == [from |-> a, time |-> sent[a][k], seq |-> k]
SentBy(a) == {Sent(a, k) : k \in DOMAIN sent[a]}
Firsts(a) ==
    {Sent(a, k) : k \in {i \in DOMAIN sent[a] :
                            \A j \in 1 .. i - 1 : sent[a][j] # sent[a][i]}}
firsts == [a \in Node |-> Firsts(a)]

\* In seq, each message comes after all of its author's firsts F that are
\* earlier, but those that have been seen.
Ordered(F, seq, seen) ==
    \A i \in DOMAIN seq : \A f \in F[seq[i].from] :
        f.seq < seq[i].seq => f \in seen \/ \E j \in 1 .. i - 1 : seq[j] = f

TypeInv ==
    /\ sent \in [Node -> Seq(Time)]
    /\ outgoing \in [Node -> SUBSET DataMessage]
    /\ logs \in [Node -> Seq(DataMessage)]
    /\ link \in [Node -> [Node -> Seq(DataMessage)]]

\* What is under way has been sent, and comes in order.
LinksInOrder ==
    \A p, n \in Node :
        /\ \A m \in Range(link[p][n]) : m \in SentBy(m.from)
        /\ Ordered(firsts, link[p][n], Range(logs[n]))

LogsInOrder ==
    \A n \in Node :
        /\ \A m \in Range(logs[n]) : m \in firsts[m.from]
        /\ Ordered(firsts, logs[n], {})

\* What a node has broadcast or relayed is known to its successors, or under way.
PassedOn ==
    \A p \in Node : \A n \in Succs[p] \cap Node :
        Range(logs[p]) \cup firsts[p] \subseteq Range(logs[n]) \cup Range(link[p][n])

\* The author knows its own messages, but the one it has not logged yet.
OwnKnown ==
    \A n \in Node :
        /\ firsts[n] \subseteq Range(logs[n]) \cup outgoing[n]
        /\ outgoing[n] # {} => \E m \in SentBy(n) : outgoing[n] = {m}

HInv == TypeInv /\ LinksInOrder /\ LogsInOrder /\ PassedOn /\ OwnKnown

-----------------------------------------------------------------------------
(* Sequences in order                                                      *)

\* The elements of a sequence after one is added or taken
LEMMA RangeOfSeq ==
    ASSUME NEW S, NEW seq \in Seq(S)
    PROVE  /\ \A x : Range(Append(seq, x)) = Range(seq) \cup {x}
           /\ seq # <<>> => /\ Head(seq) \in Range(seq) /\ Head(seq) = seq[1]
                            /\ 1 \in DOMAIN seq
                            /\ Range(Tail(seq)) \subseteq Range(seq)
                            /\ Range(seq) \subseteq Range(Tail(seq)) \cup {Head(seq)}
<1>1. ASSUME NEW x
      PROVE  Range(Append(seq, x)) = Range(seq) \cup {x}
  <2>1. /\ DOMAIN Append(seq, x) = 1 .. Len(seq) + 1
        /\ \A i \in 1 .. Len(seq) + 1 :
              Append(seq, x)[i] = IF i = Len(seq) + 1 THEN x ELSE seq[i]
        /\ DOMAIN seq = 1 .. Len(seq) /\ Len(seq) \in Nat
    OBVIOUS
  <2>2. Range(Append(seq, x)) \subseteq Range(seq) \cup {x}
    BY <2>1 DEF Range
  <2>3. x \in Range(Append(seq, x))
    <3>1. Len(seq) + 1 \in DOMAIN Append(seq, x) /\ Append(seq, x)[Len(seq) + 1] = x
      BY <2>1
    <3>2. QED
      BY <3>1 DEF Range
  <2>4. Range(seq) \subseteq Range(Append(seq, x))
    <3>1. \A i \in DOMAIN seq : i \in DOMAIN Append(seq, x) /\ Append(seq, x)[i] = seq[i]
      BY <2>1
    <3>2. QED
      BY <3>1 DEF Range
  <2>5. QED
    BY <2>2, <2>3, <2>4
<1>2. ASSUME seq # <<>>
      PROVE  /\ Head(seq) \in Range(seq) /\ Head(seq) = seq[1] /\ 1 \in DOMAIN seq
             /\ Range(Tail(seq)) \subseteq Range(seq)
             /\ Range(seq) \subseteq Range(Tail(seq)) \cup {Head(seq)}
  <2>1. /\ Tail(seq) \in Seq(S) /\ Len(Tail(seq)) = Len(seq) - 1
        /\ \A i \in 1 .. Len(seq) - 1 : Tail(seq)[i] = seq[i + 1]
        /\ Head(seq) = seq[1] /\ Len(seq) \in Nat /\ Len(seq) >= 1
        /\ DOMAIN seq = 1 .. Len(seq) /\ DOMAIN Tail(seq) = 1 .. Len(seq) - 1
    BY <1>2
  <2>2. Head(seq) \in Range(seq) /\ 1 \in DOMAIN seq
    BY <2>1 DEF Range
  <2>3. Range(Tail(seq)) \subseteq Range(seq)
    BY <2>1 DEF Range
  <2>4. \A i \in DOMAIN seq : i = 1 \/ (i - 1 \in DOMAIN Tail(seq) /\ Tail(seq)[i - 1] = seq[i])
    BY <2>1
  <2>5. Range(seq) \subseteq Range(Tail(seq)) \cup {Head(seq)}
    <3> SUFFICES ASSUME NEW i \in DOMAIN seq, seq[i] # Head(seq)
                 PROVE  seq[i] \in Range(Tail(seq))
      BY DEF Range
    <3>1. i - 1 \in DOMAIN Tail(seq) /\ Tail(seq)[i - 1] = seq[i]
      BY <2>1, <2>4
    <3>2. QED
      BY <3>1 DEF Range
  <2>6. QED
    BY <2>1, <2>2, <2>3, <2>5
<1>3. QED
  BY <1>1, <1>2

\* A message is added when all that has to come before it is there.
LEMMA OrderedAppend ==
    ASSUME NEW F, NEW S, NEW seq \in Seq(S), NEW seen, Ordered(F, seq, seen), NEW m,
           \A f \in F[m.from] : f.seq < m.seq => f \in seen \cup Range(seq)
    PROVE  Ordered(F, Append(seq, m), seen)
<1>1. /\ DOMAIN Append(seq, m) = 1 .. Len(seq) + 1
      /\ \A i \in 1 .. Len(seq) : Append(seq, m)[i] = seq[i]
      /\ Append(seq, m)[Len(seq) + 1] = m
      /\ DOMAIN seq = 1 .. Len(seq) /\ Len(seq) \in Nat
  OBVIOUS
<1> SUFFICES ASSUME NEW i \in 1 .. Len(seq) + 1, NEW f \in F[Append(seq, m)[i].from],
                    f.seq < Append(seq, m)[i].seq, f \notin seen
             PROVE  \E j \in 1 .. i - 1 : Append(seq, m)[j] = f
  BY <1>1 DEF Ordered
<1>2. CASE i = Len(seq) + 1
  <2>1. f \in Range(seq)
    BY <1>1, <1>2
  <2>2. PICK j \in 1 .. Len(seq) : seq[j] = f
    BY <1>1, <2>1 DEF Range
  <2>3. QED
    BY <1>1, <1>2, <2>2
<1>3. CASE i # Len(seq) + 1
  <2>1. i \in DOMAIN seq /\ Append(seq, m)[i] = seq[i]
    BY <1>1, <1>3
  <2>2. PICK j \in 1 .. i - 1 : seq[j] = f
    BY <2>1 DEF Ordered
  <2>3. j \in 1 .. Len(seq)
    BY <1>1, <2>1
  <2>4. QED
    BY <1>1, <2>2, <2>3
<1>4. QED
  BY <1>2, <1>3

\* The head is taken when it has been seen, or need not come before anything.
LEMMA OrderedTail ==
    ASSUME NEW F, NEW seq \in Seq(DataMessage), seq # <<>>, NEW seen,
           Ordered(F, seq, seen), NEW now, seen \subseteq now,
           \A a \in Node : Head(seq) \in F[a] => Head(seq) \in now
    PROVE  Ordered(F, Tail(seq), now)
<1>1. /\ DOMAIN Tail(seq) = 1 .. Len(seq) - 1
      /\ \A i \in 1 .. Len(seq) - 1 : Tail(seq)[i] = seq[i + 1]
      /\ DOMAIN seq = 1 .. Len(seq) /\ Len(seq) \in Nat /\ Len(seq) >= 1
      /\ Head(seq) = seq[1]
  OBVIOUS
<1> SUFFICES ASSUME NEW i \in 1 .. Len(seq) - 1, NEW f \in F[Tail(seq)[i].from],
                    f.seq < Tail(seq)[i].seq, f \notin now
             PROVE  \E j \in 1 .. i - 1 : Tail(seq)[j] = f
  BY <1>1 DEF Ordered
<1>2. i + 1 \in DOMAIN seq /\ Tail(seq)[i] = seq[i + 1]
  BY <1>1
<1>3. PICK j \in 1 .. (i + 1) - 1 : seq[j] = f
  BY <1>2 DEF Ordered
<1>4. j # 1
  <2>1. seq[i + 1] \in DataMessage
    BY <1>2
  <2>2. Tail(seq)[i].from \in Node
    BY <1>2, <2>1 DEF DataMessage
  <2>3. QED
    BY <1>1, <1>3, <2>2
<1>5. j - 1 \in 1 .. i - 1 /\ j - 1 \in 1 .. Len(seq) - 1 /\ (j - 1) + 1 = j
  BY <1>1, <1>3, <1>4
<1>6. Tail(seq)[j - 1] = f
  BY <1>1, <1>3, <1>5
<1>7. QED
  BY <1>5, <1>6

\* More messages may be seen.
LEMMA OrderedMore ==
    ASSUME NEW F, NEW seq, NEW seen, Ordered(F, seq, seen), NEW now, seen \subseteq now
    PROVE  Ordered(F, seq, now)
  BY DEF Ordered

-----------------------------------------------------------------------------
(* The firsts of an author                                                 *)

\* They have been sent, and no two of them have the same stamp.
LEMMA FirstsSent ==
    ASSUME TypeInv, NEW a \in Node
    PROVE  /\ firsts[a] \subseteq SentBy(a)
           /\ \A m \in SentBy(a) : /\ m \in DataMessage /\ m.from = a
                                   /\ m.seq \in 1 .. Len(sent[a])
                                   /\ m = Sent(a, m.seq)
           /\ \A f, g \in firsts[a] : StampOf(f) = StampOf(g) => f = g
<1>1. sent[a] \in Seq(Time) /\ DOMAIN sent[a] = 1 .. Len(sent[a]) /\ Len(sent[a]) \in Nat
  BY DEF TypeInv
<1>2. firsts[a] \subseteq SentBy(a)
  BY DEF firsts, Firsts, SentBy
<1>3. \A m \in SentBy(a) : /\ m \in DataMessage /\ m.from = a
                           /\ m.seq \in 1 .. Len(sent[a]) /\ m = Sent(a, m.seq)
  BY <1>1 DEF SentBy, Sent, DataMessage
<1>4. ASSUME NEW f \in firsts[a], NEW g \in firsts[a], StampOf(f) = StampOf(g)
      PROVE  f = g
  <2>1. PICK k \in 1 .. Len(sent[a]) :
           f = Sent(a, k) /\ \A j \in 1 .. k - 1 : sent[a][j] # sent[a][k]
    BY <1>1 DEF firsts, Firsts
  <2>2. PICK i \in 1 .. Len(sent[a]) :
           g = Sent(a, i) /\ \A j \in 1 .. i - 1 : sent[a][j] # sent[a][i]
    BY <1>1 DEF firsts, Firsts
  <2>3. sent[a][k] = sent[a][i]
    BY <1>4, <2>1, <2>2 DEF StampOf, Sent
  <2>4. ~(k < i) /\ ~(i < k)
    BY <1>1, <2>1, <2>2, <2>3
  <2>5. k = i
    BY <1>1, <2>4
  <2>6. QED
    BY <2>1, <2>2, <2>5
<1>5. QED
  BY <1>2, <1>3, <1>4

\* Every message has a first under its stamp: itself or an earlier one.
LEMMA FirstExists ==
    ASSUME TypeInv, NEW a \in Node, NEW m \in SentBy(a)
    PROVE  \E f \in firsts[a] : StampOf(f) = StampOf(m) /\ (f = m \/ f.seq < m.seq)
<1>1. DOMAIN sent[a] = 1 .. Len(sent[a]) /\ Len(sent[a]) \in Nat
  BY DEF TypeInv
<1>2. m.seq \in 1 .. Len(sent[a]) /\ m = Sent(a, m.seq) /\ m.from = a
  BY FirstsSent
<1> DEFINE T == {k \in 1 .. Len(sent[a]) : sent[a][k] = sent[a][m.seq]}
<1>3. T \subseteq Nat /\ m.seq \in T
  BY <1>1, <1>2
<1>4. PICK k \in T : \A j \in T : ~(<<j, k>> \in OpToRel(<, Nat))
  BY <1>3, NatLessThanWellFounded, WFMin
<1>5. \A j \in T : ~(j < k)
  BY <1>3, <1>4 DEF OpToRel
<1>6. Sent(a, k) \in firsts[a]
  BY <1>1, <1>5 DEF firsts, Firsts
<1>7. k <= m.seq
  BY <1>1, <1>2, <1>3, <1>5
<1>8. StampOf(Sent(a, k)) = StampOf(m) /\ Sent(a, k).seq = k
  BY <1>2 DEF StampOf, Sent
<1>9. QED
  BY <1>1, <1>2, <1>6, <1>7, <1>8

\* As long as nothing is broadcast, the firsts are the same.
LEMMA SentKept ==
    ASSUME sent' = sent
    PROVE  firsts' = firsts /\ \A a : SentBy(a)' = SentBy(a)
  BY DEF firsts, Firsts, SentBy, Sent

-----------------------------------------------------------------------------
(* The steps                                                               *)

Links == [Node -> [Node -> Seq(DataMessage)]]

\* broadcast adds the message to what the successors have to read.
LEMMA RelayLinks ==
    ASSUME NEW box \in Links, NEW n \in Node, NEW m \in DataMessage
    PROVE  /\ Relay(box, n, m) \in Links
           /\ \A x, y \in Node : Relay(box, n, m)[x][y] =
                 IF x = n /\ y \in Succs[n] THEN Append(box[x][y], m) ELSE box[x][y]
  BY DEF Relay, Links

\* The links box are in order for nodes that have seen so much, and everything
\* sent so far is seen or on them.
InStep(box, seen) ==
    /\ box \in Links
    /\ \A x, y \in Node :
          /\ Ordered(firsts, box[x][y], seen[y])
          /\ \A m \in Range(box[x][y]) : m \in SentBy(m.from)
    /\ \A x \in Node : \A y \in Succs[x] \cap Node :
          Range(logs[x]) \cup firsts[x] \subseteq seen[y] \cup Range(box[x][y])

\* After n has read what p sent it, the rest is still in order: every first that
\* was under way to n still is, or n knows it.
LEMMA ReadLinks ==
    ASSUME HInv, NEW n \in Node, NEW p \in Node, link[p][n] # <<>>,
           NEW seen, \A y \in Node : Range(logs[y]) \subseteq seen[y],
           Head(link[p][n]) \in firsts[Head(link[p][n]).from]
              => Head(link[p][n]) \in seen[n]
    PROVE  InStep([link EXCEPT ![p][n] = Tail(@)], seen)
<1> DEFINE box == [link EXCEPT ![p][n] = Tail(@)]
           h == Head(link[p][n])
<1>1. /\ link[p][n] \in Seq(DataMessage)
      /\ link \in Links
  BY DEF HInv, TypeInv, Links
<1>2. /\ box \in Links
      /\ \A x, y \in Node :
            box[x][y] = IF x = p /\ y = n THEN Tail(link[p][n]) ELSE link[x][y]
  BY <1>1 DEF Links
<1>3. /\ h \in Range(link[p][n])
      /\ Range(Tail(link[p][n])) \subseteq Range(link[p][n])
      /\ Range(link[p][n]) \subseteq Range(Tail(link[p][n])) \cup {h}
  BY <1>1, RangeOfSeq
<1>4. \A a \in Node : h \in firsts[a] => h \in seen[n]
  BY FirstsSent DEF HInv
<1> HIDE DEF box, h
<1>5. ASSUME NEW x \in Node, NEW y \in Node
      PROVE  Ordered(firsts, box[x][y], seen[y])
  <2>1. Ordered(firsts, link[x][y], Range(logs[y])) /\ Range(logs[y]) \subseteq seen[y]
    BY DEF HInv, LinksInOrder
  <2>2. CASE x = p /\ y = n
    BY <1>1, <1>2, <1>4, <2>1, <2>2, OrderedTail DEF h
  <2>3. CASE ~(x = p /\ y = n)
    BY <1>2, <2>1, <2>3, OrderedMore
  <2>4. QED
    BY <2>2, <2>3
<1>6. ASSUME NEW x \in Node, NEW y \in Node, NEW m \in Range(box[x][y])
      PROVE  m \in SentBy(m.from)
  <2>1. m \in Range(link[x][y])
    BY <1>2, <1>3, <1>6
  <2>2. QED
    BY <2>1 DEF HInv, LinksInOrder
<1>7. ASSUME NEW x \in Node, NEW y \in Succs[x] \cap Node,
             NEW f \in Range(logs[x]) \cup firsts[x]
      PROVE  f \in seen[y] \cup Range(box[x][y])
  <2>1. f \in Range(logs[y]) \cup Range(link[x][y]) /\ Range(logs[y]) \subseteq seen[y]
    BY DEF HInv, PassedOn
  <2>2. f \in firsts[f.from]
    BY FirstsSent DEF HInv, LogsInOrder
  <2>3. CASE x = p /\ y = n
    BY <1>2, <1>3, <2>1, <2>2, <2>3 DEF h
  <2>4. CASE ~(x = p /\ y = n)
    BY <1>2, <2>1, <2>4
  <2>5. QED
    BY <2>3, <2>4
<1>8. QED
  BY <1>2, <1>5, <1>6, <1>7 DEF InStep, box

\* To acknowledge a message whose stamp is in the logs
LEMMA LoggedStep ==
    ASSUME HInv, NEW n \in Node, NEW p \in Node, HandleLogged(n, p)
    PROVE  HInv'
<1> DEFINE h == Head(link[p][n])
           box == [link EXCEPT ![p][n] = Tail(@)]
<1>1. /\ link[p][n] # <<>> /\ Logged(n, h) /\ link' = box
      /\ UNCHANGED <<sent, outgoing, logs>>
  BY DEF HandleLogged
<1>2. firsts' = firsts /\ \A a : SentBy(a)' = SentBy(a)
  BY <1>1, SentKept
<1>3. ASSUME h \in firsts[h.from]
      PROVE  h \in Range(logs[n])
  <2>1. PICK l \in Range(logs[n]) : StampOf(l) = StampOf(h)
    BY <1>1 DEF Logged
  <2>2. l \in firsts[l.from] /\ l.from = h.from
    BY <2>1 DEF HInv, LogsInOrder, StampOf
  <2>3. h.from \in Node
    <3>1. l \in DataMessage
      BY <2>1 DEF HInv, TypeInv, Range
    <3>2. QED
      BY <2>2, <3>1 DEF DataMessage
  <2>4. l = h
    BY <1>3, <2>1, <2>2, <2>3, FirstsSent DEF HInv
  <2>5. QED
    BY <2>1, <2>4
<1>4. /\ box \in Links
      /\ \A x, y \in Node :
            /\ Ordered(firsts, box[x][y], Range(logs[y]))
            /\ \A m \in Range(box[x][y]) : m \in SentBy(m.from)
      /\ \A x \in Node : \A y \in Succs[x] \cap Node :
            Range(logs[x]) \cup firsts[x] \subseteq Range(logs[y]) \cup Range(box[x][y])
  <2> DEFINE seen == [y \in Node |-> Range(logs[y])]
  <2>1. \A y \in Node : seen[y] = Range(logs[y])
    OBVIOUS
  <2>2. h \in firsts[h.from] => h \in seen[n]
    BY <1>3
  <2> HIDE DEF seen
  <2>3. link[p][n] # <<>> /\ \A y \in Node : Range(logs[y]) \subseteq seen[y]
    BY <1>1, <2>1
  <2>4. InStep(box, seen)
    BY <2>2, <2>3, ReadLinks
  <2>5. QED
    BY <2>1, <2>4 DEF InStep
<1> HIDE DEF box
<1>5. TypeInv'
  BY <1>1, <1>4 DEF HInv, TypeInv, Links
<1>6. LinksInOrder'
  BY <1>1, <1>2, <1>4 DEF LinksInOrder
<1>7. PassedOn'
  BY <1>1, <1>2, <1>4 DEF PassedOn
<1>8. LogsInOrder' /\ OwnKnown'
  BY <1>1, <1>2 DEF HInv, LogsInOrder, OwnKnown
<1>9. QED
  BY <1>5, <1>6, <1>7, <1>8 DEF HInv

\* What is read for the first time is a first, and all that is earlier is logged.
LEMMA NewIsNext ==
    ASSUME HInv, NEW n \in Node, NEW p \in Node, link[p][n] # <<>>,
           ~Logged(n, Head(link[p][n]))
    PROVE  LET m == Head(link[p][n])
           IN  /\ m \in DataMessage /\ m \in firsts[m.from] /\ m.from \in Node
               /\ \A f \in firsts[m.from] : f.seq < m.seq => f \in Range(logs[n])
<1> DEFINE m == Head(link[p][n])
<1>1. link[p][n] \in Seq(DataMessage)
  BY DEF HInv, TypeInv
<1>2. m \in Range(link[p][n]) /\ m = link[p][n][1] /\ 1 \in DOMAIN link[p][n]
  BY <1>1, RangeOfSeq
<1>3. m \in SentBy(m.from) /\ Ordered(firsts, link[p][n], Range(logs[n]))
  BY <1>2 DEF HInv, LinksInOrder
<1>4. m \in DataMessage /\ m.from \in Node
  <2>1. link[p][n][1] \in DataMessage
    BY <1>1, <1>2
  <2>2. QED
    BY <1>2, <2>1 DEF DataMessage
<1>5. ASSUME NEW f \in firsts[m.from], f.seq < m.seq
      PROVE  f \in Range(logs[n])
  BY <1>2, <1>3, <1>5 DEF Ordered
<1>6. m \in firsts[m.from]
  <2>1. PICK f \in firsts[m.from] : StampOf(f) = StampOf(m) /\ (f = m \/ f.seq < m.seq)
    BY <1>3, <1>4, FirstExists DEF HInv
  <2>2. f \notin Range(logs[n])
    BY <2>1 DEF Logged
  <2>3. QED
    BY <1>5, <2>1, <2>2
<1>7. QED
  BY <1>4, <1>5, <1>6

\* To log a first after all the earlier ones
LEMMA LogNext ==
    ASSUME HInv, NEW n \in Node, NEW m \in DataMessage, m \in firsts[m.from],
           \A f \in firsts[m.from] : f.seq < m.seq => f \in Range(logs[n]),
           UNCHANGED sent, logs' = [logs EXCEPT ![n] = Append(@, m)]
    PROVE  /\ LogsInOrder'
           /\ logs' \in [Node -> Seq(DataMessage)]
           /\ \A y \in Node :
                 Range(logs'[y]) = IF y = n THEN Range(logs[y]) \cup {m}
                                   ELSE Range(logs[y])
<1>1. firsts' = firsts
  BY SentKept
<1>2. logs \in [Node -> Seq(DataMessage)]
  BY DEF HInv, TypeInv
<1>3. /\ logs' \in [Node -> Seq(DataMessage)]
      /\ \A y \in Node : logs'[y] = IF y = n THEN Append(logs[y], m) ELSE logs[y]
  BY <1>2
<1>4. \A y \in Node : Range(logs'[y]) = IF y = n THEN Range(logs[y]) \cup {m}
                                        ELSE Range(logs[y])
  <2>1. logs[n] \in Seq(DataMessage)
    BY <1>2
  <2>2. Range(Append(logs[n], m)) = Range(logs[n]) \cup {m}
    BY <2>1, RangeOfSeq
  <2>3. QED
    BY <1>3, <2>2
<1>5. ASSUME NEW y \in Node
      PROVE  Ordered(firsts, logs'[y], {})
  <2>1. Ordered(firsts, logs[y], {})
    BY DEF HInv, LogsInOrder
  <2>2. CASE y = n
    BY <1>2, <1>3, <2>1, <2>2, OrderedAppend
  <2>3. CASE y # n
    BY <1>3, <2>1, <2>3
  <2>4. QED
    BY <2>2, <2>3
<1>6. ASSUME NEW y \in Node, NEW l \in Range(logs'[y])
      PROVE  l \in firsts[l.from]
  <2>1. Range(logs'[y]) \subseteq Range(logs[y]) \cup {m}
    BY <1>4
  <2>2. l = m \/ l \in Range(logs[y])
    BY <2>1
  <2>3. QED
    BY <2>2 DEF HInv, LogsInOrder
<1>7. QED
  BY <1>1, <1>3, <1>4, <1>5, <1>6 DEF LogsInOrder

\* To log a message and to relay it
LEMMA NewStep ==
    ASSUME HInv, NEW n \in Node, NEW p \in Node, HandleNew(n, p)
    PROVE  HInv'
<1> DEFINE m == Head(link[p][n])
           box == [link EXCEPT ![p][n] = Tail(@)]
           seen == [y \in Node |-> Range(logs'[y])]
<1>1. /\ link[p][n] # <<>> /\ ~Logged(n, m)
      /\ link' = Relay(box, n, m)
      /\ logs' = [logs EXCEPT ![n] = Append(@, m)]
      /\ UNCHANGED <<sent, outgoing>>
  BY DEF HandleNew
<1>2. firsts' = firsts /\ \A a : SentBy(a)' = SentBy(a)
  BY <1>1, SentKept
<1>3. /\ m \in DataMessage /\ m \in firsts[m.from] /\ m.from \in Node
      /\ \A f \in firsts[m.from] : f.seq < m.seq => f \in Range(logs[n])
  BY <1>1, NewIsNext
<1>4. /\ LogsInOrder'
      /\ logs' \in [Node -> Seq(DataMessage)]
      /\ \A y \in Node :
            Range(logs'[y]) = IF y = n THEN Range(logs[y]) \cup {m} ELSE Range(logs[y])
  BY <1>1, <1>3, LogNext
<1>5. m \in SentBy(m.from)
  BY <1>3, FirstsSent DEF HInv
<1>6. InStep(box, seen)
  <2>1. \A y \in Node : seen[y] = Range(logs'[y])
    OBVIOUS
  <2> HIDE DEF seen
  <2>2. /\ \A y \in Node : Range(logs[y]) \subseteq seen[y]
        /\ m \in seen[n]
    BY <1>4, <2>1
  <2>3. QED
    BY <1>1, <2>2, ReadLinks
<1>7. \A y \in Node : seen[y] = Range(logs'[y])
  OBVIOUS
<1> HIDE DEF m, box, seen
<1>8. /\ box \in Links /\ link' \in Links
      /\ \A x, y \in Node :
            link'[x][y] = IF x = n /\ y \in Succs[n] THEN Append(box[x][y], m)
                          ELSE box[x][y]
  BY <1>1, <1>3, <1>6, RelayLinks DEF InStep
<1>9. \A x, y \in Node :
         Range(link'[x][y]) = IF x = n /\ y \in Succs[n] THEN Range(box[x][y]) \cup {m}
                              ELSE Range(box[x][y])
  <2> SUFFICES ASSUME NEW x \in Node, NEW y \in Node
               PROVE  Range(link'[x][y]) =
                         IF x = n /\ y \in Succs[n] THEN Range(box[x][y]) \cup {m}
                         ELSE Range(box[x][y])
    OBVIOUS
  <2>1. box[x][y] \in Seq(DataMessage)
    BY <1>8 DEF Links
  <2>2. Range(Append(box[x][y], m)) = Range(box[x][y]) \cup {m}
    BY <2>1, RangeOfSeq
  <2>3. QED
    BY <1>8, <2>2
<1>10. LinksInOrder'
  <2>1. ASSUME NEW x \in Node, NEW y \in Node
        PROVE  Ordered(firsts, link'[x][y], Range(logs'[y]))
    <3>1. Ordered(firsts, box[x][y], Range(logs'[y]))
      BY <1>6, <1>7 DEF InStep
    <3>2. CASE x = n /\ y \in Succs[n]
      <4>1. \A f \in firsts[m.from] :
               f.seq < m.seq => f \in Range(logs'[y]) \cup Range(box[x][y])
        BY <1>3, <1>6, <1>7, <3>2 DEF InStep
      <4>2. box[x][y] \in Seq(DataMessage)
        BY <1>8 DEF Links
      <4>3. QED
        BY <1>8, <3>1, <3>2, <4>1, <4>2, OrderedAppend
    <3>3. CASE ~(x = n /\ y \in Succs[n])
      BY <1>8, <3>1, <3>3
    <3>4. QED
      BY <3>2, <3>3
  <2>2. ASSUME NEW x \in Node, NEW y \in Node, NEW l \in Range(link'[x][y])
        PROVE  l \in SentBy(l.from)
    <3>1. l = m \/ l \in Range(box[x][y])
      BY <1>9
    <3>2. QED
      BY <1>5, <1>6, <3>1 DEF InStep
  <2>3. QED
    BY <1>2, <2>1, <2>2 DEF LinksInOrder
<1>11. PassedOn'
  <2> SUFFICES ASSUME NEW x \in Node, NEW y \in Succs[x] \cap Node,
                      NEW f \in Range(logs'[x]) \cup firsts[x]
               PROVE  f \in Range(logs'[y]) \cup Range(link'[x][y])
    BY <1>2 DEF PassedOn
  <2>1. CASE f \in Range(logs[x]) \cup firsts[x]
    <3>1. f \in Range(logs'[y]) \cup Range(box[x][y])
      BY <1>6, <1>7, <2>1 DEF InStep
    <3>2. Range(box[x][y]) \subseteq Range(link'[x][y])
      BY <1>9
    <3>3. QED
      BY <3>1, <3>2
  <2>2. CASE f \notin Range(logs[x]) \cup firsts[x]
    <3>1. x = n /\ f = m
      BY <1>4, <2>2
    <3>2. QED
      BY <1>9, <3>1
  <2>3. QED
    BY <2>1, <2>2
<1>12. TypeInv'
  BY <1>1, <1>4, <1>8 DEF HInv, TypeInv, Links
<1>13. OwnKnown'
  BY <1>1, <1>2, <1>4 DEF HInv, OwnKnown
<1>14. QED
  BY <1>4, <1>10, <1>11, <1>12, <1>13 DEF HInv

\* The author's own message is a first, and the last of those it knows.
LEMMA LogStep ==
    ASSUME HInv, NEW n \in Node, BroadcastLog(n)
    PROVE  HInv'
<1>1. PICK m \in outgoing[n] :
         /\ logs' = IF Logged(n, m) THEN logs ELSE [logs EXCEPT ![n] = Append(@, m)]
         /\ outgoing' = [outgoing EXCEPT ![n] = {}]
         /\ UNCHANGED <<sent, link>>
  BY DEF BroadcastLog
<1>2. firsts' = firsts /\ \A a : SentBy(a)' = SentBy(a)
  BY <1>1, SentKept
<1>3. /\ outgoing[n] = {m} /\ m \in SentBy(n)
      /\ firsts[n] \subseteq Range(logs[n]) \cup {m}
  BY <1>1 DEF HInv, OwnKnown
<1>4. m \in DataMessage /\ m.from = n
  BY <1>3, FirstsSent DEF HInv
<1>5. PICK g \in firsts[n] : StampOf(g) = StampOf(m) /\ (g = m \/ g.seq < m.seq)
  BY <1>3, FirstExists DEF HInv
<1>6. /\ \A y \in Node : y # n => outgoing'[y] = outgoing[y]
      /\ outgoing'[n] = {}
      /\ outgoing' \in [Node -> SUBSET DataMessage]
  BY <1>1 DEF HInv, TypeInv
<1>7. CASE Logged(n, m)
  <2>1. logs' = logs
    BY <1>1, <1>7
  <2>2. m \in firsts[n] => m \in Range(logs[n])
    <3>1. PICK l \in Range(logs[n]) : StampOf(l) = StampOf(m)
      BY <1>7 DEF Logged
    <3>2. l \in firsts[n]
      BY <1>4, <3>1 DEF HInv, LogsInOrder, StampOf
    <3>3. QED
      BY <3>1, <3>2, FirstsSent DEF HInv
  <2>3. OwnKnown'
    BY <1>2, <1>3, <1>6, <2>1, <2>2 DEF HInv, OwnKnown
  <2>4. TypeInv'
    BY <1>1, <1>6, <2>1 DEF HInv, TypeInv
  <2>5. LinksInOrder' /\ LogsInOrder' /\ PassedOn'
    BY <1>1, <1>2, <2>1 DEF HInv, LinksInOrder, LogsInOrder, PassedOn
  <2>6. QED
    BY <2>3, <2>4, <2>5 DEF HInv
<1>8. CASE ~Logged(n, m)
  <2>1. g \notin Range(logs[n])
    BY <1>5, <1>8 DEF Logged
  <2>2. g = m
    BY <1>3, <2>1
  <2>3. m \in firsts[m.from]
    BY <1>4, <2>2
  <2>4. \A f \in firsts[m.from] : f.seq < m.seq => f \in Range(logs[n])
    <3>1. m.seq \in Nat
      BY <1>4 DEF DataMessage
    <3>2. QED
      BY <1>3, <1>4, <3>1
  <2>5. logs' = [logs EXCEPT ![n] = Append(@, m)]
    BY <1>1, <1>8
  <2>6. /\ LogsInOrder'
        /\ logs' \in [Node -> Seq(DataMessage)]
        /\ \A y \in Node :
              Range(logs'[y]) = IF y = n THEN Range(logs[y]) \cup {m} ELSE Range(logs[y])
    BY <1>1, <1>4, <2>3, <2>4, <2>5, LogNext
  <2>7. OwnKnown'
    BY <1>2, <1>3, <1>6, <2>6 DEF HInv, OwnKnown
  <2>8. TypeInv'
    BY <1>1, <1>6, <2>6 DEF HInv, TypeInv
  <2>9. LinksInOrder'
    <3>1. \A x, y \in Node : Ordered(firsts, link[x][y], Range(logs'[y]))
      BY <2>6, OrderedMore DEF HInv, LinksInOrder
    <3>2. QED
      BY <1>1, <1>2, <3>1 DEF HInv, LinksInOrder
  <2>10. PassedOn'
    <3> SUFFICES ASSUME NEW x \in Node, NEW y \in Succs[x] \cap Node,
                        NEW f \in Range(logs'[x]) \cup firsts[x]
                 PROVE  f \in Range(logs'[y]) \cup Range(link[x][y])
      BY <1>1, <1>2 DEF PassedOn
    <3>1. f \in Range(logs[x]) \cup firsts[x]
      BY <1>4, <2>3, <2>6
    <3>2. f \in Range(logs[y]) \cup Range(link[x][y])
      BY <3>1 DEF HInv, PassedOn
    <3>3. QED
      BY <2>6, <3>2
  <2>11. QED
    BY <2>6, <2>7, <2>8, <2>9, <2>10 DEF HInv
<1>9. QED
  BY <1>7, <1>8

\* A message that is broadcast is the last of its author's, and a first or not.
LEMMA SentOneMore ==
    ASSUME HInv, NEW n \in Node, NEW t \in Time, sent' = [sent EXCEPT ![n] = Append(@, t)]
    PROVE  LET m == [from |-> n, time |-> t, seq |-> Len(sent[n]) + 1]
           IN  /\ m \in DataMessage
               /\ \A a \in Node : SentBy(a)' = IF a = n THEN SentBy(a) \cup {m} ELSE SentBy(a)
               /\ \A x \in SentBy(n) : x.seq < m.seq
               /\ \A a \in Node : /\ firsts[a] \subseteq firsts'[a]
                                  /\ firsts'[a] \subseteq firsts[a] \cup {m}
                                  /\ a # n => firsts'[a] = firsts[a]
<1> DEFINE m == [from |-> n, time |-> t, seq |-> Len(sent[n]) + 1]
           len == Len(sent[n])
<1>1. /\ sent \in [Node -> Seq(Time)] /\ sent[n] \in Seq(Time) /\ len \in Nat
      /\ DOMAIN sent[n] = 1 .. len
  BY DEF HInv, TypeInv
<1>2. /\ \A a \in Node : a # n => sent'[a] = sent[a]
      /\ DOMAIN sent'[n] = 1 .. len + 1
      /\ \A k \in 1 .. len : sent'[n][k] = sent[n][k]
      /\ sent'[n][len + 1] = t
  <2>1. sent'[n] = Append(sent[n], t) /\ \A a \in Node : a # n => sent'[a] = sent[a]
    BY <1>1
  <2>2. QED
    BY <1>1, <2>1
<1>3. m \in DataMessage
  BY <1>1 DEF DataMessage
<1>4. \A x \in SentBy(n) : x.seq < m.seq
  <2>1. \A x \in SentBy(n) : x.seq \in 1 .. len
    BY FirstsSent DEF HInv
  <2>2. QED
    BY <1>1, <2>1
<1> HIDE DEF len
<1> DEFINE Msg(k) == [from |-> n, time |-> sent'[n][k], seq |-> k]
<1>5. /\ \A k \in 1 .. len : Msg(k) = Sent(n, k)
      /\ Msg(len + 1) = m
  BY <1>2 DEF Sent, len
<1>6. ASSUME NEW a \in Node, a # n
      PROVE  SentBy(a)' = SentBy(a) /\ firsts'[a] = firsts[a]
  BY <1>2, <1>6 DEF SentBy, firsts, Firsts, Sent
<1>7. /\ SentBy(n)' = {Msg(k) : k \in 1 .. len + 1}
      /\ firsts'[n] = {Msg(k) : k \in {i \in 1 .. len + 1 :
                           \A j \in 1 .. i - 1 : sent'[n][j] # sent'[n][i]}}
  BY <1>2 DEF SentBy, firsts, Firsts, Sent
<1> HIDE DEF m, Msg
<1>8. SentBy(n)' = SentBy(n) \cup {m}
  <2>1. SentBy(n) = {Sent(n, k) : k \in 1 .. len}
    BY <1>1 DEF SentBy
  <2>2. 1 .. len + 1 = (1 .. len) \cup {len + 1}
    BY <1>1
  <2>3. QED
    BY <1>5, <1>7, <2>1, <2>2
<1>9. firsts[n] \subseteq firsts'[n] /\ firsts'[n] \subseteq firsts[n] \cup {m}
  <2>1. firsts[n] = {Sent(n, k) : k \in {i \in 1 .. len :
                         \A j \in 1 .. i - 1 : sent[n][j] # sent[n][i]}}
    BY <1>1 DEF firsts, Firsts
  <2>2. \A i \in 1 .. len : \A j \in 1 .. i - 1 :
           sent'[n][j] = sent[n][j] /\ sent'[n][i] = sent[n][i]
    BY <1>1, <1>2
  <2>3. ASSUME NEW f \in firsts[n]
        PROVE  f \in firsts'[n]
    <3>1. PICK k \in 1 .. len :
             f = Sent(n, k) /\ \A j \in 1 .. k - 1 : sent[n][j] # sent[n][k]
      BY <2>1
    <3>2. k \in 1 .. len + 1 /\ \A j \in 1 .. k - 1 : sent'[n][j] # sent'[n][k]
      BY <1>1, <2>2, <3>1
    <3>3. f = Msg(k)
      BY <1>5, <3>1
    <3>4. QED
      BY <1>7, <3>2, <3>3
  <2>4. ASSUME NEW f \in firsts'[n]
        PROVE  f \in firsts[n] \cup {m}
    <3>1. PICK k \in 1 .. len + 1 :
             f = Msg(k) /\ \A j \in 1 .. k - 1 : sent'[n][j] # sent'[n][k]
      BY <1>7
    <3>2. CASE k = len + 1
      BY <1>5, <3>1, <3>2
    <3>3. CASE k # len + 1
      <4>1. k \in 1 .. len
        BY <1>1, <3>3
      <4>2. f = Sent(n, k) /\ \A j \in 1 .. k - 1 : sent[n][j] # sent[n][k]
        BY <1>5, <2>2, <3>1, <4>1
      <4>3. QED
        BY <2>1, <4>1, <4>2
    <3>4. QED
      BY <3>2, <3>3
  <2>5. QED
    BY <2>3, <2>4
<1>10. QED
  BY <1>3, <1>4, <1>6, <1>8, <1>9 DEF m, len

\* It comes after everything that its author has sent.
LEMMA SendStep ==
    ASSUME HInv, NEW n \in Node, NEW t \in Time, BroadcastSend(n, t)
    PROVE  HInv'
<1> DEFINE m == [from |-> n, time |-> t, seq |-> Len(sent[n]) + 1]
<1>1. /\ outgoing[n] = {} /\ outgoing' = [outgoing EXCEPT ![n] = {m}]
      /\ link' = Relay(link, n, m)
      /\ sent' = [sent EXCEPT ![n] = Append(@, t)]
      /\ logs' = logs
  BY DEF BroadcastSend
<1>2. /\ m \in DataMessage /\ m.from = n
      /\ \A a \in Node : SentBy(a)' = IF a = n THEN SentBy(a) \cup {m} ELSE SentBy(a)
      /\ \A x \in SentBy(n) : x.seq < m.seq
      /\ \A a \in Node : /\ firsts[a] \subseteq firsts'[a]
                         /\ firsts'[a] \subseteq firsts[a] \cup {m}
                         /\ a # n => firsts'[a] = firsts[a]
  BY <1>1, SentOneMore
<1> HIDE DEF m
<1>3. /\ link \in Links /\ link' \in Links
      /\ \A x, y \in Node :
            link'[x][y] = IF x = n /\ y \in Succs[n] THEN Append(link[x][y], m)
                          ELSE link[x][y]
  <2>1. link \in Links
    BY DEF HInv, TypeInv, Links
  <2>2. QED
    BY <1>1, <1>2, <2>1, RelayLinks
<1>4. ASSUME NEW x \in Node, NEW y \in Node
      PROVE  /\ Range(link[x][y]) \subseteq Range(link'[x][y])
             /\ Range(link'[x][y]) \subseteq Range(link[x][y]) \cup {m}
             /\ x = n /\ y \in Succs[n] => m \in Range(link'[x][y])
  <2>1. link[x][y] \in Seq(DataMessage)
    BY <1>3 DEF Links
  <2>2. Range(Append(link[x][y], m)) = Range(link[x][y]) \cup {m}
    BY <2>1, RangeOfSeq
  <2>3. QED
    BY <1>3, <2>2
<1>5. ASSUME NEW seq \in Seq(DataMessage), NEW seen, Ordered(firsts, seq, seen),
             \A x \in Range(seq) : x \in SentBy(x.from)
      PROVE  Ordered(firsts', seq, seen)
  <2> SUFFICES ASSUME NEW i \in DOMAIN seq, NEW f \in firsts'[seq[i].from],
                      f.seq < seq[i].seq
               PROVE  f \in seen \/ \E j \in 1 .. i - 1 : seq[j] = f
    BY DEF Ordered
  <2>1. seq[i] \in DataMessage /\ seq[i].from \in Node /\ seq[i] \in Range(seq)
    <3>1. seq[i] \in DataMessage
      OBVIOUS
    <3>2. QED
      BY <3>1 DEF DataMessage, Range
  <2>2. f \in firsts[seq[i].from]
    <3>1. CASE seq[i].from = n
      <4>1. seq[i].seq < m.seq
        BY <1>2, <1>5, <2>1, <3>1
      <4>2. seq[i].seq \in Nat /\ m.seq \in Nat
        BY <1>2, <2>1 DEF DataMessage
      <4>3. f # m
        BY <4>1, <4>2
      <4>4. QED
        BY <1>2, <2>1, <4>3
    <3>2. CASE seq[i].from # n
      BY <1>2, <2>1, <3>2
    <3>3. QED
      BY <3>1, <3>2
  <2>3. QED
    BY <1>5, <2>2 DEF Ordered
<1>6. \A a \in Node : SentBy(a) \subseteq SentBy(a)' /\ firsts[a] \subseteq SentBy(a)
  BY <1>2, FirstsSent DEF HInv
<1>7. LogsInOrder'
  <2> SUFFICES ASSUME NEW y \in Node
               PROVE  /\ \A l \in Range(logs[y]) : l \in firsts'[l.from]
                      /\ Ordered(firsts', logs[y], {})
    BY <1>1 DEF LogsInOrder
  <2>1. logs[y] \in Seq(DataMessage) /\ Ordered(firsts, logs[y], {})
    BY DEF HInv, TypeInv, LogsInOrder
  <2>2. ASSUME NEW l \in Range(logs[y])
        PROVE  l.from \in Node /\ l \in firsts[l.from]
    <3>1. l \in DataMessage
      BY <2>1, <2>2 DEF Range
    <3>2. QED
      BY <2>2, <3>1 DEF DataMessage, HInv, LogsInOrder
  <2>3. QED
    BY <1>2, <1>5, <1>6, <2>1, <2>2
<1>8. LinksInOrder'
  <2> SUFFICES ASSUME NEW x \in Node, NEW y \in Node
               PROVE  /\ \A l \in Range(link'[x][y]) : l \in SentBy(l.from)'
                      /\ Ordered(firsts', link'[x][y], Range(logs[y]))
    BY <1>1 DEF LinksInOrder
  <2>1. /\ link[x][y] \in Seq(DataMessage)
        /\ Ordered(firsts, link[x][y], Range(logs[y]))
        /\ \A l \in Range(link[x][y]) : l \in SentBy(l.from)
    BY <1>3 DEF Links, HInv, LinksInOrder
  <2>2. Ordered(firsts', link[x][y], Range(logs[y]))
    BY <1>5, <2>1
  <2>3. Ordered(firsts', link'[x][y], Range(logs[y]))
    <3>1. CASE x = n /\ y \in Succs[n]
      <4>1. \A f \in firsts'[n] : f.seq < m.seq =>
               f \in Range(logs[y]) \cup Range(link[x][y])
        <5>1. \A f \in firsts'[n] : f.seq < m.seq => f \in firsts[n]
          <6>1. m.seq \in Nat
            BY <1>2 DEF DataMessage
          <6>2. QED
            BY <1>2, <6>1
        <5>2. QED
          BY <3>1, <5>1 DEF HInv, PassedOn
      <4>2. QED
        BY <1>2, <1>3, <2>1, <2>2, <3>1, <4>1, OrderedAppend
    <3>2. CASE ~(x = n /\ y \in Succs[n])
      BY <1>3, <2>2, <3>2
    <3>3. QED
      BY <3>1, <3>2
  <2>4. ASSUME NEW l \in Range(link'[x][y])
        PROVE  l \in SentBy(l.from)'
    <3>1. CASE l = m
      <4>1. m \in SentBy(n)'
        BY <1>2
      <4>2. l.from = n
        BY <1>2, <3>1
      <4>3. QED
        BY <3>1, <4>1, <4>2
    <3>2. CASE l \in Range(link[x][y])
      <4>1. l \in DataMessage
        BY <2>1, <3>2 DEF Range
      <4>2. l.from \in Node /\ l \in SentBy(l.from)
        BY <2>1, <3>2, <4>1 DEF DataMessage
      <4>3. QED
        BY <1>6, <4>2
    <3>3. QED
      BY <1>4, <3>1, <3>2
  <2>5. QED
    BY <2>3, <2>4
<1>9. PassedOn'
  <2> SUFFICES ASSUME NEW x \in Node, NEW y \in Succs[x] \cap Node,
                      NEW f \in Range(logs[x]) \cup firsts'[x]
               PROVE  f \in Range(logs[y]) \cup Range(link'[x][y])
    BY <1>1 DEF PassedOn
  <2>1. CASE f \in Range(logs[x]) \cup firsts[x]
    <3>1. f \in Range(logs[y]) \cup Range(link[x][y])
      BY <2>1 DEF HInv, PassedOn
    <3>2. QED
      BY <1>4, <3>1
  <2>2. CASE f \notin Range(logs[x]) \cup firsts[x]
    <3>1. x = n /\ f = m
      BY <1>2, <2>2
    <3>2. QED
      BY <1>4, <3>1
  <2>3. QED
    BY <2>1, <2>2
<1>10. outgoing' \in [Node -> SUBSET DataMessage] /\ outgoing'[n] = {m}
       /\ \A y \in Node : y # n => outgoing'[y] = outgoing[y]
  BY <1>1, <1>2 DEF HInv, TypeInv
<1>11. TypeInv'
  BY <1>1, <1>3, <1>10 DEF HInv, TypeInv, Links
<1>12. OwnKnown'
  <2> SUFFICES ASSUME NEW y \in Node
               PROVE  /\ firsts'[y] \subseteq Range(logs[y]) \cup outgoing'[y]
                      /\ outgoing'[y] # {} => \E l \in SentBy(y)' : outgoing'[y] = {l}
    BY <1>1 DEF OwnKnown
  <2>1. /\ firsts[y] \subseteq Range(logs[y]) \cup outgoing[y]
        /\ outgoing[y] # {} => \E l \in SentBy(y) : outgoing[y] = {l}
    BY DEF HInv, OwnKnown
  <2>2. CASE y = n
    BY <1>1, <1>2, <1>10, <2>1, <2>2
  <2>3. CASE y # n
    BY <1>2, <1>10, <2>1, <2>3
  <2>4. QED
    BY <2>2, <2>3
<1>13. QED
  BY <1>7, <1>8, <1>9, <1>11, <1>12 DEF HInv

-----------------------------------------------------------------------------
\* Nothing has been sent at first.
LEMMA HInvInit == Init => HInv
<1> SUFFICES ASSUME Init
             PROVE  HInv
  OBVIOUS
<1>1. /\ \A n \in Node : sent[n] = <<>> /\ outgoing[n] = {} /\ logs[n] = <<>>
      /\ \A p, n \in Node : link[p][n] = <<>>
      /\ Range(<<>>) = {} /\ DOMAIN <<>> = {}
  BY DEF Init, Range
<1>2. \A n \in Node : firsts[n] = {} /\ SentBy(n) = {}
  BY <1>1 DEF firsts, Firsts, SentBy
<1>3. TypeInv
  BY DEF Init, TypeInv
<1>4. LinksInOrder /\ LogsInOrder
  BY <1>1 DEF LinksInOrder, LogsInOrder, Ordered
<1>5. PassedOn /\ OwnKnown
  BY <1>1, <1>2 DEF PassedOn, OwnKnown
<1>6. QED
  BY <1>3, <1>4, <1>5 DEF HInv

LEMMA HInvStep == HInv /\ [Next]_vars => HInv'
<1> SUFFICES ASSUME HInv, [Next]_vars
             PROVE  HInv'
  OBVIOUS
<1>1. CASE UNCHANGED vars
  <2>1. firsts' = firsts /\ \A a : SentBy(a)' = SentBy(a)
    BY <1>1, SentKept DEF vars
  <2>2. QED
    BY <1>1, <2>1 DEF vars, HInv, TypeInv, LinksInOrder, LogsInOrder, PassedOn, OwnKnown
<1>2. CASE Next
  BY <1>2, SendStep, LogStep, LoggedStep, NewStep DEF Next, Handle
<1>3. QED
  BY <1>1, <1>2

-----------------------------------------------------------------------------
\* No two logs of a node have the same stamp (ordered_unique).
OneLogEach ==
    \A n \in Node : \A i, j \in DOMAIN logs[n] :
        StampOf(logs[n][i]) = StampOf(logs[n][j]) => i = j

\* What is added has a stamp that is not in the logs.
LEMMA AddedOnce ==
    ASSUME TypeInv, OneLogEach, NEW n \in Node, NEW m, ~Logged(n, m),
           logs' = [logs EXCEPT ![n] = Append(@, m)]
    PROVE  OneLogEach'
<1> SUFFICES ASSUME NEW y \in Node, NEW i \in DOMAIN logs'[y], NEW j \in DOMAIN logs'[y],
                    StampOf(logs'[y][i]) = StampOf(logs'[y][j])
             PROVE  i = j
  BY DEF OneLogEach
<1>1. logs[y] \in Seq(DataMessage)
  BY DEF TypeInv
<1>2. logs'[y] = IF y = n THEN Append(logs[y], m) ELSE logs[y]
  BY DEF TypeInv
<1>3. CASE y # n
  BY <1>2, <1>3 DEF OneLogEach
<1>4. CASE y = n
  <2>1. /\ DOMAIN logs[n] = 1 .. Len(logs[n]) /\ Len(logs[n]) \in Nat
        /\ DOMAIN logs'[n] = 1 .. Len(logs[n]) + 1
        /\ \A k \in 1 .. Len(logs[n]) : logs'[n][k] = logs[n][k]
        /\ logs'[n][Len(logs[n]) + 1] = m
    BY <1>1, <1>2, <1>4
  <2>2. \A k \in DOMAIN logs[n] : StampOf(logs[n][k]) # StampOf(m)
    BY DEF Logged, Range
  <2>3. CASE i \in DOMAIN logs[n] /\ j \in DOMAIN logs[n]
    BY <1>4, <2>1, <2>3 DEF OneLogEach
  <2>4. CASE ~(i \in DOMAIN logs[n] /\ j \in DOMAIN logs[n])
    BY <1>4, <2>1, <2>2, <2>4
  <2>5. QED
    BY <2>3, <2>4
<1>5. QED
  BY <1>3, <1>4

LEMMA OneLogEachStep == TypeInv /\ OneLogEach /\ [Next]_vars => OneLogEach'
<1> SUFFICES ASSUME TypeInv, OneLogEach, [Next]_vars
             PROVE  OneLogEach'
  OBVIOUS
<1>1. CASE UNCHANGED logs
  BY <1>1 DEF OneLogEach
<1>2. ASSUME NEW n \in Node, BroadcastLog(n)
      PROVE  OneLogEach'
  BY <1>1, <1>2, AddedOnce DEF BroadcastLog
<1>3. ASSUME NEW n \in Node, NEW p \in Node, HandleNew(n, p)
      PROVE  OneLogEach'
  BY <1>3, AddedOnce DEF HandleNew
<1>4. QED
  BY <1>1, <1>2, <1>3 DEF Next, Handle, BroadcastSend, HandleLogged, vars

\* Every node logs what an author broadcasts in the order of broadcast, nothing
\* twice, and nothing before what was broadcast in an earlier millisecond: for any
\* number of nodes, any rings and any delays (broadcast, log_message, find_log).
THEOREM LogsAgree == Spec => []InOrder
<1>1. ASSUME HInv, OneLogEach, NEW n \in Node, NEW i \in DOMAIN logs[n]
      PROVE  LET m == logs[n][i]
             IN  /\ \A j \in 1 .. i - 1 : logs[n][j].from = m.from => logs[n][j].seq < m.seq
                 /\ \A k \in 1 .. m.seq - 1 : sent[m.from][k] < m.time =>
                       \E j \in 1 .. i - 1 :
                          StampOf(logs[n][j]) = <<m.from, sent[m.from][k]>>
  <2> DEFINE m == logs[n][i]
  <2>1. /\ logs[n] \in Seq(DataMessage)
        /\ DOMAIN logs[n] = 1 .. Len(logs[n]) /\ Len(logs[n]) \in Nat
    BY <1>1 DEF HInv, TypeInv
  <2>2. ASSUME NEW j \in DOMAIN logs[n]
        PROVE  /\ logs[n][j] \in firsts[logs[n][j].from] /\ logs[n][j].from \in Node
               /\ logs[n][j].seq \in Nat
               /\ \A f \in firsts[logs[n][j].from] : f.seq < logs[n][j].seq =>
                     \E k \in 1 .. j - 1 : logs[n][k] = f
    <3>1. logs[n][j] \in DataMessage /\ logs[n][j] \in Range(logs[n])
      BY <2>1 DEF Range
    <3>2. Ordered(firsts, logs[n], {})
      BY <1>1 DEF HInv, LogsInOrder
    <3>3. QED
      BY <1>1, <3>1, <3>2 DEF HInv, LogsInOrder, Ordered, DataMessage
  <2>3. /\ m \in SentBy(m.from) /\ m = Sent(m.from, m.seq)
        /\ m.seq \in 1 .. Len(sent[m.from])
        /\ DOMAIN sent[m.from] = 1 .. Len(sent[m.from]) /\ Len(sent[m.from]) \in Nat
    <3>1. m \in firsts[m.from] /\ m.from \in Node
      BY <1>1, <2>2
    <3>2. sent[m.from] \in Seq(Time)
      BY <1>1, <3>1 DEF HInv, TypeInv
    <3>3. QED
      BY <1>1, <3>1, <3>2, FirstsSent DEF HInv
  <2>4. ASSUME NEW j \in 1 .. i - 1, logs[n][j].from = m.from
        PROVE  logs[n][j].seq < m.seq
    <3>1. j \in DOMAIN logs[n] /\ j # i
      BY <1>1, <2>1
    <3>2. logs[n][j] # m
      BY <1>1, <3>1 DEF OneLogEach
    <3>3. /\ logs[n][j] = Sent(m.from, logs[n][j].seq)
          /\ m.from \in Node /\ logs[n][j].seq \in Nat /\ m.seq \in Nat
      BY <1>1, <2>2, <2>4, <3>1, FirstsSent DEF HInv
    <3>4. logs[n][j].seq # m.seq
      BY <2>3, <3>2, <3>3
    <3>5. ASSUME m.seq < logs[n][j].seq
          PROVE  FALSE
      <4>1. m \in firsts[logs[n][j].from]
        BY <1>1, <2>2, <2>4
      <4>2. PICK k \in 1 .. j - 1 : logs[n][k] = m
        BY <2>2, <3>1, <3>5, <4>1
      <4>3. k \in DOMAIN logs[n] /\ k # i
        BY <1>1, <2>1, <3>1
      <4>4. QED
        BY <1>1, <4>2, <4>3 DEF OneLogEach
    <3>6. QED
      BY <3>3, <3>4, <3>5
  <2>5. ASSUME NEW k \in 1 .. m.seq - 1, sent[m.from][k] < m.time
        PROVE  \E j \in 1 .. i - 1 : StampOf(logs[n][j]) = <<m.from, sent[m.from][k]>>
    <3>1. m.from \in Node /\ m.seq \in Nat
      BY <1>1, <2>2
    <3>2. k \in DOMAIN sent[m.from] /\ k < m.seq
      BY <2>3, <3>1
    <3>3. Sent(m.from, k) \in SentBy(m.from)
      BY <3>2 DEF SentBy
    <3>4. PICK f \in firsts[m.from] :
             /\ StampOf(f) = StampOf(Sent(m.from, k))
             /\ f = Sent(m.from, k) \/ f.seq < Sent(m.from, k).seq
      BY <1>1, <3>1, <3>3, FirstExists DEF HInv
    <3>5. f.seq < m.seq
      <4>1. f.seq \in Nat
        BY <1>1, <3>1, FirstsSent DEF HInv, DataMessage
      <4>2. Sent(m.from, k).seq = k /\ k \in Nat
        BY <3>1 DEF Sent
      <4>3. QED
        BY <3>1, <3>2, <3>4, <4>1, <4>2
    <3>6. PICK j \in 1 .. i - 1 : logs[n][j] = f
      BY <1>1, <2>2, <3>5
    <3>7. StampOf(Sent(m.from, k)) = <<m.from, sent[m.from][k]>>
      BY DEF StampOf, Sent
    <3>8. QED
      BY <3>4, <3>6, <3>7
  <2>6. QED
    BY <2>4, <2>5
<1>2. HInv /\ OneLogEach => InOrder
  BY <1>1 DEF InOrder
<1>3. Init => OneLogEach
  BY DEF Init, OneLogEach
<1>4. HInv => TypeInv
  BY DEF HInv
<1>5. QED
  BY <1>2, <1>3, <1>4, HInvInit, HInvStep, OneLogEachStep, PTL DEF Spec

-----------------------------------------------------------------------------
(* Counting what has been sent                                             *)

\* Copies of a message come and go one by one.
LEMMA CopiesOfSeq ==
    ASSUME NEW S, NEW seq \in Seq(S), NEW s
    PROVE  /\ Copies(<<>>, s) = 0
           /\ Copies(seq, s) \in Nat
           /\ \A m : Copies(Append(seq, m), s) =
                        Copies(seq, s) + (IF StampOf(m) = s THEN 1 ELSE 0)
           /\ seq # <<>> =>
                 Copies(Tail(seq), s) + (IF StampOf(Head(seq)) = s THEN 1 ELSE 0) =
                    Copies(seq, s)
<1> DEFINE places == {i \in DOMAIN seq : StampOf(seq[i]) = s}
<1>1. DOMAIN seq = 1 .. Len(seq) /\ Len(seq) \in Nat
  OBVIOUS
<1>2. IsFiniteSet(1 .. Len(seq))
  BY <1>1, FS_Interval
<1>3. IsFiniteSet(places) /\ Cardinality(places) \in Nat /\ Copies(seq, s) = Cardinality(places)
  BY <1>1, <1>2, FS_Subset, FS_CardinalityType DEF Copies
<1>4. Copies(<<>>, s) = 0
  <2>1. {i \in DOMAIN <<>> : StampOf(<<>>[i]) = s} = {}
    OBVIOUS
  <2>2. QED
    BY <2>1, FS_EmptySet DEF Copies
<1>5. ASSUME NEW m
      PROVE  Copies(Append(seq, m), s) =
                Copies(seq, s) + (IF StampOf(m) = s THEN 1 ELSE 0)
  <2> DEFINE longer == {i \in DOMAIN Append(seq, m) : StampOf(Append(seq, m)[i]) = s}
  <2>1. /\ DOMAIN Append(seq, m) = 1 .. Len(seq) + 1
        /\ \A i \in 1 .. Len(seq) : Append(seq, m)[i] = seq[i]
        /\ Append(seq, m)[Len(seq) + 1] = m
    OBVIOUS
  <2>2. longer = IF StampOf(m) = s THEN places \cup {Len(seq) + 1} ELSE places
    BY <1>1, <2>1
  <2>3. Len(seq) + 1 \notin places
    BY <1>1
  <2>4. Cardinality(longer) = Cardinality(places) + (IF StampOf(m) = s THEN 1 ELSE 0)
    <3> HIDE DEF places, longer
    <3>1. Cardinality(places \cup {Len(seq) + 1}) = Cardinality(places) + 1
      BY <1>3, <2>3, FS_AddElement
    <3>2. QED
      BY <1>3, <2>2, <3>1
  <2>5. QED
    BY <1>3, <2>4 DEF Copies
<1>6. ASSUME seq # <<>>
      PROVE  Copies(Tail(seq), s) + (IF StampOf(Head(seq)) = s THEN 1 ELSE 0) =
                Copies(seq, s)
  <2> DEFINE rest == {i \in DOMAIN Tail(seq) : StampOf(Tail(seq)[i]) = s}
             shift == [i \in rest |-> i + 1]
  <2>1. /\ DOMAIN Tail(seq) = 1 .. Len(seq) - 1
        /\ \A i \in 1 .. Len(seq) - 1 : Tail(seq)[i] = seq[i + 1]
        /\ Head(seq) = seq[1] /\ Len(seq) >= 1
    BY <1>6
  <2>2. IsFiniteSet(rest) /\ rest \subseteq Nat
    <3>1. IsFiniteSet(1 .. Len(seq) - 1)
      BY <1>1, FS_Interval
    <3>2. QED
      BY <2>1, <3>1, FS_Subset
  <2>3. /\ \A i \in rest : i + 1 \in places \ {1}
        /\ \A i \in places \ {1} : i - 1 \in rest
    BY <1>1, <2>1
  <2>4. shift \in Bijection(rest, places \ {1})
    <3>1. \A i \in rest : shift[i] = i + 1
      OBVIOUS
    <3>2. shift \in [rest -> places \ {1}]
      BY <2>3
    <3>3. \A i, j \in rest : shift[i] = shift[j] => i = j
      BY <2>2, <3>1
    <3>4. ASSUME NEW i \in places \ {1}
          PROVE  \E j \in rest : shift[j] = i
      <4>1. i - 1 \in rest /\ (i - 1) + 1 = i
        BY <1>1, <2>3
      <4>2. QED
        BY <3>1, <4>1
    <3> HIDE DEF shift, rest, places
    <3>5. QED
      BY <3>2, <3>3, <3>4 DEF Bijection, Injection, Surjection, IsInjective
  <2>5. Cardinality(places \ {1}) = Cardinality(rest)
    <3>1. ExistsBijection(rest, places \ {1})
      BY <2>4 DEF ExistsBijection
    <3>2. QED
      BY <2>2, <3>1, FS_Bijection
  <2>6. 1 \in places <=> StampOf(Head(seq)) = s
    BY <1>1, <2>1
  <2>7. Cardinality(rest) + (IF StampOf(Head(seq)) = s THEN 1 ELSE 0) = Cardinality(places)
    <3> HIDE DEF places, rest
    <3>1. Cardinality(places \ {1}) =
             IF 1 \in places THEN Cardinality(places) - 1 ELSE Cardinality(places)
      BY <1>3, FS_RemoveElement
    <3>2. QED
      BY <1>3, <2>5, <2>6, <3>1
  <2>8. QED
    BY <1>3, <2>7 DEF Copies
<1>7. QED
  BY <1>3, <1>4, <1>5, <1>6

\* How often p has sent n what is under s, read or not
Delivered(n, p, s) == control[n][s][p] + Copies(link[p][n], s)

\* The inductive invariant of the counts, beside that of the logs
CountInv ==
    /\ control \in [Node -> [Stamp -> [Node -> Nat]]]
    /\ Accounted

\* What is read is counted as acknowledged: nothing is lost, nothing comes twice.
LEMMA ReadCopies ==
    ASSUME HInv, CountInv, NEW n \in Node, NEW p \in Node, link[p][n] # <<>>,
           Ack(n, p, Head(link[p][n]))
    PROVE  LET box == [link EXCEPT ![p][n] = Tail(@)]
           IN  /\ box \in Links
               /\ control' \in [Node -> [Stamp -> [Node -> Nat]]]
               /\ \A x, y \in Node : \A s \in Stamp :
                     control'[y][s][x] + Copies(box[x][y], s) = Delivered(y, x, s)
<1> DEFINE box == [link EXCEPT ![p][n] = Tail(@)]
           h == Head(link[p][n])
<1>1. link \in Links /\ link[p][n] \in Seq(DataMessage)
  BY DEF HInv, TypeInv, Links
<1>2. /\ box \in Links
      /\ \A x, y \in Node :
            box[x][y] = IF x = p /\ y = n THEN Tail(link[p][n]) ELSE link[x][y]
  BY <1>1 DEF Links
<1>3. h \in DataMessage /\ StampOf(h) \in Stamp
  <2>1. h = link[p][n][1] /\ 1 \in DOMAIN link[p][n]
    BY <1>1, RangeOfSeq
  <2>2. h \in DataMessage
    BY <1>1, <2>1
  <2>3. QED
    BY <2>2 DEF DataMessage, StampOf, Stamp
<1>4. control \in [Node -> [Stamp -> [Node -> Nat]]]
  BY DEF CountInv
<1> HIDE DEF h, box
<1>5. /\ control' \in [Node -> [Stamp -> [Node -> Nat]]]
      /\ \A x, y \in Node : \A s \in Stamp :
            control'[y][s][x] = IF x = p /\ y = n /\ s = StampOf(h)
                                THEN control[y][s][x] + 1 ELSE control[y][s][x]
  <2>1. PICK z \in Stamp : z = StampOf(h)
    BY <1>3
  <2>2. control' = [control EXCEPT ![n][z][p] = @ + 1]
    BY <2>1 DEF Ack, h
  <2>3. /\ control[n] \in [Stamp -> [Node -> Nat]]
        /\ control[n][z] \in [Node -> Nat]
        /\ control[n][z][p] + 1 \in Nat
    BY <1>4
  <2>4. [control[n][z] EXCEPT ![p] = @ + 1] \in [Node -> Nat]
    BY <2>3
  <2>5. [control[n] EXCEPT ![z][p] = @ + 1] \in [Stamp -> [Node -> Nat]]
    BY <2>3, <2>4
  <2>6. control' \in [Node -> [Stamp -> [Node -> Nat]]]
    BY <1>4, <2>2, <2>3, <2>4, <2>5
  <2>7. \A x, y \in Node : \A s \in Stamp :
           control'[y][s][x] = IF x = p /\ y = n /\ s = z
                               THEN control[y][s][x] + 1 ELSE control[y][s][x]
    BY <1>4, <2>2, <2>3
  <2>8. QED
    BY <2>1, <2>6, <2>7
<1>6. ASSUME NEW x \in Node, NEW y \in Node, NEW s \in Stamp
      PROVE  control'[y][s][x] + Copies(box[x][y], s) = Delivered(y, x, s)
  <2>1. control[y][s][x] \in Nat
    BY <1>4
  <2>2. CASE x = p /\ y = n
    <3>1. /\ Copies(Tail(link[p][n]), s) + (IF StampOf(h) = s THEN 1 ELSE 0) =
                Copies(link[p][n], s)
          /\ Copies(link[p][n], s) \in Nat
      BY <1>1, CopiesOfSeq DEF h
    <3>2. Copies(Tail(link[p][n]), s) \in Nat
      <4>1. Tail(link[p][n]) \in Seq(DataMessage)
        BY <1>1
      <4>2. QED
        BY <4>1, CopiesOfSeq
    <3>3. control'[y][s][x] = control[y][s][x] + (IF StampOf(h) = s THEN 1 ELSE 0)
      BY <1>5, <2>1, <2>2
    <3>4. /\ box[x][y] = Tail(link[p][n])
          /\ Delivered(y, x, s) = control[y][s][x] + Copies(link[p][n], s)
      BY <1>2, <2>2 DEF Delivered
    <3>5. QED
      BY <2>1, <3>1, <3>2, <3>3, <3>4
  <2>3. CASE ~(x = p /\ y = n)
    <3>1. control'[y][s][x] = control[y][s][x]
      BY <1>5, <2>1, <2>3
    <3>2. QED
      BY <1>2, <2>3, <3>1 DEF Delivered
  <2>4. QED
    BY <2>2, <2>3
<1>7. QED
  BY <1>2, <1>5, <1>6 DEF box

\* An author has something to send under a new stamp, too.
LEMMA SendCounts ==
    ASSUME HInv, CountInv, NEW n \in Node, NEW t \in Time, BroadcastSend(n, t)
    PROVE  CountInv'
<1> DEFINE m == [from |-> n, time |-> t, seq |-> Len(sent[n]) + 1]
<1>1. /\ link' = Relay(link, n, m)
      /\ sent' = [sent EXCEPT ![n] = Append(@, t)]
      /\ logs' = logs /\ control' = control
  BY DEF BroadcastSend
<1>2. m \in DataMessage /\ StampOf(m) = <<n, t>>
  BY <1>1, SentOneMore DEF StampOf
<1> HIDE DEF m
<1>3. \A x, y \in Node : \A s \in Stamp :
         /\ Delivered(y, x, s) \in Nat
         /\ Delivered(y, x, s)' =
               Delivered(y, x, s) + (IF x = n /\ y \in Succs[n] /\ s = <<n, t>> THEN 1 ELSE 0)
  <2> SUFFICES ASSUME NEW x \in Node, NEW y \in Node, NEW s \in Stamp
               PROVE  /\ Delivered(y, x, s) \in Nat
                      /\ Delivered(y, x, s)' =
                            Delivered(y, x, s)
                               + (IF x = n /\ y \in Succs[n] /\ s = <<n, t>> THEN 1 ELSE 0)
    OBVIOUS
  <2>1. link \in Links
    BY DEF HInv, TypeInv, Links
  <2>2. control[y][s][x] \in Nat
    BY DEF CountInv
  <2>3. /\ Copies(link[x][y], s) \in Nat
        /\ Copies(link'[x][y], s) =
              Copies(link[x][y], s) + (IF x = n /\ y \in Succs[n] /\ s = <<n, t>> THEN 1 ELSE 0)
    <3>1. link[x][y] \in Seq(DataMessage)
      BY <2>1 DEF Links
    <3>2. link'[x][y] =
             IF x = n /\ y \in Succs[n] THEN Append(link[x][y], m) ELSE link[x][y]
      BY <1>1, <1>2, <2>1, RelayLinks
    <3>3. /\ Copies(link[x][y], s) \in Nat
          /\ Copies(Append(link[x][y], m), s) =
                Copies(link[x][y], s) + (IF StampOf(m) = s THEN 1 ELSE 0)
      BY <3>1, CopiesOfSeq
    <3>4. QED
      BY <1>2, <3>2, <3>3
  <2>4. QED
    BY <1>1, <2>2, <2>3 DEF Delivered
<1>4. \A x \in Node : \A s \in Stamp :
         HasSent(x, s)' <=> HasSent(x, s) \/ (x = n /\ s = <<n, t>>)
  <2> SUFFICES ASSUME NEW x \in Node, NEW s \in Stamp
               PROVE  HasSent(x, s)' <=> HasSent(x, s) \/ (x = n /\ s = <<n, t>>)
    OBVIOUS
  <2>1. sent \in [Node -> Seq(Time)] /\ s = <<s[1], s[2]>>
    BY DEF HInv, TypeInv, Stamp
  <2>2. Range(sent'[n]) = Range(sent[n]) \cup {t} /\ (x # n => sent'[x] = sent[x])
    BY <1>1, <2>1, RangeOfSeq
  <2>3. QED
    BY <1>1, <2>1, <2>2 DEF HasSent
<1>5. Accounted'
  <2> SUFFICES ASSUME NEW y \in Node, NEW x \in Node, NEW s \in Stamp
               PROVE  /\ Delivered(y, x, s)' > 0 <=> y \in Succs[x] /\ HasSent(x, s)'
                      /\ x # s[1] => Delivered(y, x, s)' <= 1
    BY DEF Accounted, Delivered
  <2>1. /\ Delivered(y, x, s) > 0 <=> y \in Succs[x] /\ HasSent(x, s)
        /\ x # s[1] => Delivered(y, x, s) <= 1
    BY DEF CountInv, Accounted, Delivered
  <2>2. QED
    BY <1>3, <1>4, <2>1
<1>6. QED
  BY <1>1, <1>5 DEF CountInv

\* What the author logs is what it has sent.
LEMMA LogCounts ==
    ASSUME HInv, CountInv, NEW n \in Node, BroadcastLog(n)
    PROVE  CountInv'
<1>1. PICK m \in outgoing[n] :
         /\ logs' = IF Logged(n, m) THEN logs ELSE [logs EXCEPT ![n] = Append(@, m)]
         /\ UNCHANGED <<sent, control, link>>
  BY DEF BroadcastLog
<1>2. m \in SentBy(n) /\ logs \in [Node -> Seq(DataMessage)]
  BY <1>1 DEF HInv, OwnKnown, TypeInv
<1>3. StampOf(m) = <<n, StampOf(m)[2]>> /\ StampOf(m)[2] \in Range(sent[n])
  BY <1>2 DEF SentBy, Sent, StampOf, Range
<1>4. \A x \in Node : Range(logs'[x]) = Range(logs[x]) \/
                      (x = n /\ Range(logs'[x]) = Range(logs[x]) \cup {m})
  BY <1>1, <1>2, RangeOfSeq
<1>5. ASSUME NEW x \in Node, NEW s \in Stamp
      PROVE  HasSent(x, s)' <=> HasSent(x, s)
  <2>1. CASE Range(logs'[x]) = Range(logs[x])
    BY <1>1, <2>1 DEF HasSent
  <2>2. CASE x = n /\ Range(logs'[x]) = Range(logs[x]) \cup {m}
    BY <1>1, <1>3, <2>2 DEF HasSent
  <2>3. QED
    BY <1>4, <2>1, <2>2
<1>6. QED
  BY <1>1, <1>5 DEF CountInv, Accounted

\* To acknowledge a message that is logged already
LEMMA LoggedCounts ==
    ASSUME HInv, CountInv, NEW n \in Node, NEW p \in Node, HandleLogged(n, p)
    PROVE  CountInv'
<1> DEFINE box == [link EXCEPT ![p][n] = Tail(@)]
<1>1. /\ link[p][n] # <<>> /\ Ack(n, p, Head(link[p][n])) /\ link' = box
      /\ sent' = sent /\ logs' = logs
  BY DEF HandleLogged
<1>2. /\ control' \in [Node -> [Stamp -> [Node -> Nat]]]
      /\ \A x, y \in Node : \A s \in Stamp :
            control'[y][s][x] + Copies(box[x][y], s) = Delivered(y, x, s)
  BY <1>1, ReadCopies
<1> HIDE DEF box
<1>3. \A x, y \in Node : \A s \in Stamp : Delivered(y, x, s)' = Delivered(y, x, s)
  BY <1>1, <1>2 DEF Delivered
<1>4. \A x \in Node : \A s \in Stamp : HasSent(x, s)' <=> HasSent(x, s)
  BY <1>1 DEF HasSent
<1>5. Accounted'
  <2> SUFFICES ASSUME NEW y \in Node, NEW x \in Node, NEW s \in Stamp
               PROVE  /\ Delivered(y, x, s)' > 0 <=> y \in Succs[x] /\ HasSent(x, s)'
                      /\ x # s[1] => Delivered(y, x, s)' <= 1
    BY DEF Accounted, Delivered
  <2>1. /\ Delivered(y, x, s) > 0 <=> y \in Succs[x] /\ HasSent(x, s)
        /\ x # s[1] => Delivered(y, x, s) <= 1
    BY DEF CountInv, Accounted, Delivered
  <2>2. QED
    BY <1>3, <1>4, <2>1
<1>6. QED
  BY <1>2, <1>5 DEF CountInv

\* What a node reads for the first time it has not sent before, unless it is
\* the author: so each successor gets one copy of it.
LEMMA NewCounts ==
    ASSUME HInv, CountInv, NEW n \in Node, NEW p \in Node, HandleNew(n, p)
    PROVE  CountInv'
<1> DEFINE box == [link EXCEPT ![p][n] = Tail(@)]
           m == Head(link[p][n])
<1>1. /\ link[p][n] # <<>> /\ Ack(n, p, m) /\ link' = Relay(box, n, m)
      /\ ~Logged(n, m) /\ sent' = sent /\ logs' = [logs EXCEPT ![n] = Append(@, m)]
  BY DEF HandleNew
<1>2. /\ box \in Links
      /\ control' \in [Node -> [Stamp -> [Node -> Nat]]]
      /\ \A x, y \in Node : \A s \in Stamp :
            control'[y][s][x] + Copies(box[x][y], s) = Delivered(y, x, s)
  BY <1>1, ReadCopies
<1>3. m \in DataMessage
  BY <1>1, NewIsNext
<1> HIDE DEF box, m
<1>4. ASSUME NEW x \in Node, NEW y \in Node, NEW s \in Stamp
      PROVE  /\ Delivered(y, x, s) \in Nat
             /\ Delivered(y, x, s)' =
                   Delivered(y, x, s)
                      + (IF x = n /\ y \in Succs[n] /\ StampOf(m) = s THEN 1 ELSE 0)
  <2>1. /\ Copies(box[x][y], s) \in Nat
        /\ Copies(link'[x][y], s) =
              Copies(box[x][y], s)
                 + (IF x = n /\ y \in Succs[n] /\ StampOf(m) = s THEN 1 ELSE 0)
    <3>1. box[x][y] \in Seq(DataMessage)
      BY <1>2 DEF Links
    <3>2. link'[x][y] =
             IF x = n /\ y \in Succs[n] THEN Append(box[x][y], m) ELSE box[x][y]
      BY <1>1, <1>2, <1>3, RelayLinks
    <3>3. /\ Copies(box[x][y], s) \in Nat
          /\ Copies(Append(box[x][y], m), s) =
                Copies(box[x][y], s) + (IF StampOf(m) = s THEN 1 ELSE 0)
      BY <3>1, CopiesOfSeq
    <3>4. QED
      BY <3>2, <3>3
  <2>2. control'[y][s][x] \in Nat
    BY <1>2
  <2>3. Delivered(y, x, s)' = control'[y][s][x] + Copies(link'[x][y], s)
    BY DEF Delivered
  <2>4. control'[y][s][x] + Copies(box[x][y], s) = Delivered(y, x, s)
    BY <1>2
  <2>5. QED
    BY <2>1, <2>2, <2>3, <2>4
<1>5. ASSUME NEW x \in Node, NEW s \in Stamp
      PROVE  HasSent(x, s)' <=> HasSent(x, s) \/ (x = n /\ s = StampOf(m))
  <2>1. logs \in [Node -> Seq(DataMessage)]
    BY DEF HInv, TypeInv
  <2>2. Range(logs'[n]) = Range(logs[n]) \cup {m} /\ (x # n => logs'[x] = logs[x])
    BY <1>1, <2>1, RangeOfSeq
  <2>3. QED
    BY <1>1, <2>2 DEF HasSent
<1>6. \A s \in Stamp : n # s[1] /\ s = StampOf(m) => ~HasSent(n, s)
  BY <1>1 DEF HasSent, Logged
<1>7. Accounted'
  <2> SUFFICES ASSUME NEW y \in Node, NEW x \in Node, NEW s \in Stamp
               PROVE  /\ Delivered(y, x, s)' > 0 <=> y \in Succs[x] /\ HasSent(x, s)'
                      /\ x # s[1] => Delivered(y, x, s)' <= 1
    BY DEF Accounted, Delivered
  <2>1. /\ Delivered(y, x, s) > 0 <=> y \in Succs[x] /\ HasSent(x, s)
        /\ x # s[1] => Delivered(y, x, s) <= 1
    BY DEF CountInv, Accounted, Delivered
  <2>2. QED
    BY <1>4, <1>5, <1>6, <2>1
<1>8. QED
  BY <1>2, <1>7 DEF CountInv

LEMMA CountInvInit == Init => CountInv
<1> SUFFICES ASSUME Init
             PROVE  CountInv
  OBVIOUS
<1>1. /\ \A n \in Node : sent[n] = <<>> /\ logs[n] = <<>>
      /\ \A p, n \in Node : link[p][n] = <<>>
      /\ \A p, n \in Node : \A s \in Stamp : control[n][s][p] = 0
      /\ control \in [Node -> [Stamp -> [Node -> Nat]]]
  BY DEF Init
<1>2. Range(<<>>) = {} /\ \A s : Copies(<<>>, s) = 0
  <2>1. <<>> \in Seq({}) /\ DOMAIN <<>> = {}
    OBVIOUS
  <2>2. \A s : Copies(<<>>, s) = 0
    BY <2>1, CopiesOfSeq
  <2>3. QED
    BY <2>1, <2>2 DEF Range
<1>3. \A p \in Node : \A s \in Stamp : ~HasSent(p, s)
  BY <1>1, <1>2 DEF HasSent
<1>4. QED
  BY <1>1, <1>2, <1>3 DEF CountInv, Accounted

LEMMA CountInvStep == HInv /\ CountInv /\ [Next]_vars => CountInv'
<1> SUFFICES ASSUME HInv, CountInv, [Next]_vars
             PROVE  CountInv'
  OBVIOUS
<1>1. CASE UNCHANGED vars
  BY <1>1 DEF vars, CountInv, Accounted, HasSent
<1>2. CASE Next
  BY <1>2, SendCounts, LogCounts, LoggedCounts, NewCounts DEF Next, Handle
<1>3. QED
  BY <1>1, <1>2

\* Whatever the rings and the delays, the control counts and the copies under
\* way add up to what the predecessors have sent: a message comes from each node
\* that has had it and from nobody else, and but once from who relays it
\* (ack_message, broadcast).
THEOREM CountsAccountFor == Spec => []Accounted
<1>1. Spec => [](HInv /\ CountInv)
  BY HInvInit, HInvStep, CountInvInit, CountInvStep, PTL DEF Spec
<1>2. CountInv => Accounted
  BY DEF CountInv
<1>3. QED
  BY <1>1, <1>2, PTL

-----------------------------------------------------------------------------
(* Once nothing is under way                                               *)

Everybody == {Local(n) : n \in Node}

\* The rings hold everybody, so each peer has a successor in each of them, unless
\* it is alone (Group::update_neighbours).
LEMMA RelayRing ==
    /\ IsPeerMap(Everybody)
    /\ \A n \in Node : /\ Local(n) \in Everybody /\ Id(Local(n)) = n
                       /\ Succs[n] \subseteq Node
                       /\ Preds[n] = {p \in Node : n \in Succs[p]}
    /\ \A n, p \in Node :
          p # n => Succs[n] = {Id(Successor(i, Everybody, Local(n))) : i \in RingIndex}
<1>1. /\ Everybody \subseteq Peer
      /\ \A n \in Node : Local(n) \in Everybody /\ Id(Local(n)) = n
      /\ \A p \in Everybody : Id(p) \in Node /\ p = Local(Id(p))
  BY DEF Everybody, Local, Id, Peer, PeerKind
<1>2. IsPeerMap(Everybody)
  BY <1>1 DEF IsPeerMap
<1>3. /\ Everyone.ring = Everybody
      /\ Ids(Everybody) = Node
  BY <1>1 DEF Everyone, NewGroup, Everybody, Ids
<1>4. ASSUME NEW n \in Node
      PROVE  /\ Node = {n} => Succs[n] = {} /\ Preds[n] = {}
             /\ Node # {n} =>
                   /\ Succs[n] = {Id(Successor(i, Everybody, Local(n))) : i \in RingIndex}
                   /\ Preds[n] = {Id(Predecessor(i, Everybody, Local(n))) : i \in RingIndex}
  <2> DEFINE g == UpdateNeighbours(Everyone, n)
  <2>1. NoNeighbour(Everyone.ring, n) <=> Node = {n}
    BY <1>3 DEF NoNeighbour
  <2>2. CASE Node = {n}
    <3>1. g.succs = {} /\ g.preds = {}
      BY <2>1, <2>2 DEF UpdateNeighbours, Everyone, NewGroup
    <3>2. QED
      BY <2>2, <3>1 DEF Succs, Preds, Ids
  <2>3. CASE Node # {n}
    <3>1. /\ g.succs = Successors(Everybody, n)
          /\ g.preds = Predecessors(Everybody, n)
      BY <1>3, <2>1, <2>3 DEF UpdateNeighbours, Everyone, NewGroup
    <3>2. /\ Succs[n] = Ids(Successors(Everybody, n))
          /\ Preds[n] = Ids(Predecessors(Everybody, n))
      BY <3>1 DEF Succs, Preds
    <3>3. QED
      BY <2>3, <3>2 DEF Ids, Successors, Predecessors
  <2>4. QED
    BY <2>2, <2>3
<1>5. \A n \in Node : \A i \in RingIndex :
         /\ Successor(i, Everybody, Local(n)) \in Everybody
         /\ Predecessor(i, Everybody, Local(n)) \in Everybody
  BY <1>1, NeighbourInRing
<1>6. ASSUME NEW n \in Node
      PROVE  Succs[n] \subseteq Node /\ Preds[n] \subseteq Node
  <2>1. CASE Node = {n}
    BY <1>4, <2>1
  <2>2. CASE Node # {n}
    BY <1>1, <1>4, <1>5, <2>2
  <2>3. QED
    BY <2>1, <2>2
<1>7. ASSUME NEW n \in Node, NEW p \in Node
      PROVE  p \in Preds[n] <=> n \in Succs[p]
  <2>1. CASE Node = {n}
    BY <1>4, <2>1
  <2>2. CASE Node = {p}
    BY <1>4, <2>2
  <2>3. CASE Node # {n} /\ Node # {p}
    <3>1. ASSUME p \in Preds[n]
          PROVE  n \in Succs[p]
      <4>1. PICK i \in RingIndex : p = Id(Predecessor(i, Everybody, Local(n)))
        BY <1>4, <2>3, <3>1
      <4>2. Predecessor(i, Everybody, Local(n)) = Local(p)
        BY <1>1, <1>5, <4>1
      <4>3. Successor(i, Everybody, Local(p)) = Local(n)
        BY <1>1, <1>2, <4>2, SuccessorOfPredecessor
      <4>4. QED
        BY <1>1, <1>4, <2>3, <4>3
    <3>2. ASSUME n \in Succs[p]
          PROVE  p \in Preds[n]
      <4>1. PICK i \in RingIndex : n = Id(Successor(i, Everybody, Local(p)))
        BY <1>4, <2>3, <3>2
      <4>2. Successor(i, Everybody, Local(p)) = Local(n)
        BY <1>1, <1>5, <4>1
      <4>3. Predecessor(i, Everybody, Local(n)) = Local(p)
        BY <1>1, <1>2, <4>2, PredecessorOfSuccessor
      <4>4. QED
        BY <1>1, <1>4, <2>3, <4>3
    <3>3. QED
      BY <3>1, <3>2
  <2>4. QED
    BY <2>1, <2>2, <2>3
<1>8. QED
  BY <1>1, <1>2, <1>4, <1>6, <1>7

\* Who relays to its successors, which do the same, leaves nobody out: whatever
\* the digests, one turn of a ring is enough.
LEMMA RingReachesAll ==
    ASSUME NEW L \in SUBSET Node, L # {},
           \A x \in L : Succs[x] \subseteq L
    PROVE  L = Node
<1> SUFFICES ASSUME L # Node
             PROVE  FALSE
  OBVIOUS
<1> DEFINE In == {Local(x) : x \in L}
<1>1. PICK i \in RingIndex : TRUE
  BY RingAssumption
<1>2. /\ IsPeerMap(Everybody) /\ Everybody \in SUBSET Peer
      /\ \A n \in Node : Local(n) \in Everybody /\ Id(Local(n)) = n
      /\ \A p \in Everybody : Id(p) \in Node /\ p = Local(Id(p))
  <2>1. Everybody \subseteq Peer
    BY DEF Everybody, Local, Peer, PeerKind
  <2>2. QED
    BY <2>1, RelayRing DEF Everybody
<1>3. In \in SUBSET Everybody /\ In # {} /\ In # Everybody
  <2>1. In \subseteq Everybody
    BY <1>2
  <2>2. In # {}
    OBVIOUS
  <2>3. PICK n \in Node : n \notin L
    OBVIOUS
  <2>4. Local(n) \in Everybody /\ Local(n) \notin In
    BY <1>2, <2>3
  <2>5. QED
    BY <2>1, <2>2, <2>4
<1>4. ASSUME NEW p \in In
      PROVE  Successor(i, Everybody, p) \in In
  <2>1. Id(p) \in L /\ p = Local(Id(p)) /\ \E q \in Node : q # Id(p)
    BY <1>2
  <2>2. Id(Successor(i, Everybody, p)) \in L
    BY <2>1, RelayRing
  <2>3. Successor(i, Everybody, p) \in Everybody
    BY <1>2, <1>3, NeighbourInRing
  <2>4. QED
    BY <1>2, <2>2, <2>3
<1> HIDE DEF In
<1>5. QED
  BY <1>2, <1>3, <1>4, ClosedIsWhole

\* When everything has been read, what is in one log is in all of them, and each
\* predecessor has been heard of (README.md: each node can check whether its
\* predecessors did their job).
THEOREM QuietIsCleared == Spec => []PredecessorsCleared
<1>1. HInv /\ CountInv => PredecessorsCleared
  <2> SUFFICES ASSUME HInv, CountInv, Quiet, NEW n \in Node, NEW m \in Range(logs[n])
               PROVE  {p \in Node : control[n][StampOf(m)][p] > 0} = Preds[n]
    BY DEF PredecessorsCleared
  <2> DEFINE L == {x \in Node : m \in Range(logs[x])}
  <2>1. StampOf(m) \in Stamp
    <3>1. m \in DataMessage
      BY DEF HInv, TypeInv, Range
    <3>2. QED
      BY <3>1 DEF DataMessage, StampOf, Stamp
  <2>2. \A x, y \in Node : link[x][y] = <<>> /\ Range(link[x][y]) = {}
    BY DEF Quiet, Range
  <2>3. \A x \in L : Succs[x] \subseteq L
    BY <2>2, RelayRing DEF HInv, PassedOn
  <2>4. L = Node
    BY <2>3, RingReachesAll
  <2>5. \A p \in Node : HasSent(p, StampOf(m))
    BY <2>4 DEF HasSent
  <2>6. \A p \in Node : control[n][StampOf(m)][p] > 0 <=> n \in Succs[p]
    <3> SUFFICES ASSUME NEW p \in Node
                 PROVE  control[n][StampOf(m)][p] > 0 <=> n \in Succs[p]
      OBVIOUS
    <3>1. Copies(link[p][n], StampOf(m)) = 0
      BY <2>2, CopiesOfSeq DEF HInv, TypeInv
    <3>2. control[n][StampOf(m)][p] \in Nat
      BY <2>1 DEF CountInv
    <3>3. control[n][StampOf(m)][p] + Copies(link[p][n], StampOf(m)) > 0
             <=> n \in Succs[p] /\ HasSent(p, StampOf(m))
      BY <2>1 DEF CountInv, Accounted
    <3>4. QED
      BY <2>5, <3>1, <3>2, <3>3
  <2>7. QED
    BY <2>6, RelayRing
<1>2. Spec => [](HInv /\ CountInv)
  BY HInvInit, HInvStep, CountInvInit, CountInvStep, PTL DEF Spec
<1>3. QED
  BY <1>1, <1>2, PTL
=============================================================================
