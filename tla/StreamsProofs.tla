---------------------------- MODULE StreamsProofs ----------------------------
(***************************************************************************)
(* Proofs about Streams, for any streams, accounts, posters, bounds and    *)
(* channel capacity: types, and that each client gets the messages of a    *)
(* poster in order and once.                                               *)
(***************************************************************************)
EXTENDS Streams, FiniteSetTheorems, TLAPS

\* a may be delivered before b.
Before(a, b) == a.from = b.from /\ a # Empty => a.n < b.n

\* A message somebody has posted.
Posted(m) == m.from \in Posters /\ 1 <= m.n /\ m.n <= posted[m.from]

\* Messages in the channel, in the writer's hand and at the client were posted;
\* only the last two may be the empty one.
AllPosted ==
    \A s \in StreamIds :
        /\ \A i \in DOMAIN msgCh[s] : Posted(msgCh[s][i])
        /\ msg[s] = Empty \/ Posted(msg[s])
        /\ \A i \in DOMAIN out[s] : out[s][i] = Empty \/ Posted(out[s][i])

\* The channel, the writer's hand and the client's messages are in order, one
\* after the other. After a ping the hand is empty.
PipeInOrder ==
    \A s \in StreamIds :
        /\ \A i, j \in DOMAIN msgCh[s] : i < j => Before(msgCh[s][i], msgCh[s][j])
        /\ \A i \in DOMAIN out[s], j \in DOMAIN msgCh[s] : Before(out[s][i], msgCh[s][j])
        /\ writer[s] = "ping" => msg[s] = Empty
        /\ writer[s] = "write" =>
             /\ \A i \in DOMAIN out[s] : Before(out[s][i], msg[s])
             /\ \A j \in DOMAIN msgCh[s] : Before(msg[s], msgCh[s][j])

\* The message a poster has yet to send to a stream is newer than all it sent there.
Newer(p, m) == m.from = p => m.n < posted[p]
Owes(p, s) ==
    /\ 0 < posted[p]
    /\ \A i \in DOMAIN msgCh[s] : Newer(p, msgCh[s][i])
    /\ Newer(p, msg[s])
    /\ \A i \in DOMAIN out[s] : Newer(p, out[s][i])
SendsNewer == \A p \in Posters : \A k \in DOMAIN todo[p] : Owes(p, todo[p][k])

\* No stream is sent a message twice.
SendsDistinct == \A p \in Posters : \A k, l \in DOMAIN todo[p] : todo[p][k] = todo[p][l] => k = l

\* The inductive invariant.
StreamsInv == TypeOK /\ AllPosted /\ PipeInOrder /\ SendsNewer /\ SendsDistinct /\ InOrder

-----------------------------------------------------------------------------
(***************************************************************************)
(* Sequences                                                               *)
(***************************************************************************)
\* The indices of a sequence.
LEMMA SeqFacts ==
    ASSUME NEW S, NEW q \in Seq(S)
    PROVE  /\ Len(q) \in Nat /\ DOMAIN q = 1..Len(q)
           /\ \A i \in DOMAIN q : q[i] \in S
    OBVIOUS

\* A sequence with one more element at its end.
LEMMA AppendFacts ==
    ASSUME NEW S, NEW q \in Seq(S), NEW e \in S
    PROVE  /\ Append(q, e) \in Seq(S) /\ Len(Append(q, e)) = Len(q) + 1
           /\ \A i \in DOMAIN Append(q, e) :
                 \/ i \in DOMAIN q /\ Append(q, e)[i] = q[i] /\ i < Len(q) + 1
                 \/ i = Len(q) + 1 /\ Append(q, e)[i] = e
    OBVIOUS

\* A sequence without its first element.
LEMMA TailFacts ==
    ASSUME NEW S, NEW q \in Seq(S), q # <<>>
    PROVE  /\ Head(q) \in S /\ Head(q) = q[1] /\ 1 \in DOMAIN q
           /\ Tail(q) \in Seq(S) /\ Len(Tail(q)) = Len(q) - 1 /\ 0 < Len(q)
           /\ \A i \in DOMAIN Tail(q) :
                 i \in Nat /\ 1 < i + 1 /\ i + 1 \in DOMAIN q /\ Tail(q)[i] = q[i + 1]
    OBVIOUS

\* An order of a finite set of streams lists streams, each once.
LEMMA OrderFacts ==
    ASSUME NEW T \in SUBSET StreamIds, NEW q \in SetToSeqs(T)
    PROVE  /\ q \in Seq(StreamIds)
           /\ \A k, l \in DOMAIN q : q[k] = q[l] => k = l
    <1>1. IsFiniteSet(T)
        BY StreamsAssumption, FS_Subset
    <1>2. Cardinality(T) \in Nat
        BY <1>1, FS_CardinalityType
    <1>3. q \in [1..Cardinality(T) -> T] /\ \A k, l \in 1..Cardinality(T) : k # l => q[k] # q[l]
        BY DEF SetToSeqs
    <1>4. q \in [1..Cardinality(T) -> StreamIds]
        BY <1>3
    <1>5. q \in Seq(StreamIds)
        BY <1>2, <1>4
    <1>6. QED  BY <1>3, <1>5

\* No poster is "none", so a posted message is not the empty one.
LEMMA EmptyFacts ==
    /\ Empty \in Message
    /\ \A p \in Posters : Newer(p, Empty)
    /\ \A m : Posted(m) => m # Empty
    /\ \A m : Before(Empty, m)
    /\ \A m : m = Empty \/ Posted(m) => Before(m, Empty)
    BY StreamsAssumption DEF Empty, Message, Newer, Posted, Before
-----------------------------------------------------------------------------
(***************************************************************************)
(* Steps                                                                   *)
(***************************************************************************)
\* Steps that move no message: they change only what the types speak of.
Quiet == UNCHANGED <<msgCh, posted, todo, msg, out>>

\* Such a step keeps the order, unless it brings the writer to a ping or a write.
LEMMA QuietStep ==
    ASSUME StreamsInv, TypeOK', Quiet,
           \A s \in StreamIds : writer'[s] \in {"ping", "write"} => writer'[s] = writer[s]
    PROVE  StreamsInv'
    <1> USE DEF Quiet
    <1>1. AllPosted'
        BY DEF StreamsInv, AllPosted, Posted
    <1>2. PipeInOrder'
        BY DEF StreamsInv, PipeInOrder
    <1>3. SendsNewer'
        BY DEF StreamsInv, SendsNewer, Owes, Newer
    <1>4. SendsDistinct' /\ InOrder'
        BY DEF StreamsInv, SendsDistinct, InOrder
    <1>5. QED  BY <1>1, <1>2, <1>3, <1>4 DEF StreamsInv

\* Opening, upgrading, reading, closing.
LEMMA SocketStep ==
    ASSUME StreamsInv, NEW s \in StreamIds, Begin(s) \/ Disconnect(s) \/ Hang(s)
    PROVE  StreamsInv'
    <1> USE DEF stream, poster, socket
    <1>1. CASE Upgrade(s)
        <2>1. TypeOK'  BY <1>1 DEF StreamsInv, TypeOK, Upgrade
        <2>2. QED  BY <1>1, <2>1, QuietStep DEF StreamsInv, TypeOK, Upgrade, Quiet
    <1>2. CASE UpgradeFails(s)
        <2>1. TypeOK'  BY <1>2 DEF StreamsInv, TypeOK, UpgradeFails
        <2>2. QED  BY <1>2, <2>1, QuietStep DEF UpgradeFails, Quiet
    <1>3. CASE Disconnect(s)
        <2>1. TypeOK'  BY <1>3 DEF StreamsInv, TypeOK, Disconnect
        <2>2. QED  BY <1>3, <2>1, QuietStep DEF Disconnect, Quiet
    <1>4. CASE ReadEnds(s)
        <2>1. TypeOK'  BY <1>4 DEF StreamsInv, TypeOK, ReadEnds
        <2>2. QED  BY <1>4, <2>1, QuietStep DEF ReadEnds, Quiet
    <1>5. CASE CloseDone(s)
        <2>1. TypeOK'  BY <1>5 DEF StreamsInv, TypeOK, CloseDone
        <2>2. QED  BY <1>5, <2>1, QuietStep DEF CloseDone, Quiet
    <1>6. CASE CloseHook(s)
        <2>1. TypeOK'  BY <1>6 DEF StreamsInv, TypeOK, CloseHook
        <2>2. QED  BY <1>6, <2>1, QuietStep DEF CloseHook, Quiet
    <1>7. CASE CloseConn(s)
        <2>1. TypeOK'  BY <1>7 DEF StreamsInv, TypeOK, CloseConn
        <2>2. QED  BY <1>7, <2>1, QuietStep DEF CloseConn, Quiet
    <1>8. QED  BY <1>1, <1>2, <1>3, <1>4, <1>5, <1>6, <1>7 DEF Begin, Hang

\* A stream is opened, or its client subscribes.
LEMMA TypesStep ==
    ASSUME StreamsInv, NEW s \in StreamIds, NEW t \in Types, Open(s, t) \/ Subscribe(s, t)
    PROVE  StreamsInv'
    <1> USE DEF stream, poster, socket
    <1>1. CASE Open(s, t)
        <2>1. TypeOK'  BY <1>1 DEF StreamsInv, TypeOK, Open
        <2>2. QED  BY <1>1, <2>1, QuietStep DEF Open, Quiet
    <1>2. CASE Subscribe(s, t)
        <2>1. PICK T \in SUBSET Types : types' = [types EXCEPT ![s] = T]
            <3>1. types[s] \cup {t} \in SUBSET Types /\ types[s] \ {t} \in SUBSET Types
                BY DEF StreamsInv, TypeOK
            <3>2. QED  BY <1>2, <3>1 DEF Subscribe
        <2>2. TypeOK'  BY <1>2, <2>1 DEF StreamsInv, TypeOK, Subscribe
        <2>3. QED  BY <1>2, <2>2, QuietStep DEF Subscribe, Quiet
    <1>3. QED  BY <1>1, <1>2

\* The poster's context is cancelled.
LEMMA QuitStep == ASSUME StreamsInv, NEW p \in Posters, Quit(p)  PROVE StreamsInv'
    <1> USE DEF stream, socket
    <1>1. TypeOK'  BY DEF StreamsInv, TypeOK, Quit
    <1>2. QED  BY <1>1, QuietStep DEF Quit, Quiet

\* Post: the new message is newer than all of this poster's.
LEMMA PostStep ==
    ASSUME StreamsInv, NEW p \in Posters, NEW as, NEW ts, Post(p, as, ts)
    PROVE  StreamsInv'
    <1> USE DEF stream, socket
    <1>1. PICK q \in SetToSeqs(Targets(as, ts)) : todo' = [todo EXCEPT ![p] = q]
        BY DEF Post
    <1>2. Targets(as, ts) \in SUBSET StreamIds
        BY DEF Targets, StreamsInv, TypeOK
    <1>3. /\ q \in Seq(StreamIds)
          /\ \A k, l \in DOMAIN q : q[k] = q[l] => k = l
        BY <1>2, OrderFacts
    <1>4. /\ todo' \in [Posters -> Seq(StreamIds)]
          /\ posted' \in [Posters -> 0..MaxPosts]
          /\ \A r \in Posters : posted[r] \in Nat /\ posted[r] <= posted'[r]
          /\ posted[p] < posted'[p]
        <2>1. todo' \in [Posters -> Seq(StreamIds)]
            BY <1>1, <1>3 DEF StreamsInv, TypeOK
        <2>2. posted' = [posted EXCEPT ![p] = posted[p] + 1] /\ posted[p] < MaxPosts
            BY DEF Post
        <2>3. \A r \in Posters : posted[r] \in 0..MaxPosts
            BY DEF StreamsInv, TypeOK
        <2>4. posted[p] + 1 \in 0..MaxPosts /\ posted[p] < posted[p] + 1
            BY <2>2, <2>3, StreamsAssumption
        <2>5. posted' \in [Posters -> 0..MaxPosts]
            BY <2>2, <2>4 DEF StreamsInv, TypeOK
        <2>6. \A r \in Posters : posted'[r] = IF r = p THEN posted[p] + 1 ELSE posted[r]
            BY <2>2 DEF StreamsInv, TypeOK
        <2>7. QED  BY <2>1, <2>3, <2>4, <2>5, <2>6, StreamsAssumption
    <1>5. TypeOK'
        BY <1>4 DEF Post, StreamsInv, TypeOK
    <1>6. \A m \in Message : Posted(m) => Posted(m)' /\ (m.from = p => m.n < posted'[p])
        BY <1>4, StreamsAssumption DEF Posted, Message
    <1>7. AllPosted'
        <2>1. \A s \in StreamIds :
                /\ \A i \in DOMAIN msgCh[s] : msgCh[s][i] \in Message
                /\ msg[s] \in Message
                /\ \A i \in DOMAIN out[s] : out[s][i] \in Message
            BY SeqFacts DEF StreamsInv, TypeOK
        <2>2. QED  BY <1>6, <2>1 DEF Post, StreamsInv, AllPosted
    <1>8. PipeInOrder' /\ InOrder'
        BY DEF Post, StreamsInv, PipeInOrder, InOrder
    <1>9. SendsDistinct'
        BY <1>1, <1>3 DEF StreamsInv, TypeOK, SendsDistinct
    <1>10. SendsNewer'
        <2> SUFFICES ASSUME NEW r \in Posters, NEW k \in DOMAIN todo'[r], NEW s, s = todo'[r][k]
                     PROVE  Owes(r, s)'
            BY DEF SendsNewer
        <2>1. CASE r = p
            <3>1. s \in StreamIds
                BY <1>1, <1>3, <2>1, SeqFacts DEF StreamsInv, TypeOK
            <3>2. /\ \A i \in DOMAIN msgCh[s] : msgCh[s][i] \in Message
                  /\ msg[s] \in Message
                  /\ \A i \in DOMAIN out[s] : out[s][i] \in Message
                BY <3>1, SeqFacts DEF StreamsInv, TypeOK
            <3>3. \A m \in Message : m = Empty \/ Posted(m) => Newer(p, m)'
                BY <1>6, StreamsAssumption DEF Newer, Empty
            <3>4. 0 < posted'[p]
                BY <1>4
            <3>5. /\ \A i \in DOMAIN msgCh[s] : msgCh[s][i] = Empty \/ Posted(msgCh[s][i])
                  /\ msg[s] = Empty \/ Posted(msg[s])
                  /\ \A i \in DOMAIN out[s] : out[s][i] = Empty \/ Posted(out[s][i])
                BY <3>1 DEF StreamsInv, AllPosted
            <3>6. msgCh' = msgCh /\ msg' = msg /\ out' = out
                BY DEF Post
            <3>7. QED  BY <2>1, <3>2, <3>3, <3>4, <3>5, <3>6 DEF Owes, Newer
        <2>2. CASE r # p
            <3>1. todo'[r] = todo[r] /\ posted'[r] = posted[r]
                BY <1>1, <2>2 DEF Post, StreamsInv, TypeOK
            <3>2. Owes(r, s)
                BY <3>1 DEF StreamsInv, SendsNewer
            <3>3. QED  BY <3>1, <3>2 DEF Owes, Newer, Post
        <2>3. QED  BY <2>1, <2>2
    <1>11. QED  BY <1>5, <1>7, <1>8, <1>9, <1>10 DEF StreamsInv
\* A send that returns without sending leaves fewer to send.
LEMMA SentKeeps ==
    ASSUME StreamsInv, NEW p \in Posters, todo[p] # <<>>, Sent(p)
    PROVE  /\ todo' \in [Posters -> Seq(StreamIds)]
           /\ SendsDistinct'
           /\ Head(todo[p]) \in StreamIds /\ Owes(p, Head(todo[p]))
           /\ \A r \in Posters : \A k \in DOMAIN todo'[r] :
                 /\ todo'[r][k] \in StreamIds /\ Owes(r, todo'[r][k])
                 /\ r = p => todo'[r][k] # Head(todo[p])
    <1> USE DEF StreamsInv, TypeOK
    <1>1. todo[p] \in Seq(StreamIds)
        OBVIOUS
    <1>2. todo' = [todo EXCEPT ![p] = Tail(todo[p])]
        BY DEF Sent
    <1>3. /\ Head(todo[p]) \in StreamIds /\ Head(todo[p]) = todo[p][1] /\ 1 \in DOMAIN todo[p]
          /\ Tail(todo[p]) \in Seq(StreamIds)
          /\ \A i \in DOMAIN Tail(todo[p]) :
                i \in Nat /\ i + 1 # 1 /\ i + 1 \in DOMAIN todo[p] /\ Tail(todo[p])[i] = todo[p][i + 1]
        BY <1>1, TailFacts
    <1>4. todo' \in [Posters -> Seq(StreamIds)]
        BY <1>2, <1>3
    <1>5. \A r \in Posters : todo'[r] = IF r = p THEN Tail(todo[p]) ELSE todo[r]
        BY <1>2
    <1>6. SendsDistinct'
        <2> SUFFICES ASSUME NEW r \in Posters, NEW k \in DOMAIN todo'[r], NEW l \in DOMAIN todo'[r],
                            todo'[r][k] = todo'[r][l]
                     PROVE  k = l
            BY DEF SendsDistinct
        <2>1. CASE r = p
            <3>1. /\ k \in Nat /\ k + 1 \in DOMAIN todo[p] /\ todo'[r][k] = todo[p][k + 1]
                  /\ l \in Nat /\ l + 1 \in DOMAIN todo[p] /\ todo'[r][l] = todo[p][l + 1]
                BY ONLY <1>3, <1>5, <2>1, r \in Posters, k \in DOMAIN todo'[r], l \in DOMAIN todo'[r]
            <3>2. k + 1 = l + 1
                BY <3>1 DEF SendsDistinct
            <3>3. QED  BY ONLY <3>1, <3>2
        <2>2. CASE r # p
            BY <1>5, <2>2 DEF SendsDistinct
        <2>3. QED  BY <2>1, <2>2
    <1>7. Owes(p, Head(todo[p]))
        BY <1>3 DEF SendsNewer
    <1>8. ASSUME NEW r \in Posters, NEW k \in DOMAIN todo'[r]
          PROVE  /\ todo'[r][k] \in StreamIds /\ Owes(r, todo'[r][k])
                 /\ r = p => todo'[r][k] # Head(todo[p])
        <2>1. todo'[r][k] \in StreamIds
            BY <1>4, SeqFacts
        <2>2. CASE r = p
            <3>1. /\ k \in Nat /\ k + 1 \in DOMAIN todo[p] /\ todo'[r][k] = todo[p][k + 1] /\ k + 1 # 1
                BY ONLY <1>3, <1>5, <2>2, r \in Posters, k \in DOMAIN todo'[r]
            <3>2. Owes(r, todo'[r][k])
                BY <2>2, <3>1 DEF SendsNewer
            <3>3. todo'[r][k] # Head(todo[p])
                BY <1>3, <3>1 DEF SendsDistinct
            <3>4. QED  BY <2>1, <3>2, <3>3
        <2>3. CASE r # p
            BY <1>5, <2>1, <2>3 DEF SendsNewer
        <2>4. QED  BY <2>2, <2>3
    <1>9. QED  BY <1>3, <1>4, <1>6, <1>7, <1>8

\* The stream is closed or the context cancelled.
LEMMA SendReturnsStep == ASSUME StreamsInv, NEW p \in Posters, SendReturns(p)  PROVE StreamsInv'
    <1> USE DEF stream, socket
    <1>1. /\ todo' \in [Posters -> Seq(StreamIds)] /\ SendsDistinct'
          /\ \A r \in Posters : \A k \in DOMAIN todo'[r] : Owes(r, todo'[r][k])
        BY SentKeeps DEF SendReturns
    <1>2. TypeOK'
        BY <1>1 DEF SendReturns, StreamsInv, TypeOK
    <1>3. AllPosted' /\ PipeInOrder' /\ InOrder'
        BY DEF SendReturns, StreamsInv, AllPosted, Posted, PipeInOrder, InOrder
    <1>4. SendsNewer'
        BY <1>1 DEF SendReturns, SendsNewer, Owes, Newer
    <1>5. QED  BY <1>1, <1>2, <1>3, <1>4 DEF StreamsInv

\* The message goes to the end of the channel, behind all this poster sent before.
LEMMA SendStep == ASSUME StreamsInv, NEW p \in Posters, Send(p)  PROVE StreamsInv'
    <1> DEFINE s == Head(todo[p])
               m == [from |-> p, n |-> posted[p]]
    <1> USE DEF socket
    <1>1. /\ todo' \in [Posters -> Seq(StreamIds)] /\ SendsDistinct'
          /\ s \in StreamIds /\ Owes(p, s)
          /\ \A r \in Posters : \A k \in DOMAIN todo'[r] :
                /\ todo'[r][k] \in StreamIds /\ Owes(r, todo'[r][k])
                /\ r = p => todo'[r][k] # s
        BY SentKeeps DEF Send
    <1>2. m \in Message /\ Posted(m) /\ m # Empty
        <2>1. posted[p] \in 0..MaxPosts /\ 0 < posted[p]
            BY <1>1 DEF Owes, StreamsInv, TypeOK
        <2>2. m \in Message /\ Posted(m)
            BY <2>1, StreamsAssumption DEF Message, Posted
        <2>3. QED  BY <2>2, EmptyFacts
    <1>3. msgCh[s] \in Seq(Message) /\ Len(msgCh[s]) < Cap /\ Len(msgCh[s]) \in Nat
        BY <1>1 DEF Send, StreamsInv, TypeOK
    <1>4. msgCh' = [msgCh EXCEPT ![s] = Append(msgCh[s], m)]
        BY DEF Send
    <1> HIDE DEF s, m
    <1>5. /\ Append(msgCh[s], m) \in Seq(Message) /\ Len(Append(msgCh[s], m)) = Len(msgCh[s]) + 1
          /\ \A i \in DOMAIN Append(msgCh[s], m) :
                \/ i \in DOMAIN msgCh[s] /\ Append(msgCh[s], m)[i] = msgCh[s][i] /\ i < Len(msgCh[s]) + 1
                \/ i = Len(msgCh[s]) + 1 /\ Append(msgCh[s], m)[i] = m
        BY <1>2, <1>3, AppendFacts
    <1>6. /\ msgCh' \in [StreamIds -> Seq(Message)] /\ msgCh'[s] = Append(msgCh[s], m)
          /\ \A t \in StreamIds : t # s => msgCh'[t] = msgCh[t]
        BY <1>1, <1>4, <1>5 DEF StreamsInv, TypeOK
    <1>7. TypeOK'
        <2>1. \A t \in StreamIds : Len(msgCh'[t]) <= Cap
            <3>1. Len(msgCh'[s]) <= Cap
                BY <1>3, <1>5, <1>6, StreamsAssumption
            <3>2. \A t \in StreamIds : Len(msgCh[t]) <= Cap
                BY DEF StreamsInv, TypeOK
            <3>3. QED  BY <1>6, <3>1, <3>2
        <2>2. QED  BY <1>1, <1>6, <2>1 DEF Send, StreamsInv, TypeOK
    <1>8. \A x : Newer(p, x) => Before(x, m)
        BY DEF Newer, Before, m
    <1>9. AllPosted'
        <2> SUFFICES ASSUME NEW t \in StreamIds
                     PROVE  /\ \A i \in DOMAIN msgCh'[t] : Posted(msgCh'[t][i])
                            /\ msg[t] = Empty \/ Posted(msg[t])
                            /\ \A i \in DOMAIN out[t] : out[t][i] = Empty \/ Posted(out[t][i])
            BY DEF AllPosted, Posted, Send
        <2>1. \A i \in DOMAIN msgCh'[t] : Posted(msgCh'[t][i])
            BY <1>2, <1>5, <1>6 DEF StreamsInv, AllPosted
        <2>2. QED  BY <2>1 DEF StreamsInv, AllPosted
    <1>10. PipeInOrder'
        <2> SUFFICES ASSUME NEW t \in StreamIds
                     PROVE  /\ \A i, j \in DOMAIN msgCh'[t] : i < j => Before(msgCh'[t][i], msgCh'[t][j])
                            /\ \A i \in DOMAIN out[t], j \in DOMAIN msgCh'[t] : Before(out[t][i], msgCh'[t][j])
                            /\ writer[t] = "ping" => msg[t] = Empty
                            /\ writer[t] = "write" =>
                                 /\ \A i \in DOMAIN out[t] : Before(out[t][i], msg[t])
                                 /\ \A j \in DOMAIN msgCh'[t] : Before(msg[t], msgCh'[t][j])
            BY DEF PipeInOrder, Send
        <2>1. CASE t # s
            BY <1>6, <2>1 DEF StreamsInv, PipeInOrder
        <2>2. CASE t = s
            <3>1. /\ \A i \in DOMAIN msgCh[s] : Before(msgCh[s][i], m)
                  /\ Before(msg[s], m)
                  /\ \A i \in DOMAIN out[s] : Before(out[s][i], m)
                BY <1>1, <1>8 DEF Owes
            <3>2. \A i, j \in DOMAIN msgCh[s] : i < j => Before(msgCh[s][i], msgCh[s][j])
                BY <1>1 DEF StreamsInv, PipeInOrder
            <3>3. DOMAIN msgCh[s] = 1..Len(msgCh[s])
                BY <1>3
            <3>4. \A i, j \in DOMAIN msgCh'[s] : i < j => Before(msgCh'[s][i], msgCh'[s][j])
                BY <1>3, <1>5, <1>6, <3>1, <3>2, <3>3
            <3>5. \A i \in DOMAIN out[s], j \in DOMAIN msgCh'[s] : Before(out[s][i], msgCh'[s][j])
                BY <1>1, <1>5, <1>6, <3>1 DEF StreamsInv, PipeInOrder
            <3>6. writer[s] = "write" =>
                       /\ \A i \in DOMAIN out[s] : Before(out[s][i], msg[s])
                       /\ \A j \in DOMAIN msgCh'[s] : Before(msg[s], msgCh'[s][j])
                BY <1>1, <1>5, <1>6, <3>1 DEF StreamsInv, PipeInOrder
            <3>7. QED  BY <2>2, <3>4, <3>5, <3>6 DEF StreamsInv, PipeInOrder
        <2>3. QED  BY <2>1, <2>2
    <1>11. SendsNewer'
        <2> SUFFICES ASSUME NEW r \in Posters, NEW k \in DOMAIN todo'[r], NEW t, t = todo'[r][k]
                     PROVE  Owes(r, t)'
            BY DEF SendsNewer
        <2>1. t \in StreamIds /\ Owes(r, t) /\ (r = p => t # s)
            BY <1>1
        <2>2. \A i \in DOMAIN msgCh'[t] : Newer(r, msgCh'[t][i])
            <3>1. CASE t # s
                BY <1>6, <2>1, <3>1 DEF Owes
            <3>2. CASE t = s
                <4>1. Newer(r, m)
                    BY <2>1, <3>2 DEF Newer, m
                <4>2. QED  BY <1>5, <1>6, <2>1, <3>2, <4>1 DEF Owes
            <3>3. QED  BY <3>1, <3>2
        <2>3. QED  BY <2>1, <2>2 DEF Owes, Newer, Send
    <1>12. InOrder'
        BY DEF Send, StreamsInv, InOrder
    <1>13. QED  BY <1>1, <1>7, <1>9, <1>10, <1>11, <1>12 DEF StreamsInv
\* The oldest message of the channel is taken in hand.
LEMMA RecvStep == ASSUME StreamsInv, NEW s \in StreamIds, Recv(s)  PROVE StreamsInv'
    <1> DEFINE q == msgCh[s]
    <1> USE DEF poster
    <1>1. q \in Seq(Message) /\ q # <<>> /\ Len(q) <= Cap
        BY DEF Recv, StreamsInv, TypeOK
    <1>2. /\ msg' = [msg EXCEPT ![s] = Head(q)] /\ msgCh' = [msgCh EXCEPT ![s] = Tail(q)]
          /\ writer' = [writer EXCEPT ![s] = "write"]
        BY DEF Recv
    <1>3. /\ Head(q) \in Message /\ Head(q) = q[1] /\ 1 \in DOMAIN q
          /\ Tail(q) \in Seq(Message) /\ Len(Tail(q)) <= Cap
          /\ \A i \in DOMAIN Tail(q) :
                i \in Nat /\ 1 < i + 1 /\ i + 1 \in DOMAIN q /\ Tail(q)[i] = q[i + 1]
        <2> HIDE DEF q
        <2>1. Len(q) \in Nat
            BY <1>1
        <2>2. QED  BY <1>1, <2>1, TailFacts, StreamsAssumption
    <1>4. /\ msgCh' \in [StreamIds -> Seq(Message)] /\ msgCh'[s] = Tail(q)
          /\ msg' \in [StreamIds -> Message] /\ msg'[s] = Head(q)
          /\ \A t \in StreamIds : t # s => /\ msgCh'[t] = msgCh[t] /\ msg'[t] = msg[t]
                                          /\ writer'[t] = writer[t]
          /\ writer'[s] = "write"
        BY <1>2, <1>3 DEF StreamsInv, TypeOK
    <1>5. TypeOK'
        <2>1. \A t \in StreamIds : Len(msgCh'[t]) <= Cap
            BY <1>3, <1>4 DEF StreamsInv, TypeOK
        <2>2. QED  BY <1>2, <1>4, <2>1 DEF Recv, StreamsInv, TypeOK
    <1>6. /\ \A i, j \in DOMAIN q : i < j => Before(q[i], q[j])
          /\ \A i \in DOMAIN out[s], j \in DOMAIN q : Before(out[s][i], q[j])
          /\ \A j \in DOMAIN q : Posted(q[j])
        BY DEF StreamsInv, PipeInOrder, AllPosted
    <1>7. AllPosted'
        <2> SUFFICES ASSUME NEW t \in StreamIds
                     PROVE  /\ \A i \in DOMAIN msgCh'[t] : Posted(msgCh'[t][i])
                            /\ msg'[t] = Empty \/ Posted(msg'[t])
                            /\ \A i \in DOMAIN out[t] : out[t][i] = Empty \/ Posted(out[t][i])
            BY DEF AllPosted, Posted, Recv
        <2> HIDE DEF q
        <2>1. CASE t = s
            BY <1>3, <1>4, <1>6, <2>1 DEF StreamsInv, AllPosted
        <2>2. CASE t # s
            BY <1>4, <2>2 DEF StreamsInv, AllPosted
        <2>3. QED  BY <2>1, <2>2
    <1>8. PipeInOrder'
        <2> SUFFICES ASSUME NEW t \in StreamIds
                     PROVE  /\ \A i, j \in DOMAIN msgCh'[t] : i < j => Before(msgCh'[t][i], msgCh'[t][j])
                            /\ \A i \in DOMAIN out[t], j \in DOMAIN msgCh'[t] : Before(out[t][i], msgCh'[t][j])
                            /\ writer'[t] = "ping" => msg'[t] = Empty
                            /\ writer'[t] = "write" =>
                                 /\ \A i \in DOMAIN out[t] : Before(out[t][i], msg'[t])
                                 /\ \A j \in DOMAIN msgCh'[t] : Before(msg'[t], msgCh'[t][j])
            BY DEF PipeInOrder, Recv
        <2>1. CASE t # s
            BY <1>4, <2>1 DEF StreamsInv, PipeInOrder
        <2>2. CASE t = s
            <3> HIDE DEF q
            <3>1. \A i, j \in DOMAIN Tail(q) : i < j => Before(Tail(q)[i], Tail(q)[j])
                BY <1>3, <1>6
            <3>2. \A j \in DOMAIN Tail(q) : Before(Head(q), Tail(q)[j])
                BY <1>3, <1>6
            <3>3. \A i \in DOMAIN out[s] : Before(out[s][i], Head(q))
                BY <1>3, <1>6
            <3>4. \A i \in DOMAIN out[s], j \in DOMAIN Tail(q) : Before(out[s][i], Tail(q)[j])
                BY <1>3, <1>6
            <3>5. QED  BY <1>4, <2>2, <3>1, <3>2, <3>3, <3>4
        <2>3. QED  BY <2>1, <2>2
    <1>9. SendsNewer'
        <2> SUFFICES ASSUME NEW r \in Posters, NEW k \in DOMAIN todo[r], NEW t, t = todo[r][k]
                     PROVE  Owes(r, t)'
            BY DEF SendsNewer, Recv
        <2>1. t \in StreamIds /\ Owes(r, t)
            BY SeqFacts DEF StreamsInv, SendsNewer, TypeOK
        <2>2. (\A i \in DOMAIN msgCh'[t] : Newer(r, msgCh'[t][i])) /\ Newer(r, msg'[t])
            <3>1. CASE t = s
                <4>1. \A i \in DOMAIN q : Newer(r, q[i])
                    BY <2>1, <3>1 DEF Owes
                <4> HIDE DEF q
                <4>2. QED  BY <1>3, <1>4, <3>1, <4>1
            <3>2. CASE t # s
                BY <1>4, <2>1, <3>2 DEF Owes
            <3>3. QED  BY <3>1, <3>2
        <2>3. QED  BY <2>1, <2>2 DEF Owes, Newer, Recv
    <1>10. SendsDistinct' /\ InOrder'
        BY DEF Recv, StreamsInv, SendsDistinct, InOrder
    <1>11. QED  BY <1>5, <1>7, <1>8, <1>9, <1>10 DEF StreamsInv

\* Recv gives nothing, and the hand is empty.
LEMMA RecvPingsStep == ASSUME StreamsInv, NEW s \in StreamIds, RecvPings(s)  PROVE StreamsInv'
    <1> USE DEF stream, poster
    <1>1. pings' \in [StreamIds -> 0..MaxPings]
        <2>1. \A t \in StreamIds : pings[t] \in 0..MaxPings
            BY DEF StreamsInv, TypeOK
        <2>2. CASE UNCHANGED pings
            BY <2>2 DEF StreamsInv, TypeOK
        <2>3. CASE pings[s] < MaxPings /\ pings' = [pings EXCEPT ![s] = pings[s] + 1]
            <3>1. pings[s] + 1 \in 0..MaxPings
                BY <2>1, <2>3, StreamsAssumption
            <3>2. QED  BY <2>3, <3>1 DEF StreamsInv, TypeOK
        <2>4. QED  BY <2>2, <2>3 DEF RecvPings
    <1>2. /\ msg' \in [StreamIds -> Message] /\ msg'[s] = Empty /\ writer'[s] = "ping"
          /\ \A t \in StreamIds : t # s => msg'[t] = msg[t] /\ writer'[t] = writer[t]
        BY EmptyFacts DEF RecvPings, StreamsInv, TypeOK
    <1>3. TypeOK'
        BY <1>1, <1>2 DEF RecvPings, StreamsInv, TypeOK
    <1>4. AllPosted'
        BY <1>2 DEF RecvPings, StreamsInv, AllPosted, Posted
    <1>5. PipeInOrder'
        BY <1>2 DEF RecvPings, StreamsInv, PipeInOrder
    <1>6. SendsNewer'
        <2> SUFFICES ASSUME NEW r \in Posters, NEW k \in DOMAIN todo[r], NEW t, t = todo[r][k]
                     PROVE  Owes(r, t)'
            BY DEF SendsNewer, RecvPings
        <2>1. t \in StreamIds /\ Owes(r, t)
            BY SeqFacts DEF StreamsInv, SendsNewer, TypeOK
        <2>2. Newer(r, msg'[t])
            BY <1>2, <2>1, EmptyFacts DEF Owes
        <2>3. QED  BY <2>1, <2>2 DEF Owes, Newer, RecvPings
    <1>7. SendsDistinct' /\ InOrder'
        BY DEF RecvPings, StreamsInv, SendsDistinct, InOrder
    <1>8. QED  BY <1>3, <1>4, <1>5, <1>6, <1>7 DEF StreamsInv

\* After the ping the empty message is written, which is in order anywhere.
LEMMA WritePingStep == ASSUME StreamsInv, NEW s \in StreamIds, WritePing(s)  PROVE StreamsInv'
    <1> USE DEF stream, poster
    <1>1. writer'[s] = "write" /\ \A t \in StreamIds : t # s => writer'[t] = writer[t]
        BY DEF WritePing, StreamsInv, TypeOK
    <1>2. TypeOK'
        BY DEF WritePing, StreamsInv, TypeOK
    <1>3. AllPosted' /\ SendsNewer' /\ SendsDistinct' /\ InOrder'
        BY DEF WritePing, StreamsInv, AllPosted, Posted, SendsNewer, Owes, Newer, SendsDistinct, InOrder
    <1>4. PipeInOrder'
        <2>1. msg[s] = Empty /\ \A i \in DOMAIN out[s] : Before(out[s][i], Empty)
            BY EmptyFacts DEF WritePing, StreamsInv, PipeInOrder, AllPosted
        <2>2. QED  BY <1>1, <2>1, EmptyFacts DEF WritePing, StreamsInv, PipeInOrder
    <1>5. QED  BY <1>2, <1>3, <1>4 DEF StreamsInv

\* The message in hand is written behind what the client has.
LEMMA WriteJSONStep == ASSUME StreamsInv, NEW s \in StreamIds, WriteJSON(s)  PROVE StreamsInv'
    <1> USE DEF stream, poster
    <1>1. CASE conn[s] # "up"
        <2>1. TypeOK'  BY <1>1 DEF WriteJSON, StreamsInv, TypeOK
        <2>2. QED  BY <1>1, <2>1, QuietStep DEF WriteJSON, StreamsInv, TypeOK, Quiet
    <1>2. CASE conn[s] = "up"
        <2> DEFINE q == out[s]
        <2>1. /\ out' = [out EXCEPT ![s] = Append(q, msg[s])] /\ writer' = [writer EXCEPT ![s] = "recv"]
              /\ writer[s] = "write" /\ q \in Seq(Message) /\ msg[s] \in Message
            BY <1>2 DEF WriteJSON, StreamsInv, TypeOK
        <2>2. /\ Append(q, msg[s]) \in Seq(Message)
              /\ DOMAIN q = 1..Len(q) /\ Len(q) \in Nat
              /\ \A i \in DOMAIN Append(q, msg[s]) :
                    \/ i \in DOMAIN q /\ Append(q, msg[s])[i] = q[i] /\ i < Len(q) + 1
                    \/ i = Len(q) + 1 /\ Append(q, msg[s])[i] = msg[s]
            <3> HIDE DEF q
            <3>1. QED  BY <2>1, AppendFacts
        <2>3. /\ out' \in [StreamIds -> Seq(Message)] /\ out'[s] = Append(q, msg[s])
              /\ \A t \in StreamIds : t # s => out'[t] = out[t] /\ writer'[t] = writer[t]
              /\ writer'[s] = "recv"
            BY <2>1, <2>2 DEF StreamsInv, TypeOK
        <2>4. TypeOK'
            BY <2>1, <2>3 DEF WriteJSON, StreamsInv, TypeOK
        <2>5. /\ \A i \in DOMAIN q : Before(q[i], msg[s])
              /\ \A j \in DOMAIN msgCh[s] : Before(msg[s], msgCh[s][j])
              /\ \A i \in DOMAIN q, j \in DOMAIN msgCh[s] : Before(q[i], msgCh[s][j])
              /\ \A i, j \in DOMAIN q : i < j => Before(q[i], q[j])
            BY <2>1 DEF StreamsInv, PipeInOrder, InOrder, Before
        <2>6. AllPosted'
            <3> SUFFICES ASSUME NEW t \in StreamIds
                         PROVE  /\ \A i \in DOMAIN msgCh[t] : Posted(msgCh[t][i])
                                /\ msg[t] = Empty \/ Posted(msg[t])
                                /\ \A i \in DOMAIN out'[t] : out'[t][i] = Empty \/ Posted(out'[t][i])
                BY DEF AllPosted, Posted, WriteJSON
            <3>1. \A i \in DOMAIN out'[t] : out'[t][i] = Empty \/ Posted(out'[t][i])
                <4>1. CASE t = s
                    <5>1. \A i \in DOMAIN q : q[i] = Empty \/ Posted(q[i])
                        BY DEF StreamsInv, AllPosted
                    <5>2. msg[s] = Empty \/ Posted(msg[s])
                        BY DEF StreamsInv, AllPosted
                    <5> HIDE DEF q
                    <5>3. QED  BY <2>2, <2>3, <4>1, <5>1, <5>2
                <4>2. CASE t # s
                    BY <2>3, <4>2 DEF StreamsInv, AllPosted
                <4>3. QED  BY <4>1, <4>2
            <3>2. QED  BY <3>1 DEF StreamsInv, AllPosted
        <2>7. PipeInOrder'
            <3> SUFFICES ASSUME NEW t \in StreamIds
                         PROVE  /\ \A i, j \in DOMAIN msgCh[t] : i < j => Before(msgCh[t][i], msgCh[t][j])
                                /\ \A i \in DOMAIN out'[t], j \in DOMAIN msgCh[t] : Before(out'[t][i], msgCh[t][j])
                                /\ writer'[t] = "ping" => msg[t] = Empty
                                /\ writer'[t] = "write" =>
                                     /\ \A i \in DOMAIN out'[t] : Before(out'[t][i], msg[t])
                                     /\ \A j \in DOMAIN msgCh[t] : Before(msg[t], msgCh[t][j])
                BY DEF PipeInOrder, WriteJSON
            <3>1. CASE t = s
                <4>1. \A i, j \in DOMAIN msgCh[t] : i < j => Before(msgCh[t][i], msgCh[t][j])
                    BY DEF StreamsInv, PipeInOrder
                <4> HIDE DEF q
                <4>2. \A i \in DOMAIN out'[t], j \in DOMAIN msgCh[t] : Before(out'[t][i], msgCh[t][j])
                    BY <2>2, <2>3, <2>5, <3>1
                <4>3. QED  BY <2>3, <3>1, <4>1, <4>2
            <3>2. CASE t # s
                BY <2>3, <3>2 DEF StreamsInv, PipeInOrder
            <3>3. QED  BY <3>1, <3>2
        <2>8. SendsNewer'
            <3> SUFFICES ASSUME NEW r \in Posters, NEW k \in DOMAIN todo[r], NEW t, t = todo[r][k]
                         PROVE  Owes(r, t)'
                BY DEF SendsNewer, WriteJSON
            <3>1. t \in StreamIds /\ Owes(r, t)
                BY SeqFacts DEF StreamsInv, SendsNewer, TypeOK
            <3>2. \A i \in DOMAIN out'[t] : Newer(r, out'[t][i])
                <4>1. CASE t = s
                    <5>1. (\A i \in DOMAIN q : Newer(r, q[i])) /\ Newer(r, msg[s])
                        BY <3>1, <4>1 DEF Owes
                    <5> HIDE DEF q
                    <5>2. QED  BY <2>2, <2>3, <4>1, <5>1
                <4>2. CASE t # s
                    BY <2>3, <3>1, <4>2 DEF Owes
                <4>3. QED  BY <4>1, <4>2
            <3>3. QED  BY <3>1, <3>2 DEF Owes, Newer, WriteJSON
        <2>9. InOrder'
            <3> SUFFICES ASSUME NEW t \in StreamIds, NEW i \in DOMAIN out'[t], NEW j \in DOMAIN out'[t], i < j
                         PROVE  Before(out'[t][i], out'[t][j])
                BY DEF InOrder, Before
            <3>1. CASE t = s
                <4> HIDE DEF q
                <4>1. QED  BY <2>2, <2>3, <2>5, <3>1
            <3>2. CASE t # s
                BY <2>3, <3>2 DEF StreamsInv, InOrder, Before
            <3>3. QED  BY <3>1, <3>2
        <2>10. SendsDistinct'
            BY DEF WriteJSON, StreamsInv, SendsDistinct
        <2>11. QED  BY <2>4, <2>6, <2>7, <2>8, <2>9, <2>10 DEF StreamsInv
    <1>3. QED  BY <1>1, <1>2

-----------------------------------------------------------------------------
(***************************************************************************)
(* Theorems                                                                *)
(***************************************************************************)
\* It holds initially, ...
LEMMA StreamsInit == Init => StreamsInv
    <1> SUFFICES ASSUME Init  PROVE StreamsInv
        OBVIOUS
    <1>1. TypeOK
        BY EmptyFacts, StreamsAssumption DEF Init, TypeOK
    <1>2. AllPosted /\ PipeInOrder
        BY DEF Init, AllPosted, PipeInOrder
    <1>3. SendsNewer /\ SendsDistinct /\ InOrder
        BY DEF Init, SendsNewer, SendsDistinct, InOrder
    <1>4. QED  BY <1>1, <1>2, <1>3 DEF StreamsInv

\* ... and every step keeps it.
LEMMA StreamsNext == StreamsInv /\ [Next]_vars => StreamsInv'
    <1> SUFFICES ASSUME StreamsInv, [Next]_vars  PROVE StreamsInv'
        OBVIOUS
    <1>1. CASE \E s \in StreamIds, t \in Types : Open(s, t) \/ Subscribe(s, t)
        BY <1>1, TypesStep
    <1>2. CASE \E s \in StreamIds : Begin(s) \/ Disconnect(s) \/ Serve(s) \/ Hang(s)
        BY <1>2, SocketStep, RecvStep, RecvPingsStep, WritePingStep, WriteJSONStep DEF Serve
    <1>3. CASE \E p \in Posters : Deliver(p) \/ Quit(p) \/ DeleteStatus(p)
        BY <1>3, SendStep, SendReturnsStep, QuitStep, PostStep DEF Deliver, DeleteStatus
    <1>4. CASE \E p \in Posters, a \in Accounts :
                  Notify(p, a) \/ FiltersChanged(p, a) \/ \E t \in Types : Update(p, a, t)
        BY <1>4, PostStep DEF Notify, FiltersChanged, Update
    <1>5. CASE UNCHANGED vars
        <2> USE <1>5 DEF vars, stream, poster, socket
        <2>1. TypeOK'  BY DEF StreamsInv, TypeOK
        <2>2. QED  BY <2>1, QuietStep DEF Quiet
    <1>6. QED  BY <1>1, <1>2, <1>3, <1>4, <1>5 DEF Next

\* So it always holds.
LEMMA StreamsAlways == Spec => []StreamsInv
    BY StreamsInit, StreamsNext, PTL DEF Spec

\* Streams, channels and goroutines keep their types; no channel has more than
\* its capacity, because send waits for room.
THEOREM StreamTypes == Spec => []TypeOK
    <1>1. StreamsInv => TypeOK
        BY DEF StreamsInv
    <1>2. QED  BY <1>1, StreamsAlways, PTL

\* Whatever the number of workers, streams and messages: a client gets what one
\* worker posts in the order it was posted and once, though the sends of Post
\* happen after the mutex is released.
THEOREM MessagesInOrder == Spec => []InOrder
    <1>1. StreamsInv => InOrder
        BY DEF StreamsInv
    <1>2. QED  BY <1>1, StreamsAlways, PTL
==============================================================================
