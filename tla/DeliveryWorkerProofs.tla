------------------------ MODULE DeliveryWorkerProofs ------------------------
(***************************************************************************)
(* Proofs about DeliveryWorker, for any deliveries, any number of workers, *)
(* retries and faults: types, that a pending delivery is in one place,     *)
(* that attempts are bounded, and that none is made before its time; and   *)
(* about HttpClient, the other user of DoOnce and BackOff, for any number  *)
(* of concurrent calls of Do: a failing host is given up by all of them.   *)
(***************************************************************************)
EXTENDS DeliveryWorker, HttpClient, SequenceTheorems, FiniteSetTheorems, TLAPS

InHand == {"check", "sleeping", "attempt"}

\* A worker has one delivery while it looks at it, sleeps over it or attempts
\* it, and none otherwise; one that has ended has no backlog.
HandsMatch ==
    \A w \in Workers :
        /\ IF pc[w] \in InHand THEN \E d \in Deliveries : held[w] = {d} ELSE held[w] = {}
        /\ pc[w] = "exited" => backlog[w] = <<>>

\* How far Stop has come: all workers before one it has reached have ended.
StopPrefix ==
    /\ pool = "stopped" => \A w \in Workers : pc[w] = "exited"
    /\ pool = "stopping" =>
         \A w \in cancelled : \A v \in Workers : v < w => pc[v] = "exited"

Distinct(s) == \A i, j \in DOMAIN s : s[i] = s[j] => i = j

\* Nothing is twice in the queue or in a backlog.
AllDistinct == Distinct(queue) /\ \A w \in Workers : Distinct(backlog[w])

Mine(w) == Range(backlog[w]) \cup held[w]

\* The queue, the backlogs and the hands have no delivery in common.
PlacesApart ==
    \A w \in Workers :
        /\ Range(queue) \cap Mine(w) = {}
        /\ Range(backlog[w]) \cap held[w] = {}
        /\ \A v \in Workers : v # w => Mine(v) \cap Mine(w) = {}

\* The deliveries that are somewhere are those that are pending.
PendingPlaced ==
    \A d \in Deliveries :
        fate[d] = "pending" <=> d \in Range(queue) \/ \E w \in Workers : d \in Mine(w)

\* Request.attempts counts the attempts of a delivery that may still be
\* attempted, and leaves room for one more.
AttemptsCounted ==
    \A d \in Deliveries :
        /\ fate[d] \in {"new", "pending"} => tries[d] = attempts[d] /\ attempts[d] <= Retries
        /\ tries[d] <= Retries + 1

\* The inductive invariant.
DeliveryInv ==
    /\ TypeOK /\ HandsMatch /\ StopPrefix /\ AllDistinct /\ PlacesApart /\ PendingPlaced
    /\ AttemptsCounted /\ NeverEarly

-----------------------------------------------------------------------------
\* Appending something new.
LEMMA AppendFacts ==
    ASSUME NEW S, NEW s \in Seq(S), NEW e \in S
    PROVE  /\ Append(s, e) \in Seq(S)
           /\ Range(Append(s, e)) = Range(s) \cup {e}
           /\ Distinct(s) /\ e \notin Range(s) => Distinct(Append(s, e))
    <1> DEFINE t == Append(s, e)
    <1>1. /\ t \in Seq(S)
          /\ DOMAIN s = 1..Len(s) /\ Len(s) \in Nat
          /\ DOMAIN t = 1..(Len(s) + 1)
          /\ \A i \in 1..Len(s) : t[i] = s[i]
          /\ t[Len(s) + 1] = e
        OBVIOUS
    <1> HIDE DEF t
    <1>2. \A i \in DOMAIN t : i \in DOMAIN s \/ i = Len(s) + 1
        BY <1>1
    <1>3. DOMAIN s \subseteq DOMAIN t /\ Len(s) + 1 \in DOMAIN t
        BY <1>1
    <1>4. Range(t) = Range(s) \cup {e}
        BY <1>1, <1>2, <1>3 DEF Range
    <1>5. ASSUME Distinct(s), e \notin Range(s) PROVE Distinct(t)
        BY <1>1, <1>2, <1>3, <1>5 DEF Distinct, Range
    <1>6. QED  BY <1>1, <1>4, <1>5 DEF t

\* Taking the head.
LEMMA TailFacts ==
    ASSUME NEW S, NEW s \in Seq(S), s # <<>>, Distinct(s)
    PROVE  /\ Tail(s) \in Seq(S) /\ Head(s) \in Range(s)
           /\ Range(Tail(s)) = Range(s) \ {Head(s)}
           /\ Distinct(Tail(s))
    <1> DEFINE t == Tail(s)
    <1>1. /\ t \in Seq(S)
          /\ DOMAIN s = 1..Len(s) /\ Len(s) \in Nat \ {0}
          /\ DOMAIN t = 1..(Len(s) - 1)
          /\ \A i \in 1..(Len(s) - 1) : t[i] = s[i + 1]
          /\ Head(s) = s[1]
        OBVIOUS
    <1> HIDE DEF t
    <1>2. /\ \A i \in DOMAIN t : i + 1 \in DOMAIN s /\ i + 1 # 1 /\ i \in Int
          /\ 1 \in DOMAIN s
          /\ \A i \in DOMAIN s : i = 1 \/ (i - 1 \in DOMAIN t /\ (i - 1) + 1 = i)
        BY <1>1
    <1>3. Head(s) \in Range(s)
        BY <1>1, <1>2 DEF Range
    <1>4. \A i \in DOMAIN t : t[i] = s[i + 1] /\ t[i] # Head(s)
        BY <1>1, <1>2 DEF Distinct
    <1>5. \A i \in DOMAIN s : s[i] = Head(s) \/ \E j \in DOMAIN t : t[j] = s[i]
        BY <1>1, <1>2, <1>4
    <1>6. Range(t) = Range(s) \ {Head(s)}
        BY <1>2, <1>4, <1>5 DEF Range
    <1>7. Distinct(t)
        <2>1. \A i, j \in DOMAIN t : t[i] = t[j] => i + 1 = j + 1
            BY <1>2, <1>4 DEF Distinct
        <2>2. QED  BY <2>1, <1>2 DEF Distinct
    <1>8. QED  BY <1>1, <1>3, <1>6, <1>7 DEF t

\* Taking an element from the middle.
LEMMA RemoveFacts ==
    ASSUME NEW S, NEW s \in Seq(S), NEW k \in DOMAIN s, Distinct(s)
    PROVE  LET t == SubSeq(s, 1, k - 1) \o SubSeq(s, k + 1, Len(s))
           IN  t \in Seq(S) /\ Range(t) = Range(s) \ {s[k]} /\ Distinct(t)
    <1> DEFINE a == SubSeq(s, 1, k - 1)
               b == SubSeq(s, k + 1, Len(s))
               t == a \o b
               f == [i \in 1..(Len(s) - 1) |-> IF i < k THEN i ELSE i + 1]
    <1>1. DOMAIN s = 1..Len(s) /\ Len(s) \in Nat /\ k \in 1..Len(s)
        OBVIOUS
    <1>2. a \in Seq(S) /\ Len(a) = k - 1 /\ \A i \in 1..(k - 1) : a[i] = s[i]
        BY <1>1
    <1>3. b \in Seq(S) /\ Len(b) = Len(s) - k /\ \A i \in 1..(Len(s) - k) : b[i] = s[k + i]
        BY <1>1
    <1> HIDE DEF a, b
    <1>4. /\ t \in Seq(S) /\ Len(t) = Len(s) - 1 /\ DOMAIN t = 1..(Len(s) - 1)
          /\ \A i \in DOMAIN t : t[i] = IF i <= k - 1 THEN a[i] ELSE b[i - (k - 1)]
        <2>1. /\ t \in Seq(S) /\ Len(t) = Len(a) + Len(b)
              /\ \A i \in 1..(Len(a) + Len(b)) : t[i] = IF i <= Len(a) THEN a[i] ELSE b[i - Len(a)]
            BY <1>2, <1>3, ConcatProperties
        <2>2. Len(t) = Len(s) - 1 /\ DOMAIN t = 1..Len(t)
            BY <2>1, <1>1, <1>2, <1>3
        <2>3. QED  BY <2>1, <2>2, <1>1, <1>2, <1>3
    <1> HIDE DEF t
    <1>5. \A i \in DOMAIN t : f[i] \in DOMAIN s /\ f[i] # k /\ i \in Int
        BY <1>1, <1>4
    <1>6. \A i \in DOMAIN t : t[i] = s[f[i]]
        <2> SUFFICES ASSUME NEW i \in DOMAIN t PROVE t[i] = s[f[i]]
            OBVIOUS
        <2>1. CASE i < k
            BY <2>1, <1>1, <1>2, <1>4
        <2>2. CASE ~(i < k)
            <3>1. i - (k - 1) \in 1..(Len(s) - k) /\ k + (i - (k - 1)) = i + 1 /\ ~(i <= k - 1)
                BY <2>2, <1>1, <1>4
            <3>2. QED  BY <2>2, <3>1, <1>3, <1>4
        <2>3. QED  BY <2>1, <2>2
    <1>7. \A i \in DOMAIN s : i = k \/ \E j \in DOMAIN t : f[j] = i
        <2> SUFFICES ASSUME NEW i \in DOMAIN s, i # k PROVE \E j \in DOMAIN t : f[j] = i
            OBVIOUS
        <2>1. CASE i < k
            <3>1. i \in DOMAIN t /\ f[i] = i
                BY <2>1, <1>1, <1>4
            <3>2. QED  BY <3>1
        <2>2. CASE i > k
            <3>1. i - 1 \in DOMAIN t /\ f[i - 1] = i
                BY <2>2, <1>1, <1>4
            <3>2. QED  BY <3>1
        <2>3. QED  BY <2>1, <2>2, <1>1
    <1>8. \A i, j \in DOMAIN t : f[i] = f[j] => i = j
        BY <1>1, <1>4
    <1> HIDE DEF f
    <1>9. Range(t) = Range(s) \ {s[k]}
        BY <1>5, <1>6, <1>7 DEF Range, Distinct
    <1>10. Distinct(t)
        BY <1>5, <1>6, <1>8 DEF Distinct
    <1>11. QED  BY <1>4, <1>9, <1>10 DEF t, a, b

\* Queue.Delete takes the elements of S and nothing else.
LEMMA DeleteFacts ==
    ASSUME queue \in Seq(Deliveries), Distinct(queue), NEW S, Delete(S)
    PROVE  /\ queue' \in Seq(Deliveries)
           /\ Range(queue') = Range(queue) \ S
           /\ Distinct(queue')
    <1>1. DOMAIN queue = 1..Len(queue) /\ Len(queue) \in Nat
        OBVIOUS
    <1>2. PICK n \in 0..Len(queue) : \E f \in [1..n -> Kept(S)] :
            /\ \A i, j \in 1..n : i < j => f[i] < f[j]
            /\ \A k \in Kept(S) : \E i \in 1..n : f[i] = k
            /\ queue' = [i \in 1..n |-> queue[f[i]]]
        BY DEF Delete
    <1>3. PICK f \in [1..n -> Kept(S)] :
            /\ \A i, j \in 1..n : i < j => f[i] < f[j]
            /\ \A k \in Kept(S) : \E i \in 1..n : f[i] = k
            /\ queue' = [i \in 1..n |-> queue[f[i]]]
        BY <1>2
    <1>4. DOMAIN queue' = 1..n /\ \A i \in 1..n : f[i] \in DOMAIN queue /\ queue[f[i]] \notin S
        BY <1>3 DEF Kept
    <1>5. \A i \in 1..n : queue'[i] = queue[f[i]] /\ queue[f[i]] \in Deliveries
        BY <1>1, <1>3, <1>4
    <1>6. queue' \in Seq(Deliveries)
        <2>1. queue' \in [1..n -> Deliveries]
            BY <1>3, <1>4, <1>5
        <2>2. QED  BY <2>1, <1>2
    <1>7. \A i, j \in 1..n : f[i] = f[j] => i = j
        <2> SUFFICES ASSUME NEW i \in 1..n, NEW j \in 1..n, f[i] = f[j], i # j PROVE FALSE
            OBVIOUS
        <2>1. i \in Int /\ j \in Int /\ f[i] \in Int
            BY <1>1, <1>2, <1>4
        <2>2. i < j \/ j < i
            BY <2>1
        <2>3. f[i] < f[j] \/ f[j] < f[i]
            BY <2>2, <1>3
        <2>4. QED  BY <2>1, <2>3
    <1>8. \A k \in DOMAIN queue : queue[k] \in S \/ \E i \in 1..n : f[i] = k
        BY <1>3 DEF Kept
    <1>9. Range(queue') = Range(queue) \ S
        <2>1. \A i \in DOMAIN queue' : queue'[i] \in Range(queue) \ S
            BY <1>4, <1>5 DEF Range
        <2>2. \A k \in DOMAIN queue : queue[k] \in S \/ \E i \in DOMAIN queue' : queue'[i] = queue[k]
            <3> SUFFICES ASSUME NEW k \in DOMAIN queue, queue[k] \notin S
                         PROVE  \E i \in DOMAIN queue' : queue'[i] = queue[k]
                OBVIOUS
            <3>1. PICK i \in 1..n : f[i] = k
                BY <1>8
            <3>2. i \in DOMAIN queue' /\ queue'[i] = queue[f[i]]
                BY <1>4, <1>5
            <3>3. QED  BY <3>1, <3>2
        <2>3. QED  BY <2>1, <2>2, Zenon DEF Range
    <1>10. Distinct(queue')
        BY <1>4, <1>5, <1>7 DEF Distinct
    <1>11. QED  BY <1>6, <1>9, <1>10

-----------------------------------------------------------------------------
\* Initially nothing is anywhere.
LEMMA InitDelivery == Init => DeliveryInv
    <1> SUFFICES ASSUME Init PROVE DeliveryInv
        OBVIOUS
    <1> USE DEF Init
    <1>1. TypeOK
        BY DeliveryAssumption, RetryAssumption DEF TypeOK
    <1>2. DOMAIN queue = {} /\ \A w \in Workers : DOMAIN backlog[w] = {}
        OBVIOUS
    <1>3. Range(queue) = {} /\ \A w \in Workers : Mine(w) = {} /\ Range(backlog[w]) = {}
        BY <1>2 DEF Range, Mine
    <1>4. HandsMatch /\ StopPrefix /\ NeverEarly
        BY DEF HandsMatch, StopPrefix, NeverEarly, InHand
    <1>5. AllDistinct
        BY <1>2 DEF AllDistinct, Distinct
    <1>6. PlacesApart /\ PendingPlaced
        BY <1>3 DEF PlacesApart, PendingPlaced
    <1>7. AttemptsCounted
        BY RetryAssumption DEF AttemptsCounted
    <1>8. QED  BY <1>1, <1>4, <1>5, <1>6, <1>7 DEF DeliveryInv

\* A step that moves and attempts nothing.
LEMMA SamePlaces ==
    ASSUME DeliveryInv, UNCHANGED <<queue, held, backlog, fate, attempts, tries>>
    PROVE  AllDistinct' /\ PlacesApart' /\ PendingPlaced' /\ AttemptsCounted'
    BY DEF DeliveryInv, AllDistinct, Distinct, PlacesApart, PendingPlaced, AttemptsCounted, Mine, Range

\* A delivery is queued.
LEMMA EnqueueStep ==
    ASSUME DeliveryInv, NEW d \in Deliveries, Enqueue(d)  PROVE DeliveryInv'
    <1> USE DEF Enqueue, Push, local, Fated
    <1>1. /\ queue \in Seq(Deliveries) /\ queue' = Append(queue, d) /\ waiters' = {}
          /\ fate[d] = "new" /\ fate \in [Deliveries -> {"new", "pending", "delivered", "dropped", "deleted", "lost"}]
          /\ d \notin Range(queue) /\ \A w \in Workers : d \notin Mine(w)
        BY DEF DeliveryInv, TypeOK, PendingPlaced
    <1>2. /\ queue' \in Seq(Deliveries) /\ Range(queue') = Range(queue) \cup {d}
          /\ Distinct(queue) => Distinct(queue')
        BY <1>1, AppendFacts
    <1>3. /\ fate' = [e \in Deliveries |-> IF e = d THEN "pending" ELSE fate[e]]
          /\ \A w \in Workers : Mine(w)' = Mine(w)
        BY DEF Mine, Range
    <1>4. TypeOK'
        BY <1>1, <1>2, <1>3 DEF DeliveryInv, TypeOK
    <1>5. HandsMatch' /\ StopPrefix' /\ NeverEarly'
        BY DEF DeliveryInv, HandsMatch, StopPrefix, NeverEarly
    <1>6. AllDistinct'
        BY <1>2 DEF DeliveryInv, AllDistinct
    <1>7. PlacesApart'
        BY <1>1, <1>2, <1>3 DEF DeliveryInv, PlacesApart
    <1>8. PendingPlaced'
        BY <1>1, <1>2, <1>3 DEF DeliveryInv, PendingPlaced
    <1>9. AttemptsCounted'
        BY <1>1, <1>3 DEF DeliveryInv, AttemptsCounted
    <1>10. QED  BY <1>4, <1>5, <1>6, <1>7, <1>8, <1>9 DEF DeliveryInv

\* Queued deliveries are deleted.
LEMMA DeleteStep ==
    ASSUME DeliveryInv, NEW k \in Keys, DeleteKey(k)  PROVE DeliveryInv'
    <1> DEFINE S == {d \in Range(queue) : k \in KeysOf[d]}
    <1>1. /\ queue \in Seq(Deliveries) /\ Distinct(queue) /\ Delete(S) /\ Fated(S, "deleted")
          /\ UNCHANGED <<local, attempts, due, badHosts, cancelled, pool, tries, faults>>
        BY DEF DeliveryInv, TypeOK, AllDistinct, DeleteKey
    <1>2. S \subseteq Range(queue)
        OBVIOUS
    <1> HIDE DEF S
    <1>3. queue' \in Seq(Deliveries) /\ Range(queue') = Range(queue) \ S /\ Distinct(queue')
        BY <1>1, DeleteFacts
    <1>4. /\ fate' = [e \in Deliveries |-> IF e \in S THEN "deleted" ELSE fate[e]]
          /\ waiters' = waiters
        BY <1>1 DEF Delete, Fated
    <1>5. \A w \in Workers : Mine(w)' = Mine(w) /\ S \cap Mine(w) = {}
        BY <1>1, <1>2 DEF Mine, Range, local, DeliveryInv, PlacesApart
    <1> USE DEF local
    <1>6. TypeOK'
        BY <1>1, <1>3, <1>4 DEF DeliveryInv, TypeOK
    <1>7. HandsMatch' /\ StopPrefix' /\ NeverEarly'
        BY <1>1 DEF DeliveryInv, HandsMatch, StopPrefix, NeverEarly
    <1>8. AllDistinct'
        BY <1>1, <1>3 DEF DeliveryInv, AllDistinct
    <1>9. PlacesApart'
        BY <1>1, <1>3, <1>5 DEF DeliveryInv, PlacesApart
    <1>10. PendingPlaced'
        BY <1>1, <1>2, <1>3, <1>4, <1>5 DEF DeliveryInv, PendingPlaced
    <1>11. AttemptsCounted'
        BY <1>1, <1>4 DEF DeliveryInv, AttemptsCounted
    <1>12. QED  BY <1>6, <1>7, <1>8, <1>9, <1>10, <1>11 DEF DeliveryInv

\* Time passes, an entry of badHosts expires.
LEMMA ClockStep ==
    ASSUME DeliveryInv, Tick \/ \E h \in Hosts : Expire(h)  PROVE DeliveryInv'
    <1> USE DEF Tick, Expire, Fault, local, queueVars
    <1>1. AllDistinct' /\ PlacesApart' /\ PendingPlaced' /\ AttemptsCounted'
        BY SamePlaces
    <1>2. CASE Tick
        <2>1. TypeOK'
            BY <1>2 DEF DeliveryInv, TypeOK
        <2>2. HandsMatch' /\ StopPrefix'
            BY <1>2 DEF DeliveryInv, HandsMatch, StopPrefix
        <2>3. \A w \in Workers : held[w] \subseteq Deliveries
            BY DEF DeliveryInv, TypeOK
        <2>4. NeverEarly'
            BY <1>2, <2>3 DEF DeliveryInv, NeverEarly
        <2>5. QED  BY <1>1, <2>1, <2>2, <2>4 DEF DeliveryInv
    <1>3. CASE \E h \in Hosts : Expire(h)
        <2>1. TypeOK'
            BY <1>3, DeliveryAssumption DEF DeliveryInv, TypeOK
        <2>2. HandsMatch' /\ StopPrefix' /\ NeverEarly'
            BY <1>3 DEF DeliveryInv, HandsMatch, StopPrefix, NeverEarly
        <2>3. QED  BY <1>1, <2>1, <2>2 DEF DeliveryInv
    <1>4. QED  BY <1>2, <1>3

\* Start and the loop of Stop.
LEMMA PoolStep ==
    ASSUME DeliveryInv, StartPool \/ StopPool \/ Stopping  PROVE DeliveryInv'
    <1> USE DEF local, queueVars
    <1>0. 1 \in Workers /\ NWorkers \in Workers /\ Workers \subseteq Int
        BY DeliveryAssumption DEF Workers
    <1>1. AllDistinct' /\ PlacesApart' /\ PendingPlaced' /\ AttemptsCounted'
        BY SamePlaces DEF StartPool, StopPool, Stopping, StopReturns, StopNext
    <1>2. CASE StartPool
        <2>1. \A w \in Workers : held[w] = {}
            BY <1>2 DEF StartPool, DeliveryInv, StopPrefix, HandsMatch, InHand
        <2>2. TypeOK' /\ NeverEarly' /\ StopPrefix'
            BY <1>2 DEF StartPool, DeliveryInv, TypeOK, NeverEarly, StopPrefix
        <2>3. HandsMatch'
            BY <1>2, <2>1 DEF StartPool, HandsMatch, InHand
        <2>4. QED  BY <1>1, <2>2, <2>3 DEF DeliveryInv
    <1>3. CASE StopPool
        <2>1. TypeOK'
            BY <1>0, <1>3, DeliveryAssumption DEF StopPool, Fault, DeliveryInv, TypeOK
        <2>2. NeverEarly' /\ HandsMatch'
            BY <1>3 DEF StopPool, DeliveryInv, NeverEarly, HandsMatch
        <2>3. StopPrefix'
            BY <1>3, <1>0 DEF StopPool, StopPrefix, Workers
        <2>4. QED  BY <1>1, <2>1, <2>2, <2>3 DEF DeliveryInv
    <1>4. CASE StopReturns
        <2>1. TypeOK' /\ NeverEarly' /\ HandsMatch'
            BY <1>4 DEF StopReturns, DeliveryInv, TypeOK, NeverEarly, HandsMatch
        <2>2. \A v \in Workers : v = NWorkers \/ v < NWorkers
            BY DeliveryAssumption DEF Workers
        <2>3. \A v \in Workers : pc[v] = "exited"
            BY <1>0, <1>4, <2>2 DEF StopReturns, DeliveryInv, StopPrefix
        <2>4. StopPrefix'
            BY <1>4, <2>3 DEF StopReturns, StopPrefix
        <2>5. QED  BY <1>1, <2>1, <2>4 DEF DeliveryInv
    <1>5. CASE \E w \in Workers : StopNext(w)
        <2> PICK w \in Workers : StopNext(w)
            BY <1>5
        <2>1. TypeOK' /\ NeverEarly' /\ HandsMatch'
            BY DEF StopNext, DeliveryInv, TypeOK, NeverEarly, HandsMatch
        <2>2. \A v \in Workers : v < w => v = w - 1 \/ v < w - 1
            BY <1>0
        <2>3. \A v \in Workers : v < w => pc[v] = "exited"
            BY <2>2 DEF StopNext, DeliveryInv, StopPrefix
        <2>4. StopPrefix'
            BY <2>3 DEF StopNext, DeliveryInv, StopPrefix
        <2>5. QED  BY <1>1, <2>1, <2>4 DEF DeliveryInv
    <1>6. QED  BY <1>2, <1>3, <1>4, <1>5 DEF Stopping

\* A worker takes the head of the queue.
LEMMA PopQueuedStep ==
    ASSUME DeliveryInv, NEW w \in Workers, PopQueued(w)  PROVE DeliveryInv'
    <1>1. PICK d \in Deliveries : Pop(d) /\ held' = [held EXCEPT ![w] = {d}]
        BY DEF PopQueued
    <1>2. /\ queue \in Seq(Deliveries) /\ queue # <<>> /\ queue' = Tail(queue) /\ d = Head(queue)
          /\ waiters' = waiters /\ Distinct(queue)
        BY <1>1 DEF DeliveryInv, TypeOK, AllDistinct, Pop
    <1>3. /\ queue' \in Seq(Deliveries) /\ d \in Range(queue)
          /\ Range(queue') = Range(queue) \ {d} /\ Distinct(queue')
        BY <1>2, TailFacts
    <1>4. /\ held \in [Workers -> SUBSET Deliveries]
          /\ pc \in [Workers -> {"pop", "towait", "waiting", "check", "sleeping", "attempt", "exited"}]
        BY DEF DeliveryInv, TypeOK
    <1>5. /\ held[w] = {} /\ held'[w] = {d} /\ pc'[w] = "check" /\ pc[w] = "pop" /\ backlog' = backlog
          /\ \A v \in Workers : v # w => held'[v] = held[v] /\ pc'[v] = pc[v]
        BY <1>1, <1>4 DEF PopQueued, Goto, DeliveryInv, HandsMatch, InHand
    <1>6. /\ Mine(w)' = Mine(w) \cup {d}
          /\ \A v \in Workers : v # w => Mine(v)' = Mine(v)
          /\ \A v \in Workers : d \notin Mine(v)
        BY <1>3, <1>5 DEF Mine, Range, DeliveryInv, PlacesApart
    <1>7. TypeOK'
        BY <1>1, <1>2, <1>3 DEF DeliveryInv, TypeOK, PopQueued, Goto
    <1>8. HandsMatch'
        BY <1>5 DEF DeliveryInv, HandsMatch, InHand
    <1>9. StopPrefix'
        BY <1>5 DEF DeliveryInv, StopPrefix, PopQueued
    <1>10. AllDistinct'
        BY <1>3, <1>5 DEF DeliveryInv, AllDistinct
    <1>11. PlacesApart'
        <2>1. \A v \in Workers : Range(queue') \cap Mine(v)' = {}
            BY <1>3, <1>6 DEF DeliveryInv, PlacesApart
        <2>2. \A v \in Workers : Range(backlog'[v]) \cap held'[v] = {}
            BY <1>5, <1>6 DEF DeliveryInv, PlacesApart, Mine
        <2>3. \A u, v \in Workers : v # u => Mine(v)' \cap Mine(u)' = {}
            BY <1>6 DEF DeliveryInv, PlacesApart
        <2>4. QED  BY <2>1, <2>2, <2>3 DEF PlacesApart
    <1>12. PendingPlaced'
        <2>1. fate' = fate
            BY DEF PopQueued
        <2>2. QED  BY <1>3, <1>6, <2>1 DEF DeliveryInv, PendingPlaced
    <1>13. AttemptsCounted' /\ NeverEarly'
        BY <1>5 DEF DeliveryInv, AttemptsCounted, NeverEarly, PopQueued
    <1>14. QED  BY <1>7, <1>8, <1>9, <1>10, <1>11, <1>12, <1>13 DEF DeliveryInv

\* A worker takes a delivery from its backlog.
LEMMA PopBacklogStep ==
    ASSUME DeliveryInv, NEW w \in Workers, PopBacklog(w)  PROVE DeliveryInv'
    <1>1. PICK i \in DOMAIN backlog[w] :
            /\ held' = [held EXCEPT ![w] = {backlog[w][i]}]
            /\ backlog' = [backlog EXCEPT ![w] = SubSeq(@, 1, i - 1) \o SubSeq(@, i + 1, Len(@))]
        BY DEF PopBacklog
    <1> DEFINE d == backlog[w][i]
    <1>2. /\ held \in [Workers -> SUBSET Deliveries] /\ backlog \in [Workers -> Seq(Deliveries)]
          /\ pc \in [Workers -> {"pop", "towait", "waiting", "check", "sleeping", "attempt", "exited"}]
          /\ backlog[w] \in Seq(Deliveries) /\ Distinct(backlog[w])
        BY DEF DeliveryInv, TypeOK, AllDistinct
    <1>3. d \in Deliveries /\ d \in Range(backlog[w])
        BY <1>2 DEF Range
    <1>4. backlog'[w] = SubSeq(backlog[w], 1, i - 1) \o SubSeq(backlog[w], i + 1, Len(backlog[w]))
        BY <1>1, <1>2
    <1>5. /\ backlog'[w] \in Seq(Deliveries) /\ Distinct(backlog'[w])
          /\ Range(backlog'[w]) = Range(backlog[w]) \ {d}
        BY <1>2, <1>4, RemoveFacts
    <1>6. /\ held[w] = {} /\ held'[w] = {d} /\ pc'[w] = "check" /\ pc[w] = "pop"
          /\ \A v \in Workers : v # w => held'[v] = held[v] /\ pc'[v] = pc[v] /\ backlog'[v] = backlog[v]
          /\ queue' = queue
        BY <1>1, <1>2 DEF PopBacklog, Goto, DeliveryInv, HandsMatch, InHand, queueVars
    <1> HIDE DEF d
    <1>7. \A v \in Workers : Mine(v)' = Mine(v)
        <2>1. Mine(w)' = Mine(w)
            BY <1>3, <1>5, <1>6 DEF Mine
        <2>2. \A v \in Workers : v # w => Mine(v)' = Mine(v)
            BY <1>6 DEF Mine
        <2>3. QED  BY <2>1, <2>2
    <1>8. TypeOK'
        <2>1. held' \in [Workers -> SUBSET Deliveries] /\ backlog' \in [Workers -> Seq(Deliveries)]
            BY <1>1, <1>2, <1>3, <1>5, <1>6
        <2>2. QED  BY <2>1 DEF DeliveryInv, TypeOK, PopBacklog, Goto, queueVars
    <1>9. HandsMatch'
        BY <1>3, <1>6 DEF DeliveryInv, HandsMatch, InHand
    <1>10. StopPrefix'
        BY <1>6 DEF DeliveryInv, StopPrefix, PopBacklog
    <1>11. AllDistinct'
        BY <1>5, <1>6 DEF DeliveryInv, AllDistinct
    <1>12. PlacesApart'
        BY <1>5, <1>6, <1>7 DEF DeliveryInv, PlacesApart
    <1>13. PendingPlaced'
        BY <1>6, <1>7 DEF DeliveryInv, PendingPlaced, PopBacklog
    <1>14. AttemptsCounted' /\ NeverEarly'
        BY <1>6 DEF DeliveryInv, AttemptsCounted, NeverEarly, PopBacklog
    <1>15. QED  BY <1>8, <1>9, <1>10, <1>11, <1>12, <1>13, <1>14 DEF DeliveryInv

\* A worker begins or ends a wait, or looks at the time of its delivery.
LEMMA QuietStep ==
    ASSUME DeliveryInv, NEW w \in Workers,
           FoundNothing(w) \/ BeginWait(w) \/ EndWait(w) \/ Check(w) \/ TimerFires(w)
    PROVE  DeliveryInv'
    <1> USE DEF FoundNothing, BeginWait, EndWait, Check, TimerFires, Wait, Goto, queueVars
    <1>1. /\ UNCHANGED <<queue, held, backlog, fate, attempts, tries, due, cancelled, pool>>
          /\ UNCHANGED <<badHosts, faults>>
          /\ waiters' \subseteq waiters \cup {w}
        OBVIOUS
    <1>2. AllDistinct' /\ PlacesApart' /\ PendingPlaced' /\ AttemptsCounted'
        BY <1>1, SamePlaces
    <1>3. TypeOK'
        BY <1>1 DEF DeliveryInv, TypeOK
    <1>4. /\ pc[w] \in InHand <=> pc'[w] \in InHand
          /\ pc[w] # "exited" /\ pc'[w] # "exited"
          /\ \A v \in Workers : v # w => pc'[v] = pc[v]
        BY DEF DeliveryInv, TypeOK, InHand
    <1>5. HandsMatch' /\ StopPrefix'
        BY <1>1, <1>4 DEF DeliveryInv, HandsMatch, StopPrefix
    <1>6. pc'[w] = "attempt" => \A d \in held[w] : due[d] = 0
        <2>1. \A d \in held[w] : due[d] \in Nat
            BY DEF DeliveryInv, TypeOK
        <2>2. pc'[w] = "attempt" => Check(w) \/ TimerFires(w)
            BY DEF DeliveryInv, TypeOK
        <2>3. QED  BY <2>1, <2>2 DEF DeliveryInv, TypeOK
    <1>7. NeverEarly'
        BY <1>1, <1>4, <1>6 DEF DeliveryInv, NeverEarly
    <1>8. QED  BY <1>2, <1>3, <1>5, <1>7 DEF DeliveryInv

\* The delivery in hand goes back to the backlog.
LEMMA NewArrivedStep ==
    ASSUME DeliveryInv, NEW w \in Workers, NewArrived(w)  PROVE DeliveryInv'
    <1>1. PICK d \in held[w] : backlog' = [backlog EXCEPT ![w] = Append(@, d)]
        BY DEF NewArrived
    <1>2. /\ held \in [Workers -> SUBSET Deliveries] /\ backlog \in [Workers -> Seq(Deliveries)]
          /\ pc \in [Workers -> {"pop", "towait", "waiting", "check", "sleeping", "attempt", "exited"}]
          /\ backlog[w] \in Seq(Deliveries) /\ Distinct(backlog[w]) /\ d \in Deliveries
          /\ d \notin Range(backlog[w])
        BY DEF DeliveryInv, TypeOK, AllDistinct, PlacesApart
    <1>3. backlog'[w] = Append(backlog[w], d)
        BY <1>1, <1>2
    <1>4. /\ backlog'[w] \in Seq(Deliveries) /\ Distinct(backlog'[w])
          /\ Range(backlog'[w]) = Range(backlog[w]) \cup {d}
        BY <1>2, <1>3, AppendFacts
    <1>5. /\ held[w] = {d} /\ held'[w] = {} /\ pc'[w] = "pop" /\ pc[w] = "sleeping" /\ queue' = queue
          /\ \A v \in Workers : v # w => held'[v] = held[v] /\ pc'[v] = pc[v] /\ backlog'[v] = backlog[v]
        BY <1>1, <1>2 DEF NewArrived, Goto, DeliveryInv, HandsMatch, InHand, queueVars
    <1>6. \A v \in Workers : Mine(v)' = Mine(v)
        <2>1. Mine(w)' = Mine(w)
            BY <1>4, <1>5 DEF Mine
        <2>2. \A v \in Workers : v # w => Mine(v)' = Mine(v)
            BY <1>5 DEF Mine
        <2>3. QED  BY <2>1, <2>2
    <1>7. TypeOK'
        <2>1. held' \in [Workers -> SUBSET Deliveries] /\ backlog' \in [Workers -> Seq(Deliveries)]
            BY <1>1, <1>2, <1>4, <1>5 DEF NewArrived
        <2>2. QED  BY <2>1 DEF DeliveryInv, TypeOK, NewArrived, Goto, queueVars
    <1>8. HandsMatch'
        BY <1>5 DEF DeliveryInv, HandsMatch, InHand
    <1>9. StopPrefix'
        BY <1>5 DEF DeliveryInv, StopPrefix, NewArrived
    <1>10. AllDistinct'
        BY <1>4, <1>5 DEF DeliveryInv, AllDistinct
    <1>11. PlacesApart'
        BY <1>4, <1>5, <1>6 DEF DeliveryInv, PlacesApart
    <1>12. PendingPlaced'
        BY <1>5, <1>6 DEF DeliveryInv, PendingPlaced, NewArrived
    <1>13. AttemptsCounted' /\ NeverEarly'
        BY <1>5 DEF DeliveryInv, AttemptsCounted, NeverEarly, NewArrived
    <1>14. QED  BY <1>7, <1>8, <1>9, <1>10, <1>11, <1>12, <1>13 DEF DeliveryInv

\* A worker ends, or its attempt panics: what it loses was pending.
LEMMA LossStep ==
    ASSUME DeliveryInv, NEW w \in Workers, ContextDone(w) \/ Panic(w)  PROVE DeliveryInv'
    <1> DEFINE L == IF ContextDone(w) THEN Mine(w) ELSE held[w]
    <1> USE DEF ContextDone, Panic, Fated, Fault, Goto, queueVars
    <1>1. /\ held \in [Workers -> SUBSET Deliveries] /\ backlog \in [Workers -> Seq(Deliveries)]
          /\ pc \in [Workers -> {"pop", "towait", "waiting", "check", "sleeping", "attempt", "exited"}]
          /\ fate \in [Deliveries -> {"new", "pending", "delivered", "dropped", "deleted", "lost"}]
        BY DEF DeliveryInv, TypeOK
    <1>2. /\ held'[w] = {} /\ pc'[w] \in {"pop", "exited"} /\ pc[w] # "exited" /\ queue' = queue
          /\ \A v \in Workers : v # w => held'[v] = held[v] /\ pc'[v] = pc[v] /\ backlog'[v] = backlog[v]
          /\ backlog'[w] = backlog[w] \/ backlog'[w] = <<>>
          /\ pc'[w] = "exited" => backlog'[w] = <<>>
        BY <1>1
    <1>3. Range(<<>>) = {} /\ Distinct(<<>>) /\ <<>> \in Seq(Deliveries)
        BY DEF Range, Distinct
    <1>4. /\ L \subseteq Mine(w) /\ Mine(w)' = Mine(w) \ L
          /\ \A v \in Workers : v # w => Mine(v)' = Mine(v)
          /\ fate' = [d \in Deliveries |-> IF d \in L THEN "lost" ELSE fate[d]]
        <2>1. CASE ContextDone(w)
            <3>1. backlog'[w] = <<>>
                BY <2>1, <1>1
            <3>2. Mine(w)' = {}
                BY <3>1, <1>2, <1>3 DEF Mine
            <3>3. fate' = [d \in Deliveries |-> IF d \in Mine(w) THEN "lost" ELSE fate[d]]
                <4>1. held[w] \cup Range(backlog[w]) = Mine(w)
                    BY DEF Mine
                <4>2. QED  BY <2>1, <4>1
            <3>4. QED  BY <2>1, <1>2, <3>2, <3>3 DEF Mine
        <2>2. CASE ~ContextDone(w)
            <3>1. Panic(w) /\ backlog' = backlog /\ L = held[w]
                BY <2>2
            <3>2. Mine(w)' = Mine(w) \ held[w]
                BY <3>1, <1>2 DEF Mine, DeliveryInv, PlacesApart
            <3>3. fate' = [d \in Deliveries |-> IF d \in held[w] THEN "lost" ELSE fate[d]]
                BY <3>1
            <3>4. QED  BY <3>1, <1>2, <3>2, <3>3 DEF Mine
        <2>3. QED  BY <2>1, <2>2
    <1> HIDE DEF L
    <1>5. TypeOK'
        <2>1. fate' \in [Deliveries -> {"new", "pending", "delivered", "dropped", "deleted", "lost"}]
            BY <1>1, <1>4
        <2>2. held' \in [Workers -> SUBSET Deliveries]
            BY <1>1
        <2>3. backlog' \in [Workers -> Seq(Deliveries)]
            <3>1. CASE ContextDone(w)
                BY <3>1, <1>1, <1>3
            <3>2. CASE Panic(w)
                BY <3>2, <1>1
            <3>3. QED  BY <3>1, <3>2
        <2>4. pc' \in [Workers -> {"pop", "towait", "waiting", "check", "sleeping", "attempt", "exited"}]
            BY <1>1
        <2>5. waiters' \subseteq Workers
            BY DEF DeliveryInv, TypeOK
        <2>6. faults' \in 0..MaxFaults
            BY DeliveryAssumption DEF DeliveryInv, TypeOK
        <2>7. QED  BY <2>1, <2>2, <2>3, <2>4, <2>5, <2>6, <1>2 DEF DeliveryInv, TypeOK
    <1>6. HandsMatch'
        BY <1>2 DEF DeliveryInv, HandsMatch, InHand
    <1>7. StopPrefix'
        <2>1. cancelled' = cancelled /\ pool' = pool
            OBVIOUS
        <2>2. QED  BY <1>2, <2>1 DEF DeliveryInv, StopPrefix
    <1>8. AllDistinct'
        BY <1>2, <1>3 DEF DeliveryInv, AllDistinct
    <1>9. PlacesApart'
        <2>1. \A v \in Workers : Range(backlog'[v]) \cap held'[v] = {}
            BY <1>2 DEF DeliveryInv, PlacesApart
        <2>2. \A v \in Workers : Mine(v)' \subseteq Mine(v)
            BY <1>4
        <2>3. QED  BY <1>2, <2>1, <2>2 DEF DeliveryInv, PlacesApart
    <1>10. PendingPlaced'
        <2>1. \A v \in Workers : v # w => L \cap Mine(v) = {}
            BY <1>4 DEF DeliveryInv, PlacesApart
        <2>2. L \cap Range(queue) = {}
            BY <1>4 DEF DeliveryInv, PlacesApart
        <2>3. QED  BY <1>2, <1>4, <2>1, <2>2 DEF DeliveryInv, PendingPlaced
    <1>11. AttemptsCounted'
        BY <1>1, <1>4 DEF DeliveryInv, AttemptsCounted
    <1>12. NeverEarly'
        BY <1>2 DEF DeliveryInv, NeverEarly
    <1>13. QED  BY <1>5, <1>6, <1>7, <1>8, <1>9, <1>10, <1>11, <1>12 DEF DeliveryInv

-----------------------------------------------------------------------------
\* What DoOnce returns while there are attempts left: a retry is a further
\* attempt counted, never the last, and never to a host known to be failing.
LEMMA DoOnceFacts ==
    ASSUME NEW n \in 0..Retries, NEW bad, NEW out \in Outcomes
    PROVE  LET r == DoOnce(n, bad, out)
           IN  /\ r.attempts \in 1..(Retries + 1)
               /\ r.retry \in BOOLEAN /\ r.mark \in BOOLEAN
               /\ r.retry => r.attempts = n + 1 /\ n + 1 <= Retries /\ out.kind = "temporary" /\ ~bad
    <1>1. out.kind \in {"ok", "fatal", "temporary"}
        BY DEF Outcomes
    <1>2. n \in Nat /\ n <= Retries /\ ~(n > Retries) /\ Retries \in Nat
        BY RetryAssumption
    <1> DEFINE end == [attempts |-> Retries + 1, ok |-> FALSE, retry |-> FALSE, mark |-> FALSE]
    <1>3. CASE out.kind = "ok"
        <2>1. DoOnce(n, bad, out) = [attempts |-> n + 1, ok |-> TRUE, retry |-> FALSE, mark |-> FALSE]
            BY <1>2, <1>3 DEF DoOnce
        <2>2. QED  BY <1>2, <2>1
    <1>4. CASE out.kind = "fatal"
        <2>1. DoOnce(n, bad, out) = end
            BY <1>2, <1>4 DEF DoOnce
        <2>2. QED  BY <1>2, <2>1
    <1>5. CASE out.kind = "temporary"
        <2>1. CASE n + 1 > Retries
            <3>1. DoOnce(n, bad, out) = [attempts |-> Retries + 1, ok |-> FALSE, retry |-> FALSE, mark |-> TRUE]
                BY <1>2, <1>5, <2>1 DEF DoOnce
            <3>2. QED  BY <1>2, <3>1
        <2>2. CASE ~(n + 1 > Retries) /\ bad
            <3>1. DoOnce(n, bad, out) = end
                BY <1>2, <1>5, <2>2 DEF DoOnce
            <3>2. QED  BY <1>2, <3>1
        <2>3. CASE ~(n + 1 > Retries) /\ ~bad
            <3>1. DoOnce(n, bad, out) = [attempts |-> n + 1, ok |-> FALSE, retry |-> TRUE, mark |-> FALSE]
                BY <1>2, <1>5, <2>3 DEF DoOnce
            <3>2. QED  BY <1>2, <1>5, <2>3, <3>1
        <2>4. QED  BY <2>1, <2>2, <2>3
    <1>6. QED  BY <1>1, <1>3, <1>4, <1>5

\* The backoff before a retry is a time, however long Retry-After is.
LEMMA BackOffType ==
    ASSUME NEW n \in 0..Retries, NEW out \in Outcomes  PROVE BackOff(n, out.after) \in Nat
    <1>1. out.after \in Nat
        <2>1. out.after = 0 \/ out.after \in RetryAfters
            BY DEF Outcomes
        <2>2. RetryAfters \subseteq Nat
            BY RetryAssumption
        <2>3. CASE out.after \in RetryAfters
            BY <2>2, <2>3
        <2>4. CASE out.after = 0
            BY <2>4
        <2>5. QED  BY <2>1, <2>3, <2>4
    <1>2. Capped(out.after) \in Nat
        BY <1>1, RetryAssumption DEF Capped
    <1>3. 2^(n + 1) \in Nat
        <2>1. n + 1 \in 0..(Retries + 1)
            BY RetryAssumption
        <2>2. QED  BY <2>1, PowerAssumption
    <1>4. BaseBackoff * 2^(n + 1) \in Nat
        BY <1>3, RetryAssumption
    <1>5. QED  BY <1>2, <1>4 DEF BackOff

\* An attempt: the delivery goes to the backlog, or is done with.
LEMMA AttemptStep ==
    ASSUME DeliveryInv, NEW w \in Workers, NEW d \in held[w], NEW out \in Outcomes,
           Attempt(w, d, out)
    PROVE  DeliveryInv'
    <1> DEFINE bad == Host[d] \in badHosts
               r == DoOnce(attempts[d], bad, out)
               end == IF r.ok THEN "delivered" ELSE "dropped"
    <1>1. /\ held \in [Workers -> SUBSET Deliveries] /\ backlog \in [Workers -> Seq(Deliveries)]
          /\ pc \in [Workers -> {"pop", "towait", "waiting", "check", "sleeping", "attempt", "exited"}]
          /\ fate \in [Deliveries -> {"new", "pending", "delivered", "dropped", "deleted", "lost"}]
          /\ attempts \in [Deliveries -> 0..(Retries + 1)] /\ tries \in [Deliveries -> Nat]
          /\ due \in [Deliveries -> Nat] /\ d \in Deliveries
        BY DEF DeliveryInv, TypeOK
    <1>2. d \in Mine(w) /\ fate[d] = "pending"
        BY <1>1 DEF Mine, DeliveryInv, PendingPlaced
    <1>3. attempts[d] \in 0..Retries /\ tries[d] = attempts[d]
        BY <1>1, <1>2, RetryAssumption DEF DeliveryInv, AttemptsCounted
    <1>4. /\ r.attempts \in 1..(Retries + 1)
          /\ r.retry \in BOOLEAN /\ r.mark \in BOOLEAN
          /\ r.retry => r.attempts = attempts[d] + 1 /\ attempts[d] + 1 <= Retries
        BY <1>3, DoOnceFacts
    <1>5. /\ attempts' = [attempts EXCEPT ![d] = r.attempts]
          /\ tries' = [tries EXCEPT ![d] = @ + 1]
          /\ badHosts' = IF r.mark THEN badHosts \cup {Host[d]} ELSE badHosts
          /\ held' = [held EXCEPT ![w] = {}]
          /\ pc[w] = "attempt" /\ pc' = [pc EXCEPT ![w] = "pop"]
          /\ queue' = queue /\ waiters' = waiters
          /\ UNCHANGED <<cancelled, pool, faults>>
        BY DEF Attempt, Goto, queueVars
    <1>6. r.retry => /\ due' = [due EXCEPT ![d] = BackOff(r.attempts, out.after)]
                     /\ backlog' = [backlog EXCEPT ![w] = Append(@, d)]
                     /\ fate' = fate
        BY DEF Attempt
    <1>7. ~r.retry => /\ fate' = [e \in Deliveries |-> IF e \in {d} THEN end ELSE fate[e]]
                      /\ due' = due /\ backlog' = backlog
        BY DEF Attempt, Fated
    <1>8. end \in {"delivered", "dropped"}
        OBVIOUS
    <1> HIDE DEF r, end
    <1>9. held[w] = {d} /\ held'[w] = {} /\ pc'[w] = "pop"
          /\ \A v \in Workers : v # w => held'[v] = held[v] /\ pc'[v] = pc[v]
        BY <1>1, <1>5 DEF DeliveryInv, HandsMatch, InHand
    <1>10. /\ \A e \in Deliveries : e # d => tries'[e] = tries[e] /\ attempts'[e] = attempts[e]
                                             /\ due'[e] = due[e] /\ fate'[e] = fate[e]
           /\ tries'[d] = tries[d] + 1 /\ attempts'[d] = r.attempts
        BY <1>1, <1>4, <1>5, <1>6, <1>7
    <1>11. /\ \A v \in Workers : v # w => d \notin Mine(v)
           /\ d \notin Range(queue) /\ d \notin Range(backlog[w])
        BY <1>1, <1>2 DEF DeliveryInv, PlacesApart
    <1>12. CASE r.retry
        <2>1. backlog'[w] = Append(backlog[w], d)
            BY <1>1, <1>6, <1>12
        <2>2. /\ backlog'[w] \in Seq(Deliveries) /\ Distinct(backlog'[w])
              /\ Range(backlog'[w]) = Range(backlog[w]) \cup {d}
            <3>1. backlog[w] \in Seq(Deliveries) /\ Distinct(backlog[w])
                BY <1>1 DEF DeliveryInv, AllDistinct
            <3>2. QED  BY <1>1, <1>11, <2>1, <3>1, AppendFacts
        <2>3. \A v \in Workers : v # w => backlog'[v] = backlog[v]
            BY <1>1, <1>6, <1>12
        <2>4. \A v \in Workers : Mine(v)' = Mine(v)
            <3>1. Mine(w)' = Mine(w)
                BY <1>9, <2>2 DEF Mine
            <3>2. \A v \in Workers : v # w => Mine(v)' = Mine(v)
                BY <1>9, <2>3 DEF Mine
            <3>3. QED  BY <3>1, <3>2
        <2>5. TypeOK'
            <3>1. BackOff(r.attempts, out.after) \in Nat
                <4>1. r.attempts \in 0..Retries
                    BY <1>3, <1>4, <1>12, RetryAssumption
                <4>2. QED  BY <4>1, BackOffType
            <3>2. due' \in [Deliveries -> Nat]
                BY <1>1, <1>6, <1>12, <3>1
            <3>3. backlog' \in [Workers -> Seq(Deliveries)]
                BY <1>1, <1>6, <1>12, <2>1, <2>2
            <3>4. attempts' \in [Deliveries -> 0..(Retries + 1)] /\ tries' \in [Deliveries -> Nat]
                BY <1>1, <1>4, <1>5, RetryAssumption
            <3>5. badHosts' \subseteq Hosts /\ held' \in [Workers -> SUBSET Deliveries]
                BY <1>1, <1>5 DEF DeliveryInv, TypeOK, Hosts
            <3>6. pc' \in [Workers -> {"pop", "towait", "waiting", "check", "sleeping", "attempt", "exited"}]
                BY <1>1, <1>5
            <3>7. QED
                BY <1>5, <1>6, <1>12, <3>2, <3>3, <3>4, <3>5, <3>6 DEF DeliveryInv, TypeOK
        <2>6. HandsMatch'
            BY <1>9, <2>3 DEF DeliveryInv, HandsMatch, InHand
        <2>7. AllDistinct'
            BY <1>5, <2>2, <2>3 DEF DeliveryInv, AllDistinct
        <2>8. PlacesApart'
            <3>1. \A v \in Workers : Range(backlog'[v]) \cap held'[v] = {}
                BY <1>9, <2>3 DEF DeliveryInv, PlacesApart
            <3>2. QED  BY <1>5, <2>4, <3>1 DEF DeliveryInv, PlacesApart
        <2>9. PendingPlaced'
            BY <1>5, <1>6, <1>12, <2>4 DEF DeliveryInv, PendingPlaced
        <2>10. AttemptsCounted'
            <3>1. /\ tries'[d] = attempts'[d] /\ attempts'[d] <= Retries
                  /\ tries'[d] <= Retries + 1
                BY <1>3, <1>4, <1>10, <1>12, RetryAssumption
            <3>2. QED  BY <1>10, <3>1 DEF DeliveryInv, AttemptsCounted
        <2>11. StopPrefix'
            BY <1>5, <1>9 DEF DeliveryInv, StopPrefix
        <2>12. NeverEarly'
            <3>1. \A v \in Workers : v # w => \A e \in held[v] : e \in Deliveries /\ e # d
                BY <1>1, <1>11 DEF Mine
            <3>2. QED  BY <1>9, <1>10, <3>1 DEF DeliveryInv, NeverEarly
        <2>13. QED
            BY <2>5, <2>6, <2>7, <2>8, <2>9, <2>10, <2>11, <2>12 DEF DeliveryInv
    <1>13. CASE ~r.retry
        <2>1. backlog' = backlog /\ due' = due /\ fate'[d] \in {"delivered", "dropped"}
            BY <1>1, <1>7, <1>8, <1>13
        <2>2. Mine(w)' = Mine(w) \ {d} /\ \A v \in Workers : v # w => Mine(v)' = Mine(v)
            <3>1. Mine(w)' = Mine(w) \ {d}
                BY <1>9, <1>11, <2>1 DEF Mine
            <3>2. \A v \in Workers : v # w => Mine(v)' = Mine(v)
                BY <1>9, <2>1 DEF Mine
            <3>3. QED  BY <3>1, <3>2
        <2>3. TypeOK'
            <3>1. fate' \in [Deliveries -> {"new", "pending", "delivered", "dropped", "deleted", "lost"}]
                BY <1>1, <1>7, <1>8, <1>13
            <3>2. attempts' \in [Deliveries -> 0..(Retries + 1)] /\ tries' \in [Deliveries -> Nat]
                BY <1>1, <1>4, <1>5, RetryAssumption
            <3>3. badHosts' \subseteq Hosts /\ held' \in [Workers -> SUBSET Deliveries]
                BY <1>1, <1>5 DEF DeliveryInv, TypeOK, Hosts
            <3>4. pc' \in [Workers -> {"pop", "towait", "waiting", "check", "sleeping", "attempt", "exited"}]
                BY <1>1, <1>5
            <3>5. QED
                BY <1>5, <2>1, <3>1, <3>2, <3>3, <3>4 DEF DeliveryInv, TypeOK
        <2>4. HandsMatch' /\ AllDistinct'
            BY <1>5, <1>9, <2>1 DEF DeliveryInv, HandsMatch, InHand, AllDistinct
        <2>5. PlacesApart'
            <3>1. \A v \in Workers : Range(backlog'[v]) \cap held'[v] = {}
                BY <1>9, <2>1 DEF DeliveryInv, PlacesApart
            <3>2. \A v \in Workers : Mine(v)' \subseteq Mine(v)
                BY <2>2
            <3>3. QED  BY <1>5, <3>1, <3>2 DEF DeliveryInv, PlacesApart
        <2>6. PendingPlaced'
            BY <1>5, <1>10, <1>11, <2>1, <2>2 DEF DeliveryInv, PendingPlaced
        <2>7. AttemptsCounted'
            <3>1. tries'[d] <= Retries + 1
                BY <1>3, <1>10, RetryAssumption
            <3>2. QED  BY <1>10, <2>1, <3>1 DEF DeliveryInv, AttemptsCounted
        <2>8. StopPrefix'
            BY <1>5, <1>9 DEF DeliveryInv, StopPrefix
        <2>9. NeverEarly'
            BY <1>9, <2>1 DEF DeliveryInv, NeverEarly
        <2>10. QED
            BY <2>3, <2>4, <2>5, <2>6, <2>7, <2>8, <2>9 DEF DeliveryInv
    <1>14. QED  BY <1>12, <1>13

\* Every step preserves the invariant.
LEMMA NextDelivery == DeliveryInv /\ [Next]_vars => DeliveryInv'
    <1> SUFFICES ASSUME DeliveryInv, [Next]_vars PROVE DeliveryInv'
        OBVIOUS
    <1>1. CASE \E d \in Deliveries : Enqueue(d)
        BY <1>1, EnqueueStep
    <1>2. CASE \E k \in Keys : DeleteKey(k)
        BY <1>2, DeleteStep
    <1>3. CASE Tick \/ \E h \in Hosts : Expire(h)
        BY <1>3, ClockStep
    <1>4. CASE StartPool \/ StopPool \/ Stopping
        BY <1>4, PoolStep
    <1>5. ASSUME NEW w \in Workers, Work(w) PROVE DeliveryInv'
        BY <1>5, PopQueuedStep, PopBacklogStep, QuietStep, NewArrivedStep, LossStep, AttemptStep
           DEF Work
    <1>6. ASSUME NEW w \in Workers, Panic(w) PROVE DeliveryInv'
        BY <1>6, LossStep
    <1>7. CASE UNCHANGED vars
        <2>1. AllDistinct' /\ PlacesApart' /\ PendingPlaced' /\ AttemptsCounted'
            BY <1>7, SamePlaces DEF vars, local, queueVars
        <2>2. TypeOK' /\ HandsMatch' /\ StopPrefix' /\ NeverEarly'
            BY <1>7 DEF vars, local, queueVars, DeliveryInv, TypeOK, HandsMatch, StopPrefix, NeverEarly
        <2>3. QED  BY <2>1, <2>2 DEF DeliveryInv
    <1>8. QED  BY <1>1, <1>2, <1>3, <1>4, <1>5, <1>6, <1>7 DEF Next

\* The invariant holds in every reachable state of the delivery pool.
LEMMA DeliveryInvariant == Spec => []DeliveryInv
    BY InitDelivery, NextDelivery, PTL DEF Spec

-----------------------------------------------------------------------------
\* Types of the delivery pool's state.
THEOREM DeliveryTypes == Spec => []TypeOK
    <1>1. DeliveryInv => TypeOK
        BY DEF DeliveryInv
    <1>2. QED  BY DeliveryInvariant, <1>1, PTL

\* No delivery is attempted before its backoff is over, whoever holds it.
THEOREM BackoffKept == Spec => []NeverEarly
    <1>1. DeliveryInv => NeverEarly
        BY DEF DeliveryInv
    <1>2. QED  BY DeliveryInvariant, <1>1, PTL

\* No delivery is attempted more than retries + 1 times, through backlogs,
\* panics and restarts of the pool.
THEOREM RetriesBounded == Spec => []BoundedTries
    <1>1. DeliveryInv => BoundedTries
        BY DEF DeliveryInv, AttemptsCounted, BoundedTries
    <1>2. QED  BY DeliveryInvariant, <1>1, PTL

\* Apart, distinct and placed, deliveries are each in one place.
LEMMA PlacesCounted ==
    ASSUME DeliveryInv, NEW d \in Deliveries
    PROVE  Cardinality(Places(d)) = IF fate[d] = "pending" THEN 1 ELSE 0
    <1> DEFINE inQueue == {j \in DOMAIN queue : queue[j] = d}
               inBacklog(w) == {j \in DOMAIN backlog[w] : backlog[w][j] = d}
               inHands == {v \in Workers : d \in held[v]}
               Q == {<<"queue", i>> : i \in inQueue}
               B == UNION {{<<"backlog", w, i>> : i \in inBacklog(w)} : w \in Workers}
               H == {<<"held", w>> : w \in inHands}
    <1>1. Places(d) = Q \cup B \cup H
        BY Zenon DEF Places
    <1>2. /\ d \in Range(queue) <=> inQueue # {}
          /\ \A w \in Workers : d \in Range(backlog[w]) <=> inBacklog(w) # {}
          /\ \A i, j \in inQueue : i = j
          /\ \A w \in Workers : \A i, j \in inBacklog(w) : i = j
        BY DEF Range, DeliveryInv, AllDistinct, Distinct
    <1>3. (\A w \in Workers : d \notin Range(backlog[w])) => B = {}
        <2> SUFFICES ASSUME \A w \in Workers : d \notin Range(backlog[w]), NEW x \in B PROVE FALSE
            BY Zenon
        <2>1. PICK w \in Workers : x \in {<<"backlog", w, i>> : i \in inBacklog(w)}
            BY Zenon
        <2>2. inBacklog(w) # {}
            BY <2>1, Zenon
        <2>3. QED  BY <1>2, <2>2, Zenon
    <1>4. d \notin Range(queue) => Q = {}
        BY <1>2, Zenon
    <1>5. (\A w \in Workers : d \notin held[w]) => H = {}
        BY Zenon
    <1>6. CASE d \in Range(queue)
        <2>1. \A w \in Workers : d \notin Range(backlog[w]) /\ d \notin held[w]
            BY <1>6 DEF DeliveryInv, PlacesApart, Mine
        <2>2. PICK i : inQueue = {i}
            BY <1>2, <1>6
        <2>3. Q = {<<"queue", i>>}
            BY <2>2, Zenon
        <2>4. Places(d) = {<<"queue", i>>}
            BY <1>1, <1>3, <1>5, <2>1, <2>3
        <2>5. fate[d] = "pending"
            BY <1>6 DEF DeliveryInv, PendingPlaced
        <2>6. QED  BY <2>4, <2>5, FS_Singleton
    <1>7. ASSUME NEW w \in Workers, d \in Range(backlog[w])
          PROVE  Cardinality(Places(d)) = IF fate[d] = "pending" THEN 1 ELSE 0
        <2>1. /\ d \notin Range(queue) /\ \A v \in Workers : d \notin held[v]
              /\ \A v \in Workers : v # w => d \notin Range(backlog[v])
            BY <1>7 DEF DeliveryInv, PlacesApart, Mine
        <2>2. PICK i : inBacklog(w) = {i}
            BY <1>2, <1>7
        <2>3. \A v \in Workers : v # w => inBacklog(v) = {}
            BY <1>2, <2>1
        <2>4. B = {<<"backlog", w, i>>}
            <3> HIDE DEF inBacklog
            <3>1. \A v \in Workers : \A j \in inBacklog(v) : v = w /\ j = i
                BY <2>2, <2>3
            <3>2. i \in inBacklog(w)
                BY <2>2
            <3>3. <<"backlog", w, i>> \in B
                <4>1. <<"backlog", w, i>> \in {<<"backlog", w, j>> : j \in inBacklog(w)}
                    BY <3>2, Zenon
                <4>2. QED  BY <4>1, Zenon
            <3>4. ASSUME NEW x \in B PROVE x = <<"backlog", w, i>>
                <4>1. PICK v \in Workers : x \in {<<"backlog", v, j>> : j \in inBacklog(v)}
                    BY <3>4, Zenon
                <4>2. PICK j \in inBacklog(v) : x = <<"backlog", v, j>>
                    BY <4>1, Zenon
                <4>3. QED  BY <3>1, <4>2, Zenon
            <3> HIDE DEF B
            <3>5. QED  BY <3>3, <3>4, Zenon
        <2>5. Places(d) = {<<"backlog", w, i>>}
            BY <1>1, <1>4, <1>5, <2>1, <2>4
        <2>6. fate[d] = "pending"
            BY <1>7 DEF DeliveryInv, PendingPlaced, Mine
        <2>7. QED  BY <2>5, <2>6, FS_Singleton
    <1>8. ASSUME NEW w \in Workers, d \in held[w]
          PROVE  Cardinality(Places(d)) = IF fate[d] = "pending" THEN 1 ELSE 0
        <2>1. /\ d \notin Range(queue) /\ \A v \in Workers : d \notin Range(backlog[v])
              /\ \A v \in Workers : v # w => d \notin held[v]
            BY <1>8 DEF DeliveryInv, PlacesApart, Mine
        <2>2. inHands = {w}
            BY <1>8, <2>1
        <2>3. H = {<<"held", w>>}
            BY <2>2, Zenon
        <2>4. Places(d) = {<<"held", w>>}
            BY <1>1, <1>3, <1>4, <2>1, <2>3
        <2>5. fate[d] = "pending"
            BY <1>8 DEF DeliveryInv, PendingPlaced, Mine
        <2>6. QED  BY <2>4, <2>5, FS_Singleton
    <1>9. CASE /\ d \notin Range(queue)
               /\ \A w \in Workers : d \notin Range(backlog[w]) /\ d \notin held[w]
        <2>1. Places(d) = {}
            BY <1>1, <1>3, <1>4, <1>5, <1>9
        <2>2. fate[d] # "pending"
            BY <1>9 DEF DeliveryInv, PendingPlaced, Mine
        <2>3. QED  BY <2>1, <2>2, FS_EmptySet
    <1>10. QED  BY <1>6, <1>7, <1>8, <1>9

\* A delivery that is neither finished nor given up is in exactly one place, and
\* one that is has left all of them.
THEOREM PendingInOnePlace == Spec => []OnePlace
    <1>1. DeliveryInv => OnePlace
        BY PlacesCounted DEF OnePlace
    <1>2. QED  BY DeliveryInvariant, <1>1, PTL

-----------------------------------------------------------------------------
(***************************************************************************)
(* HttpClient: the calls of Do, with state of their own                    *)
(***************************************************************************)
\* A call that has not returned has attempts left and has made none since its
\* host was marked: the first one it makes then is its last.
ClientInv ==
    /\ DoTypeOK
    /\ \A r \in Requests :
         /\ doPc[r] \in {"idle", "attempt", "backoff"} => doAttempts[r] <= Retries /\ triesBad[r] = 0
         /\ triesBad[r] <= 1

LEMMA ClientInit == DoInit => ClientInv
    BY RetryAssumption, ClientAssumption DEF ClientInv, DoInit, DoTypeOK

\* One DoOnce.
LEMMA DoAttemptStep ==
    ASSUME ClientInv, NEW r \in Requests, NEW out \in Outcomes, DoAttempt(r, out)
    PROVE  ClientInv'
    <1> DEFINE bad == RequestHost[r] \in doBadHosts
               o == DoOnce(doAttempts[r], bad, out)
    <1>1. /\ doPc[r] = "attempt" /\ UNCHANGED <<doCancelled, expires>>
          /\ doAttempts' = [doAttempts EXCEPT ![r] = o.attempts]
          /\ triesBad' = [triesBad EXCEPT ![r] = IF bad THEN triesBad[r] + 1 ELSE 0]
          /\ doBadHosts' = IF o.mark THEN doBadHosts \cup {RequestHost[r]} ELSE doBadHosts
          /\ IF o.retry /\ r \notin FastFail
             THEN left' = [left EXCEPT ![r] = BackOff(o.attempts, out.after)]
                  /\ doPc' = [doPc EXCEPT ![r] = "backoff"]
             ELSE doPc' = [doPc EXCEPT ![r] = IF o.ok THEN "response" ELSE "error"] /\ left' = left
        BY DEF DoAttempt, DoGoto
    <1>2. DoTypeOK /\ doAttempts[r] <= Retries /\ triesBad[r] = 0
        BY <1>1 DEF ClientInv
    <1>3. doAttempts[r] \in 0..Retries
        BY <1>2, RetryAssumption DEF DoTypeOK
    <1>4. /\ o.attempts \in 1..(Retries + 1) /\ o.retry \in BOOLEAN /\ o.mark \in BOOLEAN
          /\ o.retry => o.attempts <= Retries /\ ~bad
        BY <1>3, DoOnceFacts
    <1>5. o.retry => BackOff(o.attempts, out.after) \in Nat
        <2> HAVE o.retry
        <2>1. o.attempts \in 0..Retries
            BY <1>4, RetryAssumption
        <2> HIDE DEF o
        <2>2. QED  BY <2>1, BackOffType
    <1> HIDE DEF o, bad
    <1>6. /\ doAttempts' \in [Requests -> 0..(Retries + 1)]
          /\ doAttempts'[r] = o.attempts /\ \A q \in Requests : q # r => doAttempts'[q] = doAttempts[q]
        <2>1. o.attempts \in 0..(Retries + 1)
            BY <1>4, RetryAssumption
        <2>2. QED  BY <1>1, <1>2, <2>1 DEF DoTypeOK
    <1>7. /\ triesBad' \in [Requests -> Nat] /\ triesBad'[r] = (IF bad THEN 1 ELSE 0)
          /\ \A q \in Requests : q # r => triesBad'[q] = triesBad[q]
        BY <1>1, <1>2 DEF DoTypeOK
    <1>8. doBadHosts' \subseteq RequestHosts
        BY <1>1, <1>2 DEF DoTypeOK, RequestHosts
    <1>9. /\ left' \in [Requests -> Nat]
          /\ doPc' \in [Requests -> {"idle", "attempt", "backoff", "response", "error"}]
          /\ \A q \in Requests : q # r => doPc'[q] = doPc[q]
          /\ doPc'[r] \in {"response", "error"} \/ (doPc'[r] = "backoff" /\ o.retry)
        BY <1>1, <1>2, <1>5 DEF DoTypeOK
    <1>10. DoTypeOK'
        BY <1>1, <1>2, <1>6, <1>7, <1>8, <1>9 DEF DoTypeOK, RequestHosts
    <1>11. ASSUME NEW q \in Requests
           PROVE  /\ doPc'[q] \in {"idle", "attempt", "backoff"} => doAttempts'[q] <= Retries /\ triesBad'[q] = 0
                  /\ triesBad'[q] <= 1
        <2>1. CASE q = r
            BY <1>4, <1>6, <1>7, <1>9, <2>1
        <2>2. CASE q # r
            BY <1>6, <1>7, <1>9, <2>2 DEF ClientInv
        <2>3. QED  BY <2>1, <2>2
    <1>12. QED  BY <1>10, <1>11 DEF ClientInv

LEMMA ClientNext == ClientInv /\ [DoNext]_doVars => ClientInv'
    <1> SUFFICES ASSUME ClientInv, [DoNext]_doVars  PROVE ClientInv'
        OBVIOUS
    <1> USE ClientAssumption DEF ClientInv, DoTypeOK, RequestHosts
    <1>1. ASSUME NEW r \in Requests, Begin(r)  PROVE ClientInv'
        BY <1>1 DEF Begin, DoGoto
    <1>2. ASSUME NEW r \in Requests, NEW out \in Outcomes, DoAttempt(r, out)  PROVE ClientInv'
        BY <1>2, DoAttemptStep
    <1>3. ASSUME NEW r \in Requests, EndBackoff(r) \/ DoContextDone(r)  PROVE ClientInv'
        BY <1>3 DEF EndBackoff, DoContextDone, DoGoto
    <1>4. ASSUME NEW r \in Requests, Cancel(r)  PROVE ClientInv'
        BY <1>4 DEF Cancel
    <1>5. ASSUME NEW h \in RequestHosts, DoExpire(h)  PROVE ClientInv'
        <2>1. /\ doBadHosts' \subseteq RequestHosts /\ expires' \in 0..MaxExpires
              /\ UNCHANGED <<doPc, doAttempts, left, doCancelled>>
              /\ triesBad' \in [Requests -> Nat]
              /\ \A r \in Requests : triesBad'[r] \in {0, triesBad[r]}
            BY <1>5 DEF DoExpire
        <2>2. \A r \in Requests : triesBad'[r] <= 1 /\ (triesBad[r] = 0 => triesBad'[r] = 0)
            BY <2>1
        <2>3. QED  BY <2>1, <2>2
    <1>6. CASE DoTick
        BY <1>6 DEF DoTick
    <1>7. CASE UNCHANGED doVars
        BY <1>7 DEF doVars
    <1>8. QED  BY <1>1, <1>2, <1>3, <1>4, <1>5, <1>6, <1>7 DEF DoNext, Do

LEMMA ClientInvariant == DoSpec => []ClientInv
    BY ClientInit, ClientNext, PTL DEF DoSpec

\* Types; in particular no call counts more attempts than its retries and one.
THEOREM ClientTypes == DoSpec => []DoTypeOK
    <1>1. ClientInv => DoTypeOK
        BY DEF ClientInv
    <1>2. QED  BY ClientInvariant, <1>1, PTL

\* As soon as one call has exhausted its retries against a host, every other call
\* of Do to that host makes at most one more attempt.
THEOREM BadHostGivenUp == DoSpec => []BadHostStopsOthers
    <1>1. ClientInv => BadHostStopsOthers
        BY DEF ClientInv, BadHostStopsOthers
    <1>2. QED  BY ClientInvariant, <1>1, PTL

=============================================================================
