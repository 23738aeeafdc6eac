-------------------------- MODULE WorkerPoolProofs --------------------------
(***************************************************************************)
(* Proofs about WorkerPool, for any tasks, any number of workers and any   *)
(* number of restarts: types, no lost wakeup, quiescence after Stop, and   *)
(* that the pool implements FifoWork.                                      *)
(***************************************************************************)
EXTENDS WorkerPool, SequenceTheorems, TLAPS

\* The wait channel is open only while the queue is empty.
ChannelEmpty == waiters # {} => queue = <<>>

\* A worker has one task while it is busy, and none otherwise.
HandsMatch ==
    \A w \in Workers :
        IF pc[w] = "busy" THEN \E t \in Tasks : task[w] = {t} ELSE task[w] = {}

\* How far Stop has come: all workers before one it has reached have ended.
StopPrefix ==
    /\ pool = "running" => cancelled = {}
    /\ pool = "stopped" => \A w \in Workers : pc[w] = "exited"
    /\ pool = "stopping" =>
         \A w \in cancelled : \A v \in Workers : v < w => pc[v] = "exited"

\* No task is queued twice, queued and in hand, or in two hands.
TasksApart ==
    /\ \A i, j \in DOMAIN queue : queue[i] = queue[j] => i = j
    /\ \A w \in Workers : \A i \in DOMAIN queue : queue[i] \notin task[w]
    /\ \A w, v \in Workers : w # v => task[w] \cap task[v] = {}

\* The inductive invariant.
PoolInv == TypeOK /\ ChannelEmpty /\ HandsMatch /\ StopPrefix /\ TasksApart

-----------------------------------------------------------------------------
\* What appending to a sequence does.
LEMMA PushFacts ==
    ASSUME NEW S, NEW s \in Seq(S), NEW e \in S
    PROVE  /\ Append(s, e) \in Seq(S)
           /\ DOMAIN s = 1..Len(s) /\ Len(s) \in Nat
           /\ DOMAIN Append(s, e) = 1..(Len(s) + 1)
           /\ \A i \in 1..Len(s) : Append(s, e)[i] = s[i]
           /\ Append(s, e)[Len(s) + 1] = e
    OBVIOUS

\* What taking the head off a sequence does.
LEMMA TailFacts ==
    ASSUME NEW S, NEW s \in Seq(S), s # <<>>
    PROVE  /\ Tail(s) \in Seq(S)
           /\ DOMAIN s = 1..Len(s) /\ Len(s) \in Nat \ {0}
           /\ DOMAIN Tail(s) = 1..(Len(s) - 1)
           /\ \A i \in 1..(Len(s) - 1) : Tail(s)[i] = s[i + 1]
           /\ Head(s) = s[1]
    OBVIOUS

\* Delete leaves a subsequence of the queue.
LEMMA DeleteFacts ==
    ASSUME queue \in Seq(Tasks), NEW S, Delete(S)
    PROVE  /\ queue' \in Seq(Tasks)
           /\ queue = <<>> => queue' = <<>>
           /\ \E f \in [DOMAIN queue' -> DOMAIN queue] :
                /\ \A i, j \in DOMAIN queue' : f[i] = f[j] => i = j
                /\ \A i \in DOMAIN queue' : queue'[i] = queue[f[i]]
    <1>1. DOMAIN queue = 1..Len(queue) /\ Len(queue) \in Nat
        OBVIOUS
    <1>2. PICK n \in 0..Len(queue) : \E f \in [1..n -> Kept(S)] :
            /\ \A i, j \in 1..n : i < j => f[i] < f[j]
            /\ queue' = [i \in 1..n |-> queue[f[i]]]
        BY DEF Delete
    <1>3. PICK f \in [1..n -> Kept(S)] :
            /\ \A i, j \in 1..n : i < j => f[i] < f[j]
            /\ queue' = [i \in 1..n |-> queue[f[i]]]
        BY <1>2
    <1>4. DOMAIN queue' = 1..n /\ \A i \in 1..n : f[i] \in DOMAIN queue
        BY <1>3 DEF Kept
    <1>5. \A i \in 1..n : queue'[i] = queue[f[i]] /\ queue[f[i]] \in Tasks
        BY <1>1, <1>3, <1>4
    <1>6. queue' \in Seq(Tasks)
        <2>1. queue' \in [1..n -> Tasks]
            BY <1>3, <1>4, <1>5
        <2>2. QED  BY <2>1, <1>2
    <1>7. \A i, j \in 1..n : f[i] = f[j] => i = j
        <2> SUFFICES ASSUME NEW i \in 1..n, NEW j \in 1..n, f[i] = f[j], i # j PROVE FALSE
            OBVIOUS
        <2>1. i \in Int /\ j \in Int /\ f[i] \in Int
            BY <1>1, <1>2, <1>4
        <2>2. i < j \/ j < i
            BY <2>1
        <2>3. f[i] < f[j] \/ f[j] < f[i]
            BY <2>2, <1>3
        <2>4. QED  BY <2>1, <2>3
    <1>8. ASSUME queue = <<>> PROVE queue' = <<>>
        <2>1. DOMAIN queue = {}
            BY <1>8
        <2>2. 1..n = {}
            BY <2>1, <1>4
        <2>3. Len(queue') \in Nat /\ 1..Len(queue') = DOMAIN queue'
            BY <1>6
        <2>4. 1 \notin 1..Len(queue')
            BY <2>2, <2>3, <1>4
        <2>5. Len(queue') = 0
            BY <2>3, <2>4
        <2>6. QED  BY <2>5, <1>6, EmptySeq
    <1>9. f \in [DOMAIN queue' -> DOMAIN queue]
        BY <1>3, <1>4 DEF Kept
    <1>10. \E g \in [DOMAIN queue' -> DOMAIN queue] :
             /\ \A i, j \in DOMAIN queue' : g[i] = g[j] => i = j
             /\ \A i \in DOMAIN queue' : queue'[i] = queue[g[i]]
        <2>1. /\ \A i, j \in DOMAIN queue' : f[i] = f[j] => i = j
              /\ \A i \in DOMAIN queue' : queue'[i] = queue[f[i]]
            BY <1>4, <1>5, <1>7
        <2>2. QED  BY <1>9, <2>1, Zenon
    <1>11. QED  BY <1>6, <1>8, <1>10

-----------------------------------------------------------------------------
\* Initially nothing is queued and nobody runs.
LEMMA InitPool == Init => PoolInv
    <1> SUFFICES ASSUME Init PROVE PoolInv
        OBVIOUS
    <1> USE DEF Init
    <1>1. TypeOK
        BY PoolAssumption DEF TypeOK
    <1>2. DOMAIN queue = {}
        OBVIOUS
    <1>3. ChannelEmpty /\ HandsMatch /\ StopPrefix
        BY DEF ChannelEmpty, HandsMatch, StopPrefix
    <1>4. TasksApart
        BY <1>2 DEF TasksApart
    <1>5. QED  BY <1>1, <1>3, <1>4 DEF PoolInv

\* A task is pushed.
LEMMA EnqueueStep ==
    ASSUME PoolInv, NEW t \in Tasks, Enqueue(t)  PROVE PoolInv'
    <1> USE DEF Enqueue, Push
    <1>0. queue \in Seq(Tasks) /\ queue' = Append(queue, t)
        BY DEF PoolInv, TypeOK
    <1>1. TypeOK'
        BY <1>0, PushFacts DEF PoolInv, TypeOK
    <1>2. ChannelEmpty' /\ HandsMatch' /\ StopPrefix'
        BY DEF PoolInv, ChannelEmpty, HandsMatch, StopPrefix
    <1>3. TasksApart'
        <2>1. /\ DOMAIN queue = 1..Len(queue) /\ Len(queue) \in Nat
              /\ DOMAIN queue' = 1..(Len(queue) + 1)
              /\ \A i \in 1..Len(queue) : queue'[i] = queue[i]
              /\ queue'[Len(queue) + 1] = t
            BY <1>0, PushFacts
        <2>2. \A i \in DOMAIN queue : queue[i] # t
            BY DEF Range
        <2>3. \A w \in Workers : t \notin task[w]
            BY DEF Busy
        <2>4. \A i \in DOMAIN queue' : i \in DOMAIN queue \/ i = Len(queue) + 1
            BY <2>1
        <2>5. QED  BY <2>1, <2>2, <2>3, <2>4 DEF PoolInv, TasksApart
    <1>4. QED  BY <1>1, <1>2, <1>3 DEF PoolInv

\* Tasks are deleted from the queue.
LEMMA DeleteStep ==
    ASSUME PoolInv, NEW S \in SUBSET Tasks, DeleteTasks(S)  PROVE PoolInv'
    <1>0. queue \in Seq(Tasks) /\ Delete(S)
        BY DEF PoolInv, TypeOK, DeleteTasks
    <1>1. TypeOK'
        <2>1. queue' \in Seq(Tasks)
            BY <1>0, DeleteFacts
        <2>2. QED  BY <2>1 DEF PoolInv, TypeOK, DeleteTasks, Delete
    <1>2. ChannelEmpty'
        <2>1. queue = <<>> => queue' = <<>>
            BY <1>0, DeleteFacts
        <2>2. waiters' = waiters
            BY DEF DeleteTasks, Delete
        <2>3. QED  BY <2>1, <2>2 DEF PoolInv, ChannelEmpty
    <1>3. HandsMatch' /\ StopPrefix'
        BY DEF PoolInv, HandsMatch, StopPrefix, DeleteTasks
    <1>4. TasksApart'
        <2>1. PICK f \in [DOMAIN queue' -> DOMAIN queue] :
                /\ \A i, j \in DOMAIN queue' : f[i] = f[j] => i = j
                /\ \A i \in DOMAIN queue' : queue'[i] = queue[f[i]]
            BY <1>0, DeleteFacts
        <2>2. task' = task
            BY DEF DeleteTasks
        <2>3. \A i \in DOMAIN queue' : f[i] \in DOMAIN queue
            BY <2>1
        <2>4. QED  BY <2>1, <2>2, <2>3 DEF PoolInv, TasksApart
    <1>5. QED  BY <1>1, <1>2, <1>3, <1>4 DEF PoolInv

\* Start and the loop of Stop.
LEMMA PoolStep ==
    ASSUME PoolInv, StartPool \/ StopPool \/ Stopping  PROVE PoolInv'
    <1> USE DEF queueVars
    <1>0. 1 \in Workers /\ NWorkers \in Workers /\ Workers \subseteq Int
        BY PoolAssumption DEF Workers
    <1>1. CASE StartPool
        <2>1. \A w \in Workers : task[w] = {}
            BY <1>1 DEF StartPool, PoolInv, StopPrefix, HandsMatch
        <2>2. TypeOK' /\ ChannelEmpty' /\ TasksApart'
            BY <1>1 DEF StartPool, PoolInv, TypeOK, ChannelEmpty, TasksApart
        <2>3. HandsMatch' /\ StopPrefix'
            BY <1>1, <2>1 DEF StartPool, PoolInv, HandsMatch, StopPrefix
        <2>4. QED  BY <2>2, <2>3 DEF PoolInv
    <1>2. CASE StopPool
        <2>1. TypeOK'
            BY <1>0, <1>2, PoolAssumption DEF StopPool, PoolInv, TypeOK
        <2>2. ChannelEmpty' /\ TasksApart' /\ HandsMatch'
            BY <1>2 DEF StopPool, PoolInv, ChannelEmpty, TasksApart, HandsMatch
        <2>3. StopPrefix'
            BY <1>2, <1>0 DEF StopPool, PoolInv, StopPrefix, Workers
        <2>4. QED  BY <2>1, <2>2, <2>3 DEF PoolInv
    <1>3. CASE StopReturns
        <2>1. TypeOK' /\ ChannelEmpty' /\ TasksApart' /\ HandsMatch'
            BY <1>3 DEF StopReturns, PoolInv, TypeOK, ChannelEmpty, TasksApart, HandsMatch
        <2>2. \A v \in Workers : v = NWorkers \/ v < NWorkers
            BY PoolAssumption DEF Workers
        <2>3. \A v \in Workers : pc[v] = "exited"
            BY <1>0, <1>3, <2>2 DEF StopReturns, PoolInv, StopPrefix
        <2>4. StopPrefix'
            BY <1>3, <2>3 DEF StopReturns, StopPrefix
        <2>5. QED  BY <2>1, <2>4 DEF PoolInv
    <1>4. CASE \E w \in Workers : StopNext(w)
        <2> PICK w \in Workers : StopNext(w)
            BY <1>4
        <2>1. TypeOK' /\ ChannelEmpty' /\ TasksApart' /\ HandsMatch'
            BY DEF StopNext, PoolInv, TypeOK, ChannelEmpty, TasksApart, HandsMatch
        <2>2. \A v \in Workers : v < w => v = w - 1 \/ v < w - 1
            BY <1>0
        <2>3. \A v \in Workers : v < w => pc[v] = "exited"
            BY <2>2 DEF StopNext, PoolInv, StopPrefix
        <2>4. StopPrefix'
            BY <2>3 DEF StopNext, PoolInv, StopPrefix
        <2>5. QED  BY <2>1, <2>4 DEF PoolInv
    <1>5. QED  BY <1>1, <1>2, <1>3, <1>4 DEF Stopping

\* A worker takes the head of the queue.
LEMMA TakeStep ==
    ASSUME PoolInv, NEW w \in Workers, Take(w)  PROVE PoolInv'
    <1>1. PICK t \in Tasks : Pop(t) /\ task' = [task EXCEPT ![w] = {t}]
        BY DEF Take
    <1>2. /\ queue \in Seq(Tasks) /\ queue # <<>> /\ queue' = Tail(queue) /\ t = Head(queue)
          /\ waiters' = waiters
        BY <1>1 DEF PoolInv, TypeOK, Pop
    <1>3. /\ queue' \in Seq(Tasks)
          /\ DOMAIN queue = 1..Len(queue) /\ Len(queue) \in Nat \ {0}
          /\ DOMAIN queue' = 1..(Len(queue) - 1)
          /\ \A i \in 1..(Len(queue) - 1) : queue'[i] = queue[i + 1]
          /\ t = queue[1]
        BY <1>2, TailFacts
    <1>4. /\ task \in [Workers -> SUBSET Tasks]
          /\ pc \in [Workers -> {"pop", "blocked", "busy", "exited"}]
        BY DEF PoolInv, TypeOK
    <1>5. /\ task'[w] = {t} /\ pc'[w] = "busy" /\ pc[w] = "pop"
          /\ \A v \in Workers : v # w => task'[v] = task[v] /\ pc'[v] = pc[v]
        BY <1>1, <1>4 DEF Take
    <1>6. TypeOK'
        BY <1>1, <1>2, <1>3 DEF PoolInv, TypeOK, Take
    <1>7. ChannelEmpty'
        BY <1>2 DEF PoolInv, ChannelEmpty
    <1>8. HandsMatch'
        BY <1>5 DEF PoolInv, HandsMatch
    <1>9. StopPrefix'
        BY <1>5 DEF PoolInv, StopPrefix, Take
    <1>10. TasksApart'
        <2>1. \A i \in DOMAIN queue' : i + 1 \in DOMAIN queue /\ i + 1 # 1 /\ i \in Int
            BY <1>3
        <2>2. 1 \in DOMAIN queue
            BY <1>3
        <2>3. \A i \in DOMAIN queue' : queue'[i] # t
            BY <1>3, <2>1, <2>2 DEF PoolInv, TasksApart
        <2>4. \A i, j \in DOMAIN queue' : queue'[i] = queue'[j] => i = j
            <3>1. \A i, j \in DOMAIN queue' : queue'[i] = queue'[j] => i + 1 = j + 1
                BY <1>3, <2>1 DEF PoolInv, TasksApart
            <3>2. QED  BY <3>1, <2>1
        <2>5. \A v \in Workers : \A i \in DOMAIN queue' : queue'[i] \notin task'[v]
            BY <1>3, <1>5, <2>1, <2>3 DEF PoolInv, TasksApart
        <2>6. \A v \in Workers : t \notin task[v]
            BY <1>3, <2>2 DEF PoolInv, TasksApart
        <2>7. \A u, v \in Workers : u # v => task'[u] \cap task'[v] = {}
            BY <1>5, <2>6 DEF PoolInv, TasksApart
        <2>8. QED  BY <2>4, <2>5, <2>7 DEF TasksApart
    <1>11. QED  BY <1>6, <1>7, <1>8, <1>9, <1>10 DEF PoolInv

\* A worker finds the queue empty, is woken, or ends.
LEMMA WaitStep ==
    ASSUME PoolInv, NEW w \in Workers, Block(w) \/ Wake(w) \/ Exit(w)  PROVE PoolInv'
    <1> USE DEF Block, PopWait, Wait, Wake, Exit, queueVars
    <1>1. queue' = queue /\ task' = task /\ cancelled' = cancelled /\ pool' = pool
        OBVIOUS
    <1>2. TypeOK'
        BY DEF PoolInv, TypeOK
    <1>3. ChannelEmpty'
        BY DEF PoolInv, ChannelEmpty
    <1>4. /\ pc[w] \notin {"busy", "exited"} /\ pc'[w] # "busy"
          /\ \A v \in Workers : v # w => pc'[v] = pc[v]
        BY DEF PoolInv, TypeOK
    <1>5. HandsMatch'
        BY <1>1, <1>4 DEF PoolInv, HandsMatch
    <1>6. StopPrefix'
        BY <1>1, <1>4 DEF PoolInv, StopPrefix
    <1>7. TasksApart'
        BY <1>1 DEF PoolInv, TasksApart
    <1>8. QED  BY <1>2, <1>3, <1>5, <1>6, <1>7 DEF PoolInv

\* A worker finishes its task.
LEMMA FinishStep ==
    ASSUME PoolInv, NEW w \in Workers, Finish(w)  PROVE PoolInv'
    <1> USE DEF Finish, queueVars
    <1>1. /\ task'[w] = {} /\ pc'[w] = "pop" /\ pc[w] = "busy"
          /\ \A v \in Workers : v # w => task'[v] = task[v] /\ pc'[v] = pc[v]
        BY DEF PoolInv, TypeOK
    <1>2. TypeOK'
        BY DEF PoolInv, TypeOK
    <1>3. ChannelEmpty' /\ HandsMatch'
        BY <1>1 DEF PoolInv, ChannelEmpty, HandsMatch
    <1>4. StopPrefix'
        BY <1>1 DEF PoolInv, StopPrefix
    <1>5. TasksApart'
        BY <1>1 DEF PoolInv, TasksApart
    <1>6. QED  BY <1>2, <1>3, <1>4, <1>5 DEF PoolInv

\* Every step preserves the invariant.
LEMMA NextPool == PoolInv /\ [Next]_vars => PoolInv'
    <1> SUFFICES ASSUME PoolInv, [Next]_vars PROVE PoolInv'
        OBVIOUS
    <1>1. CASE \E t \in Tasks : Enqueue(t)
        BY <1>1, EnqueueStep
    <1>2. CASE \E S \in SUBSET Tasks : DeleteTasks(S)
        BY <1>2, DeleteStep
    <1>3. CASE StartPool \/ StopPool \/ Stopping
        BY <1>3, PoolStep
    <1>4. CASE \E w \in Workers : Work(w)
        BY <1>4, TakeStep, WaitStep, FinishStep DEF Work
    <1>5. CASE UNCHANGED vars
        BY <1>5 DEF vars, queueVars, PoolInv, TypeOK, ChannelEmpty, HandsMatch, StopPrefix, TasksApart
    <1>6. QED  BY <1>1, <1>2, <1>3, <1>4, <1>5 DEF Next

\* The invariant holds in every reachable state of the pool.
LEMMA PoolInvariant == Spec => []PoolInv
    BY InitPool, NextPool, PTL DEF Spec

-----------------------------------------------------------------------------
\* Types of the pool's state.
THEOREM PoolTypes == Spec => []TypeOK
    <1>1. PoolInv => TypeOK
        BY DEF PoolInv
    <1>2. QED  BY PoolInvariant, <1>1, PTL

\* No worker sleeps on an open channel while a task is queued (PopCtx).
THEOREM NoLostWakeup == Spec => []NoSleepOverWork
    <1>1. PoolInv => NoSleepOverWork
        BY DEF PoolInv, ChannelEmpty, NoSleepOverWork, Woken
    <1>2. QED  BY PoolInvariant, <1>1, PTL

\* After Stop has returned nothing runs and nothing is in hand.
THEOREM QuiescentAfterStop == Spec => []StopQuiesces
    <1>1. PoolInv => StopQuiesces
        BY DEF PoolInv, StopPrefix, HandsMatch, StopQuiesces, Busy
    <1>2. QED  BY PoolInvariant, <1>1, PTL

-----------------------------------------------------------------------------
\* Every step of the pool is a step of FifoWork or leaves its state alone.
LEMMA StepSimulation ==
    ASSUME PoolInv, [Next]_vars  PROVE [Fifo!Next]_(Fifo!fifoVars)
    <1> USE DEF Fifo!fifoVars, Fifo!Queued
    <1>1. ASSUME NEW t \in Tasks, Enqueue(t) PROVE Fifo!Submit(t)
        BY <1>1 DEF Enqueue, Push, Busy, Range, Fifo!Submit
    <1>2. ASSUME NEW S \in SUBSET Tasks, DeleteTasks(S) PROVE Fifo!Withdraw(S)
        <2>1. Busy' = Busy /\ ended' = ended \cup (S \cap Range(queue))
            BY <1>2 DEF DeleteTasks, Busy
        <2>2. Delete(S)
            BY <1>2 DEF DeleteTasks
        <2>3. \E n \in 0..Len(queue) : \E f \in [1..n -> Fifo!Rest(S)] :
                 /\ \A i, j \in 1..n : i < j => f[i] < f[j]
                 /\ \A k \in Fifo!Rest(S) : \E i \in 1..n : f[i] = k
                 /\ queue' = [i \in 1..n |-> queue[f[i]]]
            BY <2>2, Zenon DEF Delete, Kept, Fifo!Rest
        <2>4. ended' = ended \cup (S \cap Fifo!Queued)
            BY <2>1 DEF Range
        <2>5. QED  BY <2>1, <2>3, <2>4, Zenon DEF Fifo!Withdraw
    <1>3. ASSUME StartPool \/ StopPool \/ Stopping PROVE UNCHANGED Fifo!fifoVars
        BY <1>3 DEF StartPool, StopPool, Stopping, StopReturns, StopNext, queueVars, Busy
    <1>4. ASSUME NEW w \in Workers, Take(w) PROVE Fifo!Start
        <2>1. PICK t \in Tasks : Pop(t) /\ task' = [task EXCEPT ![w] = {t}]
            BY <1>4 DEF Take
        <2>2. task[w] = {} /\ task \in [Workers -> SUBSET Tasks]
            BY <1>4 DEF Take, PoolInv, TypeOK, HandsMatch
        <2>3. task'[w] = {t} /\ \A v \in Workers : v # w => task'[v] = task[v]
            BY <2>1, <2>2
        <2>4. Busy' = Busy \cup {t}
            BY <2>2, <2>3 DEF Busy
        <2>5. QED  BY <1>4, <2>1, <2>4 DEF Take, Pop, Fifo!Start
    <1>5. ASSUME NEW w \in Workers, Block(w) \/ Wake(w) \/ Exit(w) PROVE UNCHANGED Fifo!fifoVars
        BY <1>5 DEF Block, PopWait, Wait, Wake, Exit, queueVars, Busy
    <1>6. ASSUME NEW w \in Workers, Finish(w) PROVE \E t \in Tasks : Fifo!End(t)
        <2>1. PICK t \in Tasks : task[w] = {t}
            BY <1>6 DEF Finish, PoolInv, HandsMatch
        <2>2. task'[w] = {} /\ \A v \in Workers : v # w => task'[v] = task[v]
            BY <1>6 DEF Finish, PoolInv, TypeOK
        <2>3. \A v \in Workers : v # w => t \notin task[v]
            BY <2>1 DEF PoolInv, TasksApart
        <2>4. t \in Busy /\ Busy' = Busy \ {t}
            BY <2>1, <2>2, <2>3 DEF Busy
        <2>5. QED  BY <1>6, <2>1, <2>4 DEF Finish, queueVars, Fifo!End
    <1>7. CASE UNCHANGED vars
        BY <1>7 DEF vars, queueVars, Busy
    <1>8. QED
        BY <1>1, <1>2, <1>3, <1>4, <1>5, <1>6, <1>7 DEF Next, Work, Fifo!Next

\* The pool starts each task at most once and in the order of the pushes,
\* whatever workers, deletions and restarts do: it implements FifoWork.
THEOREM RefinesFifoWork == Spec => ImplementsFifoWork
    <1>1. Init => Fifo!Init
        BY DEF Init, Busy, Fifo!Init
    <1>2. PoolInv /\ [Next]_vars => [Fifo!Next]_(Fifo!fifoVars)
        BY StepSimulation
    <1>3. QED
        BY PoolInvariant, <1>1, <1>2, PTL DEF Spec, ImplementsFifoWork, Fifo!Spec

=============================================================================
