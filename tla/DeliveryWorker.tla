--------------------------- MODULE DeliveryWorker ---------------------------
(***************************************************************************)
(* The delivery workers of internal/transport/delivery/delivery.go: a pool *)
(* of goroutines that take outgoing ActivityPub requests from one queue,   *)
(* attempt them, and keep the ones to retry in a backlog of their own.     *)
(*                                                                         *)
(* Time is relative: due[d] is the time left until d.next, and Tick lets   *)
(* it pass for all deliveries.                                             *)
(***************************************************************************)
EXTENDS WaitQueue, HttpRetry, FiniteSets, Functions

CONSTANTS
    Deliveries,    \* outgoing requests, each queued once
    Host,          \* Deliveries -> the host it goes to
    Keys,          \* IRIs deliveries are indexed by (ActorID, ObjectID, TargetID)
    KeysOf,        \* Deliveries -> its keys
    NWorkers,      \* workers of the pool
    MaxFaults      \* bound: calls of Stop, panics, expired bad hosts

ASSUME DeliveryAssumption == NWorkers \in Nat \ {0} /\ MaxFaults \in Nat

Workers == 1..NWorkers
Hosts   == {Host[d] : d \in Deliveries}

VARIABLES
    pc,            \* control state of each worker
    held,          \* dlv of each worker: {} or one delivery
    backlog,       \* backlog of each worker
    attempts,      \* Request.attempts of each delivery
    due,           \* time until its next attempt
    badHosts,      \* the client's cache of failing hosts
    cancelled,     \* workers whose context is cancelled
    pool,          \* "running", "stopping", "stopped"
    fate,          \* history: what became of each delivery
    tries,         \* history: attempts that were really made
    faults         \* number of faults so far

local == <<pc, held, backlog>>
vars  == <<queueVars, local, attempts, due, badHosts, cancelled, pool, fate, tries, faults>>

TypeOK ==
    /\ queue \in Seq(Deliveries)
    /\ waiters \subseteq Workers
    /\ pc \in [Workers -> {"pop", "towait", "waiting", "check", "sleeping", "attempt", "exited"}]
    /\ held \in [Workers -> SUBSET Deliveries]
    /\ backlog \in [Workers -> Seq(Deliveries)]
    /\ attempts \in [Deliveries -> 0..(Retries + 1)]
    /\ due \in [Deliveries -> Nat]
    /\ badHosts \subseteq Hosts
    /\ cancelled \subseteq Workers
    /\ pool \in {"running", "stopping", "stopped"}
    /\ fate \in [Deliveries -> {"new", "pending", "delivered", "dropped", "deleted", "lost"}]
    /\ tries \in [Deliveries -> Nat]
    /\ faults \in 0..MaxFaults

Init ==
    /\ queue = <<>> /\ waiters = {}
    /\ pc = [w \in Workers |-> "pop"]
    /\ held = [w \in Workers |-> {}]
    /\ backlog = [w \in Workers |-> <<>>]
    /\ attempts = [d \in Deliveries |-> 0]
    /\ due = [d \in Deliveries |-> 0]
    /\ badHosts = {} /\ cancelled = {}
    /\ pool = "running"
    /\ fate = [d \in Deliveries |-> "new"]
    /\ tries = [d \in Deliveries |-> 0]
    /\ faults = 0

Fault == faults < MaxFaults /\ faults' = faults + 1

Fated(S, f) == fate' = [d \in Deliveries |-> IF d \in S THEN f ELSE fate[d]]

Goto(w, l) == pc' = [pc EXCEPT ![w] = l]

-----------------------------------------------------------------------------
(***************************************************************************)
(* The rest of the server and the clock.                                   *)
(***************************************************************************)
Enqueue(d) ==
    /\ fate[d] = "new"
    /\ Push(d)
    /\ Fated({d}, "pending")
    /\ UNCHANGED <<local, attempts, due, badHosts, cancelled, pool, tries, faults>>

\* Queue.Delete, when the account or status with that IRI is deleted: it finds
\* what is queued, not what the workers hold back for a retry.
DeleteKey(k) ==
    LET S == {d \in Range(queue) : k \in KeysOf[d]}
    IN  /\ S # {}
        /\ Delete(S)
        /\ Fated(S, "deleted")
        /\ UNCHANGED <<local, attempts, due, badHosts, cancelled, pool, tries, faults>>

Tick ==
    /\ \E d \in Deliveries : due[d] > 0
    /\ due' = [d \in Deliveries |-> IF due[d] > 0 THEN due[d] - 1 ELSE 0]
    /\ UNCHANGED <<queueVars, local, attempts, badHosts, cancelled, pool, fate, tries, faults>>

\* An entry of badHosts reaches the end of its time to live.
Expire(h) ==
    /\ h \in badHosts
    /\ Fault
    /\ badHosts' = badHosts \ {h}
    /\ UNCHANGED <<queueVars, local, attempts, due, cancelled, pool, fate, tries>>

\* Stop cancels the context of a worker and waits for it, one after the other.
StopPool ==
    /\ pool = "running"
    /\ Fault
    /\ pool' = "stopping"
    /\ cancelled' = {1}
    /\ UNCHANGED <<queueVars, local, attempts, due, badHosts, fate, tries>>

StopNext(w) ==
    /\ pool = "stopping"
    /\ w \notin cancelled /\ w - 1 \in cancelled /\ pc[w - 1] = "exited"
    /\ cancelled' = cancelled \cup {w}
    /\ UNCHANGED <<queueVars, local, attempts, due, badHosts, pool, fate, tries, faults>>

StopReturns ==
    /\ pool = "stopping"
    /\ cancelled = Workers /\ pc[NWorkers] = "exited"
    /\ pool' = "stopped"
    /\ UNCHANGED <<queueVars, local, attempts, due, badHosts, cancelled, fate, tries, faults>>

\* Start makes new workers, with empty backlogs.
StartPool ==
    /\ pool = "stopped"
    /\ pool' = "running"
    /\ cancelled' = {}
    /\ pc' = [w \in Workers |-> "pop"]
    /\ UNCHANGED <<queueVars, held, backlog, attempts, due, badHosts, fate, tries, faults>>

-----------------------------------------------------------------------------
(***************************************************************************)
(* next()                                                                  *)
(***************************************************************************)
\* Queue.Pop has a delivery.
PopQueued(w) ==
    /\ pc[w] = "pop"
    /\ \E d \in Deliveries : Pop(d) /\ held' = [held EXCEPT ![w] = {d}]
    /\ Goto(w, "check")
    /\ UNCHANGED <<backlog, attempts, due, badHosts, cancelled, pool, fate, tries, faults>>

\* sortDeliveries puts the latest next first: the comparison is positive where
\* a comes before b.
First(w, i) == \A j \in DOMAIN backlog[w] : due[backlog[w][j]] <= due[backlog[w][i]]

\* Queue.Pop has none: the backlog is sorted and its first taken.
PopBacklog(w) ==
    /\ pc[w] = "pop" /\ queue = <<>>
    /\ \E i \in DOMAIN backlog[w] :
         /\ First(w, i)
         /\ held' = [held EXCEPT ![w] = {backlog[w][i]}]
         /\ backlog' = [backlog EXCEPT ![w] = SubSeq(@, 1, i - 1) \o SubSeq(@, i + 1, Len(@))]
    /\ Goto(w, "check")
    /\ UNCHANGED <<queueVars, attempts, due, badHosts, cancelled, pool, fate, tries, faults>>

\* Neither: the worker is going to wait ...
FoundNothing(w) ==
    /\ pc[w] = "pop" /\ queue = <<>> /\ backlog[w] = <<>>
    /\ Goto(w, "towait")
    /\ UNCHANGED <<queueVars, held, backlog, attempts, due, badHosts, cancelled, pool, fate, tries, faults>>

\* ... and takes the wait channel by a call of its own.
BeginWait(w) ==
    /\ pc[w] = "towait"
    /\ Wait(w)
    /\ Goto(w, "waiting")
    /\ UNCHANGED <<held, backlog, attempts, due, badHosts, cancelled, pool, fate, tries, faults>>

EndWait(w) ==
    /\ pc[w] = "waiting" /\ Woken(w)
    /\ Goto(w, "pop")
    /\ UNCHANGED <<queueVars, held, backlog, attempts, due, badHosts, cancelled, pool, fate, tries, faults>>

(***************************************************************************)
(* process()                                                               *)
(***************************************************************************)
\* Mutant: the backoff is not looked at.
Check_NoBackoff(w) ==
    /\ pc[w] = "check"
    /\ Goto(w, "attempt")
    /\ UNCHANGED <<queueVars, held, backlog, attempts, due, badHosts, cancelled, pool, fate, tries, faults>>

\* A delivery whose time has not come puts the worker to sleep on its timer,
\* its context and the wait channel.
Check(w) ==
    /\ pc[w] = "check"
    /\ IF \E d \in held[w] : due[d] > 0
       THEN Wait(w) /\ Goto(w, "sleeping")
       ELSE UNCHANGED queueVars /\ Goto(w, "attempt")
    /\ UNCHANGED <<held, backlog, attempts, due, badHosts, cancelled, pool, fate, tries, faults>>

TimerFires(w) ==
    /\ pc[w] = "sleeping"
    /\ \A d \in held[w] : due[d] = 0
    /\ Goto(w, "attempt")
    /\ UNCHANGED <<queueVars, held, backlog, attempts, due, badHosts, cancelled, pool, fate, tries, faults>>

\* Mutant: the delivery in hand is forgotten when a new one arrives.
NewArrived_Forgets(w) ==
    /\ pc[w] = "sleeping" /\ Woken(w)
    /\ held' = [held EXCEPT ![w] = {}]
    /\ Goto(w, "pop")
    /\ UNCHANGED <<queueVars, backlog, attempts, due, badHosts, cancelled, pool, fate, tries, faults>>

\* A new delivery was queued: the one in hand goes back to the backlog.
NewArrived(w) ==
    /\ pc[w] = "sleeping" /\ Woken(w)
    /\ \E d \in held[w] : backlog' = [backlog EXCEPT ![w] = Append(@, d)]
    /\ held' = [held EXCEPT ![w] = {}]
    /\ Goto(w, "pop")
    /\ UNCHANGED <<queueVars, attempts, due, badHosts, cancelled, pool, fate, tries, faults>>

\* The context is done in one of the two waits: process returns, and what the
\* worker holds goes with it.
ContextDone(w) ==
    /\ pc[w] \in {"waiting", "sleeping"} /\ w \in cancelled
    /\ Fated(held[w] \cup Range(backlog[w]), "lost")
    /\ held' = [held EXCEPT ![w] = {}]
    /\ backlog' = [backlog EXCEPT ![w] = <<>>]
    /\ waiters' = waiters \ {w}
    /\ Goto(w, "exited")
    /\ UNCHANGED <<queue, attempts, due, badHosts, cancelled, pool, tries, faults>>

\* DoOnce. The request runs under the worker's context, so it fails for good
\* once that is cancelled.
Attempt(w, d, out) ==
    LET r == DoOnce(attempts[d], Host[d] \in badHosts, out)
    IN  /\ pc[w] = "attempt" /\ d \in held[w]
        /\ w \in cancelled => out.kind = "fatal"
        /\ attempts' = [attempts EXCEPT ![d] = r.attempts]
        /\ tries' = [tries EXCEPT ![d] = @ + 1]
        /\ badHosts' = IF r.mark THEN badHosts \cup {Host[d]} ELSE badHosts
        /\ held' = [held EXCEPT ![w] = {}]
        /\ IF r.retry
           THEN /\ due' = [due EXCEPT ![d] = BackOff(r.attempts, out.after)]
                /\ backlog' = [backlog EXCEPT ![w] = Append(@, d)]
                /\ UNCHANGED fate
           ELSE /\ Fated({d}, IF r.ok THEN "delivered" ELSE "dropped")
                /\ UNCHANGED <<due, backlog>>
        /\ Goto(w, "pop")
        /\ UNCHANGED <<queueVars, cancelled, pool, faults>>

\* A panic in the attempt: util.Must calls process again.
Panic(w) ==
    /\ pc[w] = "attempt"
    /\ Fault
    /\ Fated(held[w], "lost")
    /\ held' = [held EXCEPT ![w] = {}]
    /\ Goto(w, "pop")
    /\ UNCHANGED <<queueVars, backlog, attempts, due, badHosts, cancelled, pool, tries>>

Work(w) ==
    \/ PopQueued(w) \/ PopBacklog(w) \/ FoundNothing(w) \/ BeginWait(w) \/ EndWait(w)
    \/ Check(w) \/ TimerFires(w) \/ NewArrived(w) \/ ContextDone(w)
    \/ \E d \in held[w], out \in Outcomes : Attempt(w, d, out)

Stopping == StopReturns \/ \E w \in Workers : StopNext(w)

Next ==
    \/ \E d \in Deliveries : Enqueue(d)
    \/ \E k \in Keys : DeleteKey(k)
    \/ Tick \/ StopPool \/ Stopping \/ StartPool
    \/ \E h \in Hosts : Expire(h)
    \/ \E w \in Workers : Work(w) \/ Panic(w)

Spec == Init /\ [][Next]_vars

\* Time passes, workers are scheduled, requests have timeouts, Stop goes on.
FairSpec == Spec /\ WF_vars(Tick) /\ WF_vars(Stopping) /\ \A w \in Workers : WF_vars(Work(w))

-----------------------------------------------------------------------------
(***************************************************************************)
(* Properties                                                              *)
(***************************************************************************)

\* Where a delivery is: once in the queue, once in one backlog, or in one hand.
Places(d) ==
    {<<"queue", i>> : i \in {j \in DOMAIN queue : queue[j] = d}}
    \cup (UNION {{<<"backlog", w, i>> : i \in {j \in DOMAIN backlog[w] : backlog[w][j] = d}} : w \in Workers})
    \cup {<<"held", w>> : w \in {v \in Workers : d \in held[v]}}

\* A delivery that is neither finished nor given up is in exactly one place, and
\* one that is has left all of them: nothing is sent twice or forgotten between
\* the queue, the backlogs and the workers.
OnePlace ==
    \A d \in Deliveries : Cardinality(Places(d)) = IF fate[d] = "pending" THEN 1 ELSE 0

\* No delivery is attempted more than retries + 1 times, whatever workers and
\* backlogs it passes.
BoundedTries == \A d \in Deliveries : tries[d] <= Retries + 1

\* A delivery is never attempted before its backoff is over.
NeverEarly == \A w \in Workers : pc[w] = "attempt" => \A d \in held[w] : due[d] = 0

\* A delivery waiting for its retry comes to an end: it is delivered, dropped
\* after its last attempt, or lost with its worker.
RetriesEnd ==
    \A d \in Deliveries :
        (\E w \in Workers : d \in Range(backlog[w])) ~> (fate[d] # "pending")

\* "next gets the next available delivery, blocking until available if
\* necessary": a queued delivery is taken in the end unless the pool is stopped.
QueuedTaken ==
    \A d \in Deliveries : (d \in Range(queue)) ~> (d \notin Range(queue) \/ pool = "stopped")

=============================================================================
