----------------------------- MODULE WorkerPool -----------------------------
(***************************************************************************)
(* The worker pools of internal/workers: MsgWorkerPool and FnWorkerPool,   *)
(* n goroutines that pop from one queue with PopCtx, process what they     *)
(* popped, and are started and stopped together. Each worker is a          *)
(* runners.Service: Stop cancels its context and waits until it has ended, *)
(* one worker after the other.                                             *)
(***************************************************************************)
EXTENDS WaitQueue, Functions

CONSTANTS Tasks,       \* messages or functions, each pushed once
          NWorkers,    \* workers of the pool
          MaxStops     \* bound: calls of Stop

ASSUME PoolAssumption == NWorkers \in Nat \ {0} /\ MaxStops \in Nat

Workers == 1..NWorkers

VARIABLES pc,          \* control state of each worker
          task,        \* what each worker holds: {} or one task
          cancelled,   \* workers whose context is cancelled
          pool,        \* "running", "stopping", "stopped"
          ended,       \* history: tasks processed or deleted from the queue
          stops        \* number of calls of Stop

vars == <<queueVars, pc, task, cancelled, pool, ended, stops>>

TypeOK ==
    /\ queue \in Seq(Tasks)
    /\ waiters \subseteq Workers
    /\ pc \in [Workers -> {"pop", "blocked", "busy", "exited"}]
    /\ task \in [Workers -> SUBSET Tasks]
    /\ cancelled \subseteq Workers
    /\ pool \in {"running", "stopping", "stopped"}
    /\ ended \subseteq Tasks
    /\ stops \in 0..MaxStops

Init ==
    /\ queue = <<>> /\ waiters = {}
    /\ pc = [w \in Workers |-> "exited"]
    /\ task = [w \in Workers |-> {}]
    /\ cancelled = {}
    /\ pool = "stopped"
    /\ ended = {}
    /\ stops = 0

Busy == UNION {task[w] : w \in Workers}

-----------------------------------------------------------------------------
\* Anyone pushes a task, at any time, into a stopped pool too.
Enqueue(t) ==
    /\ t \notin Range(queue) \cup Busy \cup ended
    /\ Push(t)
    /\ UNCHANGED <<pc, task, cancelled, pool, ended, stops>>

\* Queue.Delete, for a status or an account that is deleted.
DeleteTasks(S) ==
    /\ S \cap Range(queue) # {}
    /\ Delete(S)
    /\ ended' = ended \cup (S \cap Range(queue))
    /\ UNCHANGED <<pc, task, cancelled, pool, stops>>

\* Start: new workers, if there are none.
StartPool ==
    /\ pool = "stopped"
    /\ pool' = "running"
    /\ pc' = [w \in Workers |-> "pop"]
    /\ cancelled' = {}
    /\ UNCHANGED <<queueVars, task, ended, stops>>

\* Stop is called, and cancels the context of the first worker.
StopPool ==
    /\ pool = "running"
    /\ stops < MaxStops
    /\ stops' = stops + 1
    /\ pool' = "stopping"
    /\ cancelled' = {1}
    /\ UNCHANGED <<queueVars, pc, task, ended>>

\* ... and the context of the next one when the one before has ended.
StopNext(w) ==
    /\ pool = "stopping"
    /\ w \notin cancelled /\ w - 1 \in cancelled /\ pc[w - 1] = "exited"
    /\ cancelled' = cancelled \cup {w}
    /\ UNCHANGED <<queueVars, pc, task, pool, ended, stops>>

\* Mutant: Stop does not wait for the last worker.
StopReturns_NoWait ==
    /\ pool = "stopping"
    /\ cancelled = Workers
    /\ pool' = "stopped"
    /\ UNCHANGED <<queueVars, pc, task, cancelled, ended, stops>>

\* Stop returns.
StopReturns ==
    /\ pool = "stopping"
    /\ cancelled = Workers /\ pc[NWorkers] = "exited"
    /\ pool' = "stopped"
    /\ UNCHANGED <<queueVars, pc, task, cancelled, ended, stops>>

\* PopCtx finds a value; it looks at the context only when it finds none, so a
\* worker that is being stopped goes on with its cancelled context.
Take(w) ==
    /\ pc[w] = "pop"
    /\ \E t \in Tasks : Pop(t) /\ task' = [task EXCEPT ![w] = {t}]
    /\ pc' = [pc EXCEPT ![w] = "busy"]
    /\ UNCHANGED <<cancelled, pool, ended, stops>>

\* Mutant: the queue is unlocked between finding it empty and taking the channel.
Block_Unlocked(w) ==
    /\ pc[w] = "pop"
    /\ Wait(w)
    /\ pc' = [pc EXCEPT ![w] = "blocked"]
    /\ UNCHANGED <<task, cancelled, pool, ended, stops>>

Block(w) ==
    /\ pc[w] = "pop"
    /\ PopWait(w)
    /\ pc' = [pc EXCEPT ![w] = "blocked"]
    /\ UNCHANGED <<task, cancelled, pool, ended, stops>>

Wake(w) ==
    /\ pc[w] = "blocked" /\ Woken(w)
    /\ pc' = [pc EXCEPT ![w] = "pop"]
    /\ UNCHANGED <<queueVars, task, cancelled, pool, ended, stops>>

\* Mutant: a worker that is being stopped goes on waiting for a task.
Exit_OnlyWoken(w) ==
    /\ pc[w] = "blocked" /\ w \in cancelled /\ Woken(w)
    /\ pc' = [pc EXCEPT ![w] = "exited"]
    /\ UNCHANGED <<queueVars, task, cancelled, pool, ended, stops>>

\* PopCtx gives up: the context is cancelled.
Exit(w) ==
    /\ pc[w] = "blocked" /\ w \in cancelled
    /\ pc' = [pc EXCEPT ![w] = "exited"]
    /\ waiters' = waiters \ {w}
    /\ UNCHANGED <<queue, task, cancelled, pool, ended, stops>>

\* Process returns (an error is logged), or panics: util.Must calls process
\* again and the task is gone either way.
Finish(w) ==
    /\ pc[w] = "busy"
    /\ ended' = ended \cup task[w]
    /\ task' = [task EXCEPT ![w] = {}]
    /\ pc' = [pc EXCEPT ![w] = "pop"]
    /\ UNCHANGED <<queueVars, cancelled, pool, stops>>

Work(w) == Take(w) \/ Block(w) \/ Wake(w) \/ Exit(w) \/ Finish(w)

Stopping == StopReturns \/ \E w \in Workers : StopNext(w)

Next ==
    \/ \E t \in Tasks : Enqueue(t)
    \/ \E S \in SUBSET Tasks : DeleteTasks(S)
    \/ StartPool \/ StopPool \/ Stopping
    \/ \E w \in Workers : Work(w)

Spec == Init /\ [][Next]_vars

\* Workers are scheduled, Process returns, and Stop goes on; nothing makes
\* anyone push or start.
FairSpec == Spec /\ WF_vars(Stopping) /\ \A w \in Workers : WF_vars(Work(w))

-----------------------------------------------------------------------------
(***************************************************************************)
(* Properties                                                              *)
(***************************************************************************)

\* No lost wakeup: a worker never sleeps on an open channel while a task is
\* queued, for PopCtx takes the channel under the lock that found the queue empty.
NoSleepOverWork ==
    \A w \in Workers : pc[w] = "blocked" /\ ~Woken(w) => queue = <<>>

\* The pool starts each task at most once and in the order of the pushes,
\* whatever workers, deletions and restarts do.
Fifo == INSTANCE FifoWork WITH pending <- queue, active <- Busy

\* Once Stop has returned no worker runs and no task is in hand: the server
\* closes the database next.
StopQuiesces ==
    pool = "stopped" => Busy = {} /\ \A w \in Workers : pc[w] = "exited"

\* The pool implements FifoWork.
ImplementsFifoWork == Fifo!Spec

\* Stop returns in the end, although a worker that is being stopped goes on as
\* long as it finds tasks: the pushes must end, Process must return.
StopEnds == (pool = "stopping") ~> (pool = "stopped")

\* A queued task is taken in the end unless the pool is stopped.
TasksTaken ==
    \A t \in Tasks : (t \in Range(queue)) ~> (t \notin Range(queue) \/ pool = "stopped")

=============================================================================
