----------------------------- MODULE WaitQueue -----------------------------
(***************************************************************************)
(* The queue that feeds the worker pools: queue.SimpleQueue and            *)
(* queue.StructQueue (over structr.QueueCtx), internal/queue. Every method *)
(* holds the queue's mutex, so each operator is one step.                  *)
(*                                                                         *)
(* A goroutine that has to wait takes the current wait channel; a push     *)
(* closes that channel and unsets it. The channel is represented by the    *)
(* goroutines that hold it: closing it empties the set, and a goroutine    *)
(* that holds a channel but is not in the set holds a closed one.          *)
(***************************************************************************)
EXTENDS Naturals, Sequences

VARIABLES queue,      \* queued values, front first
          waiters     \* goroutines that hold the current wait channel

queueVars == <<queue, waiters>>

\* Mutant: the wait channel is not closed.
Push_NoWake(v) == queue' = Append(queue, v) /\ UNCHANGED waiters

Push(v) == queue' = Append(queue, v) /\ waiters' = {}

\* Mutant: the newest value is popped first.
Pop_Newest(v) ==
    /\ queue # <<>>
    /\ v = queue[Len(queue)]
    /\ queue' = SubSeq(queue, 1, Len(queue) - 1)
    /\ UNCHANGED waiters

\* Pop, and the end of PopCtx.
Pop(v) ==
    /\ queue # <<>>
    /\ v = Head(queue)
    /\ queue' = Tail(queue)
    /\ UNCHANGED waiters

\* Wait: the current channel, made when there is none.
Wait(g) == waiters' = waiters \cup {g} /\ UNCHANGED queue

\* The wait in PopCtx: found empty and waited for under one lock.
PopWait(g) == queue = <<>> /\ Wait(g)

Woken(g) == g \notin waiters

\* Positions of the values that are not in S.
Kept(S) == {i \in DOMAIN queue : queue[i] \notin S}

\* Delete drops every queued value under an index key; the others stay in order.
Delete(S) ==
    /\ \E n \in 0..Len(queue) : \E f \in [1..n -> Kept(S)] :
         /\ \A i, j \in 1..n : i < j => f[i] < f[j]
         /\ \A k \in Kept(S) : \E i \in 1..n : f[i] = k
         /\ queue' = [i \in 1..n |-> queue[f[i]]]
    /\ UNCHANGED waiters

=============================================================================
