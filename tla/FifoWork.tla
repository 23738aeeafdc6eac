------------------------------ MODULE FifoWork ------------------------------
(***************************************************************************)
(* What a pool of workers promises of the tasks handed to it: each is      *)
(* started at most once, in the order of submission, unless it was         *)
(* withdrawn before.                                                       *)
(***************************************************************************)
EXTENDS Naturals, Sequences

CONSTANTS Tasks

VARIABLES pending,    \* submitted tasks, oldest first
          active,     \* tasks being run
          ended       \* tasks that were run or withdrawn

fifoVars == <<pending, active, ended>>

Queued == {pending[i] : i \in DOMAIN pending}

Init == pending = <<>> /\ active = {} /\ ended = {}

Submit(t) ==
    /\ t \notin Queued \cup active \cup ended
    /\ pending' = Append(pending, t)
    /\ UNCHANGED <<active, ended>>

Start ==
    /\ pending # <<>>
    /\ pending' = Tail(pending)
    /\ active' = active \cup {Head(pending)}
    /\ UNCHANGED ended

End(t) ==
    /\ t \in active
    /\ active' = active \ {t}
    /\ ended' = ended \cup {t}
    /\ UNCHANGED pending

\* Places of the tasks that are not in S.
Rest(S) == {i \in DOMAIN pending : pending[i] \notin S}

\* The tasks of S are withdrawn; the others keep their order.
Withdraw(S) ==
    /\ \E n \in 0..Len(pending) : \E f \in [1..n -> Rest(S)] :
         /\ \A i, j \in 1..n : i < j => f[i] < f[j]
         /\ \A k \in Rest(S) : \E i \in 1..n : f[i] = k
         /\ pending' = [i \in 1..n |-> pending[f[i]]]
    /\ ended' = ended \cup (S \cap Queued)
    /\ UNCHANGED active

Next ==
    \/ Start
    \/ \E t \in Tasks : Submit(t) \/ End(t)
    \/ \E S \in SUBSET Tasks : Withdraw(S)

Spec == Init /\ [][Next]_fifoVars

=============================================================================
