----------------------------- MODULE HttpRetry -----------------------------
(***************************************************************************)
(* One attempt of an HTTP request and what it decides about the next one:  *)
(* Client.DoOnce and Client.do of internal/httpclient/client.go and        *)
(* Request.BackOff of request.go.                                          *)
(***************************************************************************)
EXTENDS Naturals

CONSTANTS Retries,        \* c.retries
          BaseBackoff,    \* baseBackoff, in units of time
          RetryAfters     \* Retry-After values servers send; 0 stands for none

ASSUME RetryAssumption == Retries \in Nat /\ BaseBackoff \in Nat \ {0} /\ RetryAfters \subseteq Nat

\* Arithmetic, stated because the provers know nothing of exponentiation.
ASSUME PowerAssumption == \A n \in 0..(Retries + 1) : 2^n \in Nat

\* What the server or the network makes of an attempt: a response; an error no
\* retry can help (cancelled context, TLS, unknown host, body too large); an
\* error that may pass (5xx, 429, other network errors), with its Retry-After.
Outcomes ==
    [kind : {"ok", "fatal"}, after : {0}] \cup [kind : {"temporary"}, after : RetryAfters]

\* Retry-After, never more than baseBackoff * retries.
Capped(after) == IF after > BaseBackoff * Retries THEN BaseBackoff * Retries ELSE after

\* BackOff(): what the header said, else twice the time of the attempt before.
BackOff(attempts, after) ==
    IF Capped(after) = 0 THEN BaseBackoff * 2^(attempts + 1) ELSE Capped(after)

\* Mutant: hosts known to be failing are not given up early.
DoOnce_IgnoresBadHosts(attempts, bad, out) ==
    LET n == attempts + 1
    IN  CASE out.kind = "ok"    -> [attempts |-> n, ok |-> TRUE, retry |-> FALSE, mark |-> FALSE]
          [] out.kind = "fatal" -> [attempts |-> Retries + 1, ok |-> FALSE, retry |-> FALSE, mark |-> FALSE]
          [] OTHER -> [attempts |-> n, ok |-> FALSE, retry |-> n <= Retries, mark |-> n > Retries]

\* Mutant: the retry flag is not unset at the last attempt, nor are attempts counted.
DoOnce_NoLimit(attempts, bad, out) ==
    [attempts |-> attempts, ok |-> out.kind = "ok", retry |-> out.kind = "temporary", mark |-> FALSE]

\* DoOnce with a number of attempts so far, to a host that is or is not among
\* badHosts: the new number of attempts, whether there is a response, whether
\* the caller may retry, and whether the host is marked bad.
DoOnce(attempts, bad, out) ==
    LET n == attempts + 1
        give == [attempts |-> Retries + 1, ok |-> FALSE, retry |-> FALSE, mark |-> FALSE]
    IN  CASE attempts > Retries -> [give EXCEPT !.attempts = attempts]
          [] attempts <= Retries /\ out.kind = "ok"    -> [give EXCEPT !.attempts = n, !.ok = TRUE]
          [] attempts <= Retries /\ out.kind = "fatal" -> give
          [] attempts <= Retries /\ out.kind = "temporary" ->
               IF n > Retries THEN [give EXCEPT !.mark = TRUE]
               ELSE IF bad THEN give
               ELSE [give EXCEPT !.attempts = n, !.retry = TRUE]

=============================================================================
