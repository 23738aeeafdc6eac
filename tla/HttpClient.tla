----------------------------- MODULE HttpClient -----------------------------
(***************************************************************************)
(* Client.Do of internal/httpclient/client.go: the retry loop around       *)
(* DoOnce for the callers that wait for their response. The requests share *)
(* the client's cache of failing hosts.                                    *)
(***************************************************************************)
EXTENDS HttpRetry

CONSTANTS
    Requests,     \* concurrent calls of Do
    RequestHost,  \* Requests -> its host
    FastFail,     \* the requests with the fast-fail flag in their context
    MaxExpires    \* bound: entries of badHosts that reach the end of their time

ASSUME ClientAssumption == FastFail \subseteq Requests /\ MaxExpires \in Nat

RequestHosts == {RequestHost[r] : r \in Requests}

VARIABLES
    doPc,         \* control state of each call
    doAttempts,   \* Request.attempts
    left,         \* time left of its backoff
    doBadHosts,   \* hosts marked as failing
    doCancelled,  \* requests whose context is done
    triesBad,     \* history: attempts made since its host is marked
    expires       \* number of expired entries

doVars == <<doPc, doAttempts, left, doBadHosts, doCancelled, triesBad, expires>>

DoTypeOK ==
    /\ doPc \in [Requests -> {"idle", "attempt", "backoff", "response", "error"}]
    /\ doAttempts \in [Requests -> 0..(Retries + 1)]
    /\ left \in [Requests -> Nat]
    /\ doBadHosts \subseteq RequestHosts
    /\ doCancelled \subseteq Requests
    /\ triesBad \in [Requests -> Nat]
    /\ expires \in 0..MaxExpires

DoInit ==
    /\ doPc = [r \in Requests |-> "idle"]
    /\ doAttempts = [r \in Requests |-> 0]
    /\ left = [r \in Requests |-> 0]
    /\ doBadHosts = {} /\ doCancelled = {}
    /\ triesBad = [r \in Requests |-> 0]
    /\ expires = 0

DoGoto(r, l) == doPc' = [doPc EXCEPT ![r] = l]

-----------------------------------------------------------------------------
\* Do is called with a request ValidateRequest accepts, or not.
Begin(r) ==
    /\ doPc[r] = "idle"
    /\ DoGoto(r, "attempt") \/ DoGoto(r, "error")
    /\ UNCHANGED <<doAttempts, left, doBadHosts, doCancelled, triesBad, expires>>

\* One DoOnce; a request that may be retried starts its backoff timer unless
\* it is to fail fast.
DoAttempt(r, out) ==
    LET o == DoOnce(doAttempts[r], RequestHost[r] \in doBadHosts, out)
    IN  /\ doPc[r] = "attempt"
        /\ r \in doCancelled => out.kind = "fatal"
        /\ doAttempts' = [doAttempts EXCEPT ![r] = o.attempts]
        /\ triesBad' = [triesBad EXCEPT ![r] = IF RequestHost[r] \in doBadHosts THEN @ + 1 ELSE 0]
        /\ doBadHosts' = IF o.mark THEN doBadHosts \cup {RequestHost[r]} ELSE doBadHosts
        /\ IF o.retry /\ r \notin FastFail
           THEN left' = [left EXCEPT ![r] = BackOff(o.attempts, out.after)] /\ DoGoto(r, "backoff")
           ELSE DoGoto(r, IF o.ok THEN "response" ELSE "error") /\ UNCHANGED left
        /\ UNCHANGED <<doCancelled, expires>>

\* Mutant: the timer is stopped too early, and only the context ends the wait.
EndBackoff_TimerStopped(r) ==
    /\ doPc[r] = "backoff" /\ left[r] = 0 /\ r \in doCancelled
    /\ DoGoto(r, "attempt")
    /\ UNCHANGED <<doAttempts, left, doBadHosts, doCancelled, triesBad, expires>>

EndBackoff(r) ==
    /\ doPc[r] = "backoff" /\ left[r] = 0
    /\ DoGoto(r, "attempt")
    /\ UNCHANGED <<doAttempts, left, doBadHosts, doCancelled, triesBad, expires>>

\* The context is done during the backoff.
DoContextDone(r) ==
    /\ doPc[r] = "backoff" /\ r \in doCancelled
    /\ DoGoto(r, "error")
    /\ UNCHANGED <<doAttempts, left, doBadHosts, doCancelled, triesBad, expires>>

Cancel(r) ==
    /\ r \notin doCancelled /\ doPc[r] \notin {"response", "error"}
    /\ doCancelled' = doCancelled \cup {r}
    /\ UNCHANGED <<doPc, doAttempts, left, doBadHosts, triesBad, expires>>

DoTick ==
    /\ \E r \in Requests : left[r] > 0
    /\ left' = [r \in Requests |-> IF left[r] > 0 THEN left[r] - 1 ELSE 0]
    /\ UNCHANGED <<doPc, doAttempts, doBadHosts, doCancelled, triesBad, expires>>

\* An entry of badHosts reaches the end of its hour.
DoExpire(h) ==
    /\ h \in doBadHosts /\ expires < MaxExpires
    /\ doBadHosts' = doBadHosts \ {h}
    /\ triesBad' = [r \in Requests |-> IF RequestHost[r] = h THEN 0 ELSE triesBad[r]]
    /\ expires' = expires + 1
    /\ UNCHANGED <<doPc, doAttempts, left, doCancelled>>

Do(r) == (\E out \in Outcomes : DoAttempt(r, out)) \/ EndBackoff(r) \/ DoContextDone(r)

DoNext ==
    \/ \E r \in Requests : Begin(r) \/ Do(r) \/ Cancel(r)
    \/ \E h \in RequestHosts : DoExpire(h)
    \/ DoTick

DoSpec == DoInit /\ [][DoNext]_doVars

\* Attempts end (the client has a timeout) and time passes.
DoFairSpec == DoSpec /\ WF_doVars(DoTick) /\ \A r \in Requests : WF_doVars(Do(r))

-----------------------------------------------------------------------------
(***************************************************************************)
(* Properties                                                              *)
(***************************************************************************)

\* As soon as one request has exhausted its retries against a host, every other
\* request to that host makes at most one more attempt.
BadHostStopsOthers == \A r \in Requests : triesBad[r] <= 1

\* Every call of Do returns.
DoReturns == \A r \in Requests : (doPc[r] # "idle") ~> (doPc[r] \in {"response", "error"})

=============================================================================
