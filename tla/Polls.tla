-------------------------------- MODULE Polls --------------------------------
(***************************************************************************)
(* A local status with a poll: its author creates and deletes it, accounts *)
(* here and elsewhere vote, the scheduler closes it when it expires and a  *)
(* client worker announces the result. The process may end at any step and *)
(* is started again; a graceful stop ends it at a step where the workers   *)
(* are idle.                                                               *)
(*                                                                         *)
(* A vote is its account: the choices only decide which of the counters    *)
(* goes up. The poll's entry in the result cache is filled by lookups and  *)
(* stores and emptied by invalidation; a lookup that misses reads the row  *)
(* and stores what it read in two steps, which are those of View for every *)
(* caller.                                                                 *)
(***************************************************************************)
EXTENDS Naturals, FiniteSets

CONSTANTS
    Requests,    \* votes that are sent, repetitions included
    VoterOf,     \* the account that sent each of them
    Remote,      \* requests from other servers
    MaxTroubles  \* bound: ends of the process and failing database calls, together

Voters == {VoterOf[r] : r \in Requests}

ASSUME PollsAssumption ==
    /\ IsFiniteSet(Requests) /\ DOMAIN VoterOf = Requests /\ Remote \subseteq Requests
    /\ MaxTroubles \in Nat

VARIABLES
    isolated,   \* transactions that write exclude each other (SQLite, not PostgreSQL)
    poll,       \* row of the poll
    status,     \* row of the status: "none", "there", "gone"
    votes,      \* rows of poll_votes, by account
    cache,      \* cached poll
    sch,        \* scheduler: up, names of tasks, queued jobs
    author,     \* next call of Create: "poll", "status", "schedule", "done"
    wiper,      \* next call of wipeStatus: "idle", "poll", "votes", "cancel", "status", "done"
    vote,       \* each request: its next call, and the count its transaction read
    expiry,     \* onExpiry: next call and the poll it works with
    view,       \* a lookup between reading the row and caching it
    queued,     \* Update messages with a closing poll in the client queue
    announced,  \* announcements of the poll's end
    expired,    \* ExpiresAt has passed
    crashes, faults

volatile == <<cache, sch, author, wiper, vote, expiry, view, queued>>
vars == <<isolated, poll, status, votes, announced, expired, crashes, faults, volatile>>

Copy     == [closed : BOOLEAN, count : Nat]
NoCopy   == [closed |-> FALSE, count |-> 0, none |-> TRUE]
IdleTask == [pc |-> "idle", poll |-> NoCopy]

TypeOK ==
    /\ isolated \in BOOLEAN /\ expired \in BOOLEAN
    /\ poll \in [at : {"none", "open", "closed", "gone"}, count : Nat]
    /\ status \in {"none", "there", "gone"} /\ votes \subseteq Voters
    /\ cache \in Copy \cup {NoCopy} /\ view \in Copy \cup {NoCopy}
    /\ sch \in [up : BOOLEAN, tasks : SUBSET {"poll", "sweep"}, jobs : SUBSET {"poll", "sweep"}]
    /\ author \in {"poll", "status", "schedule", "done"}
    /\ wiper \in {"idle", "poll", "votes", "cancel", "status", "done"}
    /\ vote \in [Requests -> [pc : {"new", "insert", "commit", "done"}, read : Nat]]
    /\ expiry \in [pc : {"idle", "get", "update", "push"}, poll : Copy \cup {NoCopy}]
    /\ queued \in 0..2 /\ announced \in 0..2
    /\ crashes \in 0..MaxTroubles /\ faults \in 0..MaxTroubles

-----------------------------------------------------------------------------
(***************************************************************************)
(* The scheduler                                                           *)
(***************************************************************************)
Stopped == [up |-> FALSE, tasks |-> {}, jobs |-> {}]

\* A task whose id is known is not added again. It stays in the map when its
\* job has run.
Schedule(s, id) ==
    IF id \in s.tasks THEN s
    ELSE [s EXCEPT !.tasks = @ \cup {id}, !.jobs = @ \cup {id}]

Cancel(s, id) == IF id \in s.tasks THEN [s EXCEPT !.tasks = @ \ {id}, !.jobs = @ \ {id}] ELSE s

RunOnce(s, id) == [s EXCEPT !.jobs = @ \ {id}]

-----------------------------------------------------------------------------
Trouble == crashes + faults < MaxTroubles
Fault   == Trouble /\ faults' = faults + 1

InTx == {r \in Requests : vote[r].pc = "commit"}

\* A write waits for the transactions that are open.
MayWrite == isolated => InTx = {}

Row      == [closed |-> poll.at = "closed", count |-> poll.count]
HasRow   == poll.at \in {"open", "closed"}

\* GetPollByID: from the cache, or from the row and then cached.
Lookup == IF cache # NoCopy THEN cache ELSE IF HasRow THEN Row ELSE NoCopy

NewRequest == [pc |-> "new", read |-> 0]

Init ==
    /\ isolated \in BOOLEAN
    /\ poll = [at |-> "none", count |-> 0] /\ status = "none" /\ votes = {}
    /\ cache = NoCopy /\ view = NoCopy
    /\ sch = Schedule([Stopped EXCEPT !.up = TRUE], "sweep")
    /\ author = "poll" /\ wiper = "idle" /\ expiry = IdleTask
    /\ vote = [r \in Requests |-> NewRequest]
    /\ queued = 0 /\ announced = 0 /\ expired = FALSE /\ crashes = 0 /\ faults = 0

-----------------------------------------------------------------------------
(***************************************************************************)
(* Create                                                                  *)
(***************************************************************************)
PutPoll ==
    /\ sch.up /\ author = "poll" /\ MayWrite
    /\ \/ /\ poll' = [poll EXCEPT !.at = "open"] /\ cache' = [closed |-> FALSE, count |-> 0]
          /\ author' = "status" /\ UNCHANGED faults
       \/ Fault /\ author' = "done" /\ UNCHANGED <<poll, cache>>
    /\ UNCHANGED <<isolated, status, votes, sch, wiper, vote, expiry, view, queued, announced,
                   expired, crashes>>

PutStatus ==
    /\ sch.up /\ author = "status" /\ MayWrite
    /\ \/ status' = "there" /\ cache' = NoCopy /\ author' = "schedule" /\ UNCHANGED faults
       \/ Fault /\ author' = "done" /\ UNCHANGED <<status, cache>>
    /\ UNCHANGED <<isolated, poll, votes, sch, wiper, vote, expiry, view, queued, announced,
                   expired, crashes>>

ScheduleExpiry ==
    /\ sch.up /\ author = "schedule"
    /\ sch' = Schedule(sch, "poll")
    /\ author' = "done"
    /\ UNCHANGED <<isolated, poll, status, votes, cache, wiper, vote, expiry, view, queued,
                   announced, expired, crashes, faults>>

-----------------------------------------------------------------------------
(***************************************************************************)
(* Votes                                                                   *)
(***************************************************************************)
\* PollVote: the poll must be open.
CheckLocal(r) ==
    /\ sch.up /\ r \notin Remote /\ vote[r].pc = "new" /\ status = "there"
    /\ LET p == Lookup IN
           /\ cache' = p
           /\ vote' = [vote EXCEPT ![r].pc = IF p = NoCopy \/ p.closed THEN "done" ELSE "insert"]
    /\ UNCHANGED <<isolated, poll, status, votes, sch, author, wiper, expiry, view, queued,
                   announced, expired, crashes, faults>>

\* createPollOptionables: only whether the account has voted counts.
CheckRemote(r) ==
    /\ sch.up /\ r \in Remote /\ vote[r].pc = "new" /\ status = "there"
    /\ LET p == Lookup IN
           /\ cache' = p
           /\ vote' = [vote EXCEPT ![r].pc =
                          IF p = NoCopy \/ VoterOf[r] \in votes THEN "done" ELSE "insert"]
    /\ UNCHANGED <<isolated, poll, status, votes, sch, author, wiper, expiry, view, queued,
                   announced, expired, crashes, faults>>

\* Mutant: the count is that of the cached poll.
Insert_CachedCount(r) ==
    /\ sch.up /\ vote[r].pc = "insert" /\ MayWrite
    /\ \A q \in InTx : VoterOf[q] # VoterOf[r]
    /\ HasRow /\ VoterOf[r] \notin votes
    /\ vote' = [vote EXCEPT ![r] = [pc |-> "commit", read |-> Lookup.count]]
    /\ UNCHANGED <<isolated, poll, status, votes, cache, sch, author, wiper, expiry, view,
                   queued, announced, expired, crashes, faults>>

\* PutPollVote: the vote is inserted and the count read; another transaction
\* with the same account is waited for.
Insert(r) ==
    /\ sch.up /\ vote[r].pc = "insert" /\ MayWrite
    /\ \A q \in InTx : VoterOf[q] # VoterOf[r]
    /\ HasRow /\ VoterOf[r] \notin votes
    /\ vote' = [vote EXCEPT ![r] = [pc |-> "commit", read |-> poll.count]]
    /\ UNCHANGED <<isolated, poll, status, votes, cache, sch, author, wiper, expiry, view,
                   queued, announced, expired, crashes, faults>>

\* The account has voted, the poll is gone, or the call fails. The hook of the
\* vote's cache runs all the same.
InsertFails(r) ==
    /\ sch.up /\ vote[r].pc = "insert" /\ MayWrite
    /\ \/ (~HasRow \/ VoterOf[r] \in votes) /\ UNCHANGED faults
       \/ Fault
    /\ vote' = [vote EXCEPT ![r].pc = "done"]
    /\ cache' = NoCopy
    /\ UNCHANGED <<isolated, poll, status, votes, sch, author, wiper, expiry, view, queued,
                   announced, expired, crashes>>

\* The hook of the vote's cache empties that of the poll.
Commit(r) ==
    /\ sch.up /\ vote[r].pc = "commit"
    /\ votes' = votes \cup {VoterOf[r]}
    /\ poll' = [poll EXCEPT !.count = IF HasRow THEN vote[r].read + 1 ELSE @]
    /\ cache' = NoCopy
    /\ vote' = [vote EXCEPT ![r] = [pc |-> "done", read |-> 0]]
    /\ UNCHANGED <<isolated, status, sch, author, wiper, expiry, view, queued,
                   announced, expired, crashes, faults>>

-----------------------------------------------------------------------------
(***************************************************************************)
(* The end of the poll                                                     *)
(***************************************************************************)
Expire ==
    /\ ~expired /\ expired' = TRUE
    /\ UNCHANGED <<isolated, poll, status, votes, announced, crashes, faults, volatile>>

\* The job runs in a goroutine of its own.
RunJob ==
    /\ sch.up /\ "poll" \in sch.jobs /\ expired
    /\ sch' = RunOnce(sch, "poll")
    /\ expiry' = [IdleTask EXCEPT !.pc = "get"]
    /\ UNCHANGED <<isolated, poll, status, votes, cache, author, wiper, vote, view, queued,
                   announced, expired, crashes, faults>>

\* onExpiry: the poll and its status must be there, and open.
ExpiryGet ==
    /\ sch.up /\ expiry.pc = "get"
    /\ \/ /\ LET p == Lookup IN
                /\ cache' = p
                /\ expiry' = IF p = NoCopy \/ p.closed \/ status # "there" THEN IdleTask
                             ELSE [pc |-> "update", poll |-> p]
          /\ UNCHANGED faults
       \/ Fault /\ expiry' = IdleTask /\ UNCHANGED cache
    /\ UNCHANGED <<isolated, poll, status, votes, sch, author, wiper, vote, view, queued,
                   announced, expired, crashes>>

\* Mutant: an error is logged and the update is sent all the same.
UpdatePoll_ErrorDropped ==
    /\ sch.up /\ expiry.pc = "update" /\ MayWrite
    /\ \/ poll' = [poll EXCEPT !.at = IF HasRow THEN "closed" ELSE @] /\ UNCHANGED faults
       \/ Fault /\ UNCHANGED poll
    /\ cache' = [expiry.poll EXCEPT !.closed = TRUE]
    /\ expiry' = [expiry EXCEPT !.pc = "push"]
    /\ UNCHANGED <<isolated, status, votes, sch, author, wiper, vote, view, queued, announced,
                   expired, crashes>>

\* Mutant: the check of the error is the wrong way round.
UpdatePoll_Returns ==
    /\ sch.up /\ expiry.pc = "update" /\ MayWrite
    /\ \/ /\ poll' = [poll EXCEPT !.at = IF HasRow THEN "closed" ELSE @]
          /\ cache' = [expiry.poll EXCEPT !.closed = TRUE]
          /\ expiry' = IdleTask /\ UNCHANGED faults
       \/ Fault /\ expiry' = [expiry EXCEPT !.pc = "push"] /\ UNCHANGED <<poll, cache>>
    /\ UNCHANGED <<isolated, status, votes, sch, author, wiper, vote, view, queued, announced,
                   expired, crashes>>

\* closed_at is set where there is a row, and the poll in hand is cached with
\* the count it was read with.
UpdatePoll ==
    /\ sch.up /\ expiry.pc = "update" /\ MayWrite
    /\ \/ /\ poll' = [poll EXCEPT !.at = IF HasRow THEN "closed" ELSE @]
          /\ cache' = [expiry.poll EXCEPT !.closed = TRUE]
          /\ expiry' = [expiry EXCEPT !.pc = "push"] /\ UNCHANGED faults
       \/ Fault /\ expiry' = IdleTask /\ UNCHANGED <<poll, cache>>
    /\ UNCHANGED <<isolated, status, votes, sch, author, wiper, vote, view, queued, announced,
                   expired, crashes>>

ExpiryPush ==
    /\ sch.up /\ expiry.pc = "push"
    /\ queued' = queued + 1
    /\ expiry' = IdleTask
    /\ UNCHANGED <<isolated, poll, status, votes, cache, sch, author, wiper, vote, view,
                   announced, expired, crashes, faults>>

\* A client worker federates the status and notifies the voters.
UpdateStatus ==
    /\ sch.up /\ queued > 0
    /\ queued' = queued - 1
    /\ announced' = announced + 1
    /\ UNCHANGED <<isolated, poll, status, votes, cache, sch, author, wiper, vote, expiry,
                   view, expired, crashes, faults>>

-----------------------------------------------------------------------------
(***************************************************************************)
(* wipeStatus: an error is noted and the next call is made                 *)
(***************************************************************************)
Delete ==
    /\ sch.up /\ wiper = "idle" /\ status = "there"
    /\ wiper' = "poll"
    /\ UNCHANGED <<isolated, poll, status, votes, cache, sch, author, vote, expiry, view,
                   queued, announced, expired, crashes, faults>>

\* Mutant: the votes are deleted before the poll.
Wipes_VotesFirst(call, next) ==
    /\ sch.up /\ MayWrite
    /\ wiper = (IF call = "poll" THEN "votes" ELSE IF call = "votes" THEN "poll" ELSE call)
    /\ wiper' = (IF call = "poll" THEN "cancel" ELSE IF call = "votes" THEN "votes" ELSE next)

Wipes(call, next) == sch.up /\ MayWrite /\ wiper = call /\ wiper' = next

DeletePollByID ==
    /\ Wipes("poll", "votes")
    /\ \/ poll' = [at |-> "gone", count |-> 0] /\ cache' = NoCopy /\ UNCHANGED faults
       \/ Fault /\ UNCHANGED <<poll, cache>>
    /\ UNCHANGED <<isolated, status, votes, sch, author, vote, expiry, view, queued, announced,
                   expired, crashes>>

DeletePollVotes ==
    /\ Wipes("votes", "cancel")
    /\ \/ /\ votes' = {} /\ cache' = NoCopy /\ UNCHANGED faults
          /\ poll' = [poll EXCEPT !.count = IF votes # {} THEN 0 ELSE @]
       \/ Fault /\ UNCHANGED <<poll, votes, cache>>
    /\ UNCHANGED <<isolated, status, sch, author, vote, expiry, view, queued, announced,
                   expired, crashes>>

CancelExpiry ==
    /\ Wipes("cancel", "status")
    /\ sch' = Cancel(sch, "poll")
    /\ UNCHANGED <<isolated, poll, status, votes, cache, author, vote, expiry, view, queued,
                   announced, expired, crashes, faults>>

DeleteStatusByID ==
    /\ Wipes("status", "done")
    /\ \/ status' = "gone" /\ cache' = NoCopy /\ UNCHANGED faults
       \/ Fault /\ UNCHANGED <<status, cache>>
    /\ UNCHANGED <<isolated, poll, votes, sch, author, vote, expiry, view, queued, announced,
                   expired, crashes>>

-----------------------------------------------------------------------------
(***************************************************************************)
(* Other users of the cache, and the process                               *)
(***************************************************************************)
ViewReads ==
    /\ sch.up /\ cache = NoCopy /\ view = NoCopy /\ HasRow
    /\ view' = Row
    /\ UNCHANGED <<isolated, poll, status, votes, cache, sch, author, wiper, vote, expiry,
                   queued, announced, expired, crashes, faults>>

ViewCaches ==
    /\ sch.up /\ view # NoCopy
    /\ cache' = view /\ view' = NoCopy
    /\ UNCHANGED <<isolated, poll, status, votes, sch, author, wiper, vote, expiry, queued,
                   announced, expired, crashes, faults>>

\* The job that sweeps the caches every minute.
Sweep ==
    /\ sch.up /\ "sweep" \in sch.jobs
    /\ cache' = NoCopy
    /\ UNCHANGED <<isolated, poll, status, votes, sch, author, wiper, vote, expiry, view,
                   queued, announced, expired, crashes, faults>>

\* What is not in the database is gone; other servers send their votes again.
Crash ==
    /\ sch.up /\ Trouble /\ crashes' = crashes + 1
    /\ sch' = Stopped /\ cache' = NoCopy /\ view' = NoCopy /\ expiry' = IdleTask /\ queued' = 0
    /\ author' = "done"
    /\ wiper' = IF wiper = "idle" THEN "idle" ELSE "done"
    /\ vote' = [r \in Requests |-> IF vote[r].pc = "new" \/ r \in Remote THEN NewRequest
                                   ELSE [pc |-> "done", read |-> 0]]
    /\ UNCHANGED <<isolated, poll, status, votes, announced, expired, faults>>

\* Mutant: polls that are past their end are not scheduled.
ScheduleAll_NotExpired == {p \in {"poll"} : poll.at = "open" /\ status = "there" /\ ~expired}

\* Open polls of local statuses; the job of one that is past its end is due.
ScheduleAll == {p \in {"poll"} : poll.at = "open" /\ status = "there"}

Start ==
    /\ ~sch.up
    /\ LET s == Schedule([Stopped EXCEPT !.up = TRUE], "sweep")
       IN  sch' = IF "poll" \in ScheduleAll THEN Schedule(s, "poll") ELSE s
    /\ cache' = IF "poll" \in ScheduleAll THEN Row ELSE NoCopy
    /\ UNCHANGED <<isolated, poll, status, votes, author, wiper, vote, expiry, view, queued,
                   announced, expired, crashes, faults>>

Create  == PutPoll \/ PutStatus \/ ScheduleExpiry
Vote(r) == \/ CheckLocal(r) \/ CheckRemote(r)
           \/ Insert(r) \/ InsertFails(r) \/ Commit(r)
onExpiry   == ExpiryGet \/ UpdatePoll \/ ExpiryPush
wipeStatus == DeletePollByID \/ DeletePollVotes \/ CancelExpiry \/ DeleteStatusByID

Next ==
    \/ Create \/ Expire \/ RunJob \/ onExpiry \/ UpdateStatus
    \/ \E r \in Requests : Vote(r)
    \/ Delete \/ wipeStatus
    \/ ViewReads \/ ViewCaches \/ Sweep \/ Crash \/ Start

Spec == Init /\ [][Next]_vars

\* Goroutines go on, due jobs run, the process is started again.
Fairness ==
    /\ WF_vars(Create) /\ WF_vars(RunJob) /\ WF_vars(onExpiry) /\ WF_vars(UpdateStatus)
    /\ WF_vars(wipeStatus) /\ WF_vars(Start)
    /\ \A r \in Requests : WF_vars(Commit(r))

FairSpec == Spec /\ Fairness

-----------------------------------------------------------------------------
(***************************************************************************)
(* Properties                                                              *)
(***************************************************************************)
\* Where writes exclude each other, the count of a poll that is there is the
\* number of its votes, whatever voters, deletion, failures and crashes do.
VotesCounted == isolated /\ HasRow => poll.count = Cardinality(votes)

\* Where they do, a deleted status leaves no votes behind: one that was being
\* stored is deleted or rolled back. A failure or a crash in between may leave some.
NoVotesLeft == isolated /\ wiper = "done" /\ crashes + faults = 0 => votes = {}

\* The end of a poll is announced at most once, and only when it is stored, so
\* that a restart does not open the poll again.
AnnouncedOnce ==
    /\ announced + queued <= 1
    /\ announced + queued > 0 => poll.at \in {"closed", "gone"}

\* A poll whose time has come is closed or deleted in the end, through crashes at
\* any step: while it is created, while it is down when the poll expires, while it
\* is closed.
PollCloses ==
    poll.at = "open" /\ status = "there" /\ expired ~> poll.at # "open" \/ faults > 0

\* A poll that is closed is announced, unless the process ends in between.
EndAnnounced == poll.at = "closed" ~> announced > 0 \/ crashes > 0
==============================================================================
