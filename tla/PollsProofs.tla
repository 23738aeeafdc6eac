----------------------------- MODULE PollsProofs -----------------------------
(***************************************************************************)
(* Proofs about Polls, for any requests, any senders and any number of     *)
(* crashes and failing calls: types, that the count is that of the votes,  *)
(* that a deleted status leaves no votes, and that the end of a poll is    *)
(* announced once.                                                         *)
(***************************************************************************)
EXTENDS Polls, FiniteSetTheorems, TLAPS

\* Until the poll is stored there is nothing of it: no votes, no status.
BeforePoll ==
    /\ author = "poll" => poll.at = "none"
    /\ author = "status" => poll.at # "none"
    /\ poll.at = "none" => poll.count = 0 /\ votes = {} /\ InTx = {} /\ status = "none"
    /\ wiper # "idle" => status # "none"
    /\ IsFiniteSet(votes)

\* Where writes exclude each other one transaction at most is open; it has read
\* the count of the row that is there, and its vote is new.
TxAlone ==
    isolated =>
        /\ \A q, r \in InTx : q = r
        /\ \A r \in InTx : HasRow /\ vote[r].read = poll.count /\ VoterOf[r] \notin votes

\* Where they do and nothing fails, the poll is deleted before its votes are.
WipedInOrder ==
    isolated /\ crashes + faults = 0 =>
        /\ wiper \in {"votes", "cancel", "status", "done"} => poll.at = "gone"
        /\ wiper \in {"cancel", "status", "done"} => votes = {}

\* A process that is down does nothing.
DownIsQuiet == ~sch.up => expiry.pc = "idle" /\ queued = 0 /\ author = "done"

\* There is one announcement to come at most: as a job, in onExpiry, in the
\* client queue, or made. While the status is being created there is none.
OneToken ==
    /\ author # "done" => "poll" \notin sch.jobs
    /\ author # "done" \/ "poll" \in sch.jobs => expiry.pc = "idle" /\ queued + announced = 0
    /\ expiry.pc # "idle" => queued + announced = 0

\* onExpiry works on a poll that was stored, and pushes one that is closed.
ExpiryKnows ==
    /\ expiry.pc = "update" => poll.at # "none" /\ expiry.poll # NoCopy
    /\ expiry.pc = "push" => poll.at \in {"closed", "gone"}

\* What there is to say of votes, and of the announcement.
VoteInv  == BeforePoll /\ TxAlone /\ WipedInOrder /\ VotesCounted
TokenInv == DownIsQuiet /\ OneToken /\ ExpiryKnows /\ AnnouncedOnce

\* The inductive invariant.
PollsInv == TypeOK /\ VoteInv /\ TokenInv

-----------------------------------------------------------------------------
\* The poll as it is read is a copy, or none.
LEMMA LookupType ==
    ASSUME TypeOK  PROVE Row \in Copy /\ Lookup \in Copy \cup {NoCopy}
    <1>1. Row \in Copy
        BY DEF TypeOK, Row, Copy
    <1>2. QED  BY <1>1 DEF TypeOK, Lookup

\* Troubles are counted and bounded.
LEMMA TroubleTypes ==
    ASSUME TypeOK, Trouble
    PROVE  crashes + 1 \in 0..MaxTroubles /\ faults + 1 \in 0..MaxTroubles
    BY PollsAssumption DEF TypeOK, Trouble

\* Scheduling and cancelling keep the scheduler's types.
LEMMA SchedulerTypes ==
    ASSUME NEW s \in [up : BOOLEAN, tasks : SUBSET {"poll", "sweep"}, jobs : SUBSET {"poll", "sweep"}],
           NEW id \in {"poll", "sweep"}
    PROVE  /\ Schedule(s, id) \in [up : BOOLEAN, tasks : SUBSET {"poll", "sweep"}, jobs : SUBSET {"poll", "sweep"}]
           /\ Cancel(s, id) \in [up : BOOLEAN, tasks : SUBSET {"poll", "sweep"}, jobs : SUBSET {"poll", "sweep"}]
           /\ RunOnce(s, id) \in [up : BOOLEAN, tasks : SUBSET {"poll", "sweep"}, jobs : SUBSET {"poll", "sweep"}]
           /\ Schedule(s, id).up = s.up /\ Cancel(s, id).up = s.up /\ RunOnce(s, id).up = s.up
           /\ Schedule(s, id).jobs \subseteq s.jobs \cup {id}
           /\ Cancel(s, id).jobs \subseteq s.jobs
           /\ RunOnce(s, id).jobs = s.jobs \ {id}
    BY DEF Schedule, Cancel, RunOnce

\* A fresh poll, and one that is closed in hand, are copies.
LEMMA CopyTypes ==
    /\ [closed |-> FALSE, count |-> 0] \in Copy
    /\ \A c \in Copy : [c EXCEPT !.closed = TRUE] \in Copy
    BY DEF Copy

\* Creating the status keeps the types.
LEMMA CreateTypes == ASSUME TypeOK, Create  PROVE TypeOK'
    <1>1. CASE PutPoll
        <2> USE <1>1 DEF PutPoll, Fault
        <2>1. poll' \in [at : {"none", "open", "closed", "gone"}, count : Nat]
            BY DEF TypeOK
        <2>2. cache' \in Copy \cup {NoCopy}
            BY CopyTypes DEF TypeOK
        <2>3. faults' \in 0..MaxTroubles
            BY TroubleTypes DEF TypeOK
        <2>4. author' \in {"poll", "status", "schedule", "done"}
            BY DEF TypeOK
        <2>5. QED  BY <2>1, <2>2, <2>3, <2>4 DEF TypeOK
    <1>2. CASE PutStatus
        <2> USE <1>2 DEF PutStatus, Fault
        <2>1. cache' \in Copy \cup {NoCopy}
            BY DEF TypeOK
        <2>2. faults' \in 0..MaxTroubles
            BY TroubleTypes DEF TypeOK
        <2>3. author' \in {"poll", "status", "schedule", "done"} /\ status' \in {"none", "there", "gone"}
            BY DEF TypeOK
        <2>4. QED  BY <2>1, <2>2, <2>3 DEF TypeOK
    <1>3. CASE ScheduleExpiry
        <2>1. sch' \in [up : BOOLEAN, tasks : SUBSET {"poll", "sweep"}, jobs : SUBSET {"poll", "sweep"}]
            BY <1>3, SchedulerTypes DEF ScheduleExpiry, TypeOK
        <2>2. QED  BY <1>3, <2>1 DEF ScheduleExpiry, TypeOK
    <1>4. QED  BY <1>1, <1>2, <1>3 DEF Create

\* Voting keeps the types.
LEMMA VoteTypes == ASSUME TypeOK, NEW r \in Requests, Vote(r)  PROVE TypeOK'
    <1>1. CASE CheckLocal(r) \/ CheckRemote(r)
        <2>1. PICK l \in {"done", "insert"} : vote' = [vote EXCEPT ![r].pc = l]
            BY <1>1 DEF CheckLocal, CheckRemote
        <2>2. vote' \in [Requests -> [pc : {"new", "insert", "commit", "done"}, read : Nat]]
            BY <2>1 DEF TypeOK
        <2>3. cache' \in Copy \cup {NoCopy}
            BY <1>1, LookupType DEF CheckLocal, CheckRemote
        <2>4. QED  BY <1>1, <2>2, <2>3 DEF CheckLocal, CheckRemote, TypeOK
    <1>2. CASE Insert(r)
        <2>1. vote' \in [Requests -> [pc : {"new", "insert", "commit", "done"}, read : Nat]]
            BY <1>2 DEF Insert, TypeOK
        <2>2. QED  BY <1>2, <2>1 DEF Insert, TypeOK
    <1>3. CASE InsertFails(r)
        <2>1. vote' \in [Requests -> [pc : {"new", "insert", "commit", "done"}, read : Nat]]
            BY <1>3 DEF InsertFails, TypeOK
        <2>2. faults' \in 0..MaxTroubles
            BY <1>3, TroubleTypes DEF InsertFails, Fault, TypeOK
        <2>3. QED  BY <1>3, <2>1, <2>2 DEF InsertFails, TypeOK
    <1>4. CASE Commit(r)
        <2>1. vote' \in [Requests -> [pc : {"new", "insert", "commit", "done"}, read : Nat]]
            BY <1>4 DEF Commit, TypeOK
        <2>2. vote[r].read + 1 \in Nat
            BY DEF TypeOK
        <2>3. poll' \in [at : {"none", "open", "closed", "gone"}, count : Nat]
            BY <1>4, <2>2 DEF Commit, TypeOK
        <2>4. votes' \subseteq Voters
            BY <1>4 DEF Commit, TypeOK, Voters
        <2>5. QED  BY <1>4, <2>1, <2>3, <2>4 DEF Commit, TypeOK
    <1>5. QED  BY <1>1, <1>2, <1>3, <1>4 DEF Vote

\* So does the end of the poll: an announcement is one of at most two.
LEMMA ExpiryTypes ==
    ASSUME PollsInv, Expire \/ RunJob \/ onExpiry \/ UpdateStatus  PROVE TypeOK'
    <1> USE DEF PollsInv
    <1>0. queued \in Nat /\ announced \in Nat /\ queued + announced <= 1
        BY DEF TypeOK, TokenInv, AnnouncedOnce
    <1>1. CASE Expire
        BY <1>1 DEF Expire, volatile, TypeOK
    <1>2. CASE RunJob
        <2>1. sch' \in [up : BOOLEAN, tasks : SUBSET {"poll", "sweep"}, jobs : SUBSET {"poll", "sweep"}]
            BY <1>2, SchedulerTypes DEF RunJob, TypeOK
        <2>2. expiry' \in [pc : {"idle", "get", "update", "push"}, poll : Copy \cup {NoCopy}]
            BY <1>2 DEF RunJob, IdleTask
        <2>3. QED  BY <1>2, <2>1, <2>2 DEF RunJob, TypeOK
    <1>3. CASE ExpiryGet
        <2> USE <1>3 DEF ExpiryGet, Fault
        <2>1. Lookup \in Copy \cup {NoCopy}
            BY LookupType
        <2>2. cache' \in Copy \cup {NoCopy}
            BY <2>1 DEF TypeOK
        <2>3. expiry' \in [pc : {"idle", "get", "update", "push"}, poll : Copy \cup {NoCopy}]
            BY <2>1 DEF IdleTask
        <2>4. faults' \in 0..MaxTroubles
            BY TroubleTypes DEF TypeOK
        <2>5. QED  BY <2>2, <2>3, <2>4 DEF TypeOK
    <1>4. CASE UpdatePoll
        <2> USE <1>4 DEF UpdatePoll, Fault
        <2>1. expiry.poll \in Copy
            BY DEF TypeOK, TokenInv, ExpiryKnows
        <2>2. cache' \in Copy \cup {NoCopy}
            BY <2>1, CopyTypes DEF TypeOK
        <2>3. expiry' \in [pc : {"idle", "get", "update", "push"}, poll : Copy \cup {NoCopy}]
            BY DEF IdleTask, TypeOK
        <2>4. poll' \in [at : {"none", "open", "closed", "gone"}, count : Nat]
            BY DEF TypeOK
        <2>5. faults' \in 0..MaxTroubles
            BY TroubleTypes DEF TypeOK
        <2>6. QED  BY <2>2, <2>3, <2>4, <2>5 DEF TypeOK
    <1>5. CASE ExpiryPush
        <2>1. expiry' \in [pc : {"idle", "get", "update", "push"}, poll : Copy \cup {NoCopy}]
            BY <1>5 DEF ExpiryPush, IdleTask
        <2>2. queued' \in 0..2
            BY <1>0, <1>5 DEF ExpiryPush
        <2>3. QED  BY <1>5, <2>1, <2>2 DEF ExpiryPush, TypeOK
    <1>6. CASE UpdateStatus
        <2>1. queued' \in 0..2 /\ announced' \in 0..2
            BY <1>0, <1>6 DEF UpdateStatus
        <2>2. QED  BY <1>6, <2>1 DEF UpdateStatus, TypeOK
    <1>7. QED  BY <1>1, <1>2, <1>3, <1>4, <1>5, <1>6 DEF onExpiry

\* So do deletion, other lookups and the process.
LEMMA OtherTypes ==
    ASSUME TypeOK, Delete \/ wipeStatus \/ ViewReads \/ ViewCaches \/ Sweep \/ Crash \/ Start
    PROVE  TypeOK'
    <1>1. CASE Delete
        BY <1>1 DEF Delete, TypeOK
    <1>2. CASE wipeStatus
        <2> USE <1>2 DEF wipeStatus, DeletePollByID, DeletePollVotes, CancelExpiry, DeleteStatusByID, Wipes, Fault
        <2>1. faults' \in 0..MaxTroubles
            BY TroubleTypes DEF TypeOK
        <2>2. sch' \in [up : BOOLEAN, tasks : SUBSET {"poll", "sweep"}, jobs : SUBSET {"poll", "sweep"}]
            BY SchedulerTypes DEF TypeOK
        <2>3. poll' \in [at : {"none", "open", "closed", "gone"}, count : Nat]
            BY DEF TypeOK
        <2>4. cache' \in Copy \cup {NoCopy}
            BY DEF TypeOK
        <2>5. votes' \subseteq Voters /\ status' \in {"none", "there", "gone"}
              /\ wiper' \in {"idle", "poll", "votes", "cancel", "status", "done"}
            BY DEF TypeOK
        <2>6. /\ isolated' = isolated /\ expired' = expired /\ view' = view /\ author' = author
              /\ vote' = vote /\ expiry' = expiry /\ queued' = queued /\ announced' = announced
              /\ crashes' = crashes
            OBVIOUS
        <2>7. QED  BY <2>1, <2>2, <2>3, <2>4, <2>5, <2>6 DEF TypeOK
    <1>3. CASE ViewReads \/ ViewCaches \/ Sweep
        <2>1. view' \in Copy \cup {NoCopy} /\ cache' \in Copy \cup {NoCopy}
            BY <1>3, LookupType DEF ViewReads, ViewCaches, Sweep, TypeOK
        <2>2. QED  BY <1>3, <2>1 DEF ViewReads, ViewCaches, Sweep, TypeOK
    <1>4. CASE Crash
        <2>1. vote' \in [Requests -> [pc : {"new", "insert", "commit", "done"}, read : Nat]]
            BY <1>4 DEF Crash, NewRequest, TypeOK
        <2>2. expiry' \in [pc : {"idle", "get", "update", "push"}, poll : Copy \cup {NoCopy}]
            BY <1>4 DEF Crash, IdleTask
        <2>3. crashes' \in 0..MaxTroubles
            BY <1>4, TroubleTypes DEF Crash
        <2>4. sch' \in [up : BOOLEAN, tasks : SUBSET {"poll", "sweep"}, jobs : SUBSET {"poll", "sweep"}]
            BY <1>4 DEF Crash, Stopped
        <2>5. /\ wiper' \in {"idle", "poll", "votes", "cancel", "status", "done"}
              /\ author' \in {"poll", "status", "schedule", "done"} /\ queued' \in 0..2
              /\ cache' \in Copy \cup {NoCopy} /\ view' \in Copy \cup {NoCopy}
            BY <1>4 DEF Crash, TypeOK
        <2>6. UNCHANGED <<isolated, poll, status, votes, announced, expired, faults>>
            BY <1>4 DEF Crash
        <2>7. QED  BY <2>1, <2>2, <2>3, <2>4, <2>5, <2>6 DEF TypeOK
    <1>5. CASE Start
        <2> DEFINE s == [Stopped EXCEPT !.up = TRUE]
        <2>1. s \in [up : BOOLEAN, tasks : SUBSET {"poll", "sweep"}, jobs : SUBSET {"poll", "sweep"}]
            BY DEF Stopped
        <2> HIDE DEF s
        <2>2. Schedule(s, "sweep") \in [up : BOOLEAN, tasks : SUBSET {"poll", "sweep"}, jobs : SUBSET {"poll", "sweep"}]
            BY <2>1, SchedulerTypes
        <2>3. sch' \in [up : BOOLEAN, tasks : SUBSET {"poll", "sweep"}, jobs : SUBSET {"poll", "sweep"}]
            BY <1>5, <2>2, SchedulerTypes DEF Start, s
        <2>4. cache' \in Copy \cup {NoCopy}
            BY <1>5, LookupType DEF Start
        <2>5. UNCHANGED <<isolated, poll, status, votes, author, wiper, vote, expiry, view, queued,
                          announced, expired, crashes, faults>>
            BY <1>5 DEF Start
        <2>6. QED  BY <2>3, <2>4, <2>5 DEF TypeOK
    <1>6. QED  BY <1>1, <1>2, <1>3, <1>4, <1>5

-----------------------------------------------------------------------------
\* The part about votes only looks at the database and the calls in progress.
LEMMA SameVotes ==
    ASSUME PollsInv, UNCHANGED <<isolated, poll, votes>>, InTx' = InTx,
           status' = status \/ (status' # "none" /\ poll.at # "none"),
           \A r \in InTx : vote'[r].read = vote[r].read,
           author' = author \/ author' \in {"schedule", "done"},
           wiper' = wiper \/ (wiper \in {"votes", "cancel", "status"} /\ wiper' \in {"cancel", "status", "done"}
                              /\ (isolated /\ crashes + faults = 0 => poll.at = "gone" /\ votes = {})),
           crashes' + faults' = 0 => crashes + faults = 0
    PROVE  VoteInv'
    <1> USE DEF PollsInv, VoteInv
    <1>1. BeforePoll'
        BY DEF BeforePoll
    <1>2. TxAlone'
        BY DEF TxAlone, HasRow
    <1>3. WipedInOrder'
        BY DEF WipedInOrder
    <1>4. VotesCounted'
        BY DEF VotesCounted, HasRow
    <1>5. QED  BY <1>1, <1>2, <1>3, <1>4

\* A failing call is a trouble.
LEMMA FaultCounted == ASSUME TypeOK, Fault, UNCHANGED crashes  PROVE crashes' + faults' # 0
    BY DEF TypeOK, Fault

\* Storing the poll, then the status.
LEMMA CreateVotes == ASSUME PollsInv, Create  PROVE VoteInv'
    <1> USE DEF PollsInv
    <1>1. CASE PutPoll
        <2>1. CASE /\ poll' = [poll EXCEPT !.at = "open"] /\ author' = "status" /\ faults' = faults
            <3>1. /\ poll.at = "none" /\ poll.count = 0 /\ votes = {} /\ InTx = {} /\ wiper = "idle"
                  /\ status = "none"
                BY <1>1 DEF PutPoll, VoteInv, BeforePoll
            <3>2. poll'.at = "open" /\ poll'.count = 0 /\ votes' = {} /\ InTx' = {} /\ wiper' = "idle"
                BY <1>1, <2>1, <3>1 DEF PutPoll, TypeOK, InTx
            <3>3. BeforePoll'
                BY <2>1, <3>2, FS_EmptySet DEF BeforePoll
            <3>4. TxAlone' /\ WipedInOrder'
                BY <3>2 DEF TxAlone, WipedInOrder
            <3>5. VotesCounted'
                BY <3>2, FS_EmptySet DEF VotesCounted
            <3>6. QED  BY <3>3, <3>4, <3>5 DEF VoteInv
        <2>2. CASE Fault /\ author' = "done" /\ poll' = poll
            BY <1>1, <2>2, SameVotes, FaultCounted DEF PutPoll, InTx
        <2>3. QED  BY <1>1, <2>1, <2>2 DEF PutPoll
    <1>2. CASE PutStatus
        <2>1. /\ poll.at # "none" /\ author' \in {"schedule", "done"}
              /\ crashes' + faults' = 0 => crashes + faults = 0
            BY <1>2, FaultCounted DEF PutStatus, VoteInv, BeforePoll
        <2>2. QED  BY <1>2, <2>1, SameVotes DEF PutStatus, InTx
    <1>3. CASE ScheduleExpiry
        BY <1>3, SameVotes DEF ScheduleExpiry, InTx
    <1>4. QED  BY <1>1, <1>2, <1>3 DEF Create

\* A vote that is checked or refused.
LEMMA CheckVotes ==
    ASSUME PollsInv, NEW r \in Requests, CheckLocal(r) \/ CheckRemote(r) \/ InsertFails(r)
    PROVE  VoteInv'
    <1> USE DEF PollsInv
    <1>1. /\ UNCHANGED <<isolated, poll, votes, status, author, wiper>>
          /\ crashes' + faults' = 0 => crashes + faults = 0
        BY FaultCounted DEF CheckLocal, CheckRemote, InsertFails
    <1>2. vote \in [Requests -> [pc : {"new", "insert", "commit", "done"}, read : Nat]]
        BY DEF TypeOK
    <1>3. \E l \in {"done", "insert"} : vote' = [vote EXCEPT ![r].pc = l]
        BY DEF CheckLocal, CheckRemote, InsertFails
    <1>4. vote[r].pc # "commit"
        BY DEF CheckLocal, CheckRemote, InsertFails
    <1>5. InTx' = InTx /\ \A q \in InTx : vote'[q].read = vote[q].read
        BY <1>2, <1>3, <1>4 DEF InTx
    <1>6. QED  BY <1>1, <1>5, SameVotes

\* PutPollVote opens its transaction on the row that is there.
LEMMA InsertVotes ==
    ASSUME PollsInv, NEW r \in Requests, Insert(r)  PROVE VoteInv'
    <1> USE DEF PollsInv
    <1>1. /\ UNCHANGED <<isolated, poll, votes, status, author, wiper, crashes, faults>>
          /\ HasRow /\ VoterOf[r] \notin votes
          /\ isolated => InTx = {}
        BY DEF Insert, MayWrite
    <1>2. vote' = [vote EXCEPT ![r] = [pc |-> "commit", read |-> poll.count]]
        BY DEF Insert
    <1>3. vote \in [Requests -> [pc : {"new", "insert", "commit", "done"}, read : Nat]]
        BY DEF TypeOK
    <1>4. InTx' = InTx \cup {r} /\ vote'[r].read = poll.count
        BY <1>2, <1>3 DEF InTx
    <1>5. BeforePoll'
        BY <1>1 DEF VoteInv, BeforePoll, HasRow
    <1>6. TxAlone'
        <2>1. isolated => InTx' = {r}
            BY <1>1, <1>4
        <2>2. QED  BY <1>1, <1>4, <2>1 DEF TxAlone, HasRow
    <1>7. WipedInOrder' /\ VotesCounted'
        BY <1>1 DEF VoteInv, WipedInOrder, VotesCounted, HasRow
    <1>8. QED  BY <1>5, <1>6, <1>7 DEF VoteInv

\* The commit adds one vote and one to the count that was read.
LEMMA CommitVotes ==
    ASSUME PollsInv, NEW r \in Requests, Commit(r)  PROVE VoteInv'
    <1> USE DEF PollsInv
    <1>1. /\ UNCHANGED <<isolated, status, author, wiper, crashes, faults>>
          /\ votes' = votes \cup {VoterOf[r]} /\ r \in InTx
          /\ poll' = [poll EXCEPT !.count = IF HasRow THEN vote[r].read + 1 ELSE @]
        BY DEF Commit, InTx
    <1>2. poll \in [at : {"none", "open", "closed", "gone"}, count : Nat]
        BY DEF TypeOK
    <1>3. poll'.at = poll.at /\ (HasRow => poll'.count = vote[r].read + 1) /\ poll.at # "none"
        BY <1>1, <1>2 DEF VoteInv, BeforePoll
    <1>4. InTx' = InTx \ {r}
        BY DEF Commit, InTx, TypeOK
    <1>5. IsFiniteSet(votes')
        BY <1>1, FS_AddElement DEF VoteInv, BeforePoll
    <1>6. BeforePoll'
        BY <1>1, <1>3, <1>5 DEF VoteInv, BeforePoll
    <1>7. isolated => InTx = {r} /\ HasRow /\ vote[r].read = poll.count /\ VoterOf[r] \notin votes
        BY <1>1 DEF VoteInv, TxAlone
    <1>8. TxAlone'
        BY <1>1, <1>4, <1>7 DEF TxAlone
    <1>9. WipedInOrder'
        BY <1>1, <1>3, <1>7 DEF VoteInv, WipedInOrder, HasRow
    <1>10. VotesCounted'
        <2> SUFFICES ASSUME isolated, HasRow PROVE poll'.count = Cardinality(votes')
            BY <1>1, <1>3 DEF VotesCounted, HasRow
        <2>1. Cardinality(votes') = Cardinality(votes) + 1
            BY <1>1, <1>7, FS_AddElement DEF VoteInv, BeforePoll
        <2>2. poll.count = Cardinality(votes)
            BY DEF VoteInv, VotesCounted
        <2>3. QED  BY <1>3, <1>7, <2>1, <2>2
    <1>11. QED  BY <1>6, <1>8, <1>9, <1>10 DEF VoteInv

\* Closing the poll waits for the open transaction and leaves the count alone.
LEMMA ExpiryVotes ==
    ASSUME PollsInv, Expire \/ RunJob \/ onExpiry \/ UpdateStatus  PROVE VoteInv'
    <1> USE DEF PollsInv
    <1>1. CASE Expire \/ RunJob \/ ExpiryPush \/ UpdateStatus
        <2>1. UNCHANGED <<isolated, poll, votes, status, author, wiper, crashes, faults, vote>>
            BY <1>1 DEF Expire, RunJob, ExpiryPush, UpdateStatus, volatile
        <2>2. QED  BY <2>1, SameVotes DEF InTx
    <1>2. CASE ExpiryGet
        <2>1. /\ UNCHANGED <<isolated, poll, votes, status, author, wiper, crashes, vote>>
              /\ crashes' + faults' = 0 => crashes + faults = 0
            BY <1>2, FaultCounted DEF ExpiryGet
        <2>2. QED  BY <2>1, SameVotes DEF InTx
    <1>3. CASE UpdatePoll
        <2>1. /\ UNCHANGED <<isolated, votes, status, author, wiper, crashes, vote>>
              /\ crashes' + faults' = 0 => crashes + faults = 0
              /\ isolated => InTx = {}
              /\ poll' = poll \/ poll' = [poll EXCEPT !.at = IF HasRow THEN "closed" ELSE @]
            BY <1>3, FaultCounted DEF UpdatePoll, MayWrite
        <2>2. /\ poll'.count = poll.count /\ (HasRow' <=> HasRow) /\ InTx' = InTx
              /\ poll'.at = "none" <=> poll.at = "none"
              /\ poll'.at = "gone" <=> poll.at = "gone"
            BY <2>1 DEF TypeOK, HasRow, InTx
        <2>3. BeforePoll'
            BY <2>1, <2>2 DEF VoteInv, BeforePoll
        <2>4. TxAlone'
            BY <2>1, <2>2 DEF TxAlone
        <2>5. WipedInOrder' /\ VotesCounted'
            BY <2>1, <2>2 DEF VoteInv, WipedInOrder, VotesCounted
        <2>6. QED  BY <2>3, <2>4, <2>5 DEF VoteInv
    <1>4. QED  BY <1>1, <1>2, <1>3 DEF onExpiry

\* wipeStatus deletes the poll, then the votes.
LEMMA WipeVotes == ASSUME PollsInv, Delete \/ wipeStatus  PROVE VoteInv'
    <1> USE DEF PollsInv
    <1>0. wiper \in {"idle", "poll", "votes", "cancel", "status", "done"}
        BY DEF TypeOK
    <1>1. CASE Delete
        <2>1. /\ UNCHANGED <<isolated, poll, votes, status, author, crashes, faults, vote>>
              /\ wiper' = "poll" /\ status = "there"
            BY <1>1 DEF Delete
        <2>2. BeforePoll' /\ TxAlone' /\ WipedInOrder' /\ VotesCounted'
            BY <2>1 DEF VoteInv, BeforePoll, TxAlone, WipedInOrder, VotesCounted, HasRow, InTx
        <2>3. QED  BY <2>2 DEF VoteInv
    <1>2. CASE DeletePollByID
        <2>1. /\ UNCHANGED <<isolated, votes, status, author, crashes, vote>>
              /\ wiper = "poll" /\ wiper' = "votes"
              /\ isolated => InTx = {}
              /\ \/ poll' = [at |-> "gone", count |-> 0] /\ faults' = faults
                 \/ poll' = poll /\ crashes' + faults' # 0
            BY <1>2, FaultCounted DEF DeletePollByID, Wipes, MayWrite
        <2>2. InTx' = InTx /\ status # "none" /\ poll.at # "none" /\ poll'.at # "none"
            BY <2>1 DEF InTx, VoteInv, BeforePoll
        <2>3. BeforePoll'
            BY <2>1, <2>2 DEF VoteInv, BeforePoll
        <2>4. TxAlone' /\ WipedInOrder'
            BY <2>1, <2>2 DEF TxAlone, WipedInOrder
        <2>5. VotesCounted'
            BY <2>1 DEF VoteInv, VotesCounted, HasRow
        <2>6. QED  BY <2>3, <2>4, <2>5 DEF VoteInv
    <1>3. CASE DeletePollVotes
        <2>1. /\ UNCHANGED <<isolated, status, author, crashes, vote>>
              /\ wiper = "votes" /\ wiper' = "cancel"
              /\ isolated => InTx = {}
              /\ \/ /\ votes' = {} /\ faults' = faults
                    /\ poll' = [poll EXCEPT !.count = IF votes # {} THEN 0 ELSE @]
                 \/ poll' = poll /\ votes' = votes /\ crashes' + faults' # 0
            BY <1>3, FaultCounted DEF DeletePollVotes, Wipes, MayWrite
        <2>2. InTx' = InTx /\ poll'.at = poll.at /\ status # "none" /\ poll.at # "none"
            BY <2>1 DEF InTx, VoteInv, BeforePoll, TypeOK
        <2>3. IsFiniteSet(votes')
            BY <2>1, FS_EmptySet DEF VoteInv, BeforePoll
        <2>4. BeforePoll'
            BY <2>1, <2>2, <2>3 DEF VoteInv, BeforePoll
        <2>5. TxAlone' /\ WipedInOrder'
            BY <2>1, <2>2 DEF VoteInv, TxAlone, WipedInOrder
        <2>6. VotesCounted'
            <3> SUFFICES ASSUME isolated, HasRow PROVE poll'.count = Cardinality(votes')
                BY <2>1, <2>2 DEF VotesCounted, HasRow
            <3>1. poll.count = Cardinality(votes) /\ Cardinality({}) = 0
                BY FS_EmptySet DEF VoteInv, VotesCounted
            <3>2. QED  BY <2>1, <3>1 DEF TypeOK
        <2>7. QED  BY <2>4, <2>5, <2>6 DEF VoteInv
    <1>4. CASE CancelExpiry \/ DeleteStatusByID
        <2>1. /\ UNCHANGED <<isolated, poll, votes, author, crashes, vote>>
              /\ wiper \in {"cancel", "status"} /\ wiper' \in {"status", "done"}
              /\ status' = status \/ status' = "gone"
              /\ crashes' + faults' = 0 => crashes + faults = 0
            BY <1>4, FaultCounted DEF CancelExpiry, DeleteStatusByID, Wipes
        <2>2. poll.at # "none"
            BY <2>1 DEF VoteInv, BeforePoll
        <2>3. isolated /\ crashes + faults = 0 => poll.at = "gone" /\ votes = {}
            BY <2>1 DEF VoteInv, WipedInOrder
        <2>4. QED  BY <2>1, <2>2, <2>3, SameVotes DEF InTx
    <1>5. QED  BY <1>1, <1>2, <1>3, <1>4 DEF wipeStatus

\* Lookups and restarts; a crash closes the open transactions.
LEMMA OtherVotes ==
    ASSUME PollsInv, ViewReads \/ ViewCaches \/ Sweep \/ Crash \/ Start  PROVE VoteInv'
    <1> USE DEF PollsInv
    <1>1. CASE ViewReads \/ ViewCaches \/ Sweep \/ Start
        <2>1. UNCHANGED <<isolated, poll, votes, status, author, wiper, crashes, faults, vote>>
            BY <1>1 DEF ViewReads, ViewCaches, Sweep, Start
        <2>2. QED  BY <2>1, SameVotes DEF InTx
    <1>2. CASE Crash
        <2>1. /\ UNCHANGED <<isolated, poll, votes, status, faults>> /\ author' = "done"
              /\ crashes' = crashes + 1 /\ (wiper = "idle" => wiper' = "idle")
            BY <1>2 DEF Crash
        <2>2. InTx' = {} /\ crashes' + faults' # 0
            BY <1>2 DEF Crash, InTx, NewRequest, TypeOK
        <2>3. BeforePoll' /\ TxAlone' /\ WipedInOrder' /\ VotesCounted'
            BY <2>1, <2>2 DEF VoteInv, BeforePoll, TxAlone, WipedInOrder, VotesCounted, HasRow
        <2>4. QED  BY <2>3 DEF VoteInv
    <1>3. QED  BY <1>1, <1>2

-----------------------------------------------------------------------------
\* The part about the announcement looks at the scheduler, onExpiry, the client
\* queue, and whether the poll is stored and closed.
LEMMA SameToken ==
    ASSUME PollsInv, UNCHANGED <<sch, expiry, queued, announced>>,
           author' = author \/ (sch.up /\ author # "done"),
           author' # author => author' = "done" \/ author # "done",
           poll.at # "none" => poll'.at # "none",
           poll.at \in {"closed", "gone"} => poll'.at \in {"closed", "gone"}
    PROVE  TokenInv'
    <1> USE DEF PollsInv, TokenInv
    <1>1. DownIsQuiet' /\ OneToken'
        BY DEF DownIsQuiet, OneToken
    <1>2. ExpiryKnows'
        BY DEF ExpiryKnows
    <1>3. AnnouncedOnce'
        BY DEF AnnouncedOnce
    <1>4. QED  BY <1>1, <1>2, <1>3

\* Creating the status: the job is scheduled in its last step.
LEMMA CreateToken == ASSUME PollsInv, Create  PROVE TokenInv'
    <1> USE DEF PollsInv
    <1>1. CASE PutPoll
        <2>1. poll.at = "none" /\ author = "poll" /\ sch.up
            BY <1>1 DEF PutPoll, VoteInv, BeforePoll
        <2>2. poll' = poll \/ poll' = [poll EXCEPT !.at = "open"]
            BY <1>1 DEF PutPoll
        <2>3. UNCHANGED <<sch, expiry, queued, announced>>
            BY <1>1 DEF PutPoll
        <2>4. QED  BY <2>1, <2>2, <2>3, SameToken
    <1>2. CASE PutStatus
        BY <1>2, SameToken DEF PutStatus
    <1>3. CASE ScheduleExpiry
        <2>1. /\ UNCHANGED <<poll, expiry, queued, announced>>
              /\ sch.up /\ author = "schedule" /\ author' = "done" /\ sch' = Schedule(sch, "poll")
            BY <1>3 DEF ScheduleExpiry
        <2>2. sch'.up
            BY <2>1, SchedulerTypes DEF TypeOK
        <2>3. expiry.pc = "idle" /\ queued + announced = 0
            BY <2>1 DEF TokenInv, OneToken
        <2>4. DownIsQuiet' /\ OneToken' /\ ExpiryKnows' /\ AnnouncedOnce'
            BY <2>1, <2>2, <2>3 DEF TokenInv, DownIsQuiet, OneToken, ExpiryKnows, AnnouncedOnce
        <2>5. QED  BY <2>4 DEF TokenInv
    <1>4. QED  BY <1>1, <1>2, <1>3 DEF Create

\* Votes have no part in it.
LEMMA VoteToken == ASSUME PollsInv, NEW r \in Requests, Vote(r)  PROVE TokenInv'
    <1>1. UNCHANGED <<sch, expiry, queued, announced, author>>
        BY DEF Vote, CheckLocal, CheckRemote, Insert, InsertFails, Commit
    <1>2. poll'.at = poll.at
        BY DEF Vote, CheckLocal, CheckRemote, Insert, InsertFails, Commit, PollsInv, TypeOK
    <1>3. QED  BY <1>1, <1>2, SameToken

\* The announcement passes from the job to onExpiry, to the queue, to the world.
LEMMA ExpiryToken ==
    ASSUME PollsInv, Expire \/ RunJob \/ onExpiry \/ UpdateStatus  PROVE TokenInv'
    <1> USE DEF PollsInv
    <1>0. queued \in Nat /\ announced \in Nat
        BY DEF TypeOK
    <1>1. CASE Expire
        BY <1>1, SameToken DEF Expire, volatile
    <1>2. CASE RunJob
        <2>1. /\ UNCHANGED <<poll, queued, announced, author>> /\ "poll" \in sch.jobs /\ sch.up
              /\ sch' = RunOnce(sch, "poll") /\ expiry'.pc = "get"
            BY <1>2 DEF RunJob, IdleTask
        <2>2. sch'.up /\ "poll" \notin sch'.jobs
            BY <2>1, SchedulerTypes DEF TypeOK
        <2>3. queued = 0 /\ announced = 0 /\ author = "done"
            BY <1>0, <2>1 DEF TokenInv, OneToken
        <2>4. DownIsQuiet' /\ OneToken' /\ ExpiryKnows' /\ AnnouncedOnce'
            BY <2>1, <2>2, <2>3 DEF DownIsQuiet, OneToken, ExpiryKnows, AnnouncedOnce
        <2>5. QED  BY <2>4 DEF TokenInv
    <1>3. CASE ExpiryGet
        <2>1. /\ UNCHANGED <<poll, queued, announced, author, sch>> /\ sch.up /\ expiry.pc = "get"
              /\ \/ expiry' = IdleTask
                 \/ status = "there" /\ Lookup # NoCopy /\ expiry' = [pc |-> "update", poll |-> Lookup]
            BY <1>3 DEF ExpiryGet
        <2>2. /\ expiry'.pc \in {"idle", "update"}
              /\ expiry'.pc = "update" => status = "there" /\ expiry'.poll # NoCopy
            BY <2>1 DEF IdleTask
        <2>3. status = "there" => poll.at # "none"
            BY DEF VoteInv, BeforePoll
        <2>4. queued = 0 /\ announced = 0 /\ author = "done" /\ "poll" \notin sch.jobs
            BY <1>0, <2>1 DEF TokenInv, OneToken
        <2>5. DownIsQuiet' /\ OneToken' /\ ExpiryKnows' /\ AnnouncedOnce'
            BY <2>1, <2>2, <2>3, <2>4 DEF DownIsQuiet, OneToken, ExpiryKnows, AnnouncedOnce
        <2>6. QED  BY <2>5 DEF TokenInv
    <1>4. CASE UpdatePoll
        <2>1. /\ UNCHANGED <<queued, announced, author, sch>> /\ sch.up /\ expiry.pc = "update"
              /\ \/ /\ poll' = [poll EXCEPT !.at = IF HasRow THEN "closed" ELSE @]
                    /\ expiry' = [expiry EXCEPT !.pc = "push"]
                 \/ expiry' = IdleTask /\ poll' = poll
            BY <1>4 DEF UpdatePoll
        <2>2. queued = 0 /\ announced = 0 /\ author = "done" /\ "poll" \notin sch.jobs /\ poll.at # "none"
            BY <1>0, <2>1 DEF TokenInv, OneToken, ExpiryKnows
        <2>3. /\ expiry'.pc \in {"idle", "push"}
              /\ expiry'.pc = "push" => poll'.at \in {"closed", "gone"}
            BY <2>1, <2>2 DEF TypeOK, IdleTask, HasRow
        <2>4. DownIsQuiet' /\ OneToken' /\ ExpiryKnows' /\ AnnouncedOnce'
            BY <2>1, <2>2, <2>3 DEF DownIsQuiet, OneToken, ExpiryKnows, AnnouncedOnce
        <2>5. QED  BY <2>4 DEF TokenInv
    <1>5. CASE ExpiryPush
        <2>1. /\ UNCHANGED <<poll, announced, author, sch>> /\ sch.up /\ expiry.pc = "push"
              /\ queued' = queued + 1 /\ expiry'.pc = "idle"
            BY <1>5 DEF ExpiryPush, IdleTask
        <2>2. /\ queued = 0 /\ announced = 0 /\ author = "done" /\ "poll" \notin sch.jobs
              /\ poll.at \in {"closed", "gone"}
            BY <1>0, <2>1 DEF TokenInv, OneToken, ExpiryKnows
        <2>3. DownIsQuiet' /\ OneToken' /\ ExpiryKnows' /\ AnnouncedOnce'
            BY <2>1, <2>2 DEF DownIsQuiet, OneToken, ExpiryKnows, AnnouncedOnce
        <2>4. QED  BY <2>3 DEF TokenInv
    <1>6. CASE UpdateStatus
        <2>1. /\ UNCHANGED <<poll, expiry, author, sch>> /\ sch.up
              /\ queued' + announced' = queued + announced
            BY <1>0, <1>6 DEF UpdateStatus
        <2>2. announced' + queued' = announced + queued
            BY <1>0, <1>6 DEF UpdateStatus
        <2>3. DownIsQuiet' /\ OneToken' /\ ExpiryKnows' /\ AnnouncedOnce'
            BY <2>1, <2>2 DEF TokenInv, DownIsQuiet, OneToken, ExpiryKnows, AnnouncedOnce
        <2>4. QED  BY <2>3 DEF TokenInv
    <1>7. QED  BY <1>1, <1>2, <1>3, <1>4, <1>5, <1>6 DEF onExpiry

\* Deletion cancels the job and keeps a deleted poll deleted; lookups have no part.
LEMMA WipeToken ==
    ASSUME PollsInv, Delete \/ wipeStatus \/ ViewReads \/ ViewCaches \/ Sweep  PROVE TokenInv'
    <1> USE DEF PollsInv
    <1>1. CASE Delete \/ DeletePollVotes \/ DeleteStatusByID \/ ViewReads \/ ViewCaches \/ Sweep
        <2>1. UNCHANGED <<sch, expiry, queued, announced, author>> /\ poll'.at = poll.at
            BY <1>1 DEF Delete, DeletePollVotes, DeleteStatusByID, ViewReads, ViewCaches, Sweep, TypeOK
        <2>2. QED  BY <2>1, SameToken
    <1>2. CASE DeletePollByID
        <2>1. UNCHANGED <<sch, expiry, queued, announced, author>> /\ (poll'.at = "gone" \/ poll' = poll)
            BY <1>2 DEF DeletePollByID
        <2>2. QED  BY <2>1, SameToken
    <1>3. CASE CancelExpiry
        <2>1. /\ UNCHANGED <<poll, expiry, queued, announced, author>>
              /\ sch.up /\ sch' = Cancel(sch, "poll")
            BY <1>3 DEF CancelExpiry, Wipes
        <2>2. sch'.up /\ sch'.jobs \subseteq sch.jobs
            BY <2>1, SchedulerTypes DEF TypeOK
        <2>3. DownIsQuiet' /\ OneToken' /\ ExpiryKnows' /\ AnnouncedOnce'
            BY <2>1, <2>2 DEF TokenInv, DownIsQuiet, OneToken, ExpiryKnows, AnnouncedOnce
        <2>4. QED  BY <2>3 DEF TokenInv
    <1>4. QED  BY <1>1, <1>2, <1>3 DEF wipeStatus

\* A crash loses what was to come; the next start schedules an open poll only.
LEMMA RestartToken == ASSUME PollsInv, Crash \/ Start  PROVE TokenInv'
    <1> USE DEF PollsInv
    <1>0. queued \in Nat /\ announced \in Nat
        BY DEF TypeOK
    <1>1. CASE Crash
        <2>1. /\ UNCHANGED <<poll, announced>> /\ queued' = 0 /\ author' = "done"
              /\ expiry'.pc = "idle" /\ sch'.jobs = {}
            BY <1>1 DEF Crash, IdleTask, Stopped
        <2>2. announced' + queued' <= announced + queued /\ announced' + queued' \in Nat
            BY <1>0, <2>1
        <2>3. AnnouncedOnce'
            BY <1>0, <2>1, <2>2 DEF TokenInv, AnnouncedOnce
        <2>4. DownIsQuiet' /\ OneToken' /\ ExpiryKnows'
            BY <2>1 DEF DownIsQuiet, OneToken, ExpiryKnows
        <2>5. QED  BY <2>3, <2>4 DEF TokenInv
    <1>2. CASE Start
        <2> DEFINE s == [Stopped EXCEPT !.up = TRUE]
        <2>1. /\ UNCHANGED <<poll, expiry, queued, announced, author>> /\ ~sch.up
              /\ sch' = IF "poll" \in ScheduleAll THEN Schedule(Schedule(s, "sweep"), "poll")
                        ELSE Schedule(s, "sweep")
            BY <1>2 DEF Start
        <2>2. /\ s \in [up : BOOLEAN, tasks : SUBSET {"poll", "sweep"}, jobs : SUBSET {"poll", "sweep"}]
              /\ s.jobs = {}
            BY DEF Stopped
        <2> HIDE DEF s
        <2>3. Schedule(s, "sweep").jobs \subseteq {"sweep"}
            BY <2>2, SchedulerTypes
        <2>4. "poll" \in sch'.jobs => poll.at = "open"
            BY <2>1, <2>3 DEF ScheduleAll
        <2>5. expiry.pc = "idle" /\ queued = 0 /\ author = "done"
            BY <2>1 DEF TokenInv, DownIsQuiet
        <2>6. "poll" \in sch'.jobs => queued + announced = 0
            BY <1>0, <2>4, <2>5 DEF TokenInv, AnnouncedOnce
        <2>7. DownIsQuiet' /\ OneToken' /\ ExpiryKnows' /\ AnnouncedOnce'
            BY <2>1, <2>5, <2>6 DEF TokenInv, DownIsQuiet, OneToken, ExpiryKnows, AnnouncedOnce
        <2>8. QED  BY <2>7 DEF TokenInv
    <1>3. QED  BY <1>1, <1>2

-----------------------------------------------------------------------------
\* Initially there is no poll.
LEMMA InitPolls == Init => PollsInv
    <1> SUFFICES ASSUME Init PROVE PollsInv
        OBVIOUS
    <1> DEFINE s == [Stopped EXCEPT !.up = TRUE]
    <1>1. /\ s \in [up : BOOLEAN, tasks : SUBSET {"poll", "sweep"}, jobs : SUBSET {"poll", "sweep"}]
          /\ s.jobs = {} /\ s.up
        BY DEF Stopped
    <1>2. sch = Schedule(s, "sweep")
        BY DEF Init
    <1> HIDE DEF s
    <1>3. /\ sch \in [up : BOOLEAN, tasks : SUBSET {"poll", "sweep"}, jobs : SUBSET {"poll", "sweep"}]
          /\ sch.up /\ sch.jobs \subseteq {"sweep"}
        BY <1>1, <1>2, SchedulerTypes
    <1>4. TypeOK
        <2>1. vote \in [Requests -> [pc : {"new", "insert", "commit", "done"}, read : Nat]]
            BY DEF Init, NewRequest
        <2>2. expiry \in [pc : {"idle", "get", "update", "push"}, poll : Copy \cup {NoCopy}]
            BY DEF Init, IdleTask
        <2>3. poll \in [at : {"none", "open", "closed", "gone"}, count : Nat]
            BY DEF Init
        <2>4. 0 \in 0..MaxTroubles
            BY PollsAssumption
        <2>5. cache \in Copy \cup {NoCopy} /\ view \in Copy \cup {NoCopy}
            BY DEF Init
        <2>6. /\ isolated \in BOOLEAN /\ expired \in BOOLEAN /\ status = "none" /\ votes = {}
              /\ author = "poll" /\ wiper = "idle" /\ queued = 0 /\ announced = 0
              /\ crashes = 0 /\ faults = 0
            BY DEF Init
        <2>7. QED  BY <1>3, <2>1, <2>2, <2>3, <2>4, <2>5, <2>6 DEF TypeOK
    <1>5. VoteInv
        <2>1. InTx = {}
            BY DEF Init, InTx, NewRequest
        <2>2. BeforePoll
            BY <2>1, FS_EmptySet DEF Init, BeforePoll
        <2>3. TxAlone /\ WipedInOrder /\ VotesCounted
            BY <2>1 DEF Init, TxAlone, WipedInOrder, VotesCounted, HasRow
        <2>4. QED  BY <2>2, <2>3 DEF VoteInv
    <1>6. TokenInv
        <2>1. expiry.pc = "idle" /\ queued = 0 /\ announced = 0 /\ "poll" \notin sch.jobs /\ sch.up
            BY <1>3 DEF Init, IdleTask
        <2>2. QED  BY <2>1 DEF TokenInv, DownIsQuiet, OneToken, ExpiryKnows, AnnouncedOnce
    <1>7. QED  BY <1>4, <1>5, <1>6 DEF PollsInv

\* Every step preserves the invariant.
LEMMA NextPolls == PollsInv /\ [Next]_vars => PollsInv'
    <1> SUFFICES ASSUME PollsInv, [Next]_vars PROVE PollsInv'
        OBVIOUS
    <1>0. TypeOK
        BY DEF PollsInv
    <1>1. CASE Create
        BY <1>0, <1>1, CreateTypes, CreateVotes, CreateToken DEF PollsInv
    <1>2. CASE Expire \/ RunJob \/ onExpiry \/ UpdateStatus
        BY <1>0, <1>2, ExpiryTypes, ExpiryVotes, ExpiryToken DEF PollsInv
    <1>3. ASSUME NEW r \in Requests, Vote(r) PROVE PollsInv'
        <2>1. VoteInv'
            BY <1>3, CheckVotes, InsertVotes, CommitVotes DEF Vote
        <2>2. QED  BY <1>0, <1>3, <2>1, VoteTypes, VoteToken DEF PollsInv
    <1>4. CASE Delete \/ wipeStatus
        BY <1>0, <1>4, OtherTypes, WipeVotes, WipeToken DEF PollsInv
    <1>5. CASE ViewReads \/ ViewCaches \/ Sweep
        BY <1>0, <1>5, OtherTypes, OtherVotes, WipeToken DEF PollsInv
    <1>6. CASE Crash \/ Start
        BY <1>0, <1>6, OtherTypes, OtherVotes, RestartToken DEF PollsInv
    <1>7. CASE UNCHANGED vars
        <2>1. VoteInv'
            BY <1>7, SameVotes DEF vars, volatile, InTx
        <2>2. TokenInv'
            BY <1>7, SameToken DEF vars, volatile
        <2>3. TypeOK'
            BY <1>0, <1>7 DEF vars, volatile, TypeOK
        <2>4. QED  BY <2>1, <2>2, <2>3 DEF PollsInv
    <1>8. QED  BY <1>1, <1>2, <1>3, <1>4, <1>5, <1>6, <1>7 DEF Next

\* The invariant holds in every reachable state.
LEMMA PollsInvariant == Spec => []PollsInv
    BY InitPolls, NextPolls, PTL DEF Spec

-----------------------------------------------------------------------------
\* Types of the poll's rows, copies and tasks.
THEOREM PollTypes == Spec => []TypeOK
    <1>1. PollsInv => TypeOK
        BY DEF PollsInv
    <1>2. QED  BY PollsInvariant, <1>1, PTL

\* Where write transactions exclude each other, the count of a stored poll is the
\* number of its votes, through every interleaving, failure and crash.
THEOREM CountIsVotes == Spec => []VotesCounted
    <1>1. PollsInv => VotesCounted
        BY DEF PollsInv, VoteInv
    <1>2. QED  BY PollsInvariant, <1>1, PTL

\* Where they do and nothing fails, wipeStatus leaves no votes behind, though it
\* deletes the poll and its votes by two calls that voters come between.
THEOREM WipedStatusHasNoVotes == Spec => []NoVotesLeft
    <1>1. PollsInv => NoVotesLeft
        BY DEF PollsInv, VoteInv, WipedInOrder, NoVotesLeft
    <1>2. QED  BY PollsInvariant, <1>1, PTL

\* The end of a poll is announced at most once, and only when it is stored.
THEOREM EndAnnouncedOnce == Spec => []AnnouncedOnce
    <1>1. PollsInv => AnnouncedOnce
        BY DEF PollsInv, TokenInv
    <1>2. QED  BY PollsInvariant, <1>1, PTL

==============================================================================
