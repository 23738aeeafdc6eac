------------------------------- MODULE Timeline -------------------------------
(***************************************************************************)
(* One home timeline (internal/timeline): a list of entries in memory,     *)
(* indexed from the database and prepared for the API on demand. Readers   *)
(* page through it, workers ingest new statuses and wipe deleted ones, an  *)
(* hourly job prunes it. Indexing and preparing hold the timeline's lock   *)
(* while the database changes; serving a page walks the same list without  *)
(* it. Ids are ULIDs: a higher id is a newer status.                       *)
(***************************************************************************)
EXTENDS Naturals, Sequences, SequencesExt, FiniteSets, FiniteSetsExt

CONSTANTS
    N,              \* statuses are 1..N
    BoostOf,        \* the status each one boosts, 0 for none
    AccountOf,      \* the author of each status
    Accounts,
    Fit,            \* statuses the visibility filter lets into this timeline
    Muted,          \* statuses the owner's filters hide when they are prepared
    Readers,        \* requests that page through the timeline
    Amount,         \* statuses per page
    Attempts,       \* queries of one grab (5 in the code)
    Depth,          \* boostReinsertionDepth (50 in the code)
    PreparedLen,    \* entries the hourly job leaves prepared (50 in the code)
    IndexedLen,     \* entries it leaves indexed (400 in the code)
    MaxPosts,       \* bound: statuses posted while we watch
    MaxGets,        \* bound: pages asked for
    MaxChanges,     \* bound: wipes, invalidations and prunings
    MaxFaults       \* bound: failing database calls

Ids     == 1..N
Highest == N + 1
Lowest  == 0

ASSUME TimelineAssumption ==
    /\ N \in Nat /\ BoostOf \in [Ids -> 0..N] /\ AccountOf \in [Ids -> Accounts]
    /\ Fit \subseteq Ids /\ Muted \subseteq Ids
    /\ Amount \in Nat \ {0} /\ Attempts \in Nat /\ Depth \in Nat
    /\ PreparedLen \in Nat /\ IndexedLen \in Nat /\ PreparedLen <= IndexedLen

VARIABLES
    row,      \* each status in the database: "unborn", "there", "gone"
    pending,  \* statuses a worker has yet to put into the timeline
    wiping,   \* what is left to do of wipeStatus
    items,    \* the list, front first: entries [id, prepared]
    job,      \* the call of indexXBetweenIDs that holds the lock
    reader,   \* each reader's call of Get
    ahead,    \* prepareNextQuery goroutines: [req, indexed]
    gets, changes, faults

vars == <<row, pending, wiping, items, job, reader, ahead, gets, changes, faults>>

Request == [behind : Ids \cup {Highest}, before : Ids \cup {Lowest}, down : BOOLEAN]

Entry(x) == [id |-> x, prepared |-> FALSE]

\* at: the element in hand, 0 for nil. loose: it has been removed from the list
\* since, kept: its entry was prepared then. drop: removeElements.
Idle == [pc |-> "idle", req |-> [behind |-> Highest, before |-> Lowest, down |-> TRUE],
         at |-> 0, loose |-> FALSE, kept |-> FALSE, page |-> <<>>, drop |-> {}]

\* req: what is left to query, want: how many, got: what each query found and
\* the filter let through, to be inserted in this order, the newest first.
NoJob == [pc |-> "free", req |-> Idle.req, want |-> 0, tries |-> 0, got |-> <<>>]

TypeOK ==
    /\ row \in [Ids -> {"unborn", "there", "gone"}]
    /\ pending \subseteq Ids
    /\ wiping \in Seq({"timeline", "row"} \X Ids)
    /\ items \in Seq([id : Ids, prepared : BOOLEAN])
    /\ job \in [pc : {"free", "grab", "insert"}, req : Request, want : 0..Amount,
                tries : 0..Attempts, got : Seq(SUBSET Ids)]
    /\ reader \in [Readers -> [pc : {"idle", "index", "prepare", "mark", "look", "assign",
                                     "append", "return", "fail", "front"},
                               req : Request, at : 0..N, loose : BOOLEAN, kept : BOOLEAN,
                               page : Seq(0..N), drop : SUBSET Ids]]
    /\ \A r \in Readers : Len(reader[r].page) <= Amount
    /\ ahead \subseteq [req : Request, indexed : BOOLEAN]
    /\ gets \in 0..MaxGets /\ changes \in 0..MaxChanges /\ faults \in 0..MaxFaults

Init ==
    /\ row \in [Ids -> {"unborn", "there"}]
    /\ Cardinality({x \in Ids : row[x] = "unborn"}) <= MaxPosts
    /\ pending = {} /\ wiping = <<>> /\ items = <<>> /\ job = NoJob
    /\ reader = [r \in Readers |-> Idle]
    /\ ahead = {} /\ gets = 0 /\ changes = 0 /\ faults = 0

Fault  == faults < MaxFaults /\ faults' = faults + 1
Change == changes < MaxChanges /\ changes' = changes + 1

Unlocked == job.pc = "free"

-----------------------------------------------------------------------------
(***************************************************************************)
(* The list                                                                *)
(***************************************************************************)
Pos(x)      == CHOOSE i \in DOMAIN items : items[i].id = x
Listed      == {items[i].id : i \in DOMAIN items}
IdAt(i)     == IF i \in DOMAIN items THEN items[i].id ELSE 0

\* Mutant: only the same status is skipped.
SkipInsert_SameOnly(x, y, depth) == x = y

SkipInsert(x, y, depth) ==
    \/ x = y
    \/ (BoostOf[x] # 0 /\ depth < Depth /\ BoostOf[x] \in {BoostOf[y], y})

Skipped(s, x) == \E i \in DOMAIN s : SkipInsert(x, s[i].id, i)

\* Mutant: the mark is the first entry that is newer.
InsertIndexed_AtNewer(s, x) ==
    LET marks == {i \in DOMAIN s : s[i].id > x}
    IN  IF Skipped(s, x) THEN s
        ELSE IF marks = {} THEN Append(s, Entry(x)) ELSE InsertAt(s, Min(marks), Entry(x))

InsertIndexed(s, x) ==
    LET marks == {i \in DOMAIN s : s[i].id <= x}
    IN  IF Skipped(s, x) THEN s
        ELSE IF marks = {} THEN Append(s, Entry(x)) ELSE InsertAt(s, Min(marks), Entry(x))

\* Elements leave the list: an element a reader holds has no neighbours any more.
Loosen(rd, S) ==
    [r \in Readers |->
        [rd[r] EXCEPT !.loose = @ \/ rd[r].at \in S,
                      !.kept  = IF rd[r].at \in S /\ ~rd[r].loose
                                THEN items[Pos(rd[r].at)].prepared ELSE @,
                      !.drop  = @ \ S]]

\* The list becomes s without the statuses of S: f gives the places of the others.
Keeps(s, S) ==
    LET K == {i \in DOMAIN s : s[i].id \notin S}
    IN  \E f \in [1..Cardinality(K) -> K] :
           /\ \A i, j \in DOMAIN f : i < j => f[i] < f[j]
           /\ \A k \in K : \E i \in DOMAIN f : f[i] = k
           /\ items' = [i \in DOMAIN f |-> s[f[i]]]

RemoveItems(rd, S) ==
    /\ Keeps(items, S)
    /\ reader' = Loosen(rd, S \cap Listed)

Unprepared(S) ==
    items' = [i \in DOMAIN items |->
                 [items[i] EXCEPT !.prepared = @ /\ items[i].id \notin S]]

-----------------------------------------------------------------------------
(***************************************************************************)
(* Indexing and preparing, under the lock                                  *)
(***************************************************************************)
\* The n statuses of S that come first in the direction of a query.
Nearest(S, n, down) ==
    {x \in S : Cardinality({y \in S : IF down THEN y > x ELSE y < x}) < n}

\* How many to grab: none if enough entries are listed between the two ids.
Missing(req) ==
    LET mark(P(_)) == {i \in DOMAIN items : P(items[i].id)}
        behind == mark(LAMBDA x : x <= req.behind)
        between == mark(LAMBDA x : x <= req.behind /\ x >= req.before)
        First(S) == IF S = {} THEN 0 ELSE CHOOSE i \in S : \A j \in S : i <= j
        Final(S) == IF S = {} THEN 0 ELSE CHOOSE i \in S : \A j \in S : i >= j
    IN  IF Len(items) < Amount THEN Amount - Len(items)
        ELSE IF Final(between) < First(behind) + Amount THEN Amount ELSE 0

\* The lock is taken, and kept if anything has to be grabbed.
Index(req) ==
    /\ Unlocked
    /\ job' = IF Missing(req) = 0 THEN job
              ELSE [NoJob EXCEPT !.pc = "grab", !.req = req, !.want = Missing(req)]

\* One query of grab, for what is still missing after the filter, downwards from
\* behind or upwards from before; the next one goes on where it ended.
GrabQuery ==
    LET req   == job.req
        Rows  == {x \in Ids : row[x] = "there" /\ req.before < x /\ x < req.behind}
        found == Nearest(Rows, job.want, req.down)
        more  == [job EXCEPT !.tries = @ + 1,
                             !.want  = @ - Cardinality(found \cap Fit),
                             !.req   = IF req.down THEN [@ EXCEPT !.behind = Min(found)]
                                       ELSE [@ EXCEPT !.before = Max(found)],
                             !.got   = IF found \cap Fit = {} THEN @ ELSE Append(@, found \cap Fit)]
    IN  /\ job.pc = "grab"
        /\ job' = IF job.tries < Attempts /\ job.want > 0 /\ found # {} THEN more
                  ELSE IF job.got = <<>> THEN NoJob ELSE [job EXCEPT !.pc = "insert"]
        /\ UNCHANGED <<row, pending, wiping, items, reader, ahead, gets, changes, faults>>

\* A query or the filter fails: what was found before is not inserted.
GrabFails ==
    /\ job.pc = "grab" /\ Fault
    /\ job' = NoJob
    /\ UNCHANGED <<row, pending, wiping, items, reader, ahead, gets, changes>>

\* One turn of the loop over what was grabbed, seen by those who walk the list.
InsertGrabbed ==
    LET first == Head(job.got)
        x     == Max(first)
        left  == IF first = {x} THEN Tail(job.got) ELSE <<first \ {x}>> \o Tail(job.got)
    IN  /\ job.pc = "insert"
        /\ items' = InsertIndexed(items, x)
        /\ job' = IF left = <<>> THEN NoJob ELSE [job EXCEPT !.got = left]
        /\ UNCHANGED <<row, pending, wiping, reader, ahead, gets, changes, faults>>

\* The entries prepareXBetweenIDs looks at, both ids included.
Wanted(req) ==
    Nearest({x \in Listed : req.before <= x /\ x <= req.behind}, Amount, req.down)

\* They are prepared in no particular order, until a call fails; those that are
\* deleted or hidden leave the list.
Prepare(req, rd) ==
    LET todo == {x \in Wanted(req) : ~items[Pos(x)].prepared}
        lost == {x \in todo : row[x] # "there" \/ x \in Muted}
    IN  /\ Unlocked
        /\ \E S \in SUBSET todo :
              /\ (S = todo /\ UNCHANGED faults) \/ (S # todo /\ Fault)
              /\ Keeps([i \in DOMAIN items |->
                           [items[i] EXCEPT !.prepared = @ \/ items[i].id \in S \ lost]],
                       S \cap lost)
              /\ reader' = Loosen(rd, S \cap lost)
        /\ UNCHANGED job

-----------------------------------------------------------------------------
(***************************************************************************)
(* Get                                                                     *)
(***************************************************************************)
Get(r, req) ==
    /\ reader[r].pc = "idle" /\ gets < MaxGets
    /\ req.before < req.behind
    /\ gets' = gets + 1
    /\ reader' = [reader EXCEPT ![r] = [Idle EXCEPT !.pc = "index", !.req = req]]
    /\ UNCHANGED <<row, pending, wiping, items, job, ahead, changes, faults>>

GetIndexes(r) ==
    /\ reader[r].pc = "index"
    /\ Index(reader[r].req)
    /\ reader' = [reader EXCEPT ![r].pc = "prepare"]
    /\ UNCHANGED <<row, pending, wiping, items, ahead, gets, changes, faults>>

GetPrepares(r) ==
    /\ reader[r].pc = "prepare"
    /\ Prepare(reader[r].req, [reader EXCEPT ![r].pc = "front"])
    /\ UNCHANGED <<row, pending, wiping, ahead, gets, changes>>

\* The lock is released; the walk begins at the front.
WalkBegins(r) ==
    /\ reader[r].pc = "front"
    /\ reader' = [reader EXCEPT ![r].pc = IF items = <<>> THEN "return"
                                          ELSE IF reader[r].req.down THEN "look" ELSE "mark",
                                ![r].at = IdAt(1)]
    /\ UNCHANGED <<row, pending, wiping, items, job, ahead, gets, changes, faults>>

\* The neighbour of the element in hand; a removed one has none.
Neighbour(r, d) ==
    IF reader[r].loose THEN 0
    ELSE IF d = "next" THEN IdAt(Pos(reader[r].at) + 1) ELSE IdAt(Pos(reader[r].at) - 1)

\* Paging up: the mark is the first entry not newer than before, or the last one.
Mark(r) ==
    /\ reader[r].pc = "mark"
    /\ LET next == Neighbour(r, "next")
       IN  reader' = [reader EXCEPT ![r] =
               IF @.at <= @.req.before \/ next = 0
               THEN [@ EXCEPT !.pc = "look"] ELSE [@ EXCEPT !.at = next]]
    /\ UNCHANGED <<row, pending, wiping, items, job, ahead, gets, changes, faults>>

\* On to the next element, down or up, or out of the loop.
Onward(r, rec) ==
    LET next == Neighbour(r, IF rec.req.down THEN "next" ELSE "prev")
    IN  IF next = 0 \/ Len(rec.page) >= Amount THEN [rec EXCEPT !.pc = "return"]
        ELSE [rec EXCEPT !.at = next, !.pc = "look"]

PreparedNow(r) ==
    IF reader[r].loose THEN reader[r].kept ELSE items[Pos(reader[r].at)].prepared

\* Not yet in range: paging up, only the entry of beforeID itself is passed over.
Before(x, req) == IF req.down THEN x >= req.behind ELSE x = req.before

\* Mutant: the walk ends at the upper id only.
Beyond_Ignored(x, req) == ~req.down /\ x >= req.behind

\* Out of range: the walk ends.
Beyond(x, req) == IF req.down THEN x <= req.before ELSE x >= req.behind

Looking(r) == reader[r].pc = "look"
InRange(r) == ~Before(reader[r].at, reader[r].req) /\ ~Beyond(reader[r].at, reader[r].req)

LookPasses(r) ==
    /\ Looking(r) /\ Before(reader[r].at, reader[r].req)
    /\ reader' = [reader EXCEPT ![r] = Onward(r, @)]
    /\ UNCHANGED <<row, pending, wiping, items, job, ahead, gets, changes, faults>>

LookEnds(r) ==
    /\ Looking(r) /\ ~Before(reader[r].at, reader[r].req) /\ Beyond(reader[r].at, reader[r].req)
    /\ reader' = [reader EXCEPT ![r].pc = "return"]
    /\ UNCHANGED <<row, pending, wiping, items, job, ahead, gets, changes, faults>>

LookReady(r) ==
    /\ Looking(r) /\ InRange(r) /\ PreparedNow(r)
    /\ reader' = [reader EXCEPT ![r].pc = "append"]
    /\ UNCHANGED <<row, pending, wiping, items, job, ahead, gets, changes, faults>>

\* "Whoops, this entry isn't prepared yet": it is deleted, ...
LookGone(r) ==
    /\ Looking(r) /\ InRange(r) /\ ~PreparedNow(r)
    /\ row[reader[r].at] # "there"
    /\ reader' = [reader EXCEPT ![r] =
                     Onward(r, [reader[r] EXCEPT !.drop = IF reader[r].loose THEN @ ELSE @ \cup {reader[r].at}])]
    /\ UNCHANGED <<row, pending, wiping, items, job, ahead, gets, changes, faults>>

\* ... or its prepared form is in hand and not yet stored, ...
LookQueries(r) ==
    /\ Looking(r) /\ InRange(r) /\ ~PreparedNow(r)
    /\ row[reader[r].at] = "there" /\ reader[r].at \notin Muted
    /\ reader' = [reader EXCEPT ![r].pc = "assign"]
    /\ UNCHANGED <<row, pending, wiping, items, job, ahead, gets, changes, faults>>

\* ... or the call fails, and with it Get: a hidden status is an error here.
LookFails(r) ==
    /\ Looking(r) /\ InRange(r) /\ ~PreparedNow(r)
    /\ row[reader[r].at] = "there"
    /\ (reader[r].at \in Muted /\ UNCHANGED faults) \/ Fault
    /\ reader' = [reader EXCEPT ![r].pc = "fail"]
    /\ UNCHANGED <<row, pending, wiping, items, job, ahead, gets, changes>>

Assign(r) ==
    /\ reader[r].pc = "assign"
    /\ items' = [i \in DOMAIN items |->
                    [items[i] EXCEPT !.prepared = @ \/ (~reader[r].loose /\ items[i].id = reader[r].at)]]
    /\ reader' = [reader EXCEPT ![r].pc = "append", ![r].kept = @ \/ reader[r].loose]
    /\ UNCHANGED <<row, pending, wiping, job, ahead, gets, changes, faults>>

\* What is served is entry.prepared as it is now: nil, the 0 here, if it was
\* unprepared since.
AppendItem(r) ==
    /\ reader[r].pc = "append"
    /\ reader' = [reader EXCEPT ![r] =
                     Onward(r, [reader[r] EXCEPT !.page = Append(@, IF PreparedNow(r) THEN reader[r].at ELSE 0)])]
    /\ UNCHANGED <<row, pending, wiping, items, job, ahead, gets, changes, faults>>

\* The query that is prepared after this one; none after since_id alone, and
\* none when GetID is called on nil.
NextQuery(me) ==
    IF me.pc = "fail" \/ me.page = <<>> \/ Last(me.page) = 0 THEN {}
    ELSE IF ~me.req.down
         THEN {[behind |-> Highest, before |-> Last(me.page), down |-> FALSE]}
    ELSE IF me.req.behind = Highest /\ me.req.before # Lowest THEN {}
         ELSE {[behind |-> Last(me.page), before |-> Lowest, down |-> TRUE]}

\* The deferred removal, without the lock, and what Get does with the page.
Return(r) ==
    /\ reader[r].pc \in {"return", "fail"}
    /\ RemoveItems([reader EXCEPT ![r] = Idle], reader[r].drop)
    /\ ahead' = ahead \cup {[req |-> q, indexed |-> FALSE] : q \in NextQuery(reader[r])}
    /\ UNCHANGED <<row, pending, wiping, job, gets, changes, faults>>

\* prepareNextQuery, in a goroutine of its own.
AheadIndexes(a) ==
    /\ ~a.indexed
    /\ Index(a.req)
    /\ ahead' = (ahead \ {a}) \cup {[a EXCEPT !.indexed = TRUE]}
    /\ UNCHANGED <<row, pending, wiping, items, reader, gets, changes, faults>>

AheadPrepares(a) ==
    /\ a.indexed
    /\ Prepare(a.req, reader)
    /\ ahead' = ahead \ {a}
    /\ UNCHANGED <<row, pending, wiping, gets, changes>>

-----------------------------------------------------------------------------
(***************************************************************************)
(* Workers and the hourly job                                              *)
(***************************************************************************)
\* A status is stored and queued for the workers.
Post(x) ==
    /\ row[x] = "unborn"
    /\ row' = [row EXCEPT ![x] = "there"]
    /\ pending' = pending \cup ({x} \cap Fit)
    /\ UNCHANGED <<wiping, items, job, reader, ahead, gets, changes, faults>>

\* IngestOne: an entry that cannot be prepared stays in the list unprepared.
Ingest(x) ==
    /\ Unlocked /\ x \in pending
    /\ pending' = pending \ {x}
    /\ LET new   == InsertIndexed(items, x)
           ready == new # items /\ row[x] = "there" /\ x \notin Muted
       IN  \/ /\ items' = [i \in DOMAIN new |-> [new[i] EXCEPT !.prepared = @ \/ (ready /\ new[i].id = x)]]
              /\ UNCHANGED faults
           \/ ready /\ Fault /\ items' = new
    /\ UNCHANGED <<row, wiping, job, reader, ahead, gets, changes>>

\* wipeStatus: the boosts of the status and then the status, each taken out of
\* the timelines first and out of the database after.
WipeStatus(x) ==
    /\ Change
    /\ wiping = <<>> /\ row[x] = "there"
    /\ LET Boosts == {b \in Ids : BoostOf[b] = x /\ row[b] = "there"}
       IN  wiping' = FlattenSeq([i \in DOMAIN Append(SetToSortSeq(Boosts, >), x) |->
                        LET y == Append(SetToSortSeq(Boosts, >), x)[i]
                        IN  <<<<"timeline", y>>, <<"row", y>>>>])
    /\ UNCHANGED <<row, pending, items, job, reader, ahead, gets, faults>>

WipeFromTimeline ==
    /\ Unlocked /\ wiping # <<>> /\ Head(wiping)[1] = "timeline"
    /\ RemoveItems(reader, {Head(wiping)[2]})
    /\ wiping' = Tail(wiping)
    /\ UNCHANGED <<row, pending, job, ahead, gets, changes, faults>>

\* DeleteStatusByID; an error is noted and the rest goes on.
WipeRow ==
    /\ wiping # <<>> /\ Head(wiping)[1] = "row"
    /\ \/ row' = [row EXCEPT ![Head(wiping)[2]] = "gone"] /\ UNCHANGED faults
       \/ Fault /\ UNCHANGED row
    /\ wiping' = Tail(wiping)
    /\ UNCHANGED <<pending, items, job, reader, ahead, gets, changes>>

\* invalidateStatusFromTimelines: the status and its boosts are unprepared.
Unprepare(x) ==
    /\ Unlocked /\ Change
    /\ Unprepared({y \in Ids : y = x \/ BoostOf[y] = x})
    /\ UNCHANGED <<row, pending, wiping, job, reader, ahead, gets, faults>>

\* WipeItemsFromAccountID, after a block.
RemoveAllByOrBoosting(a) ==
    /\ Unlocked /\ Change
    /\ RemoveItems(reader, {x \in Ids : AccountOf[x] = a \/ (BoostOf[x] # 0 /\ AccountOf[BoostOf[x]] = a)})
    /\ UNCHANGED <<row, pending, wiping, job, ahead, gets, faults>>

\* The hourly job, on a timeline nobody has asked for within the hour.
Prune ==
    /\ Unlocked /\ Change
    /\ \A r \in Readers : reader[r].pc = "idle"
    /\ items' = [i \in 1..(IF Len(items) < IndexedLen THEN Len(items) ELSE IndexedLen) |->
                    [items[i] EXCEPT !.prepared = @ /\ i <= PreparedLen]]
    /\ UNCHANGED <<row, pending, wiping, job, reader, ahead, gets, faults>>

Step(r) ==
    \/ GetIndexes(r) \/ GetPrepares(r) \/ WalkBegins(r) \/ Mark(r)
    \/ LookPasses(r) \/ LookEnds(r) \/ LookReady(r) \/ LookGone(r) \/ LookQueries(r) \/ LookFails(r)
    \/ Assign(r) \/ AppendItem(r) \/ Return(r)

Next ==
    \/ \E r \in Readers : Step(r) \/ \E req \in Request : Get(r, req)
    \/ \E a \in ahead : AheadIndexes(a) \/ AheadPrepares(a)
    \/ \E x \in Ids : Post(x) \/ Ingest(x) \/ WipeStatus(x) \/ Unprepare(x)
    \/ \E a \in Accounts : RemoveAllByOrBoosting(a)
    \/ GrabQuery \/ GrabFails \/ InsertGrabbed \/ WipeFromTimeline \/ WipeRow \/ Prune

Spec == Init /\ [][Next]_vars

-----------------------------------------------------------------------------
(***************************************************************************)
(* Properties                                                              *)
(***************************************************************************)
\* The index is in order of ids, newest first, and holds no status twice,
\* whoever inserts, removes and prunes while readers walk through it.
NewestFirst == \A i, j \in DOMAIN items : i < j => items[i].id > items[j].id

\* The case of the next property: no list is deeper than the look for a boost.
DepthCovers == N < Depth

\* A status is not boosted into the timeline twice while it is that deep.
BoostedOnce ==
    \A i, j \in DOMAIN items :
        i # j /\ BoostOf[items[i].id] # 0 => BoostOf[items[i].id] # BoostOf[items[j].id]

\* A page is in order and without repetitions, and paging down it lies between
\* the two ids, although the list changes under the unlocked walk.
PageInOrder ==
    \A r \in Readers : LET me == reader[r] IN
        /\ \A i, j \in DOMAIN me.page :
              i < j /\ me.page[i] # 0 /\ me.page[j] # 0
                  => IF me.req.down THEN me.page[i] > me.page[j] ELSE me.page[i] < me.page[j]
        /\ \A i \in DOMAIN me.page :
              me.page[i] # 0 => /\ me.page[i] < me.req.behind
                                /\ me.req.down => me.page[i] > me.req.before
===============================================================================
