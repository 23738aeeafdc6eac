------------------------------ MODULE RssPoller ------------------------------
(***************************************************************************)
(* The polling loop of the RSS bridge (internal/rss/poller.go, db.go,      *)
(* status.go, tooter.go): one goroutine that, on every tick, lists the     *)
(* followed proxy accounts with the date of their newest status, fetches   *)
(* each account's feed with a conditional GET, saves the HTTP validators,  *)
(* and then creates one status per new item, oldest first.                 *)
(*                                                                         *)
(* An item of account a is its position i in feed[a], the sequence of the  *)
(* publication dates in the order in which the remote site added them; the *)
(* length of that sequence stands for the version of the feed document, so *)
(* both validators (Etag, Last-Modified) are versions.                     *)
(***************************************************************************)
EXTENDS Naturals, Sequences, Functions

CONSTANTS
    Accounts,    \* the local proxy accounts, each with its feed URL
    Dates,       \* publication dates
    Undated,     \* PublishedParsed of an item whose date is missing or unreadable
    SiteDates,   \* what the sites put on their items: dates, Undated
    MaxItems,    \* bound: items a site publishes on one feed
    MaxFaults,   \* bound: failing calls, crashes and stops
    NoEtag       \* the empty Etag string

ASSUME DatesAssumption  == Dates \subseteq (Nat \ {0})
ASSUME UndatedAssumption == Undated \notin Nat /\ SiteDates \subseteq (Dates \cup {Undated})
ASSUME BoundsAssumption == MaxItems \in Nat /\ MaxFaults \in Nat
ASSUME NoEtagAssumption == NoEtag \notin Nat

VARIABLES
    feed,        \* remote: publication dates of each account's items
    follows,     \* database: does anyone follow the account
    statuses,    \* database: items with a status row, in insertion (ULID) order
    threads,     \* database: items for which a thread row was inserted
    etag,        \* database: Fields[0].Value of the account
    fetchedAt,   \* database: FetchedAt of the account
    tick,        \* the ticker's channel (capacity 1) holds a tick
    done,        \* the tooter's context is cancelled
    pc,          \* control state of refresh()
    toPoll,      \* local: accounts still to poll, with their LastTweet
    reply,       \* local: validators of the answer being handled, {} or one
    toCreate,    \* local: items still to create
    creating,    \* local: item being created, {} or one
    pushed,      \* history: items handed to Workers.Client.Queue
    faults       \* number of failures so far

db    == <<follows, statuses, threads, etag, fetchedAt>>
local == <<toPoll, reply, toCreate, creating>>
vars  == <<feed, db, tick, done, pc, local, pushed, faults>>

Item  == Accounts \X (Nat \ {0})
Poll  == [acct : Accounts, last : Nat]
Reply == [acct : Accounts, etag : Nat \cup {NoEtag}, fetchedAt : Nat]

TypeOK ==
    /\ feed \in [Accounts -> Seq(SiteDates)]
    /\ follows \in [Accounts -> BOOLEAN]
    /\ statuses \in [Accounts -> Seq(Nat \ {0})]
    /\ threads \subseteq Item
    /\ etag \in [Accounts -> Nat \cup {NoEtag}]
    /\ fetchedAt \in [Accounts -> Nat]
    /\ tick \in BOOLEAN /\ done \in BOOLEAN
    /\ pc \in {"select", "poll", "create", "put", "push", "exited"}
    /\ toPoll \subseteq Poll
    /\ reply \subseteq Reply
    /\ toCreate \subseteq Item
    /\ creating \subseteq Item
    /\ pushed \subseteq Item
    /\ faults \in Nat

Init ==
    /\ feed = [a \in Accounts |-> <<>>]
    /\ follows = [a \in Accounts |-> FALSE]
    /\ statuses = [a \in Accounts |-> <<>>]
    /\ threads = {}
    /\ etag = [a \in Accounts |-> NoEtag]
    /\ fetchedAt = [a \in Accounts |-> 0]
    /\ tick = FALSE /\ done = FALSE
    /\ pc = "select"
    /\ toPoll = {} /\ reply = {} /\ toCreate = {} /\ creating = {}
    /\ pushed = {}
    /\ faults = 0

(***************************************************************************)
(* Names of the code's ideas.                                              *)
(***************************************************************************)
Version(a) == Len(feed[a])
Date(x)    == feed[x[1]][x[2]]
Tooted(a)  == Range(statuses[a])

\* max(statuses.created_at) of the account; the zero time for a NULL maximum.
LastTweet(a) ==
    LET dates == {0} \cup {feed[a][i] : i \in Tooted(a)}
    IN  CHOOSE d \in dates : \A e \in dates : e <= d

\* Mutant: INNER instead of LEFT JOIN on statuses.
AccountsToPoll_InnerJoin ==
    {[acct |-> a, last |-> LastTweet(a)] :
        a \in {b \in Accounts : follows[b] /\ statuses[b] # <<>>}}

\* The row set of GetAccountsToPoll: followed accounts, each once.
AccountsToPoll ==
    {[acct |-> a, last |-> LastTweet(a)] : a \in {b \in Accounts : follows[b]}}

\* Every item of the document has a publication date.
AllDated(a) == \A i \in 1..Version(a) : feed[a][i] # Undated

\* Mutant: "not before" instead of "after".
NewItems_NotBefore(p) ==
    {<<p.acct, i>> : i \in {j \in 1..Version(p.acct) : feed[p.acct][j] >= p.last}}

\* Mutant: the comparison is off by one.
NewItems_OffByOne(p) ==
    {<<p.acct, i>> : i \in {j \in 1..Version(p.acct) : feed[p.acct][j] > p.last + 1}}

\* item.PublishedParsed.After(infos.LastTweet) over the items of the document.
NewItems(p) ==
    {<<p.acct, i>> : i \in {j \in 1..Version(p.acct) : feed[p.acct][j] > p.last}}

\* The site's answer to If-None-Match / If-Modified-Since: an entity tag, when
\* sent, takes precedence over the date (RFC 9110, 13.1.3).
NotModified(a) ==
    IF etag[a] # NoEtag THEN etag[a] = Version(a) ELSE fetchedAt[a] = Version(a)

\* Mutant: LastModified is not preset with the request's date.
Replies_NoDefault(a) ==
    [acct : {a}, etag : {Version(a), NoEtag}, fetchedAt : {Version(a), NoEtag}]

\* Etag and Last-Modified of an answer, each header possibly absent; without a
\* Last-Modified header the request's own date is kept.
Replies(a) ==
    [acct : {a}, etag : {Version(a), NoEtag}, fetchedAt : {Version(a), fetchedAt[a]}]

\* Mutant: the sort is forgotten.
Oldest_Unsorted(x) == x \in toCreate

\* The stable sort by PublishedParsed followed by the range loop: the next item
\* created is one of the oldest left (order of equal dates is the document's).
Oldest(x) == \A y \in toCreate : Date(x) <= Date(y)

Fault == faults < MaxFaults /\ faults' = faults + 1

-----------------------------------------------------------------------------
(***************************************************************************)
(* Environment: the remote site, followers, the clock, the operator.       *)
(***************************************************************************)
Publish(a, d) ==
    /\ Version(a) < MaxItems
    /\ feed' = [feed EXCEPT ![a] = Append(@, d)]
    /\ UNCHANGED <<db, tick, done, pc, local, pushed, faults>>

Follow(a) ==
    /\ follows' = [follows EXCEPT ![a] = ~@]
    /\ UNCHANGED <<feed, statuses, threads, etag, fetchedAt, tick, done, pc, local, pushed, faults>>

Tick ==
    /\ pc # "exited"
    /\ ~tick
    /\ tick' = TRUE
    /\ UNCHANGED <<feed, db, done, pc, local, pushed, faults>>

\* Stop(): cancels the context every request and query of the loop runs under.
Stop ==
    /\ pc # "exited"
    /\ ~done
    /\ Fault
    /\ done' = TRUE
    /\ UNCHANGED <<feed, db, tick, pc, local, pushed>>

\* The process ends and everything in memory is gone, the worker queue too.
Die ==
    /\ pc' = "exited"
    /\ toPoll' = {} /\ reply' = {} /\ toCreate' = {} /\ creating' = {}
    /\ tick' = FALSE
    /\ UNCHANGED <<feed, db, done, pushed>>

\* A crash, or a signal: the server never calls Stop on its way out.
Crash == pc # "exited" /\ Fault /\ Die

\* Start() in a new process.
Start ==
    /\ pc = "exited"
    /\ pc' = "select"
    /\ tick' = FALSE /\ done' = FALSE
    /\ UNCHANGED <<feed, db, local, pushed, faults>>

-----------------------------------------------------------------------------
(***************************************************************************)
(* refresh()                                                               *)
(***************************************************************************)
Exit ==
    /\ pc = "select"
    /\ done
    /\ pc' = "exited"
    /\ UNCHANGED <<feed, db, tick, done, local, pushed, faults>>

\* A tick is taken and GetAccountsToPoll answers.
BeginPoll ==
    /\ pc = "select" /\ tick /\ ~done
    /\ tick' = FALSE
    /\ pc' = "poll"
    /\ toPoll' = AccountsToPoll
    /\ UNCHANGED <<feed, db, done, reply, toCreate, creating, pushed, faults>>

\* GetAccountsToPoll fails: logged, and the loop goes on with the rows scanned
\* before the failure (none at all once the context is cancelled).
BeginPollFails ==
    /\ pc = "select" /\ tick
    /\ tick' = FALSE
    /\ pc' = "poll"
    /\ \/ done /\ toPoll' = {} /\ UNCHANGED faults
       \/ ~done /\ Fault /\ toPoll' \in SUBSET AccountsToPoll
    /\ UNCHANGED <<feed, db, done, reply, toCreate, creating, pushed>>

\* GetAccountByID and parseURLWithCache succeed for one account. A 304 carries
\* no feed; otherwise the items newer than LastTweet join toCreate.
Fetch(p, r) ==
    /\ pc = "poll" /\ reply = {} /\ ~done
    /\ toPoll' = toPoll \ {p}
    /\ reply' = {r}
    /\ \/ NotModified(p.acct) /\ UNCHANGED toCreate
       \/ /\ ~NotModified(p.acct) /\ AllDated(p.acct)
          /\ toCreate' = toCreate \cup NewItems(p)
    /\ UNCHANGED <<feed, db, tick, done, pc, creating, pushed, faults>>

\* PublishedParsed is nil for one of the items: the dereference panics in a
\* goroutine nobody recovers, which ends the whole process.
FetchPanics(p) ==
    /\ pc = "poll" /\ reply = {} /\ ~done
    /\ ~NotModified(p.acct) /\ ~AllDated(p.acct)
    /\ Die
    /\ UNCHANGED faults

\* Either of them fails (database, transport, HTTP code, encoding, parser):
\* the account is skipped and its validators are left alone.
FetchFails(p) ==
    /\ pc = "poll" /\ reply = {}
    /\ IF done THEN UNCHANGED faults ELSE Fault
    /\ toPoll' = toPoll \ {p}
    /\ UNCHANGED <<feed, db, tick, done, pc, reply, toCreate, creating, pushed>>

\* UpdateAccount("fields", "fetched_at"), before any of the items is created.
SaveValidators ==
    /\ pc = "poll" /\ ~done
    /\ \E r \in reply :
         /\ etag' = [etag EXCEPT ![r.acct] = r.etag]
         /\ fetchedAt' = [fetchedAt EXCEPT ![r.acct] = r.fetchedAt]
    /\ reply' = {}
    /\ UNCHANGED <<feed, follows, statuses, threads, tick, done, pc, toPoll, toCreate, creating, pushed, faults>>

SaveValidatorsFails ==
    /\ pc = "poll" /\ reply # {}
    /\ IF done THEN UNCHANGED faults ELSE Fault
    /\ reply' = {}
    /\ UNCHANGED <<feed, db, tick, done, pc, toPoll, toCreate, creating, pushed>>

BeginCreate ==
    /\ pc = "poll" /\ reply = {} /\ toPoll = {}
    /\ pc' = "create"
    /\ UNCHANGED <<feed, db, tick, done, local, pushed, faults>>

\* PutStatus begins with the oldest item left: transport, then the thread row.
PutThread(x) ==
    /\ pc = "create" /\ ~done
    /\ Oldest(x)
    /\ threads' = threads \cup {x}
    /\ toCreate' = toCreate \ {x}
    /\ creating' = {x}
    /\ pc' = "put"
    /\ UNCHANGED <<feed, follows, statuses, etag, fetchedAt, tick, done, toPoll, reply, pushed, faults>>

\* One of them fails: logged, and the loop goes on with the next item.
PutThreadFails(x) ==
    /\ pc = "create"
    /\ IF done THEN UNCHANGED faults ELSE Fault
    /\ Oldest(x)
    /\ toCreate' = toCreate \ {x}
    /\ UNCHANGED <<feed, db, tick, done, pc, toPoll, reply, creating, pushed>>

\* After the attachments (whose errors are ignored), the status row.
PutStatus ==
    /\ pc = "put" /\ ~done
    /\ \E x \in creating : statuses' = [statuses EXCEPT ![x[1]] = Append(@, x[2])]
    /\ pc' = "push"
    /\ UNCHANGED <<feed, follows, threads, etag, fetchedAt, tick, done, local, pushed, faults>>

PutStatusFails ==
    /\ pc = "put"
    /\ IF done THEN UNCHANGED faults ELSE Fault
    /\ creating' = {}
    /\ pc' = "create"
    /\ UNCHANGED <<feed, db, tick, done, toPoll, reply, toCreate, pushed>>

\* The end of PutStatus: the side effects are handed to the client worker.
PushToClientQueue ==
    /\ pc = "push"
    /\ pushed' = pushed \cup creating
    /\ creating' = {}
    /\ pc' = "create"
    /\ UNCHANGED <<feed, db, tick, done, toPoll, reply, toCreate, faults>>

EndPoll ==
    /\ pc = "create" /\ toCreate = {}
    /\ pc' = "select"
    /\ UNCHANGED <<feed, db, tick, done, local, pushed, faults>>

-----------------------------------------------------------------------------
Environment ==
    \/ \E a \in Accounts : Follow(a) \/ \E d \in SiteDates : Publish(a, d)
    \/ Tick \/ Stop \/ Crash \/ Start

Refresh ==
    \/ Exit \/ BeginPoll \/ BeginPollFails
    \/ \E p \in toPoll : \/ FetchFails(p) \/ FetchPanics(p)
                         \/ \E r \in Replies(p.acct) : Fetch(p, r)
    \/ SaveValidators \/ SaveValidatorsFails \/ BeginCreate
    \/ \E x \in toCreate : PutThread(x) \/ PutThreadFails(x)
    \/ PutStatus \/ PutStatusFails \/ PushToClientQueue \/ EndPoll

Next == Environment \/ Refresh

Spec == Init /\ [][Next]_vars

\* The ticker keeps ticking, the goroutine is scheduled, and an ended process
\* is started again.
FairSpec == Spec /\ WF_vars(Tick) /\ WF_vars(Refresh) /\ WF_vars(Start)

-----------------------------------------------------------------------------
(***************************************************************************)
(* Properties                                                              *)
(***************************************************************************)

\* No item is tooted twice, whatever polls, restarts, failed saves and repeated
\* downloads of the same document happen (the LastTweet filter is the only
\* deduplication refresh() has).
NoDuplicateStatus == \A a \in Accounts : IsInjective(statuses[a])

\* The statuses of an account are inserted, and so get their ULIDs, in the
\* order of their created_at dates: paging by ID agrees with the feed's dates
\* although refresh() mixes all accounts in one toCreate list.
ChronologicalStatuses ==
    \A a \in Accounts : \A i, j \in DOMAIN statuses[a] :
        i < j => Date(<<a, statuses[a][i]>>) <= Date(<<a, statuses[a][j]>>)

\* The validators refresh() has stored for account a claim this much is seen.
Seen(a) == IF etag[a] # NoEtag THEN etag[a] ELSE fetchedAt[a]

\* The feed of a lists its items in strictly increasing order of their dates.
StrictFeed(a) == AllDated(a) /\ \A i, j \in 1..Version(a) : i < j => feed[a][i] < feed[a][j]

\* UpdateAccount runs before the statuses are created; as long as nothing has
\* failed and the feeds are in order, no item behind the stored validators is
\* missing: it is tooted or still to be created, so a later 304 hides nothing.
ValidatorsCoverItems ==
    faults = 0 /\ (\A a \in Accounts : StrictFeed(a)) =>
        \A a \in Accounts : \A i \in 1..Seen(a) :
            i \in Tooted(a) \/ <<a, i>> \in toCreate \cup creating

\* Every published item of an account that stays followed gets its status and its
\* message to the client workers (timelines, deliveries) in the end, unless
\* something failed or its date is not after its predecessor's.
EveryItemTooted ==
    \A a \in Accounts : \A i \in 1..MaxItems :
        (Version(a) >= i) ~>
            (i \in Tooted(a) /\ <<a, i>> \in pushed) \/ ~follows[a] \/ faults > 0 \/ ~StrictFeed(a)

==============================================================================
