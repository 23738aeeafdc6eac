# RssTooter: a TLA+ verification project

RssTooter is a fork of GoToSocial, an ActivityPub server in Go, that turns RSS
and Atom feeds into fediverse accounts: a webfinger query for a site creates a
local "proxy" account, and a polling loop toots the new items of every followed
one. This project models the parts of it whose correctness depends on the order
in which things happen (the bridge itself, the queues and workers behind it,
the outgoing deliveries, the streams and timelines of clients, follows and
blocks between servers, polls and their expiry, the fetching of what other
servers publish), checks them with TLC on small instances and proves the central
facts with TLAPS for every instance.

Paths below are relative to the root of the repository; the modules are in this
directory. `PROJECT.json` has the same information in machine-readable form:
components, runs, mutants, the map from definitions to source lines, findings,
hazards and theorems.

## 1. Inventory

| Component | Source | State it keeps | Operations |
|---|---|---|---|
| RSS poller | `internal/rss/poller.go`, `db.go`, `status.go`, `tooter.go` | per account: statuses, Etag (first profile field), FetchedAt; one goroutine with a ticker and a context | `refresh`, `GetAccountsToPoll`, `parseURLWithCache`, `PutStatus`, `Start`, `Stop` |
| Proxy accounts | `internal/rss/user.go`, `feed.go`, webfinger handler | rows of accounts, account_settings, users | `NewUser`, `NewRssFeed`, `WebfingerGETRequest` |
| Queues | `internal/queue` | list of values, index, wait channel, one mutex | `Push`, `Pop`, `PopCtx`, `Wait`, `Delete` |
| Worker pools | `internal/workers` | queue, n goroutines, one `runners.Service` each | `Start`, `Stop`, `process` |
| HTTP client | `internal/httpclient` | cache of failing hosts, attempts and backoff of a request | `Do`, `DoOnce`, `BackOff` |
| Delivery workers | `internal/transport/delivery` | indexed queue, a backlog per worker | `Start`, `Stop`, `process`, `next` |
| Streaming | `internal/stream`, `internal/processing/stream`, `internal/api/client/streaming` | map of streams, a channel and a set of types each, two goroutines per websocket | `Open`, `Post`, `PostAll`, `send`, `Recv`, `Close`, the websocket loops |
| Timelines | `internal/timeline`, `internal/processing/timeline` | per timeline: a list of indexed entries, some of them prepared, a mutex | `Get`, `IngestOne`, `indexXBetweenIDs`, `prepareXBetweenIDs`, `Remove`, `RemoveAllByOrBoosting`, `UnprepareItem`, `Prune` |
| Relationships | `internal/processing/account`, `internal/federation/federatingdb`, `internal/processing/workers`, `internal/db/bundb/relationship*.go` | follows, follow requests, blocks, the follow cache | follow, accept, reject, undo, block, unblock, from a client and from the inbox |
| Scheduler and polls | `internal/scheduler`, `internal/processing/polls`, `internal/db/bundb/poll.go` | named tasks, queued jobs; rows of polls and votes, the cached poll | `ScheduleAll`, `ScheduleExpiry`, `onExpiry`, `PollVote`, `DeletePollByID`, `DeletePollVotes`, wipeStatus |
| Dereferencing | `internal/federation/dereferencing`, `internal/federation/authenticate.go` | rows and cached models of remote accounts and statuses with their fetch times, locks per URI, handshake marks | `GetStatusByURI`, `RefreshStatus`, `GetAccountByURI`, `GetAccountByUsernameDomain`, `RefreshAccount`, `DereferenceStatusAncestors` |
| Client and federation processing | `internal/processing/workers` | none of its own: side effects of messages | one handler per message type |
| Cleaner, media | `internal/cleaner`, `internal/media` | media rows and files | process, prune |
| API, web, configuration, database layer, type conversion, OAuth | rest of `internal` | rows, requests | plumbing |

How they interact. A webfinger request runs `NewUser` in its HTTP goroutine and
writes three tables. The poller's goroutine reads accounts, follows and statuses,
writes accounts and statuses, and pushes one message per status to
`Workers.Client.Queue`. A client worker processes it: timelines, streams
(`Streams.Post` from the worker's goroutine) and deliveries
(`Workers.Delivery.Queue`). Delivery workers attempt them through the shared
HTTP client. On shutdown the server stops the worker pools, then closes the
database; nothing stops the poller first. What other servers send arrives at the
inbox, in an HTTP goroutine that authenticates it (and may have to fetch the
sender's account first), changes the database and pushes a message for the
federator workers; those fetch statuses and accounts, answer follows and notify.
The dereferencer pushes the ancestors of refreshed statuses to a pool of its own.
The scheduler runs poll expiries in goroutines that push to the client queue.

What is hard. Nothing in the bridge runs in a transaction: a poll is a sequence
of calls each of which can fail or be the last before a crash, and
deduplication rests on one date comparison. Account creation is a check
followed, seconds later, by an insert. The queues hand out wait channels that a
push closes, a pattern where a wakeup is easily lost. Deliveries move between
queue, hand and backlog under timers, new arrivals, panics and Stop. Streams
block the workers that post to them. A timeline is walked without the lock under
which it changes. Two servers hold each other's follows and blocks, and their
activities overtake each other. Almost every lookup of a remote object may
refresh it: what was read before the lock is written after it. The result caches
in front of the database are filled outside its transactions.

What makes each component correct:

- poller: no item twice; statuses in the order of their dates; no item hidden
  behind saved validators; every item in the end;
- proxy accounts: one account per name; a complete set of rows; a query is
  answered with the account of the feed it found;
- pools: each task once, in order; no worker asleep while work is queued; after
  Stop nothing runs; Stop returns;
- client and deliveries: a bounded number of attempts, none of them early; a
  failing host stops all its requests; a delivery is always in one place and
  comes to an end;
- streams: messages of a worker in order; no worker blocked for ever; nothing
  left of a client that is gone;
- timelines: newest first; one boost of a status within the reinsertion depth;
  a page in order and within the bounds asked for, whatever happens meanwhile;
- relationships: no follow or request beside a block; following or asking, not
  both; a lookup finds the row that is there; a request gets its answer;
- polls: as many counted votes as stored ones; no votes left of a deleted poll;
  every poll closes, through restarts, and its end is announced once;
- dereferencing: one ID per object in row and cache; a newer version is not
  overwritten by an older one; a reply is linked to its parent; an account being
  fetched is marked, so that its server gets our key; no call hangs.

## 2. Modules

| Module | Models | Notes |
|---|---|---|
| `RssPoller` | the polling loop and its database state | one action per call of the loop that reads or writes something outside it |
| `FeedUsername` | from a resource to a URL and from a feed URL to a username | pure operators over sequences of symbols |
| `RssUser` | concurrent `NewUser` calls | extends `FeedUsername` |
| `RssProofs` | theorems about `RssPoller` and `RssUser` | inductive invariants `IInv`, `CInv` and `UserInv` |
| `WaitQueue` | `SimpleQueue`, `StructQueue` | operators on `queue` and `waiters`, extended by the two pools |
| `WorkerPool` | `MsgWorkerPool`, `FnWorkerPool` | |
| `FifoWork` | what a pool promises | abstract; `WorkerPool` implements it |
| `WorkerPoolProofs` | theorems about the pool | inductive invariant `PoolInv`, refinement |
| `HttpRetry` | `DoOnce`, `do`, `BackOff` | pure operators, used by both retry loops |
| `HttpClient` | `Client.Do` | extends `HttpRetry` |
| `DeliveryWorker` | the delivery pool | extends `WaitQueue` and `HttpRetry` |
| `DeliveryWorkerProofs` | theorems about `DeliveryWorker` and `HttpClient` | inductive invariants `DeliveryInv` and `ClientInv` |
| `Streams` | streams, posting workers, websockets | |
| `StreamsProofs` | theorems about them | inductive invariant `StreamsInv` |
| `Timeline` | one home timeline | readers walk the list while workers change it |
| `TimelineProofs` | theorems about it | inductive invariant `IInv` |
| `FollowStore` | `relationshipDB` for one pair of accounts, with the follow cache | operators on a record, one per call |
| `Relationships` | two servers, their inboxes, handlers and workers | extends `FollowStore`, which it has once per server |
| `RelationshipsProofs` | theorems about it | inductive invariant `IInv` |
| `Polls` | scheduler, expiry, votes and deletion of a poll | |
| `PollsProofs` | theorems about them | inductive invariant `PollsInv` |
| `Dereference` | the dereferencer | statuses with their authors and ancestors |
| `DereferenceProofs` | theorems about it | inductive invariants `DerefInv`, `Marked` and `LinkInv` |
| `MC*` | instances for TLC | definitions of function-valued constants |

Two modules hold the theorems of two components each, and therefore extend both:
`RssUser` and `HttpClient` have names of their own for their state and for `Init`,
`Next` and `Spec` (`userPc`, `UserSpec`; `doPc`, `DoSpec`). The two specifications
share nothing but operators.

Definitions whose comment begins with "Mutant:" are deliberately wrong versions
of the definition after them. They are used by no specification; replacing the
correct definition by the mutant must make TLC find the property that
`PROJECT.json` names violated, which shows that the property depends on that
line of the code.

### State and actions

**RssPoller.** An item is a pair of an account and a position in its feed; the
length of a feed stands for the version of its document, which is what Etag and
Last-Modified identify. `refresh()` is split at every call that leaves the
goroutine: `BeginPoll` (the query), `Fetch` (GetAccountByID and the conditional
GET, for the accounts in any order, as the query has no ORDER BY),
`SaveValidators`, `BeginCreate`, `PutThread`, `PutStatus`, `PushToClientQueue`.
Each has a failing version that does what the code's error path does. `Stop`
cancels the context, after which every call fails; `Crash` ends the process
anywhere; `FetchPanics` is the nil `PublishedParsed`. Both headers of an answer
may be absent. Texts, attachments and the other columns are left out.

**RssUser.** A string is a sequence of symbols (`"."`, `"/"`, `"atom"`, ...) so
that the regular expressions of `feed.go` are modelled by what they remove or
replace. A request goes through `Begin`, `Lookup`, `FetchFeed`, `Check`,
`FetchAvatar`, `PutAccountSettings`, `PutAccount`, `PutUser`, `WebfingerGet`,
with a failure possible at each call and a crash between any two. What the
network serves is the constant `Site`. The hash of a long path is an injective
symbol: collisions of xxhash are outside the model.

**WaitQueue, WorkerPool.** All methods of a queue hold its mutex, so each is one
step. The wait channel is represented by the set of goroutines that hold the
open one. A worker pops (`Take`), or takes the channel in the same critical
section (`Block`), is woken (`Wake`) or cancelled (`Exit`), and finishes its
task (`Finish`, whether Process returns or panics). `StopPool`, `StopNext` and
`StopReturns` are the loop of Stop over the workers.

**HttpRetry, HttpClient, DeliveryWorker.** Outcomes of an attempt are a response,
an error no retry can help, or a temporary one with its Retry-After; `DoOnce`
computes attempts, retry flag and the marking of the host. Time is counted in
units of `baseBackoff`, relative to now. A delivery worker's `next` and
`process` are split where the code unlocks or waits: between `Queue.Pop` and
`Queue.Wait` in particular (`FoundNothing`, `BeginWait`).

**Streams.** `Post` collects the sends under the mutex and `Send` performs them
one by one. `done`, the removal from the map and the closing of the connection
are three steps of `handleWSConn`. The case in which the writer returns because
the stream is closed has no action: the stream is closed only after the context
is cancelled, so the writer always takes it for a ping. Types are pairs of a
timeline and a list.

**Timeline.** Statuses are numbered by their ULIDs. `Get` is split where it takes
and gives up the lock: the grabs and preparations under it, then one step per
element of the walk without it, and the deferred removal of elements that could
not be prepared. What holds the lock for long is `job`: a grab asks the database
again and again until it has enough (`GrabQuery`, `GrabFails`) and then inserts what
it found one by one (`InsertGrabbed`), so statuses may be posted or wiped between two
queries, and a reader that walks without the lock sees each insertion by itself. The
preparation of the next page is a goroutine of its own (`ahead`). The workers'
operations are one step each; a status leaves the timeline and then the database
(`WipeFromTimeline`, `WipeRow`). A removal is described by its result: the list after
it has the other entries, in the order they had (`Keeps`). Visibility and
filters are the constants `Fit` and `Muted`. Each access to `container/list` is
atomic in the model.

**FollowStore, Relationships.** A follow is its row ID and its URI. A cache entry
can be found under its ID, its URI and its pair, and loses a key to a newer entry
with the same one, as in the vendored cache. Both servers run this code; a handler
is one step, and a client worker's queue is part of the way an activity takes,
since the worker reads nothing of this state. `net` is a set: activities overtake
each other, one that is refused stays and is tried again (`Refused`), one that is
delivered may stay as well (a repetition) or be given up (`GiveUp`).

**Polls.** Creation, expiry, deletion and each vote are split at their database
calls. A vote's transaction reads the count and commits: with `isolated` (SQLite,
where writes exclude each other) in one piece, without it (PostgreSQL at its
default isolation) with other votes in between. `Crash` ends the process and
empties scheduler, queue and cache; `Start` runs `ScheduleAll`. A lookup that
misses the cache reads the row and stores it in two steps.

**Dereference.** `rows` and `cache` have an ID, a version, a fetch time and, for a
status, whether its parent is linked. A call of a goroutine is a record with the
object, the address it was asked by and what it read; a status on its way to its
author, or to its parent, is below that on a stack. The steps are lookup, lock,
fetch, conversion (which looks up the parent), store, retry after a lost insert,
and unlock. A status can be asked for by URI, by the URL shown to people, by an
address that redirects, or brought by a Create or Update message with a version
of its own. `Edit`, `RemoteDelete`, `DeleteStatus`, `Suspend`, `Evict` and
`Unavailable` are what others do meanwhile; `Tick` makes every stored copy stale.

## 3. Runs

Runs that pass:

| Run | Shows | Bounds |
|---|---|---|
| `rss_poller` | no duplicates, order, validators; every item gets its status and its message to the workers | 1 account, 3 items with 3 dates or none, in any order, 1 fault |
| `rss_user_creation` | one account per name, complete rows, right answers | 3 requests, 7 resources for 3 feeds, 1 fault; three requests allow a race of two and a later query |
| `worker_pool` | no lost wakeup, quiescent after Stop, implements `FifoWork`; Stop returns, tasks are taken | 3 tasks, 3 workers, 2 stops |
| `http_client` | a bad host stops the others; Do returns | 3 requests, 2 retries, Retry-After below and above its cap |
| `delivery` | one place, bounded and never early attempts; retries end | 2 deliveries (one of them under a key that is deleted), 2 workers, 2 retries, 1 fault |
| `streams` | order of messages under two posting workers; posts end, clients are cleaned up | 1 stream, 2 x 2 messages, capacity 2, so that a post blocks |
| `timeline` | order of the list, boosts, order and bounds of a page | 4 statuses, two of them boosts of a third, one hidden; pages of 2, 1 post, 2 wipes or prunings, 1 fault; pruning to 1 prepared and 2 indexed entries, so that it happens |
| `relationships` | blocks sever, follow or request, the cache leads to the row; a request is answered | 2 follow requests, 1 block, loss or repetition, 4 row IDs in use at a time |
| `polls` | votes are counted, none left, announced once; the poll closes and its end is announced | 3 votes of 2 accounts, 1 crash or failing call, on both kinds of database |
| `dereference` | one ID, replies linked, handshakes marked, no stale overwrite; calls end | a status, its reply, their author; 2 goroutines, 2 calls, 1 edit, deletion, suspension or failure, 1 tick; any stored subset at the start |

The run of the poller has one account, because two with several items each are out
of reach; its three safety invariants (`NoDuplicateStatus`, `ChronologicalStatuses`,
`ValidatorsCoverItems`) are proved for any number of accounts, items and polls. The safety part of `dereference` also holds with three
calls (7 million states; too long for a run with liveness). The runs that hold
invariants and liveness properties together use `FairSpec`, whose reachable states
are those of `Spec`.

The bounds on items, messages, faults, pings, calls and stops cap counters that
have no bound in the code. `CHECK_DEADLOCK FALSE` is used where the system may
really stop: all tasks done, all requests answered, all clients gone.

Every module has a `TypeOK`. Those of `RssPoller` and `Relationships` are in their
runs; those two and the ones of `WorkerPool`, `DeliveryWorker`, `HttpClient`, `Polls` and
`Streams` are proved; the others hold under the configurations of their runs.

Runs in which the code violates what a comment says of it (`PROJECT.json`,
findings):

| Run | What happens |
|---|---|
| `delivery_wakeup` | a push between `Pop` and `Wait` is not noticed |
| `dereference_suspend` | a refresh of an account that began before its suspension writes the row back without it |

### Behaviours that show in the model and have no run

The models have the following because the code does; the properties are stated so
that they hold all the same, and nothing is claimed beyond that.

Bridge:
- an item without a readable date ends the process on every poll (`FetchPanics`):
  no account is tooted any more; `EveryItemTooted` is about feeds with readable dates;
- a crash between `UpdateAccount` and `PutStatus` loses items
  (`ValidatorsCoverItems` and `EveryItemTooted` assume no fault), and items dated
  no later than the newest status are dropped (`StrictFeed`);
- feeds that differ only in a format suffix (`/b.rss`, `/b.atom`) get the same
  username (`DbUsername`), and the second is answered with the first one's account;
- a resource that begins with `http` is fetched and never looked up as an account
  name (`Begin`, `HasHttp`); the host part of a username keeps characters that
  Mastodon's pattern rejects (`DbUsername` cleans the path only).

Deliveries and streams:
- `sortDeliveries` puts the latest attempt first, so a worker sleeps for the last
  delivery that is due; the earlier ones wait with it;
- `Queue.Delete` does not reach deliveries in a backlog or in hand (`DeleteKey`);
  what is in either when the pool is stopped is lost, as nothing stores it;
- a delete is posted to the type `list`, which no stream of a list has
  (`DeleteStatus`); each ping on a websocket is followed by an empty message
  (`WritePing` leads to `WriteJSON`).

Timelines:
- paging up from a `min_id` that is not in the list begins at the entry below it,
  so the page holds a status older than was asked for;
- an entry that is unprepared between the check and its use puts nil into the page
  (the 0 in a page of the model); a hidden status that is prepared while it is
  looked at fails the whole page (`LookFails`);
- `getOrCreateTimeline` (not modelled) may give two first users a timeline each; what
  the loser ingests comes back with the next query.

Relationships:
- `AcceptFollowRequest` leaves an older follow in the cache under its old URI; a
  late Undo of that one finds the entry and deletes the row of the new follow;
- the inbox asks only whether the receiver blocks the sender: a Follow that was
  overtaken by its sender's own Block is stored beside it at the other server.
  `BlockSevers` leaves that side out.

Polls:
- votes from other servers are not checked against the end of the poll, so they
  may change the counts after the end was announced; local votes are checked
  before their transaction;
- without isolation two votes may read the same count and one is lost;
- `UpdatePoll` puts the poll in hand into the cache, over counts stored meanwhile.

Dereferencing:
- a refresh whose own fetch fails puts the model it had read before the lock into
  the cache, over a newer row (`status.go:334`);
- two addresses that redirect to one status have locks of their own: refreshes are
  no longer in order, and a goroutine that loses the insert looks up the address it
  was asked by, finds nothing and returns the error;
- a lookup by name takes the lock of `/users/name`; when the account has another
  URI it overlaps a lookup by URI, and the first to end removes both handshake marks;
- a status deleted during its refresh stays in the cache without a row;
- the federator's `UpdateStatus` reads the ID of a nil status after a failed refresh.

### Fairness

`RssPoller!FairSpec`: the ticker keeps ticking, the goroutine is scheduled, an
ended process is started again by its supervisor. `WorkerPool!FairSpec`: each
worker and Stop go on (Process returns). `HttpClient` and `DeliveryWorker`: time
passes and attempts end, as the client has a timeout; weak fairness of a worker
as a whole suffices, since each of its steps stays enabled or is replaced by
another one. `Streams!FairSpec`: goroutines go on and each write to a websocket
ends, because the client reads or the connection breaks; the code sets no write
deadline, so this is an assumption about TCP. Nothing assumes that anyone pushes,
posts, follows, publishes or stops. `Relationships!FairSpec`: workers take their
messages, and the delivery of a follow, accept or reject is tried until it is
delivered or given up. `Polls!FairSpec`: handlers, due jobs and workers go on, and
an ended process is started again; voting, viewing and deleting are not assumed.
`Dereference!FairSpec`: each goroutine goes on when it can, a request ending at the
latest with its timeout; a goroutine that waits for a lock can go on only when it
is free, and no strong fairness is needed because a call takes finitely many steps.
`Timeline` has no liveness property.

## 4. Proofs

TLAPS proves the following for every value of the constants that satisfies the
named assumptions: any number of accounts, requests, workers, deliveries, streams,
goroutines, faults and crashes.

| Module | Theorem | States |
|---|---|---|
| `RssProofs` | `TypeCorrect` | `[]TypeOK` |
| | `NeverTwice` | `[]NoDuplicateStatus` |
| | `AlwaysChronological` | `[]ChronologicalStatuses` |
| | `NothingHidden` | `[]ValidatorsCoverItems` |
| | `NamesUnique` | `[]OneAccountPerName` |
| | `ProxyRowsMatch` | `[]RowsMatch` |
| | `AnswerIsFeeds` | `[]AnswersFeed`, if `NamesApart` |
| `WorkerPoolProofs` | `PoolTypes` | `[]TypeOK` |
| | `NoLostWakeup` | `[]NoSleepOverWork` |
| | `QuiescentAfterStop` | `[]StopQuiesces` |
| | `RefinesFifoWork` | the pool implements `FifoWork` |
| `DeliveryWorkerProofs` | `DeliveryTypes` | `[]TypeOK` |
| | `PendingInOnePlace` | `[]OnePlace` |
| | `RetriesBounded` | `[]BoundedTries` |
| | `BackoffKept` | `[]NeverEarly` |
| | `ClientTypes` | `[]DoTypeOK` of `HttpClient` |
| | `BadHostGivenUp` | `[]BadHostStopsOthers` |
| `StreamsProofs` | `StreamTypes` | `[]TypeOK` |
| | `MessagesInOrder` | `[]InOrder` |
| `TimelineProofs` | `ListInOrder` | `[]NewestFirst` |
| | `PagesInOrder` | `[]PageInOrder` |
| | `OneBoost` | `[]BoostedOnce`, if `DepthCovers` |
| `RelationshipsProofs` | `TypesHold` | `[]TypeOK` |
| | `BlocksSever` | `[]BlockSevers` |
| | `FollowOrAsk` | `[]FollowsOrAsks` |
| | `LookupsFindRow` | `[]LookupFindsRow` |
| `PollsProofs` | `PollTypes` | `[]TypeOK` |
| | `CountIsVotes` | `[]VotesCounted` |
| | `WipedStatusHasNoVotes` | `[]NoVotesLeft` |
| | `EndAnnouncedOnce` | `[]AnnouncedOnce` |
| `DereferenceProofs` | `CopiesAgree` | `[]CopiesHaveRowID` |
| | `FedLocksKept` | `[]LocksHeld` |
| | `RefreshNeverOlder` | `NoStaleOverwrite`, an action property |
| | `HandshakesMarked` | `[]HandshakeMarked`, if `NamesAsURIs` |
| | `RepliesGetLinked` | `[]RepliesLinked`, if `ThreadsShort` |

Every inductive invariant was checked with TLC, on the instance of the
component's run, before it was proved.

### Assumptions

The assumptions on constants say what kind of values they are: bounds are naturals,
a pool has a worker, dates are positive, markers such as `Undated` and `NoEtag` are
none of the values they stand beside. Six deserve a word.

- `PowerAssumption` (`HttpRetry`): powers of two are naturals. It is arithmetic, and is stated
  only because the provers know nothing of exponentiation.
- `StreamsAssumption`: finitely many streams, since `Post` collects them in a slice,
  and no poster is called `"none"`, which is the sender of the empty message.
- `NamesApart` (`RssUser`) is a hypothesis of `AnswerIsFeeds` alone: the feeds that are
  served have different usernames. The code does not ensure it (feeds that differ in
  a format suffix get one name, section 3), and then a request is answered with the
  account of the other feed. `MCRssUser` assumes it of its sites, so TLC evaluates it.
- `NamesAsURIs` (`Dereference`) is a hypothesis of `HandshakesMarked` alone: the lock
  a lookup by name takes, on `/users/name`, is the lock of the account's URI. With
  another URI the two overlap and the first to end removes the mark (section 3).
  `MCDereference` assumes it of its accounts.
- `DepthCovers` (`Timeline`) is a hypothesis of `OneBoost` alone: the list never gets
  longer than the depth that `insertIndexed` searches for an earlier boost. In a longer
  list the same status may be boosted again further up, which is what the depth is for.
  The other two theorems do without it. `MCTimeline` assumes it of its bounds.
- `ThreadsShort` (`Dereference`) is a hypothesis of `RepliesGetLinked` alone: no chain of
  replies goes round in a circle or is longer than the `maxIter` (512) ancestors a walk
  follows. The walk of a longer thread ends with an error at a status it has just stored
  without its parent, and nobody comes back for that link. `MCDereference` assumes it of
  its thread.

### Arguments

*Poller.* Neither `NoDuplicateStatus` nor `ChronologicalStatuses` is inductive:
whether the next status is a duplicate or out of order depends on `toCreate`, which
was filtered with a `LastTweet` read earlier. `IInv` adds that the `last` of every
account still to be polled bounds the dates of its statuses (`PollsFresh`), that
every item in `toCreate` is unseen and not older than any status of its account
(`CreatesFresh`), that the item in hand is the oldest of those left
(`CreatingFirst`), that statuses are of known, dated items (`TootedKnown`), and what
each control state has in hand (`PhasesOK`). `LastTweetBounds` shows that the maximum
the query reads exists, is the date of a status, and bounds the account's statuses;
`PollsFresh` survives because no status is inserted while accounts are still to be
polled. For the validators, `CInv` adds that, as long as nothing failed and the
feeds are in order (`Undisturbed`), the items tooted or about to be are the first
ones of their feed, without a gap, and that neither the stored validators nor those of
the answer in hand claim more than these (`Cover`). The step that matters is `Fetch`:
the items of a document are those not after `last`, which are tooted because the
feed's dates increase and `last` is the date of a tooted one (`LastsTooted`), and the
others, which go to `toCreate`.

*Proxy accounts.* `UserInv` says that a request's name, and the name of each row, is
derived from the URL of a feed that was served (`NamesDerived`); what a request has
inserted by the time it comes to the next insert (`WrittenSoFar`); and that a good
answer was about an account of that name (`Answered`). The two checks of
`IsUsernameAvailable` play no part in it: uniqueness rests on the constraint in
`PutAccount` alone. `PutUser` cannot meet an email that is taken, because the user
with it would have an account with the same name and another ID.

*Pool.* `PoolInv` says that an open wait channel means an empty queue
(`ChannelEmpty`), that a worker has a task exactly while it is busy
(`HandsMatch`), that Stop has reached a prefix of the workers, all but the last
of which have ended (`StopPrefix`), and that no task is in two places
(`TasksApart`). The last is what makes `Finish` an `End` of the abstract
specification: it removes the task from `Busy` only if no other worker has it.

*Deliveries.* `OnePlace` counts occurrences, which is nothing to do induction on.
`DeliveryInv` says the same in pieces: queue and backlogs repeat nothing
(`AllDistinct`), the places have nothing in common (`PlacesApart`), and what is
somewhere is what is pending (`PendingPlaced`); `HandsMatch` and `StopPrefix` tie the
hands to the control states, so that an ended worker leaves nothing behind. For
`BoundedTries`, `AttemptsCounted` says that the request's own counter equals the
attempts made as long as the delivery may be attempted again, and that a delivery goes
back to a backlog only with an attempt left.

*Client.* `ClientInv` adds to the types that a call of `Do` that has not returned has
attempts left and has made none since its host was marked. An attempt at a marked
host is therefore its first, and `DoOnce` does not let it be retried; the call that
marks the host is not retried either. When an entry expires, the count starts again.

*Streams.* `InOrder` is about what a client has received, and the messages on their
way must already be in order: `PipeInOrder` covers the client's messages, the one in
the writer's hand and the channel, in this sequence, and `SendsNewer` says that the
message a poster still owes a stream is newer than all it sent there; `SendsDistinct`
that it owes it once. The empty message after a ping belongs to no poster.

*Timelines.* Two things are not inductive by themselves. That an insertion keeps the
list in order depends on where it is put: `Sorted` says that IDs fall strictly, and the
place is the first entry that is not newer, whose existence and uniqueness take the
least number principle (`LeastExists`). `Sorted` bounds the length of the list by
the number of statuses, so that `DepthCovers` makes the search for an earlier boost
reach all of it. And a page is in order only if the reader never goes back:
`WalkOK` says of each reader that the element in its hand is in the list, or was taken
out and is loose, that everything on its page lies behind that element in the
direction of the walk, and that an element about to be appended is in the range asked
for. It must hold whatever other goroutines insert or remove between two steps of the
walk, which is why it speaks of the IDs in the list and of no positions. `JobOK` says
that what a grab has collected are statuses, and that no batch of them is empty.

*Relationships.* `IInv` is `StoresOK /\ RestOK /\ BlockSevers /\ FollowsOrAsks`.
`StoresOK` gives the types of both stores and `PairAgrees`: an entry of the cache
that is found by its pair has the ID of the row. `LookupFindsRow` is not inductive
without it, since a call that changes the row works on what the lookup found, and
entries that lost their pair stay under other keys. One lemma per call of
`FollowStore` shows that it keeps the type and `PairAgrees` and says what becomes of
row and request; the handlers are then compositions of those calls. `BlockSevers` is
kept by the handlers' own checks of blocks, and for the block of the other side by
the fact that a message about it is still queued until the worker has severed.

*Polls.* `PollsInv` has two halves. `VoteInv`: where writes exclude each other, an
open transaction is the only one, has read the count that is stored, and its vote is
not stored yet (`TxAlone`); the wiper deletes the poll before the votes, so that no
vote can come after them (`WipedInOrder`). `TokenInv`: the announcement is a token
that is in one place at most, as a job, in `onExpiry`, in the queue or made
(`OneToken`), and a process that is down has none (`DownIsQuiet`).

*Dereferencing.* `DerefInv` is `Stored /\ Frames /\ LocksHeld /\ NotOlder`. Every copy
anywhere (cache, a goroutine's frames, a queued task) is `Known`: its ID was given out
and is the row's, unless the status was deleted at some time. IDs are never given out
twice (`nextID`), so `Known` is stable under every step that moves the database as
`Moves` says, and each action needs only to be shown to be such a move and to put
known copies into its own frame. `LocksHeld` says that the holder of a URI's lock is
the one goroutine whose control state says so. With it `NotOlder` is inductive: what
a goroutine fetched for a stored object is not older than the row, because nobody
else can store under the same lock. `NoStaleOverwrite` follows, as an action property,
with its exceptions: versions brought by a message, and addresses that redirect, which
have locks of their own. For handshakes, `Marked` says that the mark is there from
the fetch to the store, which again needs that no other goroutine holds the lock and
could remove it.

`RepliesLinked` speaks of quiet states only, so `LinkInv` says who owes a missing link
at every other moment: a stored reply that is due (`Due`: neither it nor its parent is
gone, and nothing failed) is linked, or somebody has it in hand (`Token`): a walk that is
at it or comes to it next, or a queued task. A store that writes an empty
`in_reply_to_id`, because the parent was not there when the status was converted, makes
such a token; a walk gives it up only with the link written or with an excuse. That
takes what the rest of `LinkInv` says: no copy holds a parent other than the parent's
row, or forgets it unless it is gone (`CopyOK`), so a stale copy written back never
unlinks for good; the loser of a race finds the winner, so a walk that waited has its
parent; and the walk goes down in depth, so it has not seen the next ancestor and its
iterations suffice. The last is where `ThreadsShort` comes in.

### Only model-checked

- all liveness properties: the prover does not handle fairness;
- the `TypeOK` of `RssUser` (the hash is a fold), of `Dereference` (its bounds on IDs
  count calls) and of `Timeline` (the entries a wipe removes are collected by a fold);
- the two runs that end in a violation.

## 5. Not modelled

- the text of statuses and profiles, attachments, HTML, languages;
- authorization, signatures, TLS, address filters, body limits;
- SQL beyond the rows and constraints the modelled code relies on; the result
  caches other than those of follows, polls, statuses and accounts;
- xxhash collisions; names longer than the column;
- torn updates of `container/list` (timelines) and of other memory two goroutines
  share;
- of dereferencing: media, emojis, mentions, polls and tags of a status, the replies
  below it, collections of accounts, the boost wrapper;
- of the side effects of messages: likes, boosts, reports, moves, deletion of accounts;
- the components marked `not_modelled` in `PROJECT.json`.

Most lines of the repository are in none of the modelled components and are not
worth a state machine: generated configuration helpers, fixtures of tests, API
models and their conversion, the serialisation of ActivityPub, routing, templates,
migrations. They carry no state and take no part in any of the interleavings above.

## 6. Plan

Done: the bridge, the queues and pools, the deliveries, the streams, timelines,
relationships, polls and dereferencing, with the theorems above. Next, in this order:

1. `WorkersShutdown`: the order in which `Workers.Stop` stops the pools and what
   is left in their queues.
2. `StatusSideEffects`: from `PushToClientQueue` to timelines, streams and
   deliveries, composed with `WorkerPool` and `DeliveryWorker`; creation racing
   deletion.
3. `Dereference`: the replies below a status, media and polls.
4. `MediaCleaner`: unused media against processing and uploads.
