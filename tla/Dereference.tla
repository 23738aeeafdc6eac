----------------------------- MODULE Dereference -----------------------------
(***************************************************************************)
(* How the accounts and statuses of other servers get into the database    *)
(* and stay up to date: internal/federation/dereferencing, with the calls  *)
(* of internal/db/bundb it stores them with.                               *)
(*                                                                         *)
(* Several goroutines look objects up, find them absent or stale, take the *)
(* lock of the object's URI and fetch it. What they found before the lock  *)
(* is what they go on with: whether the object is new, its ID, its stored  *)
(* fields. A status is fetched with its author, whose lock is taken inside *)
(* that of the status; when it is stored its ancestors are followed, at    *)
(* once for a new status, else by a worker.                                *)
(*                                                                         *)
(* An object is its version on its own server; mentions, media, polls and  *)
(* replies below a status are left out. A lookup that misses the cache     *)
(* fills it in the same step, and misses are not cached. Statuses here are *)
(* public or unlisted.                                                     *)
(***************************************************************************)
EXTENDS Naturals, Sequences, FiniteSets

CONSTANTS Statuses,     \* URIs of statuses
          Accounts,     \* URIs of accounts
          Urls,         \* URLs of statuses: fetched as the status with this URL
          Redirects,    \* addresses that redirect to the URI of a status
          Canon,        \* the URI of the status at each address
          Author,       \* the account a status is attributed to
          InReplyTo,    \* the status a status replies to, or NoStatus
          NoStatus,
          NameKey,      \* the lock of an account known by its name only
          Procs,        \* goroutines of requests and of workers
          Free,         \* the holder of a lock nobody holds
          MaxNow, MaxCalls, MaxEvents, MaxIter

URIs      == Statuses \cup Accounts
Addresses == Statuses \cup Urls \cup Redirects
Keys      == URIs \cup Urls \cup Redirects \cup {NameKey[a] : a \in Accounts}

ASSUME AddressesAssumption ==
    /\ Statuses \cap Accounts = {}
    /\ Canon \in [Addresses -> Statuses]
    /\ \A s \in Statuses : Canon[s] = s
    /\ Author \in [Statuses -> Accounts]
    /\ InReplyTo \in [Statuses -> Statuses \cup {NoStatus}]
    /\ NoStatus \notin Statuses /\ Free \notin Procs

ASSUME BoundsAssumption ==
    {MaxNow, MaxCalls, MaxEvents, MaxIter} \subseteq Nat

VARIABLES
    version,     \* the version of each object on its server
    gone,        \* statuses their server has deleted
    rows,        \* the stored object of each URI
    cached,      \* what a lookup of each URI finds
    locks,       \* State.FedLocks: who holds each key
    handshakes,  \* accounts being fetched for the one local user
    st, ac, th,  \* what each goroutine does to a status, an account, a thread
    tasks,       \* the queue of the dereference workers
    now, nextID,
    calls,       \* how many calls there were
    events,      \* how often a server changed or failed, or an admin acted
    failed,      \* history: a fetch failed or a status was not permitted
    wiped,       \* history: statuses deleted from the database at some time
    redirected   \* history: statuses stored after a redirect, under another lock

db   == <<rows, cached, nextID, wiped, redirected>>
env  == <<version, gone, now, calls, events, failed>>
vars == <<version, gone, rows, cached, locks, handshakes, st, ac, th, tasks,
          now, calls, events, failed, nextID, wiped, redirected>>

-----------------------------------------------------------------------------
(***************************************************************************)
(* Stored objects. parent is the ID in in_reply_to_id, orphan says that    *)
(* in_reply_to_uri was cleared. An object nobody stored has the ID 0; the  *)
(* IDs of each URI are counted apart.                                      *)
(***************************************************************************)
None    == [id |-> 0, ver |-> 0, at |-> 0, parent |-> 0, orphan |-> FALSE, susp |-> FALSE]
MaxID   == MaxCalls + 1
MaxVersion == MaxEvents + 1
Object  == [id : 0..MaxID, ver : 0..MaxVersion, at : 0..MaxNow, parent : 0..MaxID,
            orphan : BOOLEAN, susp : BOOLEAN]

IdleSt  == [pc |-> "idle", key |-> Free, addr |-> NoStatus, new |-> FALSE, copy |-> None,
            given |-> FALSE, ver |-> 0, parent |-> 0]
IdleAc  == [pc |-> "idle", key |-> Free, uri |-> Free, copy |-> None, given |-> FALSE,
            ver |-> 0, err |-> FALSE]
IdleTh  == [pc |-> "idle", uri |-> NoStatus, copy |-> None, seen |-> {}, n |-> 0,
            found |-> None, err |-> "none"]

Errors  == {"none", "gone", "http", "other"}

TypeOK ==
    /\ version \in [URIs -> 1..MaxVersion] /\ gone \subseteq Statuses
    /\ rows \in [URIs -> Object] /\ cached \in [URIs -> Object]
    /\ locks \in [Keys -> Procs \cup {Free}]
    /\ handshakes \subseteq Accounts
    /\ st \in [Procs -> [pc : {"idle", "lock", "fetch", "author", "convert", "store", "race"},
                         key : Keys \cup {Free}, addr : Addresses \cup {NoStatus},
                         new : BOOLEAN, copy : Object, given : BOOLEAN, ver : 0..MaxVersion, parent : 0..MaxID]]
    /\ ac \in [Procs -> [pc : {"idle", "lock", "start", "fetch", "store", "race", "done"},
                         key : Keys \cup {Free}, uri : Accounts \cup {Free},
                         copy : Object, given : BOOLEAN, ver : 0..MaxVersion, err : BOOLEAN]]
    /\ th \in [Procs -> [pc : {"idle", "walk", "wait", "parent"}, uri : Statuses \cup {NoStatus},
                         copy : Object, seen : SUBSET Statuses, n : 0..MaxIter,
                         found : Object, err : Errors]]
    /\ \A i \in 1..Len(tasks) : tasks[i] \in [uri : Statuses, copy : Object]
    /\ now \in 0..MaxNow /\ calls \in 0..MaxCalls /\ events \in 0..MaxEvents /\ failed \in BOOLEAN
    /\ nextID \in [URIs -> 1..MaxID + 1] /\ wiped \subseteq Statuses /\ redirected \subseteq Statuses

FirstParent(u) == IF u \in Statuses /\ InReplyTo[u] # NoStatus THEN 1 ELSE 0

\* Some statuses are stored already, with their authors and the statuses they
\* reply to.
Init ==
    /\ version = [u \in URIs |-> 1] /\ gone = {}
    /\ \E known \in SUBSET URIs :
          /\ \A s \in known \cap Statuses : {Author[s], InReplyTo[s]} \subseteq known \cup {NoStatus}
          /\ rows = [u \in URIs |-> IF u \notin known THEN None
                                    ELSE [None EXCEPT !.id = 1, !.ver = 1, !.parent = FirstParent(u)]]
          /\ nextID = [u \in URIs |-> IF u \in known THEN 2 ELSE 1]
    /\ cached = rows
    /\ locks = [k \in Keys |-> Free] /\ handshakes = {}
    /\ st = [p \in Procs |-> IdleSt] /\ ac = [p \in Procs |-> IdleAc] /\ th = [p \in Procs |-> IdleTh]
    /\ tasks = <<>>
    /\ now = 0 /\ calls = 0 /\ events = 0 /\ failed = FALSE /\ wiped = {} /\ redirected = {}

-----------------------------------------------------------------------------
(***************************************************************************)
(* The database                                                            *)
(***************************************************************************)
\* By URI, then by URL.
Lookup(addr) == IF addr \in Redirects THEN None ELSE cached[Canon[addr]]

\* A row that is gone is not updated; the cache gets the whole model either way.
Update(u, obj, row) ==
    /\ rows' = [rows EXCEPT ![u] = IF @.id = obj.id THEN row ELSE @]
    /\ cached' = [cached EXCEPT ![u] = obj]
    /\ UNCHANGED <<nextID, wiped>>

Put(u, obj) ==
    /\ rows' = [rows EXCEPT ![u] = obj]
    /\ cached' = [cached EXCEPT ![u] = obj]
    /\ nextID' = [nextID EXCEPT ![u] = @ + 1]
    /\ UNCHANGED wiped

DeleteStatusByID(s, id) ==
    /\ rows' = [rows EXCEPT ![s] = IF @.id = id THEN None ELSE @]
    /\ cached' = [cached EXCEPT ![s] = IF @.id = id THEN None ELSE @]
    /\ wiped' = wiped \cup {s}
    /\ UNCHANGED <<nextID, redirected>>

\* UpdateStatus and UpdateAccount with the one column fetched_at.
UpdateFetchedAt(u, obj) ==
    /\ Update(u, [obj EXCEPT !.at = now], [rows[u] EXCEPT !.at = now])
    /\ UNCHANGED redirected

\* Mutant: the lock is not waited for.
Lock_Taken(p, key) == locks' = [locks EXCEPT ![key] = p]

Lock(p, key)   == locks[key] = Free /\ locks' = [locks EXCEPT ![key] = p]
Unlock(p, key) == locks' = [locks EXCEPT ![key] = Free]

\* One tick of now outlives the freshness windows of accounts and of statuses.
accountFresh(obj) == obj.susp \/ now <= obj.at
statusFresh(obj)  == now <= obj.at

-----------------------------------------------------------------------------
(***************************************************************************)
(* Statuses                                                                *)
(***************************************************************************)
Idle(p) == st[p] = IdleSt /\ ac[p] = IdleAc /\ th[p] = IdleTh
Event   == events < MaxEvents /\ events' = events + 1
Call(p) == Idle(p) /\ calls < MaxCalls /\ calls' = calls + 1

\* The frame of enrichStatusSafely for obj, with the version a message brought
\* or 0 when it has to be fetched.
Enrich(addr, obj, ver) ==
    [pc |-> "lock", key |-> IF obj.id = 0 THEN addr ELSE Canon[addr], addr |-> addr,
     new |-> obj.id = 0, copy |-> obj, given |-> ver # 0, ver |-> ver, parent |-> 0]

\* A search, a boost or a forwarded status asks for addr. RefreshStatus and
\* RefreshStatusAsync without a model take the same steps.
GetStatusByURI(p, addr) ==
    /\ Call(p)
    /\ ~ (Lookup(addr).id # 0 /\ statusFresh(Lookup(addr)))
    /\ st' = [st EXCEPT ![p] = Enrich(addr, Lookup(addr), 0)]
    /\ UNCHANGED <<db, version, gone, now, events, failed, locks, handshakes, ac, th, tasks>>

\* A Create brought version v, now or some time ago.
CreateStatus(p, s, v) ==
    /\ Call(p) /\ v <= version[s]
    /\ st' = [st EXCEPT ![p] = Enrich(s, None, v)]
    /\ UNCHANGED <<db, version, gone, now, events, failed, locks, handshakes, ac, th, tasks>>

UpdateStatus(p, s, v) ==
    /\ Call(p) /\ v <= version[s]
    /\ cached[s].id # 0
    /\ st' = [st EXCEPT ![p] = Enrich(s, cached[s], v)]
    /\ UNCHANGED <<db, version, gone, now, events, failed, locks, handshakes, ac, th, tasks>>

\* Mutant: only the ancestors of a new status are followed.
Return_NewOnly(p, s, obj, fetched, err) ==
    /\ st' = [st EXCEPT ![p] = IdleSt]
    /\ th' = [th EXCEPT ![p] =
                 IF @.pc = "wait" THEN [@ EXCEPT !.pc = "parent", !.found = obj, !.err = err]
                 ELSE IF fetched /\ st[p].new
                 THEN [IdleTh EXCEPT !.pc = "walk", !.uri = s, !.copy = obj] ELSE @]
    /\ UNCHANGED tasks

\* What the caller does with the answer: a walk that waits for this parent goes
\* on; a fetched status has its ancestors followed, a new one at once.
Return(p, s, obj, fetched, err) ==
    LET walk == [IdleTh EXCEPT !.pc = "walk", !.uri = s, !.copy = obj]
    IN  /\ st' = [st EXCEPT ![p] = IdleSt]
        /\ th' = [th EXCEPT ![p] =
                     IF @.pc = "wait" THEN [@ EXCEPT !.pc = "parent", !.found = obj, !.err = err]
                     ELSE IF fetched /\ st[p].new THEN walk ELSE @]
        /\ tasks' = IF th[p].pc # "wait" /\ fetched /\ ~ st[p].new
                    THEN Append(tasks, [uri |-> s, copy |-> obj]) ELSE tasks

LockStatus(p) ==
    /\ st[p].pc = "lock"
    /\ Lock(p, st[p].key)
    /\ st' = [st EXCEPT ![p].pc = IF st[p].given THEN "author" ELSE "fetch"]
    /\ UNCHANGED <<db, env, handshakes, ac, th, tasks>>

\* The server answers. After a redirect the status stored under the final URI,
\* if any, takes the place of the one looked up.
FetchStatus(p) ==
    LET s == Canon[st[p].addr]
    IN  /\ st[p].pc = "fetch" /\ s \notin gone
        /\ st' = [st EXCEPT ![p].pc = "author", ![p].ver = version[s],
                     ![p].copy = IF st[p].addr \in Redirects /\ cached[s].id # 0 THEN cached[s] ELSE @]
        /\ UNCHANGED <<db, env, locks, handshakes, ac, th, tasks>>

\* Mutant: the early return for a new status keeps the lock.
FailStatus_KeepsLock(p, err) ==
    LET s == Canon[st[p].addr]
        http == err \in {"gone", "http"} /\ ~ st[p].new
    IN  /\ IF http THEN UpdateFetchedAt(s, st[p].copy) ELSE UNCHANGED db
        /\ IF st[p].new THEN UNCHANGED locks ELSE Unlock(p, st[p].key)
        /\ Return(p, s, IF http THEN [st[p].copy EXCEPT !.at = now]
                        ELSE IF st[p].new THEN None ELSE st[p].copy, FALSE, err)

\* enrichStatus failed. After an HTTP error a known status counts as fetched now.
FailStatus(p, err) ==
    LET s == Canon[st[p].addr]
        http == err \in {"gone", "http"} /\ ~ st[p].new
    IN  /\ IF http THEN UpdateFetchedAt(s, st[p].copy) ELSE UNCHANGED db
        /\ Unlock(p, st[p].key)
        /\ Return(p, s, IF http THEN [st[p].copy EXCEPT !.at = now]
                        ELSE IF st[p].new THEN None ELSE st[p].copy, FALSE, err)

StatusGone(p) ==
    /\ st[p].pc = "fetch" /\ Canon[st[p].addr] \in gone
    /\ FailStatus(p, "gone")
    /\ UNCHANGED <<env, handshakes, ac>>

\* The server answers with an error, or no answer can be used.
StatusUnavailable(p, err) ==
    /\ st[p].pc = "fetch" /\ Event /\ failed' = TRUE
    /\ FailStatus(p, err)
    /\ UNCHANGED <<version, gone, now, calls, handshakes, ac>>

\* The author was dereferenced, or could not be.
AuthorDone(p) ==
    /\ st[p].pc = "author" /\ ac[p].pc = "done"
    /\ ac' = [ac EXCEPT ![p] = IdleAc]
    /\ IF ac[p].err /\ st[p].copy.id = 0
       THEN FailStatus(p, "other")
       ELSE /\ st' = [st EXCEPT ![p].pc = "convert"]
            /\ UNCHANGED <<db, locks, th, tasks>>
    /\ UNCHANGED <<env, handshakes>>

\* ASStatusToStatus looks the parent up; a status of a suspended author is not
\* permitted, and deleted.
ConvertStatus(p) ==
    LET s == Canon[st[p].addr]
    IN  /\ st[p].pc = "convert"
        /\ IF cached[Author[s]].susp
           THEN /\ IF st[p].copy.id = 0 THEN UNCHANGED db
                   ELSE DeleteStatusByID(s, st[p].copy.id)
                /\ Unlock(p, st[p].key)
                /\ failed' = TRUE
                /\ Return(p, s, IF st[p].new THEN None ELSE st[p].copy, FALSE, "other")
           ELSE /\ st' = [st EXCEPT ![p].pc = "store",
                       ![p].parent = IF InReplyTo[s] = NoStatus THEN 0 ELSE cached[InReplyTo[s]].id]
                /\ UNCHANGED <<db, failed, locks, th, tasks>>
        /\ UNCHANGED <<version, gone, now, calls, events, handshakes, ac>>

\* Mutant: the loser of the race goes on with its own model.
StoreStatus_OwnModel(p) ==
    LET s == Canon[st[p].addr]
        isNew == st[p].copy.id = 0
        obj == [None EXCEPT !.id = IF isNew THEN nextID[s] ELSE st[p].copy.id,
                            !.ver = st[p].ver, !.at = now, !.parent = st[p].parent]
    IN  /\ st[p].pc = "store"
        /\ Unlock(p, st[p].key)
        /\ IF isNew /\ rows[s].id # 0 THEN UNCHANGED db
           ELSE (IF isNew THEN Put(s, obj) ELSE Update(s, obj, obj)) /\ UNCHANGED redirected
        /\ Return(p, s, obj, TRUE, "none")
        /\ UNCHANGED <<env, handshakes, ac>>

\* The status becomes a row, or its row gets every column anew; an insert loses
\* to the row another goroutine has put there.
StoreStatus(p) ==
    LET s == Canon[st[p].addr]
        isNew == st[p].copy.id = 0
        obj == [None EXCEPT !.id = IF isNew THEN nextID[s] ELSE st[p].copy.id,
                            !.ver = st[p].ver, !.at = now, !.parent = st[p].parent]
    IN  /\ st[p].pc = "store"
        /\ Unlock(p, st[p].key)
        /\ IF isNew /\ rows[s].id # 0
           THEN /\ st' = [st EXCEPT ![p].pc = "race"]
                /\ UNCHANGED <<db, th, tasks>>
           ELSE /\ IF isNew THEN Put(s, obj) ELSE Update(s, obj, obj)
                /\ redirected' = IF st[p].addr \in Redirects THEN redirected \cup {s} ELSE redirected
                /\ Return(p, s, obj, TRUE, "none")
        /\ UNCHANGED <<env, handshakes, ac>>

\* The loser looks again, by the URI it was asked for.
StatusRace(p) ==
    LET found == IF st[p].addr \in Statuses THEN cached[st[p].addr] ELSE None
    IN  /\ st[p].pc = "race"
        /\ Return(p, Canon[st[p].addr], found, FALSE, IF found.id = 0 THEN "other" ELSE "none")
        /\ UNCHANGED <<db, env, locks, handshakes, ac>>

-----------------------------------------------------------------------------
(***************************************************************************)
(* Accounts                                                                *)
(***************************************************************************)
EnrichAccount(a, key, obj, ver) ==
    [pc |-> "lock", key |-> key, uri |-> a, copy |-> obj, given |-> ver # 0, ver |-> ver,
     err |-> FALSE]

\* getAccountByURI for the author of a status.
GetAuthor(p) ==
    LET a == Author[Canon[st[p].addr]]
    IN  /\ st[p].pc = "author" /\ ac[p].pc = "idle"
        /\ IF cached[a].id # 0 /\ accountFresh(cached[a])
           THEN st' = [st EXCEPT ![p].pc = "convert"] /\ UNCHANGED ac
           ELSE /\ ac' = [ac EXCEPT ![p] = EnrichAccount(a, a, cached[a], 0)]
                /\ UNCHANGED st
        /\ UNCHANGED <<db, env, locks, handshakes, th, tasks>>

GetAccountByURI(p, a) ==
    /\ Call(p)
    /\ ~ (cached[a].id # 0 /\ accountFresh(cached[a]))
    /\ ac' = [ac EXCEPT ![p] = EnrichAccount(a, a, cached[a], 0)]
    /\ UNCHANGED <<db, version, gone, now, events, failed, locks, handshakes, st, th, tasks>>

\* An account looked up by its name has no URI to lock yet.
GetAccountByUsernameDomain(p, a) ==
    /\ Call(p)
    /\ ~ (cached[a].id # 0 /\ accountFresh(cached[a]))
    /\ ac' = [ac EXCEPT ![p] =
                 EnrichAccount(a, IF cached[a].id = 0 THEN NameKey[a] ELSE a, cached[a], 0)]
    /\ UNCHANGED <<db, version, gone, now, events, failed, locks, handshakes, st, th, tasks>>

\* An Update of the account brought version v.
UpdateAccount(p, a, v) ==
    /\ Call(p) /\ v <= version[a]
    /\ cached[a].id # 0 /\ ~ cached[a].susp
    /\ ac' = [ac EXCEPT ![p] = EnrichAccount(a, a, cached[a], v)]
    /\ UNCHANGED <<db, version, gone, now, events, failed, locks, handshakes, st, th, tasks>>

\* Mutant: the lock is not waited for.
LockAccount_Taken(p) ==
    /\ ac[p].pc = "lock"
    /\ locks' = [locks EXCEPT ![ac[p].key] = p]
    /\ ac' = [ac EXCEPT ![p].pc = "start"]
    /\ UNCHANGED <<db, env, handshakes, st, th, tasks>>

LockAccount(p) ==
    /\ ac[p].pc = "lock"
    /\ Lock(p, ac[p].key)
    /\ ac' = [ac EXCEPT ![p].pc = "start"]
    /\ UNCHANGED <<db, env, handshakes, st, th, tasks>>

startHandshake(p) ==
    /\ ac[p].pc = "start"
    /\ handshakes' = handshakes \cup {ac[p].uri}
    /\ ac' = [ac EXCEPT ![p].pc = IF ac[p].given THEN "store" ELSE "fetch"]
    /\ UNCHANGED <<db, env, locks, st, th, tasks>>

\* Every entry of the account goes.
stopHandshake(p) == handshakes' = handshakes \ {ac[p].uri}

ReturnAccount(p, err) ==
    ac' = [ac EXCEPT ![p] = IF st[p].pc = "author"
                            THEN [IdleAc EXCEPT !.pc = "done", !.err = err] ELSE IdleAc]

FetchAccount(p) ==
    /\ ac[p].pc = "fetch"
    /\ ac' = [ac EXCEPT ![p].pc = "store", ![p].ver = version[ac[p].uri]]
    /\ UNCHANGED <<db, env, locks, handshakes, st, th, tasks>>

\* The fetch failed: a known account counts as fetched now after an HTTP error,
\* and its caller falls back on what it had.
AccountUnavailable(p, err) ==
    /\ ac[p].pc = "fetch" /\ Event /\ failed' = TRUE
    /\ stopHandshake(p)
    /\ IF err = "http" /\ ac[p].copy.id # 0
       THEN UpdateFetchedAt(ac[p].uri, ac[p].copy) ELSE UNCHANGED db
    /\ Unlock(p, ac[p].key)
    /\ ReturnAccount(p, ac[p].copy.id = 0)
    /\ UNCHANGED <<version, gone, now, calls, st, th, tasks>>

StoreAccount(p) ==
    LET a == ac[p].uri
        isNew == ac[p].copy.id = 0
        obj == [None EXCEPT !.id = IF isNew THEN nextID[a] ELSE ac[p].copy.id,
                            !.ver = ac[p].ver, !.at = now]
    IN  /\ ac[p].pc = "store"
        /\ stopHandshake(p)
        /\ Unlock(p, ac[p].key)
        /\ IF isNew /\ rows[a].id # 0
           THEN ac' = [ac EXCEPT ![p].pc = "race"] /\ UNCHANGED db
           ELSE /\ IF isNew THEN Put(a, obj) ELSE Update(a, obj, obj)
                /\ ReturnAccount(p, FALSE)
                /\ UNCHANGED redirected
        /\ UNCHANGED <<env, st, th, tasks>>

AccountRace(p) ==
    /\ ac[p].pc = "race"
    /\ ReturnAccount(p, cached[ac[p].uri].id = 0)
    /\ UNCHANGED <<db, env, locks, handshakes, st, th, tasks>>

-----------------------------------------------------------------------------
(***************************************************************************)
(* DereferenceStatusAncestors                                              *)
(***************************************************************************)
TakeTask(p) ==
    /\ Idle(p) /\ tasks # <<>>
    /\ th' = [th EXCEPT ![p] = [IdleTh EXCEPT !.pc = "walk", !.uri = Head(tasks).uri,
                                              !.copy = Head(tasks).copy]]
    /\ tasks' = Tail(tasks)
    /\ UNCHANGED <<db, env, locks, handshakes, st, ac>>

InReplyToURI(p) == IF th[p].copy.orphan THEN NoStatus ELSE InReplyTo[th[p].uri]

WalkEnds(p) ==
    /\ th[p].pc = "walk"
    /\ InReplyToURI(p) = NoStatus \/ InReplyToURI(p) \in th[p].seen \/ th[p].n = MaxIter
    /\ th' = [th EXCEPT ![p] = IdleTh]
    /\ UNCHANGED <<db, env, locks, handshakes, st, ac, tasks>>

FollowAncestor(p) ==
    LET s == InReplyToURI(p)
        fresh == s # NoStatus /\ cached[s].id # 0 /\ statusFresh(cached[s])
    IN  /\ th[p].pc = "walk"
        /\ s # NoStatus /\ s \notin th[p].seen /\ th[p].n < MaxIter
        /\ th' = [th EXCEPT ![p].seen = @ \cup {s}, ![p].n = @ + 1,
                     ![p].pc = IF fresh THEN "parent" ELSE "wait",
                     ![p].found = IF fresh THEN cached[s] ELSE None, ![p].err = "none"]
        /\ st' = IF fresh THEN st ELSE [st EXCEPT ![p] = Enrich(s, cached[s], 0)]
        /\ UNCHANGED <<db, env, locks, handshakes, ac, tasks>>

\* updateStatusParent: three columns of the row, the whole model in the cache.
UpdateStatusParent(s, obj) ==
    /\ Update(s, obj, [rows[s] EXCEPT !.parent = obj.parent, !.orphan = obj.orphan])
    /\ UNCHANGED redirected

\* The parent is there: link to it and go on with it. It is gone: forget it.
LinkParent(p) ==
    LET t == th[p]
        linked == [t.copy EXCEPT !.parent = t.found.id]
    IN  /\ t.pc = "parent"
        /\ \/ /\ t.err = "gone"
              /\ UpdateStatusParent(t.uri, [t.copy EXCEPT !.parent = 0, !.orphan = TRUE])
              /\ th' = [th EXCEPT ![p] = IdleTh]
           \/ /\ t.err \in {"http", "other"} /\ t.found.id = 0
              /\ th' = [th EXCEPT ![p] = IdleTh]
              /\ UNCHANGED db
           \/ /\ t.err # "gone" /\ t.found.id # 0
              /\ IF t.copy.parent # t.found.id THEN UpdateStatusParent(t.uri, linked)
                 ELSE UNCHANGED db
              /\ th' = [th EXCEPT ![p] = [t EXCEPT !.pc = "walk", !.uri = InReplyTo[t.uri],
                                          !.copy = t.found, !.found = None, !.err = "none"]]
        /\ UNCHANGED <<env, locks, handshakes, st, ac, tasks>>

-----------------------------------------------------------------------------
(***************************************************************************)
(* Around the dereferencer                                                 *)
(***************************************************************************)
\* The object changes on its server.
Edit(u) ==
    /\ Event
    /\ version' = [version EXCEPT ![u] = @ + 1]
    /\ UNCHANGED <<db, gone, now, calls, failed, locks, handshakes, st, ac, th, tasks>>

RemoteDelete(s) ==
    /\ Event
    /\ s \notin gone /\ gone' = gone \cup {s}
    /\ UNCHANGED <<db, version, now, calls, failed, locks, handshakes, st, ac, th, tasks>>

\* The server's Delete is processed; it takes no lock.
DeleteStatus(s) ==
    /\ s \in gone /\ cached[s].id # 0
    /\ DeleteStatusByID(s, cached[s].id)
    /\ UNCHANGED <<env, locks, handshakes, st, ac, th, tasks>>

\* An admin suspends the account: stubbifyAccount and UpdateAccount.
Suspend(a) ==
    /\ Event
    /\ cached[a].id # 0 /\ ~ cached[a].susp
    /\ Update(a, [cached[a] EXCEPT !.susp = TRUE, !.at = 0],
                 [rows[a] EXCEPT !.susp = TRUE, !.at = 0])
    /\ UNCHANGED <<version, gone, now, calls, failed, redirected, locks, handshakes, st, ac, th, tasks>>

\* The cache drops an entry.
Evict(u) ==
    /\ cached[u] # rows[u]
    /\ cached' = [cached EXCEPT ![u] = rows[u]]
    /\ UNCHANGED <<rows, nextID, wiped, redirected, env, locks, handshakes, st, ac, th, tasks>>

\* The freshness windows pass.
Tick ==
    /\ now < MaxNow /\ now' = now + 1
    /\ UNCHANGED <<db, version, gone, calls, events, failed, locks, handshakes, st, ac, th, tasks>>

Step(p) ==
    \/ LockStatus(p) \/ FetchStatus(p) \/ StatusGone(p) \/ GetAuthor(p) \/ AuthorDone(p)
    \/ ConvertStatus(p) \/ StoreStatus(p) \/ StatusRace(p)
    \/ LockAccount(p) \/ startHandshake(p) \/ FetchAccount(p) \/ StoreAccount(p) \/ AccountRace(p)
    \/ TakeTask(p) \/ WalkEnds(p) \/ FollowAncestor(p) \/ LinkParent(p)

Unavailable(p) ==
    \E err \in {"http", "other"} : StatusUnavailable(p, err) \/ AccountUnavailable(p, err)

Ask(p) ==
    \/ \E addr \in Addresses : GetStatusByURI(p, addr)
    \/ \E s \in Statuses, v \in 1..MaxVersion : CreateStatus(p, s, v) \/ UpdateStatus(p, s, v)
    \/ \E a \in Accounts : GetAccountByURI(p, a) \/ GetAccountByUsernameDomain(p, a)
    \/ \E a \in Accounts, v \in 1..MaxVersion : UpdateAccount(p, a, v)

Next ==
    \/ \E p \in Procs : Step(p) \/ Unavailable(p) \/ Ask(p)
    \/ \E u \in URIs : Edit(u) \/ Evict(u)
    \/ \E s \in Statuses : RemoteDelete(s) \/ DeleteStatus(s)
    \/ \E a \in Accounts : Suspend(a)
    \/ Tick

Spec == Init /\ [][Next]_vars

\* A goroutine that can go on does; a request ends at the latest when it times out.
FairSpec == Spec /\ \A p \in Procs : WF_vars(Step(p))

-----------------------------------------------------------------------------
(***************************************************************************)
(* Properties                                                              *)
(***************************************************************************)
\* The lock keeps refreshes in order: what a stored object holds is never
\* replaced by an older version, unless a message brought that one or the status
\* was ever stored by way of a redirect, under another lock.
NoStaleOverwrite ==
    [][\A u \in URIs :
         rows[u].id # 0 /\ rows'[u].id = rows[u].id /\ rows'[u].ver < rows[u].ver =>
            \/ u \in redirected'
            \/ \E p \in Procs :
                  \/ ac[p].pc = "store" /\ ac[p].uri = u /\ ac[p].given
                  \/ st[p].pc = "store" /\ Canon[st[p].addr] = u /\ st[p].given]_vars

\* Whoever loses the race to store an object goes on with the winner's row: no
\* goroutine, queued task or cache entry holds an object with an ID other than
\* its row's, unless the status was deleted.
CopiesHaveRowID ==
    LET Agrees(u, obj) == obj.id \in {0, rows[u].id} \/ u \in wiped
    IN  /\ \A u \in URIs : Agrees(u, cached[u])
        /\ \A p \in Procs :
              /\ st[p] # IdleSt => Agrees(Canon[st[p].addr], st[p].copy)
              /\ ac[p].pc \notin {"idle", "done"} => Agrees(ac[p].uri, ac[p].copy)
              /\ th[p] # IdleTh => Agrees(th[p].uri, th[p].copy)
        /\ \A i \in 1..Len(tasks) : Agrees(tasks[i].uri, tasks[i].copy)

Quiet == tasks = <<>> /\ \A p \in Procs : Idle(p)

\* Once the goroutines are done, a stored reply is linked to its stored parent,
\* however their fetches were interleaved, unless a fetch failed, an
\* author was suspended or one of the two statuses was deleted.
RepliesLinked ==
    Quiet /\ ~ failed =>
        \A s \in Statuses :
            LET r == InReplyTo[s]
            IN  r # NoStatus /\ {r, s} \cap (wiped \cup gone) = {}
                /\ rows[s].id # 0 /\ rows[r].id # 0 => rows[s].parent = rows[r].id

\* While an account is being fetched under the lock of its URI it is marked, so a
\* request its server sends back before it answers is let through and does not
\* wait for that lock.
HandshakeMarked ==
    \A p \in Procs : ac[p].pc = "fetch" /\ ac[p].key = ac[p].uri => ac[p].uri \in handshakes

\* What HandshakeMarked takes: every server forms the URIs of its accounts the way
\* the lock of an account name does.
NamesAsURIs == \A a \in Accounts : NameKey[a] = a

\* What RepliesLinked takes: threads do not go round in circles, and none is
\* longer than a walk up its ancestors may be.
ThreadsShort ==
    \E depth \in [Statuses -> 0..MaxIter] :
        \A s \in Statuses : InReplyTo[s] # NoStatus => depth[InReplyTo[s]] < depth[s]

\* Every call returns and every queued task is done: nobody waits for a lock
\* forever.
CallsEnd == []<>Quiet

\* A suspended account stays suspended.
SuspensionSticks == [][\A a \in Accounts : rows[a].susp => rows'[a].susp]_vars
=============================================================================
