-------------------------- MODULE DereferenceProofs --------------------------
(***************************************************************************)
(* Proofs about Dereference, for any statuses, accounts, addresses and     *)
(* goroutines: locks are held by whoever works under them and by nobody    *)
(* else, nobody goes on with an object that is not the stored one, a       *)
(* refresh never puts an older version in the place of a newer one, and    *)
(* once everybody is done replies are linked to their parents.             *)
(***************************************************************************)
EXTENDS Dereference, TLAPS

\* Stored objects, frames and tasks without the bounds of TypeOK.
Objects  == [id : Nat, ver : Nat, at : Nat, parent : Nat, orphan : BOOLEAN, susp : BOOLEAN]
StFrames == [pc : {"idle", "lock", "fetch", "author", "convert", "store", "race"},
             key : Keys \cup {Free}, addr : Addresses \cup {NoStatus},
             new : BOOLEAN, copy : Objects, given : BOOLEAN, ver : Nat, parent : Nat]
AcFrames == [pc : {"idle", "lock", "start", "fetch", "store", "race", "done"},
             key : Keys \cup {Free}, uri : Accounts \cup {Free},
             copy : Objects, given : BOOLEAN, ver : Nat, err : BOOLEAN]
ThFrames == [pc : {"idle", "walk", "wait", "parent"}, uri : Statuses \cup {NoStatus},
             copy : Objects, seen : SUBSET Statuses, n : Nat, found : Objects, err : Errors]
Tasks    == [uri : Statuses, copy : Objects]

\* A copy of u somebody may hold: its ID was given out, and is the row's unless
\* the status was deleted at some time.
Known(u, obj) ==
    /\ obj \in Objects /\ obj.id < nextID[u]
    /\ obj.id = 0 \/ obj.id = rows[u].id \/ u \in wiped

\* A goroutine at a status: the copy is of the status at its address; the key is
\* that status once it is known, unless by way of a redirect.
StGood(f) ==
    /\ f \in StFrames
    /\ f.pc = "idle" => f = IdleSt
    /\ f.pc # "idle" =>
         /\ f.addr \in Addresses /\ f.key \in {f.addr, Canon[f.addr]}
         /\ f.copy.id # 0 /\ f.addr \notin Redirects => f.key = Canon[f.addr]
         /\ Known(Canon[f.addr], f.copy) /\ f.ver <= version[Canon[f.addr]]

AcGood(g) ==
    /\ g \in AcFrames
    /\ g.pc = "idle" => g = IdleAc
    /\ g.pc \notin {"idle", "done"} =>
         /\ g.uri \in Accounts /\ g.key \in {g.uri, NameKey[g.uri]}
         /\ g.copy.id # 0 => g.key = g.uri
         /\ Known(g.uri, g.copy) /\ g.ver <= version[g.uri]

ThGood(h) ==
    /\ h \in ThFrames
    /\ h.pc = "idle" => h = IdleTh
    /\ h.pc # "idle" => h.uri \in Statuses /\ Known(h.uri, h.copy)
    /\ h.pc \in {"wait", "parent"} => InReplyTo[h.uri] \in Statuses
    /\ h.pc = "parent" => Known(InReplyTo[h.uri], h.found)

TaskGood(t) == t \in Tasks /\ Known(t.uri, t.copy)

\* A walk that waits, waits for the status its goroutine is at; else it is at none.
Linked(f, h) ==
    /\ h.pc \in {"walk", "parent"} => f.pc = "idle"
    /\ h.pc = "wait" => f.pc # "idle" /\ Canon[f.addr] = InReplyTo[h.uri]

\* What is stored, and every copy of it.
Stored ==
    /\ version \in [URIs -> Nat] /\ nextID \in [URIs -> Nat] /\ now \in Nat
    /\ rows \in [URIs -> Objects] /\ cached \in [URIs -> Objects]
    /\ \A u \in URIs : /\ 0 < nextID[u] /\ rows[u].id < nextID[u] /\ rows[u].ver <= version[u]
                       /\ Known(u, cached[u])
Frames ==
    /\ st \in [Procs -> StFrames] /\ ac \in [Procs -> AcFrames] /\ th \in [Procs -> ThFrames]
    /\ \A p \in Procs : StGood(st[p]) /\ AcGood(ac[p]) /\ ThGood(th[p]) /\ Linked(st[p], th[p])
    /\ tasks \in Seq(Tasks) /\ \A i \in DOMAIN tasks : TaskGood(tasks[i])

\* The locks a goroutine works under, at a status and at an account.
StKeys(f) == IF f.pc \in {"fetch", "author", "convert", "store"} THEN {f.key} ELSE {}
AcKeys(g) == IF g.pc \in {"start", "fetch", "store"} THEN {g.key} ELSE {}

\* A goroutine holds the locks it works under, and no others.
LocksHeld ==
    /\ locks \in [Keys -> Procs \cup {Free}]
    /\ \A p \in Procs :
         /\ StKeys(st[p]) \cap AcKeys(ac[p]) = {}
         /\ \A k \in Keys : locks[k] = p <=> k \in StKeys(st[p]) \cup AcKeys(ac[p])

\* What was fetched for the stored object is not older than what is stored.
StAge(f) ==
    LET s == Canon[f.addr]
    IN  /\ f.pc \in {"author", "convert", "store"} /\ ~ f.given /\ f.copy.id # 0
        /\ f.addr \notin Redirects /\ s \notin redirected /\ rows[s].id = f.copy.id
        => rows[s].ver <= f.ver
AcAge(g) ==
    g.pc = "store" /\ ~ g.given /\ g.copy.id # 0 /\ rows[g.uri].id = g.copy.id
        => rows[g.uri].ver <= g.ver
NotOlder == \A p \in Procs : StAge(st[p]) /\ AcAge(ac[p])

\* The inductive invariant.
DerefInv == Stored /\ Frames /\ LocksHeld /\ NotOlder

\* What there is to add for handshakes.
Marked == \A p \in Procs : ac[p].pc \in {"fetch", "store"} => ac[p].uri \in handshakes

-----------------------------------------------------------------------------
(***************************************************************************)
(* Constants, objects and frames                                           *)
(***************************************************************************)
\* Addresses, accounts and keys.
LEMMA KeyFacts ==
    /\ \A addr \in Addresses : /\ Canon[addr] \in Statuses /\ Canon[addr] \in URIs
                               /\ addr \in Keys /\ Canon[addr] \in Keys
    /\ \A s \in Statuses : /\ s \in Addresses /\ s \in URIs /\ Canon[s] = s
                           /\ Author[s] \in Accounts
                           /\ InReplyTo[s] # NoStatus => InReplyTo[s] \in Statuses
    /\ \A a \in Accounts : a \in URIs /\ a \in Keys /\ NameKey[a] \in Keys /\ a \notin Statuses
    BY AddressesAssumption DEF Addresses, Keys, URIs

\* Writing a column keeps the object and its ID.
LEMMA ObjectFacts ==
    /\ None \in Objects /\ None.id = 0 /\ None.ver = 0
    /\ \A obj \in Objects, n \in Nat :
         /\ [obj EXCEPT !.at = n] \in Objects
         /\ [obj EXCEPT !.at = n].id = obj.id /\ [obj EXCEPT !.at = n].ver = obj.ver
         /\ [obj EXCEPT !.parent = n] \in Objects
         /\ [obj EXCEPT !.parent = n].id = obj.id
    /\ \A obj \in Objects, n \in Nat, b \in BOOLEAN :
         /\ [obj EXCEPT !.parent = n, !.orphan = b] \in Objects
         /\ [obj EXCEPT !.parent = n, !.orphan = b].id = obj.id
         /\ [obj EXCEPT !.parent = n, !.orphan = b].ver = obj.ver
         /\ [obj EXCEPT !.susp = b, !.at = n] \in Objects
         /\ [obj EXCEPT !.susp = b, !.at = n].id = obj.id
         /\ [obj EXCEPT !.susp = b, !.at = n].ver = obj.ver
    BY DEF Objects, None

\* The frames of a goroutine that does nothing.
LEMMA IdleFacts ==
    /\ IdleSt \in StFrames /\ IdleSt.pc = "idle"
    /\ IdleAc \in AcFrames /\ IdleAc.pc = "idle"
    /\ IdleTh \in ThFrames /\ IdleTh.pc = "idle"
    BY ObjectFacts DEF IdleSt, IdleAc, IdleTh, StFrames, AcFrames, ThFrames, Errors

-----------------------------------------------------------------------------
(***************************************************************************)
(* What a step does to the database                                        *)
(***************************************************************************)
\* IDs are not given out twice, and a row keeps its ID unless it is deleted.
Moves ==
    /\ Stored'
    /\ wiped \subseteq wiped' /\ redirected \subseteq redirected'
    /\ \A u \in URIs :
         /\ nextID[u] <= nextID'[u] /\ version[u] <= version'[u]
         /\ rows'[u].id = rows[u].id \/ rows[u].id = 0 \/ u \in wiped'

\* The version of a row stays, or the row is new.
Calm ==
    \A u \in URIs :
        rows'[u].id # 0 => \/ rows'[u].id = rows[u].id /\ rows'[u].ver = rows[u].ver
                           \/ rows[u].id = 0 /\ rows'[u].id = nextID[u]

\* A step that keeps NoStaleOverwrite.
NotStale ==
    \A u \in URIs :
         rows[u].id # 0 /\ rows'[u].id = rows[u].id /\ rows'[u].ver < rows[u].ver =>
            \/ u \in redirected'
            \/ \E p \in Procs :
                  \/ ac[p].pc = "store" /\ ac[p].uri = u /\ ac[p].given
                  \/ st[p].pc = "store" /\ Canon[st[p].addr] = u /\ st[p].given

\* A calm step is never stale.
LEMMA CalmNotStale == ASSUME Stored, Stored', Calm  PROVE NotStale
    <1> SUFFICES ASSUME NEW u \in URIs,
                        rows[u].id # 0, rows'[u].id = rows[u].id, rows'[u].ver < rows[u].ver
                 PROVE  FALSE
        BY DEF NotStale
    <1>1. rows[u] \in Objects /\ rows'[u] \in Objects
        BY DEF Stored
    <1>2. rows[u].ver \in Nat
        BY <1>1 DEF Objects
    <1>3. rows'[u].ver = rows[u].ver
        BY DEF Calm
    <1>4. QED  BY <1>2, <1>3

\* A copy that was good stays good.
LEMMA KnownStays ==
    ASSUME Stored, Moves, NEW u \in URIs, NEW obj, Known(u, obj)
    PROVE  Known(u, obj)'
    <1>1. obj \in Objects /\ obj.id \in Nat /\ nextID[u] \in Nat /\ nextID'[u] \in Nat
        BY DEF Known, Objects, Stored, Moves
    <1>2. nextID[u] <= nextID'[u]
        BY DEF Moves
    <1>3. obj.id < nextID'[u]
        BY <1>1, <1>2 DEF Known
    <1>4. obj.id = 0 \/ obj.id = rows'[u].id \/ u \in wiped'
        BY DEF Known, Moves
    <1>5. QED  BY <1>1, <1>3, <1>4 DEF Known

\* So does what a goroutine or a task holds.
LEMMA GoodStays ==
    ASSUME Stored, Moves
    PROVE  /\ \A f : StGood(f) => StGood(f)'
           /\ \A g : AcGood(g) => AcGood(g)'
           /\ \A h : ThGood(h) => ThGood(h)'
           /\ \A t : TaskGood(t) => TaskGood(t)'
    <1>1. \A u \in URIs : /\ version[u] \in Nat /\ version'[u] \in Nat /\ version[u] <= version'[u]
                          /\ \A obj : Known(u, obj) => Known(u, obj)'
        BY KnownStays DEF Stored, Moves
    <1>2. ASSUME NEW f, StGood(f)  PROVE StGood(f)'
        <2>1. CASE f.pc = "idle"
            BY <1>2, <2>1 DEF StGood
        <2>2. CASE f.pc # "idle"
            <3>1. f \in StFrames /\ f.addr \in Addresses /\ f.ver \in Nat
                BY <1>2, <2>2 DEF StGood, StFrames
            <3>2. Canon[f.addr] \in URIs
                BY <3>1, KeyFacts
            <3>3. f.ver <= version'[Canon[f.addr]]
                BY <1>1, <1>2, <2>2, <3>1, <3>2 DEF StGood
            <3>4. QED  BY <1>1, <1>2, <2>2, <3>2, <3>3 DEF StGood
        <2>3. QED  BY <2>1, <2>2
    <1>3. ASSUME NEW g, AcGood(g)  PROVE AcGood(g)'
        <2>1. CASE g.pc \in {"idle", "done"}
            BY <1>3, <2>1 DEF AcGood
        <2>2. CASE g.pc \notin {"idle", "done"}
            <3>1. g \in AcFrames /\ g.uri \in Accounts /\ g.ver \in Nat
                BY <1>3, <2>2 DEF AcGood, AcFrames
            <3>2. g.uri \in URIs
                BY <3>1, KeyFacts
            <3>3. g.ver <= version'[g.uri]
                BY <1>1, <1>3, <2>2, <3>1, <3>2 DEF AcGood
            <3>4. QED  BY <1>1, <1>3, <2>2, <3>2, <3>3 DEF AcGood
        <2>3. QED  BY <2>1, <2>2
    <1>4. ASSUME NEW h, ThGood(h)  PROVE ThGood(h)'
        <2>1. h.pc # "idle" => h.uri \in URIs
            BY <1>4, KeyFacts DEF ThGood
        <2>2. h.pc = "parent" => InReplyTo[h.uri] \in URIs
            BY <1>4, KeyFacts DEF ThGood
        <2>3. QED  BY <1>1, <1>4, <2>1, <2>2 DEF ThGood
    <1>5. ASSUME NEW t, TaskGood(t)  PROVE TaskGood(t)'
        <2>1. t.uri \in URIs
            BY <1>5, KeyFacts DEF TaskGood, Tasks
        <2>2. QED  BY <1>1, <1>5, <2>1 DEF TaskGood
    <1>6. QED  BY <1>2, <1>3, <1>4, <1>5

\* Nothing fetched becomes older than what is stored by a calm step.
LEMMA AgeStays ==
    ASSUME Stored, Moves, Calm
    PROVE  /\ \A f : StGood(f) /\ StAge(f) => StAge(f)'
           /\ \A g : AcGood(g) /\ AcAge(g) => AcAge(g)'
    <1>1. ASSUME NEW u \in URIs, NEW obj, Known(u, obj), obj.id # 0, rows'[u].id = obj.id
          PROVE  rows[u].id = obj.id /\ rows'[u].ver = rows[u].ver
        <2>1. obj.id \in Nat /\ nextID[u] \in Nat /\ obj.id < nextID[u]
            BY <1>1 DEF Known, Objects, Stored
        <2>2. QED  BY <1>1, <2>1 DEF Calm
    <1>2. ASSUME NEW f, StGood(f), StAge(f)  PROVE StAge(f)'
        <2> DEFINE s == Canon[f.addr]
        <2> SUFFICES ASSUME f.pc \in {"author", "convert", "store"}, ~ f.given, f.copy.id # 0,
                            f.addr \notin Redirects, s \notin redirected', rows'[s].id = f.copy.id
                     PROVE  rows'[s].ver <= f.ver
            BY DEF StAge
        <2>1. s \in URIs /\ Known(s, f.copy)
            BY <1>2, KeyFacts DEF StGood
        <2>2. rows[s].id = f.copy.id /\ rows'[s].ver = rows[s].ver
            BY <1>1, <2>1
        <2>3. s \notin redirected
            BY DEF Moves
        <2>4. QED  BY <1>2, <2>2, <2>3 DEF StAge
    <1>3. ASSUME NEW g, AcGood(g), AcAge(g)  PROVE AcAge(g)'
        <2> SUFFICES ASSUME g.pc = "store", ~ g.given, g.copy.id # 0, rows'[g.uri].id = g.copy.id
                     PROVE  rows'[g.uri].ver <= g.ver
            BY DEF AcAge
        <2>1. g.uri \in URIs /\ Known(g.uri, g.copy)
            BY <1>3, KeyFacts DEF AcGood
        <2>2. rows[g.uri].id = g.copy.id /\ rows'[g.uri].ver = rows[g.uri].ver
            BY <1>1, <2>1
        <2>3. QED  BY <1>3, <2>2 DEF AcAge
    <1>4. QED  BY <1>2, <1>3

\* Every write leaves rows whose IDs and versions were given out, and a cache of
\* rows and known objects.
LEMMA DbMoves ==
    ASSUME Stored, now' \in Nat,
           version' \in [URIs -> Nat], nextID' \in [URIs -> Nat],
           rows' \in [URIs -> Objects], cached' \in [URIs -> Objects],
           wiped \subseteq wiped', redirected \subseteq redirected',
           \A u \in URIs :
              /\ nextID[u] <= nextID'[u] /\ version[u] <= version'[u]
              /\ rows'[u].id = rows[u].id \/ rows[u].id = 0 \/ u \in wiped'
              /\ rows'[u].id < nextID'[u] /\ rows'[u].ver <= version'[u]
              /\ Known(u, cached'[u]) \/ cached'[u] = rows'[u]
    PROVE  Moves
    <1>1. ASSUME NEW u \in URIs
          PROVE  0 < nextID'[u] /\ Known(u, cached[u])'
        <2>1. nextID[u] \in Nat /\ nextID'[u] \in Nat /\ 0 < nextID[u] /\ nextID[u] <= nextID'[u]
            BY DEF Stored
        <2>2. cached'[u] \in Objects /\ cached'[u].id \in Nat
            BY DEF Objects
        <2>3. cached'[u].id < nextID'[u]
            BY <2>1, <2>2 DEF Known
        <2>4. cached'[u].id = 0 \/ cached'[u].id = rows'[u].id \/ u \in wiped'
            BY DEF Known
        <2>5. QED  BY <2>1, <2>2, <2>3, <2>4 DEF Known
    <1>2. Stored'
        BY <1>1 DEF Stored
    <1>3. QED  BY <1>2 DEF Moves

\* Nothing is written; the server may have changed the object.
LEMMA DbSame ==
    ASSUME Stored, UNCHANGED db, now' \in Nat, version' \in [URIs -> Nat],
           \A u \in URIs : version[u] <= version'[u]
    PROVE  Moves /\ Calm
    <1> USE DEF db
    <1>1. ASSUME NEW u \in URIs
          PROVE  /\ nextID[u] <= nextID'[u] /\ rows'[u].id < nextID'[u] /\ rows'[u].ver <= version'[u]
                 /\ Known(u, cached'[u])
        <2>1. /\ nextID[u] \in Nat /\ version[u] \in Nat /\ version'[u] \in Nat /\ rows[u].ver \in Nat
              /\ rows[u].ver <= version[u] /\ version[u] <= version'[u]
            BY DEF Stored, Objects
        <2>2. QED  BY <2>1 DEF Stored
    <1>2. Moves
        BY <1>1, DbMoves DEF Stored
    <1>3. QED  BY <1>2 DEF Calm

\* A known object is written; the row keeps its ID.
LEMMA DbUpdate ==
    ASSUME Stored, NEW u \in URIs, NEW obj, Known(u, obj), NEW row \in Objects,
           Update(u, obj, row), UNCHANGED <<version, now>>, redirected \subseteq redirected',
           rows[u].id = obj.id => row.id = obj.id /\ row.ver <= version[u]
    PROVE  /\ Moves
           /\ (rows[u].id = obj.id => row.ver = rows[u].ver) => Calm
           /\ \A v \in URIs : v # u => rows'[v] = rows[v]
           /\ rows'[u] = IF rows[u].id = obj.id THEN row ELSE rows[u]
    <1> USE DEF Update
    <1>1. obj \in Objects
        BY DEF Known
    <1>2. /\ rows' \in [URIs -> Objects] /\ cached' \in [URIs -> Objects]
          /\ \A v \in URIs : v # u => rows'[v] = rows[v] /\ cached'[v] = cached[v]
          /\ rows'[u] = IF rows[u].id = obj.id THEN row ELSE rows[u]
          /\ cached'[u] = obj
        BY <1>1 DEF Stored
    <1>3. \A v \in URIs : /\ rows'[v].id = rows[v].id /\ rows'[v].id < nextID[v]
                          /\ rows'[v].ver <= version[v] /\ Known(v, cached'[v])
        BY <1>2 DEF Stored
    <1>4. \A v \in URIs : nextID[v] <= nextID'[v] /\ version[v] <= version'[v]
        BY DEF Stored
    <1>5. Moves
        BY <1>2, <1>3, <1>4, DbMoves DEF Stored
    <1>6. (rows[u].id = obj.id => row.ver = rows[u].ver) => Calm
        BY <1>2, <1>3 DEF Calm
    <1>7. QED  BY <1>2, <1>5, <1>6

\* fetched_at is written.
LEMMA DbFetchedAt ==
    ASSUME Stored, NEW u \in URIs, NEW obj, Known(u, obj), UpdateFetchedAt(u, obj),
           UNCHANGED <<version, now>>
    PROVE  /\ Moves /\ Calm
           /\ \A c : c = [obj EXCEPT !.at = now] => Known(u, c)'
    <1> DEFINE new == [obj EXCEPT !.at = now]
               row == [rows[u] EXCEPT !.at = now]
    <1>1. now \in Nat /\ rows[u] \in Objects /\ obj \in Objects
        BY DEF Stored, Known
    <1>2. new \in Objects /\ new.id = obj.id /\ row \in Objects /\ row.id = rows[u].id /\ row.ver = rows[u].ver
        BY <1>1, ObjectFacts
    <1>3. Update(u, new, row) /\ redirected' = redirected
        BY DEF UpdateFetchedAt
    <1> HIDE DEF new, row
    <1>4. Known(u, new)
        BY <1>2 DEF Known
    <1>5. row.ver <= version[u]
        BY <1>2 DEF Stored
    <1>6. Moves /\ Calm
        BY <1>2, <1>3, <1>4, <1>5, DbUpdate
    <1>7. \A c : c = new => Known(u, c)'
        BY <1>4, <1>6, KnownStays
    <1>8. QED  BY <1>6, <1>7 DEF new

\* A row is put where there is none.
LEMMA DbPut ==
    ASSUME Stored, NEW u \in URIs, NEW obj \in Objects, Put(u, obj), rows[u].id = 0,
           obj.id = nextID[u], obj.ver <= version[u],
           UNCHANGED <<version, now>>, redirected \subseteq redirected'
    PROVE  Moves /\ Calm /\ Known(u, obj)'
    <1> USE DEF Put
    <1>1. \A v \in URIs : nextID[v] \in Nat /\ nextID[v] + 1 \in Nat /\ nextID[v] < nextID[v] + 1
        BY DEF Stored
    <1>2. /\ rows' \in [URIs -> Objects] /\ cached' \in [URIs -> Objects]
          /\ \A v \in URIs : v # u => rows'[v] = rows[v] /\ cached'[v] = cached[v]
          /\ rows'[u] = obj /\ cached'[u] = obj
        BY DEF Stored
    <1>3. /\ nextID' \in [URIs -> Nat]
          /\ \A v \in URIs : nextID'[v] = IF v = u THEN nextID[u] + 1 ELSE nextID[v]
        BY <1>1 DEF Stored
    <1>4. \A v \in URIs : /\ nextID[v] <= nextID'[v] /\ rows'[v].id < nextID'[v]
                          /\ rows'[v].ver <= version[v]
                          /\ Known(v, cached'[v]) \/ cached'[v] = rows'[v]
        BY <1>1, <1>2, <1>3 DEF Stored
    <1>5. \A v \in URIs : version[v] <= version'[v]
        BY DEF Stored
    <1>6. Moves
        BY <1>2, <1>3, <1>4, <1>5, DbMoves DEF Stored
    <1>7. Calm
        BY <1>2 DEF Calm
    <1>8. Known(u, obj)'
        BY <1>2, <1>4 DEF Known
    <1>9. QED  BY <1>6, <1>7, <1>8

\* A status is deleted.
LEMMA DbDelete ==
    ASSUME Stored, NEW s \in Statuses, NEW id, DeleteStatusByID(s, id), UNCHANGED <<version, now>>
    PROVE  Moves /\ Calm
    <1> USE DEF DeleteStatusByID
    <1>1. s \in URIs
        BY KeyFacts
    <1>2. /\ rows' \in [URIs -> Objects] /\ cached' \in [URIs -> Objects]
          /\ \A v \in URIs : v # s => rows'[v] = rows[v] /\ cached'[v] = cached[v]
          /\ rows'[s] = IF rows[s].id = id THEN None ELSE rows[s]
          /\ cached'[s] = IF cached[s].id = id THEN None ELSE cached[s]
        BY <1>1, ObjectFacts DEF Stored
    <1>3. ASSUME NEW v \in URIs
          PROVE  /\ rows'[v].id = rows[v].id \/ v \in wiped'
                 /\ rows'[v].id < nextID[v] /\ rows'[v].ver <= version[v]
                 /\ Known(v, cached'[v])
        <2>1. /\ 0 < nextID[v] /\ 0 <= version[v] /\ rows[v].id < nextID[v] /\ rows[v].ver <= version[v]
              /\ Known(v, cached[v])
            BY DEF Stored
        <2>2. Known(v, None)
            BY <2>1, ObjectFacts DEF Known
        <2>3. None.id = 0 /\ None.ver = 0
            BY ObjectFacts
        <2>4. CASE v # s
            BY <1>2, <2>1, <2>4
        <2>5. CASE v = s
            <3>1. v \in wiped'
                BY <2>5
            <3>2. rows'[v] \in {None, rows[v]} /\ cached'[v] \in {None, cached[v]}
                BY <1>2, <2>5
            <3>3. QED  BY <2>1, <2>2, <2>3, <3>1, <3>2
        <2>6. QED  BY <2>4, <2>5
    <1>4. \A v \in URIs : nextID[v] <= nextID'[v] /\ version[v] <= version'[v]
        BY DEF Stored
    <1>6. Moves
        BY <1>2, <1>3, <1>4, DbMoves DEF Stored
    <1>7. Calm
        BY <1>2, ObjectFacts DEF Calm
    <1>8. QED  BY <1>6, <1>7

-----------------------------------------------------------------------------
(***************************************************************************)
(* What a step of a goroutine does                                         *)
(***************************************************************************)
\* Going from the frames st[p] and ac[p] to f and g a goroutine takes or leaves
\* one lock, or none.
LockMove(p, f, g) ==
    \/ /\ UNCHANGED locks /\ StKeys(f) = StKeys(st[p]) /\ AcKeys(g) = AcKeys(ac[p])
    \/ \E k \in Keys :
         /\ Lock(p, k)
         /\ \/ StKeys(st[p]) = {} /\ StKeys(f) = {k} /\ AcKeys(g) = AcKeys(ac[p])
            \/ AcKeys(ac[p]) = {} /\ AcKeys(g) = {k} /\ StKeys(f) = StKeys(st[p])
    \/ \E k \in Keys :
         /\ Unlock(p, k)
         /\ \/ StKeys(st[p]) = {k} /\ StKeys(f) = {} /\ AcKeys(g) = AcKeys(ac[p])
            \/ AcKeys(ac[p]) = {k} /\ AcKeys(g) = {} /\ StKeys(f) = StKeys(st[p])

\* Such a step keeps everybody's locks right.
LEMMA LockStep ==
    ASSUME LocksHeld, st \in [Procs -> StFrames], ac \in [Procs -> AcFrames],
           NEW p \in Procs, NEW f, NEW g,
           st' = [st EXCEPT ![p] = f], ac' = [ac EXCEPT ![p] = g], LockMove(p, f, g)
    PROVE  LocksHeld'
    <1>1. /\ st'[p] = f /\ ac'[p] = g
          /\ \A q \in Procs : q # p => st'[q] = st[q] /\ ac'[q] = ac[q]
        OBVIOUS
    <1>2. p # Free
        BY AddressesAssumption
    <1>3. /\ locks \in [Keys -> Procs \cup {Free}]
          /\ \A q \in Procs :
                /\ StKeys(st[q]) \cap AcKeys(ac[q]) = {}
                /\ \A k \in Keys : locks[k] = q <=> k \in StKeys(st[q]) \cup AcKeys(ac[q])
        BY DEF LocksHeld
    <1>4. SUFFICES /\ locks' \in [Keys -> Procs \cup {Free}]
                   /\ \A q \in Procs :
                        /\ StKeys(st'[q]) \cap AcKeys(ac'[q]) = {}
                        /\ \A k \in Keys : locks'[k] = q <=> k \in StKeys(st'[q]) \cup AcKeys(ac'[q])
        BY DEF LocksHeld, StKeys, AcKeys
    <1>5. CASE UNCHANGED locks /\ StKeys(f) = StKeys(st[p]) /\ AcKeys(g) = AcKeys(ac[p])
        BY <1>1, <1>3, <1>5
    <1>6. ASSUME NEW k \in Keys, Lock(p, k),
                 \/ StKeys(st[p]) = {} /\ StKeys(f) = {k} /\ AcKeys(g) = AcKeys(ac[p])
                 \/ AcKeys(ac[p]) = {} /\ AcKeys(g) = {k} /\ StKeys(f) = StKeys(st[p])
          PROVE  /\ locks' \in [Keys -> Procs \cup {Free}]
                 /\ \A q \in Procs :
                        /\ StKeys(st'[q]) \cap AcKeys(ac'[q]) = {}
                        /\ \A l \in Keys : locks'[l] = q <=> l \in StKeys(st'[q]) \cup AcKeys(ac'[q])
        <2>1. /\ locks[k] = Free /\ locks' \in [Keys -> Procs \cup {Free}]
              /\ \A l \in Keys : locks'[l] = IF l = k THEN p ELSE locks[l]
            BY <1>3, <1>6 DEF Lock
        <2>2. \A q \in Procs : k \notin StKeys(st[q]) \cup AcKeys(ac[q])
            BY <1>3, <2>1, AddressesAssumption
        <2>3. StKeys(f) \cup AcKeys(g) = StKeys(st[p]) \cup AcKeys(ac[p]) \cup {k}
            BY <1>6
        <2>4. StKeys(f) \cap AcKeys(g) = {}
            BY <1>3, <1>6, <2>2
        <2>5. QED  BY <1>1, <1>3, <2>1, <2>2, <2>3, <2>4
    <1>7. ASSUME NEW k \in Keys, Unlock(p, k),
                 \/ StKeys(st[p]) = {k} /\ StKeys(f) = {} /\ AcKeys(g) = AcKeys(ac[p])
                 \/ AcKeys(ac[p]) = {k} /\ AcKeys(g) = {} /\ StKeys(f) = StKeys(st[p])
          PROVE  /\ locks' \in [Keys -> Procs \cup {Free}]
                 /\ \A q \in Procs :
                        /\ StKeys(st'[q]) \cap AcKeys(ac'[q]) = {}
                        /\ \A l \in Keys : locks'[l] = q <=> l \in StKeys(st'[q]) \cup AcKeys(ac'[q])
        <2>1. /\ locks' \in [Keys -> Procs \cup {Free}]
              /\ \A l \in Keys : locks'[l] = IF l = k THEN Free ELSE locks[l]
            BY <1>3, <1>7 DEF Unlock
        <2>2. locks[k] = p
            BY <1>3, <1>7
        <2>3. \A q \in Procs : q # p => k \notin StKeys(st[q]) \cup AcKeys(ac[q])
            BY <1>3, <2>2
        <2>4. StKeys(f) \cup AcKeys(g) = (StKeys(st[p]) \cup AcKeys(ac[p])) \ {k}
            BY <1>3, <1>7
        <2>5. StKeys(f) \cap AcKeys(g) = {}
            BY <1>7
        <2>6. QED  BY <1>1, <1>3, <2>1, <2>3, <2>4, <2>5, AddressesAssumption
    <1>8. QED  BY <1>5, <1>6, <1>7 DEF LockMove

\* The queue keeps its tasks, gets one or loses its first.
TasksMove ==
    \/ UNCHANGED tasks
    \/ \E t : TaskGood(t)' /\ tasks' = Append(tasks, t)
    \/ tasks # <<>> /\ tasks' = Tail(tasks)

\* What is queued stays good.
LEMMA TasksStay ==
    ASSUME Stored, Frames, Moves, TasksMove
    PROVE  tasks' \in Seq(Tasks) /\ (\A i \in DOMAIN tasks : TaskGood(tasks[i]))'
    <1>1. tasks \in Seq(Tasks) /\ \A i \in DOMAIN tasks : TaskGood(tasks[i])
        BY DEF Frames
    <1>2. \A t : TaskGood(t) => TaskGood(t)'
        BY GoodStays
    <1>3. \A i \in DOMAIN tasks : \A t : t = tasks[i] => TaskGood(t)'
        BY <1>1, <1>2
    <1>4. SUFFICES tasks' \in Seq(Tasks) /\ \A i \in DOMAIN tasks' : \A t : t = tasks'[i] => TaskGood(t)'
        BY DEF TaskGood
    <1>5. CASE UNCHANGED tasks
        BY <1>1, <1>3, <1>5
    <1>6. ASSUME NEW t, TaskGood(t)', tasks' = Append(tasks, t)
          PROVE  tasks' \in Seq(Tasks) /\ \A i \in DOMAIN tasks' : \A c : c = tasks'[i] => TaskGood(c)'
        <2>1. t \in Tasks
            BY <1>6 DEF TaskGood
        <2>2. \A i \in DOMAIN tasks' : (i \in DOMAIN tasks /\ tasks'[i] = tasks[i]) \/ tasks'[i] = t
            BY <1>1, <1>6, <2>1
        <2>3. QED  BY <1>1, <1>3, <1>6, <2>1, <2>2
    <1>7. CASE tasks # <<>> /\ tasks' = Tail(tasks)
        <2>1. \A i \in DOMAIN tasks' : i + 1 \in DOMAIN tasks /\ tasks'[i] = tasks[i + 1]
            BY <1>1, <1>7
        <2>2. tasks' \in Seq(Tasks)
            BY <1>1, <1>7
        <2>3. QED  BY <1>3, <2>1, <2>2
    <1>8. QED  BY <1>5, <1>6, <1>7 DEF TasksMove

\* A goroutine p goes on to the frames f, g and h.
Goes(p, f, g, h) ==
    /\ st' = [st EXCEPT ![p] = f] \/ (UNCHANGED st /\ f = st[p])
    /\ ac' = [ac EXCEPT ![p] = g] \/ (UNCHANGED ac /\ g = ac[p])
    /\ th' = [th EXCEPT ![p] = h] \/ (UNCHANGED th /\ h = th[p])

\* It keeps the invariant if the new frames are good.
LEMMA ProcStep ==
    ASSUME DerefInv, Moves, TasksMove, NEW p \in Procs, NEW f, NEW g, NEW h, Goes(p, f, g, h),
           f = st[p] \/ StGood(f)', g = ac[p] \/ AcGood(g)', h = th[p] \/ ThGood(h)',
           Linked(f, h), LockMove(p, f, g), StAge(f)', AcAge(g)',
           \A q \in Procs : q # p => StAge(st[q])' /\ AcAge(ac[q])'
    PROVE  DerefInv'
    <1>1. Stored /\ Frames /\ LocksHeld /\ NotOlder
        BY DEF DerefInv
    <1>2. /\ st \in [Procs -> StFrames] /\ ac \in [Procs -> AcFrames] /\ th \in [Procs -> ThFrames]
          /\ \A q \in Procs : StGood(st[q]) /\ AcGood(ac[q]) /\ ThGood(th[q]) /\ Linked(st[q], th[q])
        BY <1>1 DEF Frames
    <1>3. /\ st' = [st EXCEPT ![p] = f] /\ ac' = [ac EXCEPT ![p] = g] /\ th' = [th EXCEPT ![p] = h]
        BY <1>2 DEF Goes
    <1>4. /\ \A c : StGood(c) => StGood(c)'
          /\ \A c : AcGood(c) => AcGood(c)'
          /\ \A c : ThGood(c) => ThGood(c)'
        BY <1>1, GoodStays
    <1>5. StGood(f)' /\ AcGood(g)' /\ ThGood(h)'
        BY <1>2, <1>4
    <1>6. f \in StFrames /\ g \in AcFrames /\ h \in ThFrames
        BY <1>5 DEF StGood, AcGood, ThGood
    <1>7. /\ st' \in [Procs -> StFrames] /\ ac' \in [Procs -> AcFrames] /\ th' \in [Procs -> ThFrames]
          /\ st'[p] = f /\ ac'[p] = g /\ th'[p] = h
          /\ \A q \in Procs : q # p => st'[q] = st[q] /\ ac'[q] = ac[q] /\ th'[q] = th[q]
        BY <1>2, <1>3, <1>6
    <1>8. \A q \in Procs : \A a, b, c : a = st'[q] /\ b = ac'[q] /\ c = th'[q] =>
              StGood(a)' /\ AcGood(b)' /\ ThGood(c)' /\ Linked(a, c)
        BY <1>2, <1>4, <1>5, <1>7
    <1>9. tasks' \in Seq(Tasks) /\ (\A i \in DOMAIN tasks : TaskGood(tasks[i]))'
        BY <1>1, TasksStay
    <1>10. Frames'
        <2>1. \A q \in Procs : (StGood(st[q]) /\ AcGood(ac[q]) /\ ThGood(th[q]) /\ Linked(st[q], th[q]))'
            BY <1>8 DEF StGood, AcGood, ThGood, Linked
        <2>2. QED  BY <1>7, <1>9, <2>1 DEF Frames
    <1>11. LocksHeld'
        BY <1>1, <1>2, <1>3, LockStep
    <1>12. NotOlder'
        <2>1. (StAge(st[p]) /\ AcAge(ac[p]))'
            BY <1>7 DEF StAge, AcAge
        <2>2. QED  BY <2>1 DEF NotOlder
    <1>13. QED  BY <1>10, <1>11, <1>12 DEF DerefInv, Moves

\* The same when no row gets another version.
LEMMA CalmStep ==
    ASSUME DerefInv, Moves, Calm, TasksMove,
           NEW p \in Procs, NEW f, NEW g, NEW h, Goes(p, f, g, h),
           f = st[p] \/ (StGood(f)' /\ StAge(f)'), g = ac[p] \/ (AcGood(g)' /\ AcAge(g)'),
           h = th[p] \/ ThGood(h)', Linked(f, h), LockMove(p, f, g)
    PROVE  DerefInv' /\ NotStale
    <1>1. Stored /\ Frames /\ NotOlder
        BY DEF DerefInv
    <1>2. \A q \in Procs : StGood(st[q]) /\ StAge(st[q]) /\ AcGood(ac[q]) /\ AcAge(ac[q])
        BY <1>1 DEF Frames, NotOlder
    <1>3. /\ \A c : StGood(c) /\ StAge(c) => StAge(c)'
          /\ \A c : AcGood(c) /\ AcAge(c) => AcAge(c)'
        BY <1>1, AgeStays
    <1>4. StAge(f)' /\ AcAge(g)'
        BY <1>2, <1>3
    <1>5. \A q \in Procs : q # p => StAge(st[q])' /\ AcAge(ac[q])'
        <2> SUFFICES ASSUME NEW q \in Procs, q # p  PROVE StAge(st[q])' /\ AcAge(ac[q])'
            OBVIOUS
        <2>1. PICK a, b : a = st[q] /\ b = ac[q]
            OBVIOUS
        <2>2. StAge(a)' /\ AcAge(b)'
            BY <1>2, <1>3, <2>1
        <2>3. st'[q] = a /\ ac'[q] = b
            BY <1>1, <2>1 DEF Goes, Frames
        <2>4. QED  BY <2>2, <2>3 DEF StAge, AcAge
    <1>6. DerefInv'
        BY <1>4, <1>5, ProcStep
    <1>7. NotStale
        BY <1>1, CalmNotStale DEF Moves
    <1>8. QED  BY <1>6, <1>7

\* The same when no goroutine goes on.
LEMMA EnvStep ==
    ASSUME DerefInv, Moves, Calm, UNCHANGED <<locks, st, ac, th, tasks>>
    PROVE  DerefInv' /\ NotStale
    <1>1. Stored /\ Frames /\ LocksHeld /\ NotOlder
        BY DEF DerefInv
    <1>2. /\ \A c : StGood(c) => StGood(c)' /\ (StAge(c) => StAge(c)')
          /\ \A c : AcGood(c) => AcGood(c)' /\ (AcAge(c) => AcAge(c)')
          /\ \A c : ThGood(c) => ThGood(c)'
        BY <1>1, GoodStays, AgeStays
    <1>3. \A q \in Procs : \A a, b, c : a = st[q] /\ b = ac[q] /\ c = th[q] =>
              /\ StGood(a)' /\ AcGood(b)' /\ ThGood(c)' /\ Linked(a, c) /\ StAge(a)' /\ AcAge(b)'
        BY <1>1, <1>2 DEF Frames, NotOlder
    <1>4. tasks' \in Seq(Tasks) /\ (\A i \in DOMAIN tasks : TaskGood(tasks[i]))'
        BY <1>1, TasksStay DEF TasksMove
    <1>5. Frames'
        <2>1. \A q \in Procs : (StGood(st[q]) /\ AcGood(ac[q]) /\ ThGood(th[q]) /\ Linked(st[q], th[q]))'
            BY <1>3 DEF StGood, AcGood, ThGood, Linked
        <2>2. QED  BY <1>1, <1>4, <2>1 DEF Frames
    <1>6. LocksHeld'
        BY <1>1 DEF LocksHeld, StKeys, AcKeys
    <1>7. NotOlder'
        BY <1>3 DEF NotOlder, StAge, AcAge
    <1>8. NotStale
        BY <1>1, CalmNotStale DEF Moves
    <1>9. QED  BY <1>5, <1>6, <1>7, <1>8 DEF DerefInv, Moves

-----------------------------------------------------------------------------
(***************************************************************************)
(* Steps at a status                                                       *)
(***************************************************************************)
\* Nothing is written and nothing changes on a server.
LEMMA SameStep == ASSUME DerefInv, UNCHANGED <<db, version, now>>  PROVE Moves /\ Calm
    <1>1. Stored
        BY DEF DerefInv
    <1>2. \A u \in URIs : version[u] <= version'[u]
        BY <1>1 DEF Stored
    <1>3. QED  BY <1>1, <1>2, DbSame DEF Stored

\* What the invariant says of one goroutine.
LEMMA FrameFacts ==
    ASSUME DerefInv, NEW p \in Procs
    PROVE  /\ st[p] \in StFrames /\ ac[p] \in AcFrames /\ th[p] \in ThFrames
           /\ StGood(st[p]) /\ AcGood(ac[p]) /\ ThGood(th[p]) /\ Linked(st[p], th[p])
           /\ StAge(st[p]) /\ AcAge(ac[p])
           /\ st[p].pc # "idle" =>
                /\ st[p].addr \in Addresses /\ Canon[st[p].addr] \in Statuses /\ Canon[st[p].addr] \in URIs
                /\ st[p].key \in Keys /\ Known(Canon[st[p].addr], st[p].copy)
           /\ ac[p].pc \notin {"idle", "done"} =>
                ac[p].uri \in URIs /\ ac[p].key \in Keys /\ Known(ac[p].uri, ac[p].copy)
    <1>1. /\ st[p] \in StFrames /\ ac[p] \in AcFrames /\ th[p] \in ThFrames
          /\ StGood(st[p]) /\ AcGood(ac[p]) /\ ThGood(th[p]) /\ Linked(st[p], th[p])
          /\ StAge(st[p]) /\ AcAge(ac[p])
        BY DEF DerefInv, Frames, NotOlder
    <1>2. st[p].pc # "idle" =>
                /\ st[p].addr \in Addresses /\ st[p].key \in {st[p].addr, Canon[st[p].addr]}
                /\ Known(Canon[st[p].addr], st[p].copy)
        BY <1>1 DEF StGood
    <1>3. ac[p].pc \notin {"idle", "done"} =>
                /\ ac[p].uri \in Accounts /\ ac[p].key \in {ac[p].uri, NameKey[ac[p].uri]}
                /\ Known(ac[p].uri, ac[p].copy)
        BY <1>1 DEF AcGood
    <1>4. QED  BY <1>1, <1>2, <1>3, KeyFacts

\* The frame of enrichStatusSafely.
LEMMA EnrichFacts ==
    ASSUME NEW addr \in Addresses, NEW obj, Known(Canon[addr], obj),
           NEW ver \in Nat, ver <= version[Canon[addr]]
    PROVE  /\ StGood(Enrich(addr, obj, ver)) /\ StAge(Enrich(addr, obj, ver))
           /\ StKeys(Enrich(addr, obj, ver)) = {}
           /\ Enrich(addr, obj, ver).pc # "idle" /\ Enrich(addr, obj, ver).addr = addr
    <1> DEFINE f == Enrich(addr, obj, ver)
    <1>1. /\ f.pc = "lock" /\ f.addr = addr /\ f.copy = obj /\ f.ver = ver
          /\ f.key = IF obj.id = 0 THEN addr ELSE Canon[addr]
        BY DEF Enrich
    <1>2. obj \in Objects /\ f.key \in Keys
        BY <1>1, KeyFacts DEF Known
    <1>3. f \in StFrames
        BY <1>1, <1>2 DEF Enrich, StFrames
    <1> HIDE DEF f
    <1>4. StGood(f) /\ StAge(f) /\ StKeys(f) = {}
        BY <1>1, <1>3 DEF StGood, StAge, StKeys
    <1>5. QED  BY <1>1, <1>4 DEF f

\* A good frame of an unchanged database is good afterwards.
LEMMA GoodLater ==
    ASSUME DerefInv, Moves, Calm
    PROVE  /\ \A f : StGood(f) /\ StAge(f) => StGood(f)' /\ StAge(f)'
           /\ \A g : AcGood(g) /\ AcAge(g) => AcGood(g)' /\ AcAge(g)'
           /\ \A h : ThGood(h) => ThGood(h)'
           /\ \A u \in URIs : \A obj : Known(u, obj) => Known(u, obj)'
    <1>1. Stored
        BY DEF DerefInv
    <1>2. QED  BY <1>1, GoodStays, AgeStays, KnownStays

\* An idle goroutine is asked for a status.
LEMMA AskStep ==
    ASSUME DerefInv, NEW p \in Procs, Idle(p), NEW addr \in Addresses, NEW obj, Known(Canon[addr], obj),
           NEW ver \in Nat, ver <= version[Canon[addr]], st' = [st EXCEPT ![p] = Enrich(addr, obj, ver)],
           UNCHANGED <<db, version, now, locks, ac, th, tasks>>
    PROVE  DerefInv' /\ NotStale
    <1>1. PICK f : f = Enrich(addr, obj, ver)
        OBVIOUS
    <1>2. StGood(f) /\ StAge(f) /\ StKeys(f) = {} /\ f.pc # "idle"
        BY <1>1, EnrichFacts
    <1>3. Moves /\ Calm
        BY SameStep
    <1>4. StGood(f)' /\ StAge(f)'
        BY <1>2, <1>3, GoodLater
    <1>5. Linked(f, th[p]) /\ StKeys(st[p]) = {}
        BY IdleFacts DEF Idle, Linked, StKeys
    <1>6. LockMove(p, f, ac[p])
        BY <1>2, <1>5 DEF LockMove
    <1>7. PICK g, h : g = ac[p] /\ h = th[p]
        OBVIOUS
    <1>8. Goes(p, f, g, h)
        BY <1>1, <1>7 DEF Goes
    <1>9. TasksMove
        BY DEF TasksMove
    <1>10. QED  BY <1>3, <1>4, <1>5, <1>6, <1>7, <1>8, <1>9, CalmStep

\* What a lookup finds is known.
LEMMA LookupKnown ==
    ASSUME DerefInv, NEW addr \in Addresses
    PROVE  Known(Canon[addr], Lookup(addr))
    <1>1. Canon[addr] \in URIs
        BY KeyFacts
    <1>2. Known(Canon[addr], None) /\ Known(Canon[addr], cached[Canon[addr]])
        BY <1>1, ObjectFacts DEF DerefInv, Stored, Known
    <1>3. QED  BY <1>2 DEF Lookup

\* Requests for a status, and messages that bring one.
LEMMA AskStatusStep ==
    ASSUME DerefInv, NEW p \in Procs,
           \/ \E addr \in Addresses : GetStatusByURI(p, addr)
           \/ \E s \in Statuses, v \in 1..MaxVersion : CreateStatus(p, s, v) \/ UpdateStatus(p, s, v)
    PROVE  DerefInv' /\ NotStale
    <1> USE DEF Call
    <1>1. ASSUME NEW addr \in Addresses, GetStatusByURI(p, addr)  PROVE DerefInv' /\ NotStale
        <2>1. Known(Canon[addr], Lookup(addr))
            BY LookupKnown
        <2>2. 0 \in Nat /\ 0 <= version[Canon[addr]]
            BY KeyFacts DEF DerefInv, Stored
        <2>3. QED  BY <1>1, <2>1, <2>2, AskStep DEF GetStatusByURI
    <1>2. ASSUME NEW s \in Statuses, NEW v \in 1..MaxVersion, CreateStatus(p, s, v) \/ UpdateStatus(p, s, v)
          PROVE  DerefInv' /\ NotStale
        <2>1. s \in Addresses /\ Canon[s] = s /\ s \in URIs
            BY KeyFacts
        <2>2. Known(Canon[s], None) /\ Known(Canon[s], cached[s])
            BY <2>1, ObjectFacts DEF DerefInv, Stored, Known
        <2>3. v \in Nat /\ v <= version[Canon[s]]
            BY <1>2, <2>1 DEF CreateStatus, UpdateStatus
        <2>4. QED  BY <1>2, <2>1, <2>2, <2>3, AskStep DEF CreateStatus, UpdateStatus
    <1>3. QED  BY <1>1, <1>2

\* The goroutine goes on at its status with nothing but another pc.
LEMMA PcFacts ==
    ASSUME DerefInv, NEW p \in Procs, st[p].pc # "idle",
           NEW c \in {"lock", "fetch", "author", "convert", "store", "race"},
           NEW f, f = [st[p] EXCEPT !.pc = c]
    PROVE  /\ StGood(f) /\ Linked(f, th[p]) /\ f.pc = c /\ f.key = st[p].key /\ f.copy = st[p].copy
           /\ f.addr = st[p].addr /\ f.given = st[p].given /\ f.ver = st[p].ver
    <1>1. st[p] \in StFrames /\ StGood(st[p]) /\ Linked(st[p], th[p])
        BY FrameFacts
    <1>2. /\ f \in StFrames /\ f.pc = c /\ f.key = st[p].key /\ f.copy = st[p].copy
          /\ f.addr = st[p].addr /\ f.given = st[p].given /\ f.ver = st[p].ver
        BY <1>1 DEF StFrames
    <1>3. StGood(f)
        BY <1>1, <1>2 DEF StGood
    <1>4. Linked(f, th[p])
        BY <1>1, <1>2 DEF Linked
    <1>5. QED  BY <1>2, <1>3, <1>4

\* The lock is taken.
LEMMA LockStatusStep == ASSUME DerefInv, NEW p \in Procs, LockStatus(p)  PROVE DerefInv' /\ NotStale
    <1> USE DEF LockStatus, env
    <1>1. PICK c \in {"author", "fetch"} :
              st' = [st EXCEPT ![p].pc = c] /\ (c = "author" => st[p].given)
        OBVIOUS
    <1>2. PICK f : f = [st[p] EXCEPT !.pc = c]
        OBVIOUS
    <1>3. /\ StGood(f) /\ Linked(f, th[p]) /\ f.pc = c /\ f.key = st[p].key /\ f.given = st[p].given
          /\ st[p].key \in Keys
        BY <1>2, PcFacts, FrameFacts
    <1>4. Moves /\ Calm
        BY SameStep
    <1>5. StAge(f)
        BY <1>1, <1>3 DEF StAge
    <1>6. StGood(f)' /\ StAge(f)'
        BY <1>3, <1>4, <1>5, GoodLater
    <1>7. LockMove(p, f, ac[p])
        BY <1>3 DEF LockMove, StKeys
    <1>8. Goes(p, f, ac[p], th[p]) /\ TasksMove
        BY <1>1, <1>2 DEF Goes, TasksMove
    <1>9. QED  BY <1>3, <1>4, <1>6, <1>7, <1>8, CalmStep

\* The status is fetched: what is stored cannot be newer.
LEMMA FetchStatusStep == ASSUME DerefInv, NEW p \in Procs, FetchStatus(p)  PROVE DerefInv' /\ NotStale
    <1> USE DEF FetchStatus, env
    <1> DEFINE s == Canon[st[p].addr]
               c == IF st[p].addr \in Redirects /\ cached[s].id # 0 THEN cached[s] ELSE st[p].copy
    <1>1. PICK f : f = [st[p] EXCEPT !.pc = "author", !.ver = version[s], !.copy = c]
        OBVIOUS
    <1>2. st' = [st EXCEPT ![p] = f] /\ st[p].pc = "fetch"
        <2>1. st \in [Procs -> StFrames]
            BY DEF DerefInv, Frames
        <2>2. QED  BY <1>1, <2>1 DEF StFrames
    <1>3. /\ st[p] \in StFrames /\ StGood(st[p]) /\ Linked(st[p], th[p])
          /\ s \in URIs /\ st[p].addr \in Addresses /\ Known(s, st[p].copy)
        BY <1>2, FrameFacts
    <1>4. Known(s, cached[s]) /\ version[s] \in Nat /\ rows[s].ver <= version[s]
        BY <1>3 DEF DerefInv, Stored
    <1>5. Known(s, c) /\ c \in Objects
        BY <1>3, <1>4 DEF Known
    <1>6. st[p].addr \notin Redirects => c = st[p].copy
        OBVIOUS
    <1> HIDE DEF c
    <1>7. /\ f \in StFrames /\ f.pc = "author" /\ f.key = st[p].key /\ f.copy = c
          /\ f.addr = st[p].addr /\ f.ver = version[s]
        BY <1>1, <1>3, <1>4, <1>5 DEF StFrames
    <1>8. StGood(f) /\ StAge(f) /\ Linked(f, th[p])
        <2>1. StGood(f)
            BY <1>2, <1>3, <1>4, <1>5, <1>6, <1>7 DEF StGood
        <2>2. StAge(f)
            BY <1>4, <1>7 DEF StAge
        <2>3. Linked(f, th[p])
            BY <1>2, <1>3, <1>7 DEF Linked
        <2>4. QED  BY <2>1, <2>2, <2>3
    <1>9. Moves /\ Calm
        BY SameStep
    <1>10. StGood(f)' /\ StAge(f)'
        BY <1>8, <1>9, GoodLater
    <1>11. LockMove(p, f, ac[p])
        BY <1>2, <1>7 DEF LockMove, StKeys
    <1>12. Goes(p, f, ac[p], th[p]) /\ TasksMove
        BY <1>2 DEF Goes, TasksMove
    <1>13. QED  BY <1>8, <1>9, <1>10, <1>11, <1>12, CalmStep

\* The answer goes to the walk that waits, to a new walk or to the queue.
LEMMA ReturnFacts ==
    ASSUME DerefInv, Moves, NEW p \in Procs, st[p].pc # "idle", NEW s, s = Canon[st[p].addr],
           NEW obj, Known(s, obj)', NEW fetched, NEW err \in Errors, Return(p, s, obj, fetched, err)
    PROVE  /\ st' = [st EXCEPT ![p] = IdleSt] /\ TasksMove
           /\ \E h : /\ th' = [th EXCEPT ![p] = h]
                     /\ h = th[p] \/ ThGood(h)'
                     /\ Linked(IdleSt, h)
    <1>1. /\ th[p] \in ThFrames /\ ThGood(th[p]) /\ Linked(st[p], th[p]) /\ s \in Statuses
        BY FrameFacts
    <1>2. obj \in Objects
        BY DEF Known
    <1>3. ThGood(th[p]) => \A h : h = th[p] => ThGood(h)'
        BY GoodStays DEF DerefInv
    <1> DEFINE walk == [IdleTh EXCEPT !.pc = "walk", !.uri = s, !.copy = obj]
               back == [th[p] EXCEPT !.pc = "parent", !.found = obj, !.err = err]
    <1>4. st' = [st EXCEPT ![p] = IdleSt]
        BY DEF Return
    <1>5. TasksMove
        <2>1. CASE tasks' = tasks
            BY <2>1 DEF TasksMove
        <2>2. CASE tasks' = Append(tasks, [uri |-> s, copy |-> obj])
            <3>1. PICK t : t = [uri |-> s, copy |-> obj]
                OBVIOUS
            <3>2. t \in Tasks /\ t.uri = s /\ t.copy = obj
                BY <1>1, <1>2, <3>1 DEF Tasks
            <3>3. TaskGood(t)'
                BY <3>2 DEF TaskGood
            <3>4. QED  BY <2>2, <3>1, <3>3 DEF TasksMove
        <2>3. QED  BY <2>1, <2>2 DEF Return
    <1>6. CASE th[p].pc = "wait"
        <2>1. PICK h : h = back
            OBVIOUS
        <2>2. /\ h \in ThFrames /\ h.pc = "parent" /\ h.found = obj /\ h.uri = th[p].uri
              /\ h.copy = th[p].copy
            BY <1>1, <1>2, <2>1 DEF ThFrames
        <2>3. InReplyTo[h.uri] = s
            BY <1>1, <1>6, <2>2 DEF Linked
        <2>4. PICK t : t = th[p]
            OBVIOUS
        <2>5. ThGood(t)' /\ t.pc = "wait" /\ t.uri = h.uri /\ t.copy = h.copy
            BY <1>1, <1>3, <1>6, <2>2, <2>4
        <2>6. ThGood(h)'
            BY <1>1, <2>2, <2>3, <2>5 DEF ThGood
        <2>7. Linked(IdleSt, h)
            BY <2>2, IdleFacts DEF Linked
        <2>8. th' = [th EXCEPT ![p] = h]
            BY <1>6, <2>1 DEF Return
        <2>9. QED  BY <1>4, <1>5, <2>6, <2>7, <2>8
    <1>7. CASE th[p].pc # "wait" /\ fetched /\ st[p].new
        <2>1. PICK h : h = walk
            OBVIOUS
        <2>2. h \in ThFrames /\ h.pc = "walk" /\ h.uri = s /\ h.copy = obj
            <3>1. h = [pc |-> "walk", uri |-> s, copy |-> obj, seen |-> {}, n |-> 0,
                       found |-> None, err |-> "none"]
                BY <2>1 DEF IdleTh
            <3>2. QED  BY <1>1, <1>2, <3>1, ObjectFacts DEF ThFrames, Errors
        <2>3. ThGood(h)'
            BY <1>1, <2>2 DEF ThGood
        <2>4. Linked(IdleSt, h)
            BY <2>2, IdleFacts DEF Linked
        <2>5. th' = [th EXCEPT ![p] = h]
            BY <1>7, <2>1 DEF Return
        <2>6. QED  BY <1>4, <1>5, <2>3, <2>4, <2>5
    <1>8. CASE th[p].pc # "wait" /\ ~ (fetched /\ st[p].new)
        <2>1. PICK h : h = th[p]
            OBVIOUS
        <2>2. Linked(IdleSt, h)
            BY <1>8, <2>1, IdleFacts DEF Linked
        <2>3. th' = [th EXCEPT ![p] = h]
            BY <1>8, <2>1 DEF Return
        <2>4. QED  BY <1>4, <1>5, <2>1, <2>2, <2>3
    <1>9. QED  BY <1>6, <1>7, <1>8

\* The lock is left and the answer given.
LEMMA LeaveStep ==
    ASSUME DerefInv, Moves, Calm, NEW p \in Procs,
           st[p].pc \in {"fetch", "author", "convert", "store"}, Unlock(p, st[p].key),
           NEW s, s = Canon[st[p].addr], NEW obj, Known(s, obj)', NEW fetched, NEW err \in Errors,
           Return(p, s, obj, fetched, err),
           NEW g, ac' = [ac EXCEPT ![p] = g] \/ (UNCHANGED ac /\ g = ac[p]),
           g = ac[p] \/ (AcGood(g)' /\ AcAge(g)'), AcKeys(g) = AcKeys(ac[p])
    PROVE  DerefInv' /\ NotStale
    <1>1. st' = [st EXCEPT ![p] = IdleSt] /\ TasksMove
        BY ReturnFacts
    <1>2. PICK h : /\ th' = [th EXCEPT ![p] = h]
                   /\ h = th[p] \/ ThGood(h)'
                   /\ Linked(IdleSt, h)
        BY ReturnFacts
    <1>3. PICK f : f = IdleSt
        OBVIOUS
    <1>4. StGood(f)' /\ StAge(f)'
        BY <1>3, IdleFacts DEF StGood, StAge
    <1>5. StKeys(st[p]) = {st[p].key} /\ st[p].key \in Keys /\ StKeys(f) = {}
        BY <1>3, FrameFacts, IdleFacts DEF StKeys
    <1>6. LockMove(p, f, g)
        BY <1>5 DEF LockMove
    <1>7. Goes(p, f, g, h) /\ Linked(f, h)
        BY <1>1, <1>2, <1>3 DEF Goes
    <1>8. QED  BY <1>1, <1>2, <1>4, <1>6, <1>7, CalmStep

\* enrichStatus failed.
LEMMA FailStep ==
    ASSUME DerefInv, NEW p \in Procs, st[p].pc \in {"fetch", "author"},
           NEW err \in Errors, FailStatus(p, err), UNCHANGED <<version, now>>,
           NEW g, ac' = [ac EXCEPT ![p] = g] \/ (UNCHANGED ac /\ g = ac[p]),
           g = ac[p] \/ (AcGood(g) /\ AcAge(g)), AcKeys(g) = AcKeys(ac[p])
    PROVE  DerefInv' /\ NotStale
    <1>1. PICK s : s = Canon[st[p].addr]
        OBVIOUS
    <1>2. s \in URIs /\ Known(s, st[p].copy) /\ Stored
        BY <1>1, FrameFacts DEF DerefInv
    <1>3. Known(s, None)
        BY <1>2, ObjectFacts DEF Known, Stored
    <1> DEFINE http == err \in {"gone", "http"} /\ ~ st[p].new
    <1>4. PICK obj : obj = IF http THEN [st[p].copy EXCEPT !.at = now]
                           ELSE IF st[p].new THEN None ELSE st[p].copy
        OBVIOUS
    <1>5. Unlock(p, st[p].key) /\ Return(p, s, obj, FALSE, err)
        BY <1>1, <1>4 DEF FailStatus
    <1>6. Moves /\ Calm /\ Known(s, obj)'
        <2>1. CASE http
            <3>1. PICK c : c = st[p].copy
                OBVIOUS
            <3>2. UpdateFetchedAt(s, c)
                BY <1>1, <2>1, <3>1 DEF FailStatus
            <3>3. obj = [c EXCEPT !.at = now]
                BY <1>4, <2>1, <3>1
            <3>4. QED  BY <1>2, <3>1, <3>2, <3>3, DbFetchedAt
        <2>2. CASE ~ http
            <3>1. UNCHANGED db
                BY <2>2 DEF FailStatus
            <3>2. Moves /\ Calm
                BY <3>1, SameStep
            <3>3. Known(s, obj)
                BY <1>2, <1>3, <1>4, <2>2
            <3>4. QED  BY <1>2, <3>2, <3>3, KnownStays
        <2>3. QED  BY <2>1, <2>2
    <1>7. g = ac[p] \/ (AcGood(g)' /\ AcAge(g)')
        BY <1>6, GoodLater
    <1>8. QED  BY <1>1, <1>5, <1>6, <1>7, LeaveStep

\* The server does not give the status.
LEMMA StatusUnavailableStep ==
    ASSUME DerefInv, NEW p \in Procs, StatusGone(p) \/ \E err \in {"http", "other"} : StatusUnavailable(p, err)
    PROVE  DerefInv' /\ NotStale
    <1>1. PICK err \in Errors : st[p].pc = "fetch" /\ FailStatus(p, err) /\ UNCHANGED <<version, now, ac>>
        BY DEF StatusGone, StatusUnavailable, Errors, env
    <1>2. PICK g : g = ac[p]
        OBVIOUS
    <1>3. QED  BY <1>1, <1>2, FailStep

\* The author is known, or asked for.
LEMMA GetAuthorStep == ASSUME DerefInv, NEW p \in Procs, GetAuthor(p)  PROVE DerefInv' /\ NotStale
    <1> USE DEF GetAuthor, env
    <1> DEFINE a == Author[Canon[st[p].addr]]
    <1>1. st[p].pc = "author" /\ ac[p].pc = "idle" /\ st[p].pc # "idle"
        OBVIOUS
    <1>2. a \in Accounts /\ a \in URIs /\ a \in Keys
        BY <1>1, FrameFacts, KeyFacts
    <1>3. Moves /\ Calm
        BY SameStep
    <1>4. PICK h : h = th[p] /\ UNCHANGED th
        OBVIOUS
    <1>5. CASE st' = [st EXCEPT ![p].pc = "convert"] /\ UNCHANGED ac
        <2>1. PICK f, g : f = [st[p] EXCEPT !.pc = "convert"] /\ g = ac[p]
            OBVIOUS
        <2>2. /\ StGood(f) /\ Linked(f, h) /\ f.pc = "convert" /\ f.key = st[p].key /\ f.copy = st[p].copy
              /\ f.addr = st[p].addr /\ f.given = st[p].given /\ f.ver = st[p].ver
            BY <1>1, <1>4, <2>1, PcFacts
        <2>3. StAge(f)
            <3>1. StAge(st[p])
                BY FrameFacts
            <3>2. QED  BY <1>1, <2>2, <3>1 DEF StAge
        <2>4. StGood(f)' /\ StAge(f)'
            BY <1>3, <2>2, <2>3, GoodLater
        <2>5. LockMove(p, f, g)
            BY <1>1, <2>1, <2>2 DEF LockMove, StKeys
        <2>6. Goes(p, f, g, h) /\ TasksMove
            BY <1>4, <1>5, <2>1 DEF Goes, TasksMove
        <2>7. QED  BY <1>3, <1>4, <2>1, <2>2, <2>4, <2>5, <2>6, CalmStep
    <1>6. CASE ac' = [ac EXCEPT ![p] = EnrichAccount(a, a, cached[a], 0)] /\ UNCHANGED st
        <2>1. PICK f, g : f = st[p] /\ g = EnrichAccount(a, a, cached[a], 0)
            OBVIOUS
        <2>2. Known(a, cached[a]) /\ 0 <= version[a] /\ cached[a] \in Objects
            BY <1>2 DEF DerefInv, Stored
        <2> HIDE DEF a
        <2>3. AcGood(g) /\ AcAge(g) /\ AcKeys(g) = {}
            <3>1. /\ g.pc = "lock" /\ g.key = a /\ g.uri = a /\ g.copy = cached[a] /\ g.ver = 0
                  /\ g \in AcFrames
                BY <1>2, <2>1, <2>2 DEF EnrichAccount, AcFrames
            <3>2. QED  BY <1>2, <2>2, <3>1 DEF AcGood, AcAge, AcKeys
        <2>4. AcGood(g)' /\ AcAge(g)'
            BY <1>3, <2>3, GoodLater
        <2>5. LockMove(p, f, g)
            BY <1>1, <2>1, <2>3 DEF LockMove, AcKeys
        <2>6. Linked(f, h)
            BY <1>4, <2>1, FrameFacts
        <2>7. Goes(p, f, g, h) /\ TasksMove
            BY <1>4, <1>6, <2>1 DEF Goes, TasksMove, a
        <2>8. QED  BY <1>3, <1>4, <2>1, <2>4, <2>5, <2>6, <2>7, CalmStep
    <1>7. QED  BY <1>5, <1>6

\* The author is there, or is not.
LEMMA AuthorDoneStep == ASSUME DerefInv, NEW p \in Procs, AuthorDone(p)  PROVE DerefInv' /\ NotStale
    <1> USE DEF AuthorDone, env
    <1>1. st[p].pc = "author" /\ ac[p].pc = "done" /\ ac' = [ac EXCEPT ![p] = IdleAc]
        OBVIOUS
    <1>2. PICK g : g = IdleAc
        OBVIOUS
    <1>3. AcGood(g) /\ AcAge(g) /\ AcKeys(g) = AcKeys(ac[p])
        BY <1>1, <1>2, IdleFacts DEF AcGood, AcAge, AcKeys
    <1>4. CASE ac[p].err /\ st[p].copy.id = 0
        <2>1. FailStatus(p, "other") /\ "other" \in Errors
            BY <1>4 DEF Errors
        <2>2. QED  BY <1>1, <1>2, <1>3, <2>1, FailStep
    <1>5. CASE ~ (ac[p].err /\ st[p].copy.id = 0)
        <2>1. PICK f, h : f = [st[p] EXCEPT !.pc = "convert"] /\ h = th[p]
            OBVIOUS
        <2>2. /\ StGood(f) /\ Linked(f, h) /\ f.pc = "convert" /\ f.key = st[p].key /\ f.copy = st[p].copy
              /\ f.addr = st[p].addr /\ f.given = st[p].given /\ f.ver = st[p].ver
            BY <1>1, <2>1, PcFacts
        <2>3. StAge(f)
            <3>1. StAge(st[p])
                BY FrameFacts
            <3>2. QED  BY <1>1, <2>2, <3>1 DEF StAge
        <2>4. Moves /\ Calm
            BY <1>5, SameStep
        <2>5. StGood(f)' /\ StAge(f)' /\ AcGood(g)' /\ AcAge(g)'
            BY <1>3, <2>2, <2>3, <2>4, GoodLater
        <2>6. LockMove(p, f, g)
            BY <1>1, <1>3, <1>5, <2>2 DEF LockMove, StKeys
        <2>7. Goes(p, f, g, h) /\ TasksMove
            BY <1>1, <1>2, <1>5, <2>1 DEF Goes, TasksMove
        <2>8. QED  BY <2>1, <2>2, <2>4, <2>5, <2>6, <2>7, CalmStep
    <1>6. QED  BY <1>4, <1>5

\* The status is converted, or deleted because its author is suspended.
LEMMA ConvertStep == ASSUME DerefInv, NEW p \in Procs, ConvertStatus(p)  PROVE DerefInv' /\ NotStale
    <1>1. PICK s : s = Canon[st[p].addr]
        OBVIOUS
    <1>2. st[p].pc = "convert" /\ UNCHANGED <<version, now, ac>>
        BY DEF ConvertStatus
    <1>3. s \in URIs /\ s \in Statuses /\ Known(s, st[p].copy) /\ Stored /\ st[p] \in StFrames /\ StGood(st[p])
        BY <1>1, <1>2, FrameFacts DEF DerefInv
    <1>4. CASE cached[Author[s]].susp
        <2>1. PICK obj, g : obj = (IF st[p].new THEN None ELSE st[p].copy) /\ g = ac[p]
            OBVIOUS
        <2>2. Unlock(p, st[p].key) /\ Return(p, s, obj, FALSE, "other") /\ "other" \in Errors
            BY <1>1, <1>4, <2>1 DEF ConvertStatus, Errors
        <2>3. Moves /\ Calm
            <3>1. CASE UNCHANGED db
                BY <1>2, <3>1, SameStep
            <3>2. CASE DeleteStatusByID(s, st[p].copy.id)
                BY <1>2, <1>3, <3>2, DbDelete
            <3>3. QED  BY <1>1, <1>4, <3>1, <3>2 DEF ConvertStatus
        <2>4. Known(s, None)
            BY <1>3, ObjectFacts DEF Known, Stored
        <2>5. Known(s, obj)
            BY <1>3, <2>1, <2>4
        <2>6. Known(s, obj)'
            BY <1>3, <2>3, <2>5, KnownStays
        <2>7. QED  BY <1>1, <1>2, <2>1, <2>2, <2>3, <2>6, LeaveStep
    <1>5. CASE ~ cached[Author[s]].susp
        <2>1. PICK n : n = IF InReplyTo[s] = NoStatus THEN 0 ELSE cached[InReplyTo[s]].id
            OBVIOUS
        <2>2. n \in Nat
            BY <1>3, <2>1, KeyFacts DEF Stored, Objects
        <2>3. st' = [st EXCEPT ![p].pc = "store", ![p].parent = n] /\ UNCHANGED <<db, locks, th, tasks>>
            BY <1>1, <1>5, <2>1 DEF ConvertStatus
        <2>4. PICK f, g, h : f = [st[p] EXCEPT !.pc = "store", !.parent = n] /\ g = ac[p] /\ h = th[p]
            OBVIOUS
        <2>5. /\ f \in StFrames /\ f.pc = "store" /\ f.key = st[p].key /\ f.copy = st[p].copy
              /\ f.addr = st[p].addr /\ f.given = st[p].given /\ f.ver = st[p].ver
            BY <1>3, <2>2, <2>4 DEF StFrames
        <2>6. StGood(f)
            BY <1>2, <1>3, <2>5 DEF StGood
        <2>7. StAge(f) /\ Linked(f, h)
            <3>1. StAge(st[p]) /\ Linked(st[p], th[p])
                BY FrameFacts
            <3>2. QED  BY <1>2, <2>4, <2>5, <3>1 DEF StAge, Linked
        <2>8. Moves /\ Calm
            BY <1>2, <2>3, SameStep
        <2>9. StGood(f)' /\ StAge(f)'
            BY <2>6, <2>7, <2>8, GoodLater
        <2>10. LockMove(p, f, g)
            BY <1>2, <2>3, <2>4, <2>5 DEF LockMove, StKeys
        <2>11. Goes(p, f, g, h) /\ TasksMove
            <3>1. st \in [Procs -> StFrames]
                BY DEF DerefInv, Frames
            <3>2. st' = [st EXCEPT ![p] = f]
                BY <2>3, <2>4, <3>1 DEF StFrames
            <3>3. QED  BY <1>2, <2>3, <2>4, <3>2 DEF Goes, TasksMove
        <2>12. QED  BY <2>4, <2>7, <2>8, <2>9, <2>10, <2>11, CalmStep
    <1>6. QED  BY <1>4, <1>5

\* The loser of the race answers with what it finds.
LEMMA StatusRaceStep == ASSUME DerefInv, NEW p \in Procs, StatusRace(p)  PROVE DerefInv' /\ NotStale
    <1> USE DEF StatusRace, env
    <1>1. PICK s : s = Canon[st[p].addr]
        OBVIOUS
    <1>2. st[p].pc = "race" /\ st[p].addr \in Addresses /\ s \in URIs
        BY <1>1, FrameFacts
    <1>3. PICK obj : obj = IF st[p].addr \in Statuses THEN cached[st[p].addr] ELSE None
        OBVIOUS
    <1>4. PICK err \in Errors : err = IF obj.id = 0 THEN "other" ELSE "none"
        BY DEF Errors
    <1>5. Return(p, s, obj, FALSE, err)
        BY <1>1, <1>3, <1>4
    <1>6. Known(s, None) /\ Known(s, cached[s])
        BY <1>2, ObjectFacts DEF DerefInv, Stored, Known
    <1>7. Known(s, obj)
        BY <1>1, <1>3, <1>6, KeyFacts
    <1>8. Moves /\ Calm
        BY SameStep
    <1>9. Known(s, obj)'
        BY <1>2, <1>7, <1>8, GoodLater
    <1>10. st' = [st EXCEPT ![p] = IdleSt] /\ TasksMove
        BY <1>1, <1>2, <1>5, <1>8, <1>9, ReturnFacts
    <1>11. PICK h : th' = [th EXCEPT ![p] = h] /\ (h = th[p] \/ ThGood(h)') /\ Linked(IdleSt, h)
        BY <1>1, <1>2, <1>5, <1>8, <1>9, ReturnFacts
    <1>12. PICK f, g : f = IdleSt /\ g = ac[p]
        OBVIOUS
    <1>13. StGood(f)' /\ StAge(f)'
        BY <1>12, IdleFacts DEF StGood, StAge
    <1>14. LockMove(p, f, g)
        BY <1>2, <1>12, IdleFacts DEF LockMove, StKeys
    <1>15. Goes(p, f, g, h)
        BY <1>10, <1>11, <1>12 DEF Goes
    <1>16. QED  BY <1>8, <1>10, <1>11, <1>12, <1>13, <1>14, <1>15, CalmStep

\* The status is stored. Whoever else has fetched it, and whose copy is the row,
\* would hold the same lock.
LEMMA StoreStatusStep == ASSUME DerefInv, NEW p \in Procs, StoreStatus(p)  PROVE DerefInv' /\ NotStale
    <1>1. PICK s, id, obj, g :
              /\ s = Canon[st[p].addr] /\ id = (IF st[p].copy.id = 0 THEN nextID[s] ELSE st[p].copy.id)
              /\ obj = [None EXCEPT !.id = id, !.ver = st[p].ver, !.at = now, !.parent = st[p].parent]
              /\ g = ac[p]
        OBVIOUS
    <1>2. st[p].pc = "store" /\ Unlock(p, st[p].key) /\ UNCHANGED <<version, now, ac>>
        BY DEF StoreStatus, env
    <1>3. /\ s \in URIs /\ s \in Statuses /\ Known(s, st[p].copy) /\ Stored
          /\ st[p] \in StFrames /\ StGood(st[p]) /\ StAge(st[p]) /\ st[p].addr \in Addresses /\ st[p].key \in Keys
        BY <1>1, <1>2, FrameFacts DEF DerefInv
    <1>4. st[p].ver \in Nat /\ st[p].parent \in Nat /\ now \in Nat /\ nextID[s] \in Nat /\ st[p].copy.id \in Nat
        BY <1>3 DEF StFrames, Stored, Objects
    <1>5. /\ obj = [id |-> id, ver |-> st[p].ver, at |-> now, parent |-> st[p].parent,
                    orphan |-> FALSE, susp |-> FALSE]
          /\ id \in Nat
        BY <1>1, <1>4 DEF None
    <1>6. obj \in Objects /\ obj.id = id /\ obj.ver = st[p].ver /\ obj.ver <= version[s]
        <2>1. st[p].ver <= version[s]
            BY <1>1, <1>2, <1>3 DEF StGood
        <2>2. obj \in Objects
            BY <1>4, <1>5 DEF Objects
        <2>3. obj.id = id /\ obj.ver = st[p].ver
            BY <1>5
        <2>4. QED  BY <2>1, <2>2, <2>3
    <1>7. "none" \in Errors
        BY DEF Errors
    <1>8. CASE st[p].copy.id = 0 /\ rows[s].id # 0
        <2>1. st' = [st EXCEPT ![p].pc = "race"] /\ UNCHANGED <<db, th, tasks>>
            BY <1>1, <1>8 DEF StoreStatus
        <2>2. PICK f, h : f = [st[p] EXCEPT !.pc = "race"] /\ h = th[p]
            OBVIOUS
        <2>3. StGood(f) /\ Linked(f, h) /\ f.pc = "race"
            BY <1>2, <2>2, PcFacts
        <2>4. StAge(f)
            BY <2>3 DEF StAge
        <2>5. Moves /\ Calm
            BY <1>2, <2>1, SameStep
        <2>6. StGood(f)' /\ StAge(f)'
            BY <2>3, <2>4, <2>5, GoodLater
        <2>7. LockMove(p, f, g)
            BY <1>1, <1>2, <1>3, <2>3 DEF LockMove, StKeys
        <2>8. Goes(p, f, g, h) /\ TasksMove
            BY <1>1, <1>2, <2>1, <2>2 DEF Goes, TasksMove
        <2>9. QED  BY <1>1, <2>2, <2>3, <2>5, <2>6, <2>7, <2>8, CalmStep
    <1>9. CASE st[p].copy.id = 0 /\ rows[s].id = 0
        <2>1. /\ Put(s, obj) /\ Return(p, s, obj, TRUE, "none")
              /\ redirected' = IF st[p].addr \in Redirects THEN redirected \cup {s} ELSE redirected
            BY <1>1, <1>9 DEF StoreStatus
        <2>2. redirected \subseteq redirected' /\ obj.id = nextID[s]
            BY <1>1, <1>6, <1>9, <2>1
        <2>3. Moves /\ Calm /\ Known(s, obj)'
            BY <1>2, <1>3, <1>6, <1>9, <2>1, <2>2, DbPut
        <2>4. QED  BY <1>1, <1>2, <1>7, <2>1, <2>3, LeaveStep
    <1>10. CASE st[p].copy.id # 0
        <2>1. /\ Update(s, obj, obj) /\ Return(p, s, obj, TRUE, "none")
              /\ redirected' = IF st[p].addr \in Redirects THEN redirected \cup {s} ELSE redirected
            BY <1>1, <1>10 DEF StoreStatus
        <2>2. redirected \subseteq redirected' /\ id = st[p].copy.id
            BY <1>1, <1>10, <2>1
        <2>3. Known(s, obj)
            BY <1>3, <1>6, <2>2 DEF Known
        <2>4. /\ Moves
              /\ \A v \in URIs : v # s => rows'[v] = rows[v]
              /\ rows'[s] = IF rows[s].id = id THEN obj ELSE rows[s]
            BY <1>2, <1>3, <1>6, <2>1, <2>2, <2>3, DbUpdate
        <2>5. Known(s, obj)'
            BY <1>3, <2>3, <2>4, KnownStays
        <2>6. st' = [st EXCEPT ![p] = IdleSt] /\ TasksMove
            BY <1>1, <1>2, <1>7, <2>1, <2>4, <2>5, ReturnFacts
        <2>7. PICK h : th' = [th EXCEPT ![p] = h] /\ (h = th[p] \/ ThGood(h)') /\ Linked(IdleSt, h)
            BY <1>1, <1>2, <1>7, <2>1, <2>4, <2>5, ReturnFacts
        <2>8. PICK f : f = IdleSt
            OBVIOUS
        <2>9. StGood(f)' /\ StAge(f)'
            BY <2>8, IdleFacts DEF StGood, StAge
        <2>10. LockMove(p, f, g)
            BY <1>1, <1>2, <1>3, <2>8, IdleFacts DEF LockMove, StKeys
        <2>11. Goes(p, f, g, h)
            BY <1>1, <1>2, <2>6, <2>7, <2>8 DEF Goes
        <2>12. ASSUME NEW q \in Procs, NEW a, a = ac[q]  PROVE AcAge(a)'
            <3>1. AcGood(a) /\ AcAge(a)
                BY <2>12, FrameFacts
            <3>2. a.pc = "store" => a.uri \in URIs /\ a.uri # s
                BY <1>3, <3>1, KeyFacts DEF AcGood
            <3>3. QED  BY <2>4, <3>1, <3>2 DEF AcAge
        <2>13. ASSUME NEW q \in Procs, q # p, NEW b, b = st[q]  PROVE StAge(b)'
            <3> SUFFICES ASSUME b.pc \in {"author", "convert", "store"}, ~ b.given, b.copy.id # 0,
                                b.addr \notin Redirects, Canon[b.addr] \notin redirected',
                                rows'[Canon[b.addr]].id = b.copy.id
                         PROVE  rows'[Canon[b.addr]].ver <= b.ver
                BY DEF StAge
            <3>1. StGood(b) /\ StAge(b) /\ Canon[b.addr] \in URIs /\ b.key = Canon[b.addr]
                BY <2>13, FrameFacts DEF StGood
            <3>2. CASE Canon[b.addr] # s
                BY <2>2, <2>4, <3>1, <3>2 DEF StAge
            <3>3. CASE Canon[b.addr] = s
                <4>1. st[p].addr \notin Redirects
                    BY <2>1, <3>3
                <4>2. st[p].key = s /\ s \in Keys
                    BY <1>1, <1>2, <1>3, <1>10, <4>1 DEF StGood
                <4>3. locks[s] = p
                    BY <1>2, <4>2 DEF DerefInv, LocksHeld, StKeys
                <4>4. locks[s] = q
                    BY <2>13, <3>1, <3>3, <4>2 DEF DerefInv, LocksHeld, StKeys
                <4>5. QED  BY <2>13, <4>3, <4>4
            <3>4. QED  BY <3>2, <3>3
        <2>14. \A q \in Procs : q # p => StAge(st[q])' /\ AcAge(ac[q])'
            <3> SUFFICES ASSUME NEW q \in Procs, q # p  PROVE StAge(st[q])' /\ AcAge(ac[q])'
                OBVIOUS
            <3>1. PICK b, a : b = st[q] /\ a = ac[q]
                OBVIOUS
            <3>2. StAge(b)' /\ AcAge(a)'
                BY <2>12, <2>13, <3>1
            <3>3. st'[q] = b /\ ac'[q] = a
                BY <1>2, <2>6, <3>1 DEF DerefInv, Frames
            <3>4. QED  BY <3>2, <3>3 DEF StAge, AcAge
        <2>15. AcAge(g)'
            BY <1>1, <2>12
        <2>16. DerefInv'
            BY <1>1, <2>4, <2>6, <2>7, <2>8, <2>9, <2>10, <2>11, <2>14, <2>15, ProcStep
        <2>17. NotStale
            <3> SUFFICES ASSUME NEW u \in URIs, rows[u].id # 0, rows'[u].id = rows[u].id,
                                rows'[u].ver < rows[u].ver, u \notin redirected', ~ st[p].given
                         PROVE  FALSE
                <4>1. \A u \in URIs : rows'[u].ver < rows[u].ver => u = s
                    <5>1. \A u \in URIs : rows[u].ver \in Nat
                        BY <1>3 DEF Stored, Objects
                    <5>2. QED  BY <2>4, <5>1
                <4>2. QED  BY <1>1, <1>2, <4>1 DEF NotStale
            <3>1. rows[u].ver \in Nat
                BY <1>3 DEF Stored, Objects
            <3>2. u = s /\ rows[s].id = id /\ rows'[s] = obj
                BY <2>4, <3>1
            <3>3. st[p].addr \notin Redirects /\ s \notin redirected
                BY <2>1, <3>2
            <3>4. rows[s].ver <= st[p].ver
                BY <1>1, <1>2, <1>3, <1>10, <2>2, <3>2, <3>3 DEF StAge
            <3>5. QED  BY <1>4, <1>6, <3>1, <3>2, <3>4
        <2>18. QED  BY <2>16, <2>17
    <1>11. QED  BY <1>8, <1>9, <1>10

-----------------------------------------------------------------------------
(***************************************************************************)
(* Steps at an account                                                     *)
(***************************************************************************)
\* The frame of enrichAccountSafely.
LEMMA EnrichAccountFacts ==
    ASSUME DerefInv, NEW a \in Accounts, NEW key \in {a, NameKey[a]},
           NEW ver \in Nat, ver <= version[a], cached[a].id # 0 => key = a,
           NEW g, g = EnrichAccount(a, key, cached[a], ver)
    PROVE  AcGood(g) /\ AcAge(g) /\ AcKeys(g) = {}
    <1>1. a \in URIs /\ key \in Keys
        BY KeyFacts
    <1>2. Known(a, cached[a]) /\ cached[a] \in Objects
        BY <1>1 DEF DerefInv, Stored
    <1>3. /\ g.pc = "lock" /\ g.key = key /\ g.uri = a /\ g.copy = cached[a] /\ g.ver = ver
          /\ g \in AcFrames
        BY <1>1, <1>2 DEF EnrichAccount, AcFrames
    <1>4. QED  BY <1>2, <1>3 DEF AcGood, AcAge, AcKeys

\* An idle goroutine is asked for an account, or a message brings it.
LEMMA AskAccountStep ==
    ASSUME DerefInv, NEW p \in Procs,
           \/ \E a \in Accounts : GetAccountByURI(p, a) \/ GetAccountByUsernameDomain(p, a)
           \/ \E a \in Accounts, v \in 1..MaxVersion : UpdateAccount(p, a, v)
    PROVE  DerefInv' /\ NotStale
    <1> USE DEF Call
    <1>1. PICK a \in Accounts, key \in Keys, ver \in Nat :
              /\ Idle(p) /\ key \in {a, NameKey[a]} /\ (cached[a].id # 0 => key = a)
              /\ ver <= version[a]
              /\ ac' = [ac EXCEPT ![p] = EnrichAccount(a, key, cached[a], ver)]
              /\ UNCHANGED <<db, version, now, locks, st, th, tasks>>
        <2>1. \A a \in Accounts : 0 \in Nat /\ 0 <= version[a]
            BY KeyFacts DEF DerefInv, Stored
        <2>2. ASSUME NEW a \in Accounts, GetAccountByURI(p, a)
              PROVE  \E key \in Keys, ver \in Nat :
                       /\ Idle(p) /\ key \in {a, NameKey[a]} /\ (cached[a].id # 0 => key = a)
                       /\ ver <= version[a]
                       /\ ac' = [ac EXCEPT ![p] = EnrichAccount(a, key, cached[a], ver)]
                       /\ UNCHANGED <<db, version, now, locks, st, th, tasks>>
            BY <2>1, <2>2, KeyFacts DEF GetAccountByURI
        <2>3. ASSUME NEW a \in Accounts, GetAccountByUsernameDomain(p, a)
              PROVE  \E key \in Keys, ver \in Nat :
                       /\ Idle(p) /\ key \in {a, NameKey[a]} /\ (cached[a].id # 0 => key = a)
                       /\ ver <= version[a]
                       /\ ac' = [ac EXCEPT ![p] = EnrichAccount(a, key, cached[a], ver)]
                       /\ UNCHANGED <<db, version, now, locks, st, th, tasks>>
            <3>1. PICK key \in Keys : key = IF cached[a].id = 0 THEN NameKey[a] ELSE a
                BY KeyFacts
            <3>2. QED  BY <2>1, <2>3, <3>1 DEF GetAccountByUsernameDomain
        <2>4. ASSUME NEW a \in Accounts, NEW v \in 1..MaxVersion, UpdateAccount(p, a, v)
              PROVE  \E key \in Keys, ver \in Nat :
                       /\ Idle(p) /\ key \in {a, NameKey[a]} /\ (cached[a].id # 0 => key = a)
                       /\ ver <= version[a]
                       /\ ac' = [ac EXCEPT ![p] = EnrichAccount(a, key, cached[a], ver)]
                       /\ UNCHANGED <<db, version, now, locks, st, th, tasks>>
            <3>1. v \in Nat
                OBVIOUS
            <3>2. QED  BY <2>4, <3>1, KeyFacts DEF UpdateAccount
        <2>5. QED  BY <2>2, <2>3, <2>4
    <1>2. PICK f, g, h : f = st[p] /\ g = EnrichAccount(a, key, cached[a], ver) /\ h = th[p]
        OBVIOUS
    <1>3. AcGood(g) /\ AcAge(g) /\ AcKeys(g) = {}
        BY <1>1, <1>2, EnrichAccountFacts
    <1>4. Moves /\ Calm
        BY <1>1, SameStep
    <1>5. AcGood(g)' /\ AcAge(g)'
        BY <1>3, <1>4, GoodLater
    <1>6. LockMove(p, f, g)
        BY <1>1, <1>2, <1>3, IdleFacts DEF LockMove, AcKeys, Idle
    <1>7. Linked(f, h)
        BY <1>2, FrameFacts
    <1>8. Goes(p, f, g, h) /\ TasksMove
        BY <1>1, <1>2 DEF Goes, TasksMove
    <1>9. QED  BY <1>2, <1>4, <1>5, <1>6, <1>7, <1>8, CalmStep

\* A frame with another pc, and perhaps another version.
AcAt(g, c, v) == [g EXCEPT !.pc = c, !.ver = v]

\* The goroutine goes on at its account.
LEMMA AcPcFacts ==
    ASSUME DerefInv, NEW p \in Procs, ac[p].pc \notin {"idle", "done"},
           NEW c \in {"start", "fetch", "store", "race"}, NEW v \in Nat, v <= version[ac[p].uri],
           NEW g, g = AcAt(ac[p], c, v)
    PROVE  /\ AcGood(g) /\ g.pc = c /\ g.key = ac[p].key /\ g.copy = ac[p].copy
           /\ g.uri = ac[p].uri /\ g.given = ac[p].given /\ g.ver = v
    <1>1. ac[p] \in AcFrames /\ AcGood(ac[p])
        BY FrameFacts
    <1>2. /\ g \in AcFrames /\ g.pc = c /\ g.key = ac[p].key /\ g.copy = ac[p].copy
          /\ g.uri = ac[p].uri /\ g.given = ac[p].given /\ g.ver = v
        BY <1>1 DEF AcFrames, AcAt
    <1>3. AcGood(g)
        BY <1>1, <1>2 DEF AcGood
    <1>4. QED  BY <1>2, <1>3

\* Changing the pc alone leaves the version as it is.
LEMMA AcSameVersion ==
    ASSUME DerefInv, NEW p \in Procs, ac[p].pc \notin {"idle", "done"}, NEW c
    PROVE  /\ ac[p].ver \in Nat /\ ac[p].ver <= version[ac[p].uri]
           /\ [ac EXCEPT ![p].pc = c] = [ac EXCEPT ![p] = AcAt(ac[p], c, ac[p].ver)]
    <1>1. ac \in [Procs -> AcFrames] /\ ac[p] \in AcFrames /\ AcGood(ac[p])
        BY FrameFacts DEF DerefInv, Frames
    <1>2. ac[p].ver \in Nat /\ ac[p].ver <= version[ac[p].uri]
        BY <1>1 DEF AcFrames, AcGood
    <1>3. [ac[p] EXCEPT !.pc = c] = AcAt(ac[p], c, ac[p].ver)
        BY <1>1 DEF AcFrames, AcAt
    <1>4. QED  BY <1>2, <1>3

\* The lock is taken, the handshake started, the account fetched.
LEMMA AccountControlStep ==
    ASSUME DerefInv, NEW p \in Procs, LockAccount(p) \/ startHandshake(p) \/ FetchAccount(p)
    PROVE  DerefInv' /\ NotStale
    <1> USE DEF LockAccount, startHandshake, FetchAccount, env
    <1>1. UNCHANGED <<db, version, now, st, th, tasks>> /\ ac[p].pc \in {"lock", "start", "fetch"}
        OBVIOUS
    <1>2. /\ ac[p].uri \in URIs /\ ac[p].key \in Keys
          /\ version[ac[p].uri] \in Nat /\ rows[ac[p].uri].ver <= version[ac[p].uri]
        BY <1>1, FrameFacts DEF DerefInv, Stored
    <1>3. PICK c \in {"start", "fetch", "store"}, v \in Nat :
              /\ v <= version[ac[p].uri]
              /\ ac' = [ac EXCEPT ![p] = AcAt(ac[p], c, v)]
              /\ c = "store" => (ac[p].given \/ v = version[ac[p].uri])
              /\ \/ ac[p].pc = "lock" /\ c = "start" /\ Lock(p, ac[p].key)
                 \/ ac[p].pc # "lock" /\ UNCHANGED locks
        <2>1. CASE LockAccount(p)
            <3>1. ac' = [ac EXCEPT ![p] = AcAt(ac[p], "start", ac[p].ver)]
                BY <1>1, <2>1, AcSameVersion
            <3>2. QED  BY <1>1, <2>1, <3>1, AcSameVersion
        <2>2. CASE startHandshake(p)
            <3>1. PICK c : c = IF ac[p].given THEN "store" ELSE "fetch"
                OBVIOUS
            <3>2. ac' = [ac EXCEPT ![p] = AcAt(ac[p], c, ac[p].ver)]
                BY <1>1, <2>2, <3>1, AcSameVersion
            <3>3. QED  BY <1>1, <2>2, <3>1, <3>2, AcSameVersion
        <2>3. CASE FetchAccount(p)
            <3>1. ac \in [Procs -> AcFrames]
                BY DEF DerefInv, Frames
            <3>2. ac' = [ac EXCEPT ![p] = AcAt(ac[p], "store", version[ac[p].uri])]
                BY <2>3, <3>1 DEF AcFrames, AcAt
            <3>3. PICK v \in Nat : v = version[ac[p].uri] /\ v <= version[ac[p].uri]
                BY <1>2
            <3>4. QED  BY <2>3, <3>2, <3>3
        <2>4. QED  BY <2>1, <2>2, <2>3
    <1>4. PICK f, g, h : f = st[p] /\ g = AcAt(ac[p], c, v) /\ h = th[p]
        OBVIOUS
    <1>5. /\ AcGood(g) /\ g.pc = c /\ g.key = ac[p].key /\ g.copy = ac[p].copy
          /\ g.uri = ac[p].uri /\ g.given = ac[p].given /\ g.ver = v
        <2> HIDE DEF LockAccount, startHandshake, FetchAccount, env
        <2>1. ac[p].pc \notin {"idle", "done"} /\ c \in {"start", "fetch", "store", "race"}
            BY <1>1
        <2>2. v <= version[ac[p].uri] /\ g = AcAt(ac[p], c, v)
            BY <1>3, <1>4
        <2>3. QED  BY <2>1, <2>2, AcPcFacts
    <1>6. AcAge(g)
        BY <1>2, <1>3, <1>5 DEF AcAge
    <1>7. Moves /\ Calm
        BY <1>1, SameStep
    <1>8. AcGood(g)' /\ AcAge(g)'
        BY <1>5, <1>6, <1>7, GoodLater
    <1>9. LockMove(p, f, g)
        <2>1. CASE ac[p].pc = "lock"
            BY <1>2, <1>3, <1>4, <1>5, <2>1 DEF LockMove, AcKeys
        <2>2. CASE ac[p].pc # "lock"
            BY <1>1, <1>3, <1>4, <1>5, <2>2 DEF LockMove, AcKeys
        <2>3. QED  BY <2>1, <2>2
    <1>10. Linked(f, h)
        BY <1>4, FrameFacts
    <1>11. Goes(p, f, g, h) /\ TasksMove
        BY <1>1, <1>3, <1>4 DEF Goes, TasksMove
    <1>12. QED  BY <1>4, <1>7, <1>8, <1>10, <1>9, <1>11, CalmStep

\* The account's caller goes on with the status, or the call is over.
LEMMA ReturnAccountFacts ==
    ASSUME NEW p \in Procs, NEW err \in BOOLEAN, ReturnAccount(p, err)
    PROVE  \E g : ac' = [ac EXCEPT ![p] = g] /\ AcGood(g)' /\ AcAge(g)' /\ AcKeys(g) = {}
    <1>1. PICK g : g = IF st[p].pc = "author" THEN [IdleAc EXCEPT !.pc = "done", !.err = err] ELSE IdleAc
        OBVIOUS
    <1>2. \A b \in BOOLEAN : /\ [IdleAc EXCEPT !.pc = "done", !.err = b] \in AcFrames
                            /\ [IdleAc EXCEPT !.pc = "done", !.err = b].pc = "done"
        BY IdleFacts DEF AcFrames
    <1>3. g \in AcFrames /\ (g = IdleAc \/ g.pc = "done")
        BY <1>1, <1>2, IdleFacts
    <1>4. AcGood(g)' /\ AcAge(g)' /\ AcKeys(g) = {}
        BY <1>3, IdleFacts DEF AcGood, AcAge, AcKeys
    <1>5. QED  BY <1>1, <1>4 DEF ReturnAccount

\* A goroutine leaves its account, and its lock when it has it.
LEMMA LeaveAccountStep ==
    ASSUME DerefInv, Moves, NEW p \in Procs, NEW err \in BOOLEAN, ReturnAccount(p, err),
           \/ ac[p].pc \in {"fetch", "store"} /\ Unlock(p, ac[p].key)
           \/ ac[p].pc = "race" /\ UNCHANGED locks,
           UNCHANGED <<st, th, tasks>>,
           \A q \in Procs : \A c : (c = st[q] => StAge(c)') /\ (q # p /\ c = ac[q] => AcAge(c)')
    PROVE  DerefInv'
    <1>1. PICK g : ac' = [ac EXCEPT ![p] = g] /\ AcGood(g)' /\ AcAge(g)' /\ AcKeys(g) = {}
        BY ReturnAccountFacts
    <1>2. PICK f, h : f = st[p] /\ h = th[p]
        OBVIOUS
    <1>3. LockMove(p, f, g)
        <2>1. CASE ac[p].pc \in {"fetch", "store"} /\ Unlock(p, ac[p].key)
            <3>1. ac[p].key \in Keys /\ AcKeys(ac[p]) = {ac[p].key}
                BY <2>1, FrameFacts DEF AcKeys
            <3>2. QED  BY <1>1, <1>2, <2>1, <3>1 DEF LockMove
        <2>2. CASE ac[p].pc = "race" /\ UNCHANGED locks
            BY <1>1, <1>2, <2>2 DEF LockMove, AcKeys
        <2>3. QED  BY <2>1, <2>2
    <1>4. Linked(f, h)
        BY <1>2, FrameFacts
    <1>5. Goes(p, f, g, h) /\ TasksMove
        BY <1>1, <1>2 DEF Goes, TasksMove
    <1>6. StAge(f)'
        BY <1>2
    <1>7. \A q \in Procs : q # p => StAge(st[q])' /\ AcAge(ac[q])'
        <2> SUFFICES ASSUME NEW q \in Procs, q # p  PROVE StAge(st[q])' /\ AcAge(ac[q])'
            OBVIOUS
        <2>1. PICK b, a : b = st[q] /\ a = ac[q]
            OBVIOUS
        <2>2. StAge(b)' /\ AcAge(a)'
            BY <2>1
        <2>3. st'[q] = b /\ ac'[q] = a
            BY <1>1, <2>1 DEF DerefInv, Frames
        <2>4. QED  BY <2>2, <2>3 DEF StAge, AcAge
    <1>8. QED  BY <1>1, <1>2, <1>3, <1>4, <1>5, <1>6, <1>7, ProcStep

\* A calm database keeps what everybody has fetched young.
LEMMA CalmAges ==
    ASSUME DerefInv, Moves, Calm
    PROVE  \A q \in Procs : \A c : (c = st[q] => StAge(c)') /\ (c = ac[q] => AcAge(c)')
    <1>1. \A q \in Procs : StGood(st[q]) /\ StAge(st[q]) /\ AcGood(ac[q]) /\ AcAge(ac[q])
        BY FrameFacts
    <1>2. QED  BY <1>1, GoodLater

\* The fetch failed.
LEMMA AccountUnavailableStep ==
    ASSUME DerefInv, NEW p \in Procs, NEW err, AccountUnavailable(p, err)
    PROVE  DerefInv' /\ NotStale
    <1> USE DEF AccountUnavailable
    <1>0. PICK bad \in BOOLEAN : bad = (ac[p].copy.id = 0)
        OBVIOUS
    <1>1. PICK u, obj : u = ac[p].uri /\ obj = ac[p].copy
        OBVIOUS
    <1>2. u \in URIs /\ Known(u, obj) /\ Stored
        BY <1>1, FrameFacts DEF DerefInv
    <1>3. Moves /\ Calm
        <2>1. CASE UpdateFetchedAt(u, obj)
            BY <1>2, <2>1, DbFetchedAt
        <2>2. CASE UNCHANGED db
            BY <2>2, SameStep
        <2>3. QED  BY <1>1, <2>1, <2>2
    <1>4. ReturnAccount(p, bad) /\ ac[p].pc = "fetch" /\ Unlock(p, ac[p].key) /\ UNCHANGED <<st, th, tasks>>
        BY <1>0
    <1>5. DerefInv'
        BY <1>3, <1>4, CalmAges, LeaveAccountStep
    <1>6. QED  BY <1>2, <1>3, <1>5, CalmNotStale DEF Moves

\* The loser of the race looks again.
LEMMA AccountRaceStep == ASSUME DerefInv, NEW p \in Procs, AccountRace(p)  PROVE DerefInv' /\ NotStale
    <1> USE DEF AccountRace, env
    <1>1. PICK bad \in BOOLEAN : bad = (cached[ac[p].uri].id = 0)
        OBVIOUS
    <1>2. Moves /\ Calm /\ Stored
        BY SameStep DEF DerefInv
    <1>3. ReturnAccount(p, bad) /\ ac[p].pc = "race" /\ UNCHANGED <<locks, st, th, tasks>>
        BY <1>1
    <1>4. DerefInv'
        BY <1>2, <1>3, CalmAges, LeaveAccountStep
    <1>5. QED  BY <1>2, <1>4, CalmNotStale DEF Moves

\* The account is stored. Whoever else has fetched it, and whose copy is the row,
\* would hold the same lock.
LEMMA StoreAccountStep == ASSUME DerefInv, NEW p \in Procs, StoreAccount(p)  PROVE DerefInv' /\ NotStale
    <1>1. PICK a, id, obj :
              /\ a = ac[p].uri /\ id = (IF ac[p].copy.id = 0 THEN nextID[a] ELSE ac[p].copy.id)
              /\ obj = [None EXCEPT !.id = id, !.ver = ac[p].ver, !.at = now]
        OBVIOUS
    <1>2. ac[p].pc = "store" /\ Unlock(p, ac[p].key) /\ UNCHANGED <<version, now, st, th, tasks>>
        BY DEF StoreAccount, env
    <1>3. /\ a \in URIs /\ a \in Accounts /\ Known(a, ac[p].copy) /\ Stored
          /\ ac[p] \in AcFrames /\ AcGood(ac[p]) /\ AcAge(ac[p]) /\ ac[p].key \in Keys
        BY <1>1, <1>2, FrameFacts DEF DerefInv, AcGood
    <1>4. ac[p].ver \in Nat /\ now \in Nat /\ nextID[a] \in Nat /\ ac[p].copy.id \in Nat
        BY <1>3 DEF AcFrames, Stored, Objects
    <1>5. /\ obj = [id |-> id, ver |-> ac[p].ver, at |-> now, parent |-> 0, orphan |-> FALSE, susp |-> FALSE]
          /\ id \in Nat
        BY <1>1, <1>4 DEF None
    <1>6. obj \in Objects /\ obj.id = id /\ obj.ver = ac[p].ver /\ obj.ver <= version[a]
        <2>1. ac[p].ver <= version[a]
            BY <1>1, <1>2, <1>3 DEF AcGood
        <2>2. obj \in Objects
            BY <1>4, <1>5 DEF Objects
        <2>3. obj.id = id /\ obj.ver = ac[p].ver
            BY <1>5
        <2>4. QED  BY <2>1, <2>2, <2>3
    <1>7. CASE ac[p].copy.id = 0 /\ rows[a].id # 0
        <2>1. ac' = [ac EXCEPT ![p].pc = "race"] /\ UNCHANGED db
            BY <1>1, <1>7 DEF StoreAccount
        <2>2. PICK f, g, h : f = st[p] /\ g = AcAt(ac[p], "race", ac[p].ver) /\ h = th[p]
            OBVIOUS
        <2>3. /\ ac' = [ac EXCEPT ![p] = g] /\ ac[p].ver <= version[ac[p].uri]
            BY <1>2, <2>1, <2>2, AcSameVersion
        <2>4. AcGood(g) /\ g.pc = "race"
            BY <1>2, <1>4, <2>2, <2>3, AcPcFacts
        <2>5. AcAge(g)
            BY <2>4 DEF AcAge
        <2>6. Moves /\ Calm
            BY <1>2, <2>1, SameStep
        <2>7. AcGood(g)' /\ AcAge(g)'
            BY <2>4, <2>5, <2>6, GoodLater
        <2>8. LockMove(p, f, g)
            BY <1>2, <1>3, <2>2, <2>4 DEF LockMove, AcKeys
        <2>9. Linked(f, h)
            BY <2>2, FrameFacts
        <2>10. Goes(p, f, g, h) /\ TasksMove
            BY <1>2, <2>2, <2>3 DEF Goes, TasksMove
        <2>11. QED  BY <2>2, <2>6, <2>7, <2>8, <2>9, <2>10, CalmStep
    <1>8. CASE ac[p].copy.id = 0 /\ rows[a].id = 0
        <2>1. Put(a, obj) /\ UNCHANGED redirected /\ ReturnAccount(p, FALSE)
            BY <1>1, <1>8 DEF StoreAccount
        <2>2. obj.id = nextID[a]
            BY <1>1, <1>6, <1>8
        <2>3. Moves /\ Calm
            BY <1>2, <1>3, <1>6, <1>8, <2>1, <2>2, DbPut
        <2>4. DerefInv'
            BY <1>2, <2>1, <2>3, CalmAges, LeaveAccountStep
        <2>5. QED  BY <1>3, <2>3, <2>4, CalmNotStale DEF Moves
    <1>9. CASE ac[p].copy.id # 0
        <2>1. Update(a, obj, obj) /\ UNCHANGED redirected /\ ReturnAccount(p, FALSE)
            BY <1>1, <1>9 DEF StoreAccount
        <2>2. id = ac[p].copy.id
            BY <1>1, <1>9
        <2>3. Known(a, obj)
            BY <1>3, <1>6, <2>2 DEF Known
        <2>4. /\ Moves
              /\ \A v \in URIs : v # a => rows'[v] = rows[v]
              /\ rows'[a] = IF rows[a].id = id THEN obj ELSE rows[a]
            BY <1>2, <1>3, <1>6, <2>1, <2>2, <2>3, DbUpdate
        <2>5. ac[p].key = a /\ a \in Keys /\ locks[a] = p
            <3>1. ac[p].key = a /\ a \in Keys
                BY <1>1, <1>2, <1>3, <1>9 DEF AcGood
            <3>2. QED  BY <1>2, <3>1 DEF DerefInv, LocksHeld, AcKeys
        <2>6. ASSUME NEW q \in Procs, NEW c, c = st[q]  PROVE StAge(c)'
            <3>1. StGood(c) /\ StAge(c)
                BY <2>6, FrameFacts
            <3>2. c.pc # "idle" => Canon[c.addr] \in URIs /\ Canon[c.addr] # a
                BY <1>3, <3>1, KeyFacts DEF StGood
            <3>3. QED  BY <2>1, <2>4, <3>1, <3>2 DEF StAge
        <2>7. ASSUME NEW q \in Procs, q # p, NEW c, c = ac[q]  PROVE AcAge(c)'
            <3> SUFFICES ASSUME c.pc = "store", ~ c.given, c.copy.id # 0, rows'[c.uri].id = c.copy.id
                         PROVE  rows'[c.uri].ver <= c.ver
                BY DEF AcAge
            <3>1. AcGood(c) /\ AcAge(c) /\ c.uri \in URIs /\ c.key = c.uri
                BY <2>7, FrameFacts DEF AcGood
            <3>2. CASE c.uri # a
                BY <2>4, <3>1, <3>2 DEF AcAge
            <3>3. CASE c.uri = a
                <4>1. locks[a] = q
                    BY <2>5, <2>7, <3>1, <3>3 DEF DerefInv, LocksHeld, AcKeys
                <4>2. QED  BY <2>5, <2>7, <4>1
            <3>4. QED  BY <3>2, <3>3
        <2>8. DerefInv'
            BY <1>2, <2>1, <2>4, <2>6, <2>7, LeaveAccountStep
        <2>9. NotStale
            <3> SUFFICES ASSUME NEW u \in URIs, rows'[u].id = rows[u].id,
                                rows'[u].ver < rows[u].ver, ~ ac[p].given
                         PROVE  FALSE
                <4>1. \A u \in URIs : rows'[u].ver < rows[u].ver => u = a
                    <5>1. \A u \in URIs : rows[u].ver \in Nat
                        BY <1>3 DEF Stored, Objects
                    <5>2. QED  BY <2>4, <5>1
                <4>2. QED  BY <1>1, <1>2, <4>1 DEF NotStale
            <3>1. rows[u].ver \in Nat
                BY <1>3 DEF Stored, Objects
            <3>2. u = a /\ rows[a].id = id /\ rows'[a] = obj
                BY <2>4, <3>1
            <3>3. rows[a].ver <= ac[p].ver
                BY <1>1, <1>2, <1>3, <1>9, <2>2, <3>2 DEF AcAge
            <3>4. QED  BY <1>4, <1>6, <3>1, <3>2, <3>3
        <2>10. QED  BY <2>8, <2>9
    <1>10. QED  BY <1>7, <1>8, <1>9

-----------------------------------------------------------------------------
(***************************************************************************)
(* Steps of a thread                                                       *)
(***************************************************************************)
\* A goroutine goes on with a thread, and leaves the status and the account it
\* is at alone.
LEMMA ThreadStep ==
    ASSUME DerefInv, Moves, Calm, TasksMove, NEW p \in Procs, NEW h, th' = [th EXCEPT ![p] = h],
           ThGood(h)', Linked(st[p], h), UNCHANGED <<locks, st, ac>>
    PROVE  DerefInv' /\ NotStale
    <1>1. PICK f, g : f = st[p] /\ g = ac[p]
        OBVIOUS
    <1>2. LockMove(p, f, g)
        BY <1>1 DEF LockMove
    <1>3. Goes(p, f, g, h)
        BY <1>1 DEF Goes
    <1>4. QED  BY <1>1, <1>2, <1>3, CalmStep

\* A goroutine without a thread.
LEMMA IdleThread == \A h : h = IdleTh => (ThGood(h)' /\ \A f : Linked(f, h))
    BY IdleFacts DEF ThGood, Linked

\* A worker takes a task.
LEMMA TakeTaskStep == ASSUME DerefInv, NEW p \in Procs, TakeTask(p)  PROVE DerefInv' /\ NotStale
    <1> USE DEF TakeTask, env
    <1>1. Moves /\ Calm
        BY SameStep
    <1>2. /\ tasks \in Seq(Tasks) /\ tasks # <<>> /\ Idle(p)
          /\ \A i \in DOMAIN tasks : TaskGood(tasks[i])
        BY DEF DerefInv, Frames
    <1>3. PICK t : t = Head(tasks)
        OBVIOUS
    <1>4. TaskGood(t)
        <2>1. 1 \in DOMAIN tasks /\ Head(tasks) = tasks[1]
            BY <1>2
        <2>2. QED  BY <1>2, <1>3, <2>1
    <1>5. t.uri \in Statuses /\ t.copy \in Objects /\ Known(t.uri, t.copy)
        BY <1>4 DEF TaskGood, Known, Tasks
    <1>6. PICK h : h = [IdleTh EXCEPT !.pc = "walk", !.uri = t.uri, !.copy = t.copy]
        OBVIOUS
    <1>7. th' = [th EXCEPT ![p] = h]
        BY <1>3, <1>6
    <1>8. h \in ThFrames /\ h.pc = "walk" /\ h.uri = t.uri /\ h.copy = t.copy
        <2> HIDE DEF TakeTask, env
        <2>1. h = [pc |-> "walk", uri |-> t.uri, copy |-> t.copy, seen |-> {}, n |-> 0,
                   found |-> None, err |-> "none"]
            BY <1>6 DEF IdleTh
        <2>2. QED  BY <1>5, <2>1, ObjectFacts DEF ThFrames, Errors
    <1>9. ThGood(h)
        BY <1>5, <1>8 DEF ThGood
    <1>10. ThGood(h)'
        BY <1>1, <1>9, GoodLater
    <1>11. Linked(st[p], h)
        BY <1>2, <1>8, IdleFacts DEF Linked, Idle
    <1>12. TasksMove
        BY DEF TasksMove
    <1>13. QED  BY <1>1, <1>7, <1>10, <1>11, <1>12, ThreadStep

\* The walk is over.
LEMMA WalkEndsStep == ASSUME DerefInv, NEW p \in Procs, WalkEnds(p)  PROVE DerefInv' /\ NotStale
    <1> USE DEF WalkEnds, env
    <1>1. Moves /\ Calm /\ TasksMove
        BY SameStep DEF TasksMove
    <1>2. PICK h : h = IdleTh
        OBVIOUS
    <1>3. ThGood(h)' /\ Linked(st[p], h) /\ th' = [th EXCEPT ![p] = h]
        BY <1>2, IdleThread
    <1>4. UNCHANGED <<locks, st, ac>>
        OBVIOUS
    <1>5. QED  BY <1>1, <1>3, <1>4, ThreadStep

\* The next ancestor is there, or asked for.
LEMMA FollowAncestorStep == ASSUME DerefInv, NEW p \in Procs, FollowAncestor(p)  PROVE DerefInv' /\ NotStale
    <1>1. PICK s, t : s = InReplyToURI(p) /\ t = th[p]
        OBVIOUS
    <1> DEFINE fresh == s # NoStatus /\ cached[s].id # 0 /\ statusFresh(cached[s])
               c == IF fresh THEN "parent" ELSE "wait"
               found == IF fresh THEN cached[s] ELSE None
    <1>2. /\ t.pc = "walk" /\ s # NoStatus /\ UNCHANGED <<db, version, now, locks, ac, tasks>>
          /\ th' = [th EXCEPT ![p].seen = @ \cup {s}, ![p].n = @ + 1, ![p].pc = c,
                              ![p].found = found, ![p].err = "none"]
          /\ st' = IF fresh THEN st ELSE [st EXCEPT ![p] = Enrich(s, cached[s], 0)]
        BY <1>1 DEF FollowAncestor, env
    <1>3. /\ th \in [Procs -> ThFrames] /\ t \in ThFrames /\ ThGood(t) /\ Linked(st[p], t)
        BY <1>1, FrameFacts DEF DerefInv, Frames
    <1>4. st[p].pc = "idle" /\ t.uri \in Statuses /\ Known(t.uri, t.copy)
        BY <1>2, <1>3 DEF Linked, ThGood
    <1>5. s = InReplyTo[t.uri] /\ s \in Statuses /\ s \in URIs /\ s \in Addresses /\ Canon[s] = s
        <2>1. s = InReplyTo[t.uri]
            BY <1>1, <1>2 DEF InReplyToURI
        <2>2. QED  BY <1>2, <1>4, <2>1, KeyFacts
    <1>6. Known(s, cached[s]) /\ 0 \in Nat /\ 0 <= version[s]
        BY <1>5 DEF DerefInv, Stored
    <1>7. found \in Objects /\ (fresh => Known(s, found)) /\ c \in {"parent", "wait"}
        BY <1>6, ObjectFacts DEF Known
    <1>8. fresh <=> c = "parent"
        OBVIOUS
    <1>9. PICK h : h = [t EXCEPT !.seen = @ \cup {s}, !.n = @ + 1, !.pc = c, !.found = found, !.err = "none"]
        OBVIOUS
    <1> HIDE DEF c, found, fresh
    <1>10. th' = [th EXCEPT ![p] = h]
        BY <1>1, <1>2, <1>3, <1>9 DEF ThFrames
    <1>11. h \in ThFrames /\ h.pc = c /\ h.uri = t.uri /\ h.copy = t.copy /\ h.found = found
        <2>1. t.seen \cup {s} \in SUBSET Statuses /\ t.n + 1 \in Nat
            BY <1>3, <1>5 DEF ThFrames
        <2>2. QED  BY <1>3, <1>7, <1>9, <2>1 DEF ThFrames, Errors
    <1>12. ThGood(h)
        BY <1>4, <1>5, <1>7, <1>8, <1>11 DEF ThGood
    <1>13. Moves /\ Calm /\ TasksMove
        BY <1>2, SameStep DEF TasksMove
    <1>14. ThGood(h)'
        BY <1>12, <1>13, GoodLater
    <1>15. CASE fresh
        <2>1. Linked(st[p], h) /\ UNCHANGED st
            BY <1>2, <1>4, <1>8, <1>11, <1>15 DEF Linked
        <2>2. QED  BY <1>2, <1>10, <1>13, <1>14, <2>1, ThreadStep
    <1>16. CASE ~ fresh
        <2>1. PICK f, g : f = Enrich(s, cached[s], 0) /\ g = ac[p]
            OBVIOUS
        <2>2. StGood(f) /\ StAge(f) /\ StKeys(f) = {} /\ f.pc # "idle" /\ f.addr = s
            BY <1>5, <1>6, <2>1, EnrichFacts
        <2>3. StGood(f)' /\ StAge(f)'
            BY <1>13, <2>2, GoodLater
        <2>4. Linked(f, h)
            BY <1>5, <1>7, <1>8, <1>11, <1>16, <2>2 DEF Linked
        <2>5. LockMove(p, f, g)
            BY <1>2, <1>4, <2>1, <2>2 DEF LockMove, StKeys
        <2>6. Goes(p, f, g, h)
            BY <1>2, <1>10, <1>16, <2>1 DEF Goes
        <2>7. QED  BY <1>13, <1>14, <2>1, <2>3, <2>4, <2>5, <2>6, CalmStep
    <1>17. QED  BY <1>15, <1>16

\* Writing the columns of the parent.
LEMMA ParentStep ==
    ASSUME DerefInv, NEW s \in Statuses, NEW c, Known(s, c), NEW n \in Nat, NEW b \in BOOLEAN,
           NEW obj, obj = [c EXCEPT !.parent = n, !.orphan = b], UpdateStatusParent(s, obj),
           UNCHANGED <<version, now>>
    PROVE  Moves /\ Calm
    <1>1. Stored /\ s \in URIs /\ c \in Objects
        BY KeyFacts DEF DerefInv, Known
    <1>2. obj \in Objects /\ obj.id = c.id /\ obj.parent \in Nat /\ obj.orphan \in BOOLEAN
        <2>1. obj \in Objects /\ obj.id = c.id
            BY <1>1, ObjectFacts
        <2>2. QED  BY <2>1 DEF Objects
    <1>3. Known(s, obj)
        BY <1>2 DEF Known
    <1>4. PICK row : row = [rows[s] EXCEPT !.parent = obj.parent, !.orphan = obj.orphan]
        OBVIOUS
    <1>5. /\ row \in Objects /\ row.id = rows[s].id /\ row.ver = rows[s].ver
          /\ row.ver <= version[s]
        <2>1. rows[s] \in Objects /\ rows[s].ver <= version[s]
            BY <1>1 DEF Stored
        <2>2. PICK m \in Nat, o \in BOOLEAN : m = obj.parent /\ o = obj.orphan
            BY <1>2
        <2>3. row = [rows[s] EXCEPT !.parent = m, !.orphan = o]
            BY <1>4, <2>2
        <2>4. row \in Objects /\ row.id = rows[s].id /\ row.ver = rows[s].ver
            BY <2>1, <2>3 DEF Objects
        <2>5. QED  BY <2>1, <2>4
    <1>6. Update(s, obj, row) /\ UNCHANGED redirected
        BY <1>4 DEF UpdateStatusParent
    <1>7. QED  BY <1>1, <1>3, <1>5, <1>6, DbUpdate

\* The parent is linked to, waited for no longer, or forgotten.
LEMMA LinkParentStep == ASSUME DerefInv, NEW p \in Procs, LinkParent(p)  PROVE DerefInv' /\ NotStale
    <1>1. PICK t : t = th[p]
        OBVIOUS
    <1>2. t.pc = "parent" /\ UNCHANGED <<version, now, locks, st, ac, tasks>>
        BY <1>1 DEF LinkParent, env
    <1>3. t \in ThFrames /\ ThGood(t) /\ Linked(st[p], t)
        BY <1>1, FrameFacts
    <1>4. /\ st[p].pc = "idle" /\ t.uri \in Statuses /\ Known(t.uri, t.copy)
          /\ InReplyTo[t.uri] \in Statuses /\ Known(InReplyTo[t.uri], t.found)
        BY <1>2, <1>3 DEF Linked, ThGood
    <1>5. TasksMove
        BY <1>2 DEF TasksMove
    <1>6. PICK i : i = IdleTh
        OBVIOUS
    <1>7. ThGood(i)' /\ Linked(st[p], i)
        BY <1>6, IdleThread
    <1>8. CASE /\ UpdateStatusParent(t.uri, [t.copy EXCEPT !.parent = 0, !.orphan = TRUE])
               /\ th' = [th EXCEPT ![p] = IdleTh]
        <2>1. Moves /\ Calm
            BY <1>2, <1>4, <1>8, ParentStep
        <2>2. QED  BY <1>2, <1>5, <1>6, <1>7, <1>8, <2>1, ThreadStep
    <1>9. CASE UNCHANGED db /\ th' = [th EXCEPT ![p] = IdleTh]
        <2>1. Moves /\ Calm
            BY <1>2, <1>9, SameStep
        <2>2. QED  BY <1>2, <1>5, <1>6, <1>7, <1>9, <2>1, ThreadStep
    <1>10. CASE /\ IF t.copy.parent # t.found.id
                   THEN UpdateStatusParent(t.uri, [t.copy EXCEPT !.parent = t.found.id])
                   ELSE UNCHANGED db
                /\ th' = [th EXCEPT ![p] = [t EXCEPT !.pc = "walk", !.uri = InReplyTo[t.uri],
                                            !.copy = t.found, !.found = None, !.err = "none"]]
        <2>1. Moves /\ Calm
            <3>1. CASE UNCHANGED db
                BY <1>2, <3>1, SameStep
            <3>2. CASE UpdateStatusParent(t.uri, [t.copy EXCEPT !.parent = t.found.id])
                <4>1. t.copy \in Objects /\ t.copy.orphan \in BOOLEAN /\ t.found.id \in Nat
                    BY <1>3 DEF ThFrames, Objects
                <4>2. [t.copy EXCEPT !.parent = t.found.id] =
                            [t.copy EXCEPT !.parent = t.found.id, !.orphan = t.copy.orphan]
                    BY <4>1, Zenon DEF Objects
                <4>3. QED  BY <1>2, <1>4, <3>2, <4>1, <4>2, ParentStep
            <3>3. QED  BY <1>10, <3>1, <3>2
        <2>2. PICK h : h = [t EXCEPT !.pc = "walk", !.uri = InReplyTo[t.uri],
                                     !.copy = t.found, !.found = None, !.err = "none"]
            OBVIOUS
        <2>3. h \in ThFrames /\ h.pc = "walk" /\ h.uri = InReplyTo[t.uri] /\ h.copy = t.found
            BY <1>3, <1>4, <2>2, ObjectFacts DEF ThFrames, Errors
        <2>4. ThGood(h)
            BY <1>4, <2>3 DEF ThGood
        <2>5. ThGood(h)'
            BY <2>1, <2>4, GoodLater
        <2>6. Linked(st[p], h)
            BY <1>4, <2>3 DEF Linked
        <2>7. QED  BY <1>2, <1>5, <1>10, <2>1, <2>2, <2>5, <2>6, ThreadStep
    <1>11. QED  BY <1>1, <1>8, <1>9, <1>10 DEF LinkParent

-----------------------------------------------------------------------------
(***************************************************************************)
(* Steps around the dereferencer                                           *)
(***************************************************************************)
\* An object changes or a status goes on its server, or time passes.
LEMMA OutsideStep ==
    ASSUME DerefInv, (\E u \in URIs : Edit(u)) \/ (\E s \in Statuses : RemoteDelete(s)) \/ Tick
    PROVE  DerefInv' /\ NotStale
    <1>1. UNCHANGED db /\ UNCHANGED <<locks, st, ac, th, tasks>>
        BY DEF Edit, RemoteDelete, Tick
    <1>2. Stored /\ version \in [URIs -> Nat] /\ now \in Nat
        BY DEF DerefInv, Stored
    <1>3. version' \in [URIs -> Nat] /\ \A v \in URIs : version[v] <= version'[v]
        <2>1. ASSUME NEW u \in URIs, Edit(u)
              PROVE  version' \in [URIs -> Nat] /\ \A v \in URIs : version[v] <= version'[v]
            <3>1. \A v \in URIs : version[v] \in Nat /\ version[v] + 1 \in Nat /\ version[v] <= version[v] + 1
                BY <1>2
            <3>2. version' = [version EXCEPT ![u] = version[u] + 1]
                BY <2>1 DEF Edit
            <3>3. QED  BY <1>2, <3>1, <3>2
        <2>2. CASE UNCHANGED version
            BY <1>2, <2>2
        <2>3. QED  BY <2>1, <2>2 DEF RemoteDelete, Tick
    <1>4. now' \in Nat
        BY <1>2 DEF Edit, RemoteDelete, Tick
    <1>5. Moves /\ Calm
        BY <1>1, <1>2, <1>3, <1>4, DbSame
    <1>6. QED  BY <1>1, <1>5, EnvStep

\* The server's Delete is processed.
LEMMA DeleteStatusStep ==
    ASSUME DerefInv, NEW s \in Statuses, DeleteStatus(s)  PROVE DerefInv' /\ NotStale
    <1>1. DeleteStatusByID(s, cached[s].id) /\ UNCHANGED <<version, now, locks, st, ac, th, tasks>>
        BY DEF DeleteStatus, env
    <1>2. Moves /\ Calm
        BY <1>1, DbDelete DEF DerefInv
    <1>3. QED  BY <1>1, <1>2, EnvStep

\* An account is suspended.
LEMMA SuspendStep == ASSUME DerefInv, NEW a \in Accounts, Suspend(a)  PROVE DerefInv' /\ NotStale
    <1>1. PICK obj, row : /\ obj = [cached[a] EXCEPT !.susp = TRUE, !.at = 0]
                          /\ row = [rows[a] EXCEPT !.susp = TRUE, !.at = 0]
        OBVIOUS
    <1>2. Update(a, obj, row) /\ UNCHANGED <<version, now, redirected, locks, st, ac, th, tasks>>
        BY <1>1 DEF Suspend
    <1>3. a \in URIs /\ Stored
        BY KeyFacts DEF DerefInv
    <1>4. /\ Known(a, cached[a]) /\ cached[a] \in Objects /\ rows[a] \in Objects
          /\ rows[a].ver <= version[a]
        BY <1>3 DEF Stored
    <1>5. obj \in Objects /\ obj.id = cached[a].id
        BY <1>1, <1>4 DEF Objects
    <1>6. row \in Objects /\ row.id = rows[a].id /\ row.ver = rows[a].ver
        BY <1>1, <1>4 DEF Objects
    <1>7. Known(a, obj)
        BY <1>4, <1>5 DEF Known
    <1>8. Moves /\ Calm
        <2>1. rows[a].id = obj.id => row.id = obj.id /\ row.ver <= version[a]
            BY <1>4, <1>6
        <2>2. redirected \subseteq redirected'
            BY <1>2
        <2>3. QED  BY <1>2, <1>3, <1>6, <1>7, <2>1, <2>2, DbUpdate
    <1>9. QED  BY <1>2, <1>8, EnvStep

\* The cache drops an entry.
LEMMA EvictStep == ASSUME DerefInv, NEW u \in URIs, Evict(u)  PROVE DerefInv' /\ NotStale
    <1>1. /\ cached' = [cached EXCEPT ![u] = rows[u]]
          /\ UNCHANGED <<rows, nextID, wiped, redirected, version, now, locks, st, ac, th, tasks>>
        BY DEF Evict, env
    <1>2. Stored
        BY DEF DerefInv
    <1>3. cached' \in [URIs -> Objects] /\ \A v \in URIs : Known(v, cached'[v]) \/ cached'[v] = rows[v]
        BY <1>1, <1>2 DEF Stored
    <1>4. \A v \in URIs : /\ nextID[v] <= nextID'[v] /\ version[v] <= version'[v]
                          /\ rows[v].id < nextID[v] /\ rows[v].ver <= version[v]
        BY <1>1, <1>2 DEF Stored
    <1>5. Moves
        <2>1. now' \in Nat /\ version' \in [URIs -> Nat] /\ nextID' \in [URIs -> Nat] /\ rows' \in [URIs -> Objects]
            BY <1>1, <1>2 DEF Stored
        <2>2. QED  BY <1>1, <1>2, <1>3, <1>4, <2>1, DbMoves
    <1>6. Calm
        BY <1>1 DEF Calm
    <1>7. QED  BY <1>1, <1>5, <1>6, EnvStep

-----------------------------------------------------------------------------
(***************************************************************************)
(* The theorems                                                            *)
(***************************************************************************)
\* The invariant holds at the start.
LEMMA DerefInit == Init => DerefInv
    <1> SUFFICES ASSUME Init  PROVE DerefInv
        OBVIOUS
    <1>1. PICK known \in SUBSET URIs :
              /\ rows = [u \in URIs |-> IF u \notin known THEN None
                                        ELSE [None EXCEPT !.id = 1, !.ver = 1, !.parent = FirstParent(u)]]
              /\ nextID = [u \in URIs |-> IF u \in known THEN 2 ELSE 1]
        BY DEF Init
    <1>2. /\ version = [u \in URIs |-> 1] /\ cached = rows /\ now = 0 /\ tasks = <<>>
          /\ locks = [k \in Keys |-> Free]
          /\ st = [p \in Procs |-> IdleSt] /\ ac = [p \in Procs |-> IdleAc] /\ th = [p \in Procs |-> IdleTh]
        BY DEF Init
    <1>3. Stored
        <2>1. ASSUME NEW u \in URIs
              PROVE  /\ rows[u] \in Objects /\ nextID[u] \in Nat /\ 0 < nextID[u]
                     /\ rows[u].id \in Nat /\ rows[u].id < nextID[u] /\ rows[u].ver <= 1
            <3>1. FirstParent(u) \in Nat
                BY DEF FirstParent
            <3>2. CASE u \notin known
                <4>1. rows[u] = None /\ nextID[u] = 1
                    BY <1>1, <3>2
                <4>2. None \in Objects /\ None.id = 0 /\ None.ver = 0
                    BY ObjectFacts
                <4>3. QED  BY <4>1, <4>2
            <3>3. CASE u \in known
                <4>1. rows[u] = [None EXCEPT !.id = 1, !.ver = 1, !.parent = FirstParent(u)] /\ nextID[u] = 2
                    BY <1>1, <3>3
                <4>2. rows[u] = [id |-> 1, ver |-> 1, at |-> 0, parent |-> FirstParent(u),
                                 orphan |-> FALSE, susp |-> FALSE]
                    BY <4>1 DEF None
                <4>3. rows[u] \in Objects
                    BY <3>1, <4>2 DEF Objects
                <4>4. QED  BY <4>1, <4>2, <4>3
            <3>4. QED  BY <3>2, <3>3
        <2>2. rows \in [URIs -> Objects] /\ nextID \in [URIs -> Nat]
            <3>1. DOMAIN rows = URIs /\ rows = [u \in URIs |-> rows[u]]
                BY <1>1
            <3>2. nextID = [u \in URIs |-> nextID[u]]
                BY <1>1
            <3>3. QED  BY <2>1, <3>1, <3>2
        <2>3. \A u \in URIs : version[u] = 1
            BY <1>2
        <2>4. \A u \in URIs : Known(u, cached[u])
            BY <1>2, <2>1 DEF Known
        <2>5. version \in [URIs -> Nat] /\ now \in Nat
            BY <1>2
        <2>6. QED  BY <1>2, <2>1, <2>2, <2>3, <2>4, <2>5 DEF Stored
    <1>4. \A p \in Procs : st[p] = IdleSt /\ ac[p] = IdleAc /\ th[p] = IdleTh
        BY <1>2
    <1>5. /\ StGood(IdleSt) /\ AcGood(IdleAc) /\ ThGood(IdleTh) /\ Linked(IdleSt, IdleTh)
          /\ StAge(IdleSt) /\ AcAge(IdleAc) /\ StKeys(IdleSt) = {} /\ AcKeys(IdleAc) = {}
        BY IdleFacts DEF StGood, AcGood, ThGood, Linked, StAge, AcAge, StKeys, AcKeys
    <1>6. Frames
        <2>1. /\ st \in [Procs -> StFrames] /\ ac \in [Procs -> AcFrames] /\ th \in [Procs -> ThFrames]
            BY <1>2, IdleFacts
        <2>2. tasks \in Seq(Tasks) /\ \A i \in DOMAIN tasks : TaskGood(tasks[i])
            BY <1>2
        <2>3. QED  BY <1>4, <1>5, <2>1, <2>2 DEF Frames
    <1>7. LocksHeld
        BY <1>2, <1>4, <1>5, AddressesAssumption DEF LocksHeld
    <1>8. NotOlder
        BY <1>4, <1>5 DEF NotOlder
    <1>9. QED  BY <1>3, <1>6, <1>7, <1>8 DEF DerefInv

\* Every step keeps it, and replaces nothing stored by an older version.
LEMMA DerefNext == DerefInv /\ [Next]_vars => DerefInv' /\ NotStale
    <1> SUFFICES ASSUME DerefInv, [Next]_vars  PROVE DerefInv' /\ NotStale
        OBVIOUS
    <1>1. ASSUME NEW p \in Procs, Step(p)  PROVE DerefInv' /\ NotStale
        BY <1>1, LockStatusStep, FetchStatusStep, StatusUnavailableStep, GetAuthorStep, AuthorDoneStep,
           ConvertStep, StoreStatusStep, StatusRaceStep, AccountControlStep, StoreAccountStep,
           AccountRaceStep, TakeTaskStep, WalkEndsStep, FollowAncestorStep, LinkParentStep DEF Step
    <1>2. ASSUME NEW p \in Procs, Unavailable(p)  PROVE DerefInv' /\ NotStale
        BY <1>2, StatusUnavailableStep, AccountUnavailableStep DEF Unavailable
    <1>3. ASSUME NEW p \in Procs, Ask(p)  PROVE DerefInv' /\ NotStale
        BY <1>3, AskStatusStep, AskAccountStep DEF Ask
    <1>4. CASE (\E u \in URIs : Edit(u)) \/ (\E s \in Statuses : RemoteDelete(s)) \/ Tick
        BY <1>4, OutsideStep
    <1>5. ASSUME NEW u \in URIs, Evict(u)  PROVE DerefInv' /\ NotStale
        BY <1>5, EvictStep
    <1>6. ASSUME NEW s \in Statuses, DeleteStatus(s)  PROVE DerefInv' /\ NotStale
        BY <1>6, DeleteStatusStep
    <1>7. ASSUME NEW a \in Accounts, Suspend(a)  PROVE DerefInv' /\ NotStale
        BY <1>7, SuspendStep
    <1>8. CASE UNCHANGED vars
        <2>1. UNCHANGED <<db, version, now>> /\ UNCHANGED <<locks, st, ac, th, tasks>>
            BY <1>8 DEF vars, db
        <2>2. QED  BY <2>1, SameStep, EnvStep
    <1>9. QED  BY <1>1, <1>2, <1>3, <1>4, <1>5, <1>6, <1>7, <1>8 DEF Next

\* So it always holds.
LEMMA DerefAlways == Spec => []DerefInv
    <1>1. DerefInv /\ [Next]_vars => DerefInv'
        BY DerefNext
    <1>2. QED  BY DerefInit, <1>1, PTL DEF Spec

\* Nobody goes on with an object that is not the stored one, however the stores
\* of several goroutines are interleaved: whoever loses the race takes the
\* winner's row.
THEOREM CopiesAgree == Spec => []CopiesHaveRowID
    <1>1. DerefInv => CopiesHaveRowID
        <2> SUFFICES ASSUME DerefInv  PROVE CopiesHaveRowID
            OBVIOUS
        <2>1. \A u, obj : Known(u, obj) => obj.id \in {0, rows[u].id} \/ u \in wiped
            BY DEF Known
        <2>2. \A u \in URIs : Known(u, cached[u])
            BY DEF DerefInv, Stored
        <2>3. \A p \in Procs :
                /\ st[p] # IdleSt => Known(Canon[st[p].addr], st[p].copy)
                /\ ac[p].pc \notin {"idle", "done"} => Known(ac[p].uri, ac[p].copy)
                /\ th[p] # IdleTh => Known(th[p].uri, th[p].copy)
            BY DEF DerefInv, Frames, StGood, AcGood, ThGood
        <2>4. \A i \in 1..Len(tasks) : Known(tasks[i].uri, tasks[i].copy)
            BY DEF DerefInv, Frames, TaskGood
        <2>5. QED  BY <2>1, <2>2, <2>3, <2>4 DEF CopiesHaveRowID
    <1>2. QED  BY DerefAlways, <1>1, PTL

\* A lock of an object is held by a goroutine at work under it, and by one only;
\* every way out of enrichStatusSafely and enrichAccountSafely gives it back.
THEOREM FedLocksKept == Spec => []LocksHeld
    <1>1. DerefInv => LocksHeld
        BY DEF DerefInv
    <1>2. QED  BY DerefAlways, <1>1, PTL

\* A refresh never puts an older version in the place of a newer one.
THEOREM RefreshNeverOlder == Spec => NoStaleOverwrite
    <1>1. DerefInv /\ [Next]_vars => NotStale
        BY DerefNext
    <1>2. QED  BY DerefAlways, <1>1, PTL DEF Spec, NoStaleOverwrite, NotStale

\* Two goroutines that fetch or store the same account would hold the same lock.
LEMMA OneAtAnAccount ==
    ASSUME DerefInv, NamesAsURIs, NEW p \in Procs, NEW q \in Procs, ac[p].uri = ac[q].uri,
           ac[p].pc \in {"fetch", "store"}, ac[q].pc \in {"fetch", "store"}
    PROVE  p = q
    <1>1. ac[p].key = ac[p].uri /\ ac[q].key = ac[q].uri /\ ac[p].key \in Keys
        BY FrameFacts DEF AcGood, NamesAsURIs
    <1>2. locks[ac[p].key] = p /\ locks[ac[q].key] = q
        BY <1>1 DEF DerefInv, LocksHeld, AcKeys
    <1>3. QED  BY <1>1, <1>2

\* Every step keeps the accounts being fetched marked.
LEMMA MarkedNext == ASSUME NamesAsURIs  PROVE DerefInv /\ Marked /\ [Next]_vars => Marked'
    <1> SUFFICES ASSUME DerefInv, Marked, [Next]_vars  PROVE Marked'
        OBVIOUS
    <1>1. ac \in [Procs -> AcFrames]
        BY DEF DerefInv, Frames
    <1>2. CASE UNCHANGED <<ac, handshakes>>
        BY <1>2 DEF Marked
    <1>3. ASSUME NEW p \in Procs, NEW g, ac' = [ac EXCEPT ![p] = g],
                 \/ UNCHANGED handshakes /\ (g.pc \in {"fetch", "store"} =>
                                                 ac[p].pc = "fetch" /\ g.uri = ac[p].uri)
                 \/ handshakes' = handshakes \cup {ac[p].uri} /\ g.uri = ac[p].uri
                 \/ /\ handshakes' = handshakes \ {ac[p].uri} /\ g.pc \notin {"fetch", "store"}
                    /\ ac[p].pc \in {"fetch", "store"}
          PROVE  Marked'
        <2>1. ac'[p] = g /\ \A q \in Procs : q # p => ac'[q] = ac[q]
            BY <1>1, <1>3
        <2>2. \A q \in Procs : /\ q # p
                               /\ ac[p].pc \in {"fetch", "store"} /\ ac[q].pc \in {"fetch", "store"}
                               => ac[q].uri # ac[p].uri
            BY OneAtAnAccount
        <2>3. QED  BY <1>3, <2>1, <2>2 DEF Marked
    <1>4. ASSUME NEW p \in Procs, NEW err, ReturnAccount(p, err)
          PROVE  \E g : ac' = [ac EXCEPT ![p] = g] /\ g.pc \notin {"fetch", "store"}
        <2>1. PICK g : g = IF st[p].pc = "author" THEN [IdleAc EXCEPT !.pc = "done", !.err = err] ELSE IdleAc
            OBVIOUS
        <2>2. g.pc \in {"done", "idle"}
            BY <2>1 DEF IdleAc
        <2>3. QED  BY <1>4, <2>1, <2>2 DEF ReturnAccount
    <1>5. ASSUME NEW p \in Procs, NEW a, NEW key, NEW obj, NEW ver, UNCHANGED handshakes,
                 ac' = [ac EXCEPT ![p] = EnrichAccount(a, key, obj, ver)]
          PROVE  Marked'
        <2>1. PICK g : g = EnrichAccount(a, key, obj, ver)
            OBVIOUS
        <2>2. g.pc = "lock"
            BY <2>1 DEF EnrichAccount
        <2>3. QED  BY <1>3, <1>5, <2>1, <2>2
    <1>6. ASSUME NEW p \in Procs, NEW c, ac' = [ac EXCEPT ![p].pc = c],
                 \/ UNCHANGED handshakes /\ c \notin {"fetch", "store"}
                 \/ handshakes' = handshakes \cup {ac[p].uri}
                 \/ /\ handshakes' = handshakes \ {ac[p].uri} /\ c \notin {"fetch", "store"}
                    /\ ac[p].pc \in {"fetch", "store"}
          PROVE  Marked'
        <2>1. PICK g : g = [ac[p] EXCEPT !.pc = c]
            OBVIOUS
        <2>2. g.pc = c /\ g.uri = ac[p].uri
            BY <1>1, <2>1 DEF AcFrames
        <2>3. ac' = [ac EXCEPT ![p] = g]
            BY <1>6, <2>1
        <2>4. QED  BY <1>3, <1>6, <2>2, <2>3
    <1>7. ASSUME NEW p \in Procs, GetAuthor(p)  PROVE Marked'
        <2>1. CASE UNCHANGED ac
            BY <1>2, <1>7, <2>1 DEF GetAuthor
        <2>2. CASE ~ UNCHANGED ac
            BY <1>5, <1>7, <2>2 DEF GetAuthor
        <2>3. QED  BY <2>1, <2>2
    <1>8. ASSUME NEW p \in Procs, AuthorDone(p)  PROVE Marked'
        <2>1. ac' = [ac EXCEPT ![p] = IdleAc] /\ UNCHANGED handshakes /\ IdleAc.pc = "idle"
            BY <1>8, IdleFacts DEF AuthorDone
        <2>2. QED  BY <1>3, <2>1
    <1>9. ASSUME NEW p \in Procs, LockAccount(p)  PROVE Marked'
        BY <1>6, <1>9 DEF LockAccount
    <1>10. ASSUME NEW p \in Procs, startHandshake(p)  PROVE Marked'
        BY <1>6, <1>10 DEF startHandshake
    <1>11. ASSUME NEW p \in Procs, FetchAccount(p)  PROVE Marked'
        <2>1. PICK g : g = [ac[p] EXCEPT !.pc = "store", !.ver = version[ac[p].uri]]
            OBVIOUS
        <2>2. g.uri = ac[p].uri
            BY <1>1, <2>1 DEF AcFrames
        <2>3. ac' = [ac EXCEPT ![p] = g] /\ UNCHANGED handshakes /\ ac[p].pc = "fetch"
            BY <1>1, <1>11, <2>1 DEF FetchAccount, AcFrames
        <2>4. QED  BY <1>3, <2>2, <2>3
    <1>12. ASSUME NEW p \in Procs, StoreAccount(p)  PROVE Marked'
        <2>1. handshakes' = handshakes \ {ac[p].uri} /\ ac[p].pc = "store"
            BY <1>12 DEF StoreAccount, stopHandshake
        <2>2. CASE ac' = [ac EXCEPT ![p].pc = "race"]
            BY <1>6, <2>1, <2>2
        <2>3. CASE ReturnAccount(p, FALSE)
            BY <1>3, <1>4, <2>1, <2>3
        <2>4. QED  BY <1>12, <2>2, <2>3 DEF StoreAccount
    <1>13. ASSUME NEW p \in Procs, AccountRace(p)  PROVE Marked'
        <2>1. UNCHANGED handshakes /\ \E err : ReturnAccount(p, err)
            BY <1>13 DEF AccountRace
        <2>2. QED  BY <1>3, <1>4, <2>1
    <1>14. ASSUME NEW p \in Procs, NEW err, AccountUnavailable(p, err)  PROVE Marked'
        <2>1. handshakes' = handshakes \ {ac[p].uri} /\ ac[p].pc = "fetch" /\ \E bad : ReturnAccount(p, bad)
            BY <1>14 DEF AccountUnavailable, stopHandshake
        <2>2. QED  BY <1>3, <1>4, <2>1
    <1>15. ASSUME NEW p \in Procs, Ask(p)  PROVE Marked'
        <2>1. CASE \/ \E addr \in Addresses : GetStatusByURI(p, addr)
                   \/ \E s \in Statuses, v \in 1..MaxVersion : CreateStatus(p, s, v) \/ UpdateStatus(p, s, v)
            BY <1>2, <2>1 DEF GetStatusByURI, CreateStatus, UpdateStatus
        <2>2. ASSUME NEW a \in Accounts, GetAccountByURI(p, a)  PROVE Marked'
            BY <1>5, <2>2 DEF GetAccountByURI
        <2>3. ASSUME NEW a \in Accounts, GetAccountByUsernameDomain(p, a)  PROVE Marked'
            BY <1>5, <2>3 DEF GetAccountByUsernameDomain
        <2>4. ASSUME NEW a \in Accounts, NEW v \in 1..MaxVersion, UpdateAccount(p, a, v)  PROVE Marked'
            BY <1>5, <2>4 DEF UpdateAccount
        <2>5. QED  BY <1>15, <2>1, <2>2, <2>3, <2>4 DEF Ask
    <1>16. ASSUME NEW p \in Procs,
                  \/ LockStatus(p) \/ FetchStatus(p) \/ StatusGone(p) \/ ConvertStatus(p) \/ StoreStatus(p)
                  \/ StatusRace(p) \/ TakeTask(p) \/ WalkEnds(p) \/ FollowAncestor(p) \/ LinkParent(p)
                  \/ \E err \in {"http", "other"} : StatusUnavailable(p, err)
           PROVE  Marked'
        <2>1. UNCHANGED <<ac, handshakes>>
            BY <1>16 DEF LockStatus, FetchStatus, StatusGone, ConvertStatus, StoreStatus, StatusRace,
                         TakeTask, WalkEnds, FollowAncestor, LinkParent, StatusUnavailable
        <2>2. QED  BY <1>2, <2>1
    <1>17. ASSUME NEW p \in Procs, Step(p) \/ Unavailable(p)  PROVE Marked'
        BY <1>7, <1>8, <1>9, <1>10, <1>11, <1>12, <1>13, <1>14, <1>16, <1>17 DEF Step, Unavailable
    <1>18. CASE \/ \E u \in URIs : Edit(u) \/ Evict(u)
                \/ \E s \in Statuses : RemoteDelete(s) \/ DeleteStatus(s)
                \/ \E a \in Accounts : Suspend(a)
                \/ Tick \/ UNCHANGED vars
        <2>1. UNCHANGED <<ac, handshakes>>
            BY <1>18 DEF Edit, Evict, RemoteDelete, DeleteStatus, Suspend, Tick, vars
        <2>2. QED  BY <1>2, <2>1
    <1>19. QED  BY <1>15, <1>17, <1>18 DEF Next

\* While an account is fetched under the lock of its URI it is marked, on servers
\* whose accounts have the one lock.
THEOREM HandshakesMarked == ASSUME NamesAsURIs  PROVE Spec => []HandshakeMarked
    <1>1. Init => Marked
        BY IdleFacts DEF Init, Marked
    <1>2. DerefInv /\ Marked /\ [Next]_vars => Marked'
        BY MarkedNext
    <1>3. Marked => HandshakeMarked
        BY DEF Marked, HandshakeMarked
    <1>4. QED  BY DerefAlways, <1>1, <1>2, <1>3, PTL DEF Spec

-----------------------------------------------------------------------------
(***************************************************************************)
(* Replies and their parents                                               *)
(***************************************************************************)
\* What a copy of s may say of its parent: nothing, or the ID of its row; a
\* parent is forgotten only when its server has deleted it.
LinkOK(s, n)  == InReplyTo[s] \in Statuses \ wiped => n \in {0, rows[InReplyTo[s]].id}
CopyOK(s, obj) == LinkOK(s, obj.parent) /\ (obj.orphan => InReplyTo[s] \in gone)

\* A row and its cached copy; the cache has every row.
DbLink ==
    /\ wiped \subseteq Statuses
    /\ \A s \in Statuses : CopyOK(s, rows[s]) /\ CopyOK(s, cached[s])
    /\ \A u \in URIs : u \in wiped \/ cached[u].id = rows[u].id

\* A goroutine at a status, and at an account. Who lost a race finds the winner.
StLink(f) ==
    f.pc # "idle" =>
        /\ CopyOK(Canon[f.addr], f.copy) /\ (f.new \/ f.copy.id # 0)
        /\ f.pc = "store" => LinkOK(Canon[f.addr], f.parent)
        /\ f.pc = "race" => Canon[f.addr] \in wiped \/ rows[Canon[f.addr]].id # 0
AcLink(g) ==
    /\ g.err => failed
    /\ g.pc = "race" => rows[g.uri].id # 0

\* A goroutine at a thread: the walk goes down in depth and has visited none of
\* the ancestors before it, and the parent it waited for is there unless
\* something failed.
ThLink(depth, h) ==
    /\ h.pc # "idle" => CopyOK(h.uri, h.copy) /\ h.copy.id # 0
    /\ h.pc = "walk" =>
         h.n + depth[h.uri] <= MaxIter /\ \A x \in h.seen : depth[h.uri] <= depth[x]
    /\ h.pc \in {"wait", "parent"} =>
         h.n + depth[InReplyTo[h.uri]] <= MaxIter /\ \A x \in h.seen : depth[InReplyTo[h.uri]] <= depth[x]
    /\ h.pc = "parent" =>
         /\ CopyOK(InReplyTo[h.uri], h.found)
         /\ h.err = "gone" => InReplyTo[h.uri] \in gone
         /\ \/ failed \/ InReplyTo[h.uri] \in gone \cup wiped
            \/ h.found.id # 0 /\ h.err = "none"

\* A walk that waits, waits for the URI of a status.
Waits(f, h) == h.pc = "wait" => f.addr = InReplyTo[h.uri]

TaskLink(t) == CopyOK(t.uri, t.copy) /\ t.copy.id # 0

\* A walk h that will link s: it is at s, or comes to s next.
Holds(h, s) ==
    \/ h.pc # "idle" /\ h.uri = s /\ h.copy.parent = 0
    \/ /\ h.pc = "parent" /\ InReplyTo[h.uri] = s /\ h.err = "none"
       /\ h.found.id # 0 /\ h.found.parent = 0

\* Somebody is at it, or a task is queued.
Token(s) ==
    \/ \E p \in Procs : Holds(th[p], s)
    \/ \E i \in DOMAIN tasks : tasks[i].uri = s /\ tasks[i].copy.parent = 0

\* s is a stored reply, and nothing happened that excuses a missing link.
Due(s) ==
    /\ InReplyTo[s] \in Statuses /\ {s, InReplyTo[s]} \cap wiped = {}
    /\ InReplyTo[s] \notin gone /\ ~ failed /\ rows[s].id # 0

\* Then it is linked, or somebody owes the link.
Owed == \A s \in Statuses : Due(s) => rows[s].parent # 0 \/ Token(s)

LinkInv(depth) ==
    /\ DbLink
    /\ \A p \in Procs : StLink(st[p]) /\ AcLink(ac[p]) /\ ThLink(depth, th[p]) /\ Waits(st[p], th[p])
    /\ \A i \in DOMAIN tasks : TaskLink(tasks[i])
    /\ Owed

-----------------------------------------------------------------------------
(***************************************************************************)
(* What stays true of links                                                *)
(***************************************************************************)
\* Rows keep their IDs unless they are deleted, and excuses stay.
IdsKeep ==
    /\ wiped \subseteq wiped' /\ wiped' \subseteq Statuses /\ gone \subseteq gone' /\ (failed => failed')
    /\ \A u \in URIs : rows'[u].id = rows[u].id \/ rows[u].id = 0 \/ u \in wiped'

\* A copy that was right about its parent stays right.
LEMMA CopyStays ==
    ASSUME IdsKeep
    PROVE  /\ \A s, n : LinkOK(s, n) => LinkOK(s, n)'
           /\ \A s, obj : CopyOK(s, obj) => CopyOK(s, obj)'
    <1>1. ASSUME NEW s, NEW n, LinkOK(s, n)  PROVE LinkOK(s, n)'
        <2> SUFFICES ASSUME InReplyTo[s] \in Statuses \ wiped'  PROVE n \in {0, rows'[InReplyTo[s]].id}
            BY DEF LinkOK
        <2>1. InReplyTo[s] \in URIs /\ InReplyTo[s] \in Statuses \ wiped
            BY DEF URIs, IdsKeep
        <2>2. n \in {0, rows[InReplyTo[s]].id}
            BY <1>1, <2>1 DEF LinkOK
        <2>3. QED  BY <2>1, <2>2 DEF IdsKeep
    <1>2. ASSUME NEW s, NEW obj, CopyOK(s, obj)  PROVE CopyOK(s, obj)'
        <2>1. LinkOK(s, obj.parent)'
            BY <1>1, <1>2 DEF CopyOK
        <2>2. obj.orphan => InReplyTo[s] \in gone'
            BY <1>2 DEF CopyOK, IdsKeep
        <2>3. QED  BY <2>1, <2>2 DEF CopyOK
    <1>3. QED  BY <1>1, <1>2

\* So does what a goroutine or a task holds.
LEMMA LinkStays ==
    ASSUME IdsKeep, NEW depth
    PROVE  /\ \A f : StGood(f) /\ StLink(f) => StLink(f)'
           /\ \A g : AcGood(g) /\ AcLink(g) => AcLink(g)'
           /\ \A h : ThLink(depth, h) => ThLink(depth, h)'
           /\ \A t : TaskLink(t) => TaskLink(t)'
    <1>1. ASSUME NEW f, StGood(f), StLink(f)  PROVE StLink(f)'
        <2> SUFFICES ASSUME f.pc # "idle"
                     PROVE  /\ CopyOK(Canon[f.addr], f.copy)' /\ (f.new \/ f.copy.id # 0)
                            /\ f.pc = "store" => LinkOK(Canon[f.addr], f.parent)'
                            /\ f.pc = "race" => Canon[f.addr] \in wiped' \/ rows'[Canon[f.addr]].id # 0
            BY DEF StLink
        <2>1. Canon[f.addr] \in URIs
            BY <1>1, KeyFacts DEF StGood
        <2>2. /\ CopyOK(Canon[f.addr], f.copy) /\ (f.new \/ f.copy.id # 0)
              /\ f.pc = "store" => LinkOK(Canon[f.addr], f.parent)
              /\ f.pc = "race" => Canon[f.addr] \in wiped \/ rows[Canon[f.addr]].id # 0
            BY <1>1 DEF StLink
        <2>3. f.pc = "race" => Canon[f.addr] \in wiped' \/ rows'[Canon[f.addr]].id # 0
            BY <2>1, <2>2 DEF IdsKeep
        <2>4. QED  BY <2>2, <2>3, CopyStays
    <1>2. ASSUME NEW g, AcGood(g), AcLink(g)  PROVE AcLink(g)'
        <2>1. g.pc = "race" => g.uri \in URIs /\ g.uri \notin Statuses
            BY <1>2, KeyFacts DEF AcGood
        <2>2. QED  BY <1>2, <2>1 DEF AcLink, IdsKeep
    <1>3. ASSUME NEW h, ThLink(depth, h)  PROVE ThLink(depth, h)'
        <2>1. h.pc # "idle" => CopyOK(h.uri, h.copy)' /\ h.copy.id # 0
            BY <1>3, CopyStays DEF ThLink
        <2>2. h.pc = "parent" =>
                /\ CopyOK(InReplyTo[h.uri], h.found)'
                /\ h.err = "gone" => InReplyTo[h.uri] \in gone'
                /\ \/ failed' \/ InReplyTo[h.uri] \in gone' \cup wiped'
                   \/ h.found.id # 0 /\ h.err = "none"
            BY <1>3, CopyStays DEF ThLink, IdsKeep
        <2>3. QED  BY <1>3, <2>1, <2>2 DEF ThLink
    <1>4. ASSUME NEW t, TaskLink(t)  PROVE TaskLink(t)'
        BY <1>4, CopyStays DEF TaskLink
    <1>5. QED  BY <1>1, <1>2, <1>3, <1>4

\* What is written to the database is right about its parent.
LEMMA DbLinkStep ==
    ASSUME DbLink, IdsKeep,
           \A s \in Statuses : /\ rows'[s] = rows[s] \/ CopyOK(s, rows'[s])
                               /\ cached'[s] = cached[s] \/ CopyOK(s, cached'[s]),
           \A u \in URIs : u \in wiped' \/ cached'[u].id = rows'[u].id
    PROVE  DbLink'
    <1>1. ASSUME NEW s \in Statuses  PROVE CopyOK(s, rows[s])' /\ CopyOK(s, cached[s])'
        <2>1. CopyOK(s, rows'[s]) /\ CopyOK(s, cached'[s])
            BY DEF DbLink
        <2>2. PICK r, c : r = rows'[s] /\ c = cached'[s]
            OBVIOUS
        <2>3. CopyOK(s, r) /\ CopyOK(s, c)
            BY <2>1, <2>2
        <2>4. CopyOK(s, r)' /\ CopyOK(s, c)'
            BY <2>3, CopyStays
        <2>5. QED  BY <2>2, <2>4 DEF CopyOK
    <1>2. QED  BY <1>1 DEF DbLink, IdsKeep

\* The columns of the parent, and the others.
LEMMA ParentFacts ==
    /\ None.parent = 0 /\ ~ None.orphan
    /\ \A obj \in Objects : \A n :
         /\ [obj EXCEPT !.at = n].parent = obj.parent /\ [obj EXCEPT !.at = n].orphan = obj.orphan
         /\ [obj EXCEPT !.at = n].id = obj.id
         /\ [obj EXCEPT !.parent = n].parent = n /\ [obj EXCEPT !.parent = n].orphan = obj.orphan
         /\ [obj EXCEPT !.parent = n].id = obj.id
    /\ \A obj \in Objects : \A n, b :
         /\ [obj EXCEPT !.parent = n, !.orphan = b].parent = n
         /\ [obj EXCEPT !.parent = n, !.orphan = b].orphan = b
         /\ [obj EXCEPT !.parent = n, !.orphan = b].id = obj.id
    BY DEF Objects, None

\* What CopyOK looks at.
LEMMA CopyLike ==
    ASSUME NEW s, NEW obj, CopyOK(s, obj), NEW c, c.parent = obj.parent, c.orphan = obj.orphan
    PROVE  CopyOK(s, c)
    BY DEF CopyOK

\* Nobody's copy says more of a parent than None.
LEMMA NoneOK == \A s : CopyOK(s, None) /\ CopyOK(s, None)'
    <1>1. None.parent = 0 /\ None.orphan = FALSE
        BY DEF None
    <1>2. QED  BY <1>1 DEF CopyOK, LinkOK

\* A known object is written.
LEMMA UpdateLink ==
    ASSUME DerefInv, DbLink, NEW u \in URIs, NEW obj, NEW row, Known(u, obj), obj.id # 0,
           Update(u, obj, row), gone \subseteq gone', failed => failed',
           rows[u].id = obj.id => row.id = obj.id,
           u \in Statuses => CopyOK(u, obj) /\ CopyOK(u, row)
    PROVE  /\ IdsKeep /\ DbLink'
           /\ \A v \in URIs : v # u => rows'[v] = rows[v]
           /\ rows'[u] = IF rows[u].id = obj.id THEN row ELSE rows[u]
    <1>1. rows \in [URIs -> Objects] /\ cached \in [URIs -> Objects]
        BY DEF DerefInv, Stored
    <1>2. /\ rows' = [rows EXCEPT ![u] = IF rows[u].id = obj.id THEN row ELSE rows[u]]
          /\ cached' = [cached EXCEPT ![u] = obj] /\ wiped' = wiped
        BY <1>1 DEF Update
    <1>3. /\ \A v \in URIs : v # u => rows'[v] = rows[v] /\ cached'[v] = cached[v]
          /\ rows'[u] = IF rows[u].id = obj.id THEN row ELSE rows[u]
          /\ cached'[u] = obj
        BY <1>1, <1>2
    <1>4. IdsKeep
        BY <1>2, <1>3 DEF IdsKeep, DbLink
    <1>5. \A v \in URIs : v \in wiped' \/ cached'[v].id = rows'[v].id
        <2>1. u \in wiped \/ rows[u].id = obj.id
            BY DEF Known
        <2>2. QED  BY <1>2, <1>3, <2>1 DEF DbLink
    <1>6. DbLink'
        <2>1. \A s \in Statuses : /\ rows'[s] = rows[s] \/ CopyOK(s, rows'[s])
                                  /\ cached'[s] = cached[s] \/ CopyOK(s, cached'[s])
            BY <1>3, KeyFacts
        <2>2. QED  BY <1>4, <1>5, <2>1, DbLinkStep
    <1>7. QED  BY <1>3, <1>4, <1>6

\* A row is put where there is none.
LEMMA PutLink ==
    ASSUME DerefInv, DbLink, NEW u \in URIs, NEW obj, Put(u, obj), rows[u].id = 0,
           gone \subseteq gone', failed => failed', u \in Statuses => CopyOK(u, obj)
    PROVE  /\ IdsKeep /\ DbLink'
           /\ \A v \in URIs : v # u => rows'[v] = rows[v]
           /\ rows'[u] = obj
    <1>1. rows \in [URIs -> Objects] /\ cached \in [URIs -> Objects]
        BY DEF DerefInv, Stored
    <1>2. /\ \A v \in URIs : v # u => rows'[v] = rows[v] /\ cached'[v] = cached[v]
          /\ rows'[u] = obj /\ cached'[u] = obj /\ wiped' = wiped
        BY <1>1 DEF Put
    <1>3. IdsKeep
        BY <1>2 DEF IdsKeep, DbLink
    <1>4. \A v \in URIs : v \in wiped' \/ cached'[v].id = rows'[v].id
        BY <1>2 DEF DbLink
    <1>5. \A s \in Statuses : /\ rows'[s] = rows[s] \/ CopyOK(s, rows'[s])
                              /\ cached'[s] = cached[s] \/ CopyOK(s, cached'[s])
        BY <1>2, KeyFacts
    <1>6. QED  BY <1>2, <1>3, <1>4, <1>5, DbLinkStep

\* A status is deleted.
LEMMA DeleteLink ==
    ASSUME DerefInv, DbLink, NEW s \in Statuses, NEW id, DeleteStatusByID(s, id),
           gone \subseteq gone', failed => failed'
    PROVE  /\ IdsKeep /\ DbLink' /\ s \in wiped'
           /\ \A v \in URIs : v # s => rows'[v] = rows[v]
    <1>1. rows \in [URIs -> Objects] /\ cached \in [URIs -> Objects] /\ s \in URIs
        BY KeyFacts DEF DerefInv, Stored
    <1>2. /\ \A v \in URIs : v # s => rows'[v] = rows[v] /\ cached'[v] = cached[v]
          /\ rows'[s] \in {None, rows[s]} /\ cached'[s] \in {None, cached[s]}
          /\ wiped' = wiped \cup {s}
        BY <1>1 DEF DeleteStatusByID
    <1>3. IdsKeep
        BY <1>1, <1>2 DEF IdsKeep, DbLink
    <1>4. \A v \in URIs : v \in wiped' \/ cached'[v].id = rows'[v].id
        BY <1>2 DEF DbLink
    <1>5. \A x \in Statuses : /\ rows'[x] = rows[x] \/ CopyOK(x, rows'[x])
                              /\ cached'[x] = cached[x] \/ CopyOK(x, cached'[x])
        BY <1>2, KeyFacts, NoneOK
    <1>6. QED  BY <1>2, <1>3, <1>4, <1>5, DbLinkStep

\* Nothing is written.
LEMMA SameLink ==
    ASSUME DbLink, UNCHANGED db, gone \subseteq gone', failed => failed'
    PROVE  IdsKeep /\ DbLink' /\ \A s \in Statuses : rows'[s] = rows[s]
    <1>1. rows' = rows /\ cached' = cached /\ wiped' = wiped
        BY DEF db
    <1>2. IdsKeep
        BY <1>1 DEF IdsKeep, DbLink
    <1>3. \A v \in URIs : v \in wiped' \/ cached'[v].id = rows'[v].id
        BY <1>1 DEF DbLink
    <1>4. QED  BY <1>1, <1>2, <1>3, DbLinkStep

-----------------------------------------------------------------------------
(***************************************************************************)
(* Who owes a link                                                         *)
(***************************************************************************)
\* A step leaves no stored reply without a link and without anybody at it.
LEMMA OwedStep ==
    ASSUME Owed, IdsKeep,
           \A s \in Statuses :
              Due(s)' => \/ rows'[s].parent # 0 \/ Token(s)'
                         \/ /\ rows'[s].id = rows[s].id /\ rows'[s].parent = rows[s].parent
                            /\ Token(s) => Token(s)'
    PROVE  Owed'
    <1> SUFFICES ASSUME NEW s \in Statuses, Due(s)'  PROVE rows'[s].parent # 0 \/ Token(s)'
        BY DEF Owed
    <1>1. CASE rows'[s].id = rows[s].id /\ rows'[s].parent = rows[s].parent /\ (Token(s) => Token(s)')
        <2>1. Due(s)
            <3>1. /\ InReplyTo[s] \in Statuses /\ {s, InReplyTo[s]} \cap wiped' = {}
                  /\ InReplyTo[s] \notin gone' /\ ~ failed' /\ rows'[s].id # 0
                BY DEF Due
            <3>2. QED  BY <1>1, <3>1 DEF Due, IdsKeep
        <2>2. QED  BY <1>1, <2>1 DEF Owed
    <1>2. QED  BY <1>1

\* The thread of p becomes h: whatever p held it still holds or has handed on.
LEMMA TokenKept ==
    ASSUME DerefInv, NEW p \in Procs, NEW h, th' = [th EXCEPT ![p] = h] \/ (UNCHANGED th /\ h = th[p]),
           UNCHANGED tasks \/ (\E t \in Tasks : tasks' = Append(tasks, t)),
           NEW s, Token(s), Holds(th[p], s) => Holds(h, s)
    PROVE  Token(s)'
    <1>1. th \in [Procs -> ThFrames] /\ tasks \in Seq(Tasks)
        BY DEF DerefInv, Frames
    <1>2. th'[p] = h /\ \A q \in Procs : q # p => th'[q] = th[q]
        BY <1>1
    <1>3. ASSUME NEW q \in Procs, Holds(th[q], s)  PROVE Token(s)'
        <2>1. Holds(th'[q], s)
            BY <1>2, <1>3
        <2>2. QED  BY <2>1 DEF Token, Holds
    <1>4. ASSUME NEW i \in DOMAIN tasks, tasks[i].uri = s, tasks[i].copy.parent = 0  PROVE Token(s)'
        <2>1. i \in DOMAIN tasks' /\ tasks'[i] = tasks[i]
            BY <1>1
        <2>2. QED  BY <1>4, <2>1 DEF Token
    <1>5. QED  BY <1>3, <1>4 DEF Token

\* A walk at s is at it; so is a task that was just queued.
LEMMA TokenMade ==
    ASSUME DerefInv, NEW p \in Procs, NEW h, th' = [th EXCEPT ![p] = h] \/ (UNCHANGED th /\ h = th[p]),
           NEW s,
           \/ Holds(h, s)
           \/ \E t \in Tasks : tasks' = Append(tasks, t) /\ t.uri = s /\ t.copy.parent = 0
    PROVE  Token(s)'
    <1>1. th \in [Procs -> ThFrames] /\ tasks \in Seq(Tasks)
        BY DEF DerefInv, Frames
    <1>2. CASE Holds(h, s)
        <2>1. Holds(th'[p], s)
            BY <1>1, <1>2
        <2>2. QED  BY <2>1 DEF Token, Holds
    <1>3. ASSUME NEW t \in Tasks, tasks' = Append(tasks, t), t.uri = s, t.copy.parent = 0  PROVE Token(s)'
        <2>1. Len(tasks) + 1 \in DOMAIN tasks' /\ tasks'[Len(tasks) + 1] = t
            BY <1>1, <1>3
        <2>2. QED  BY <1>3, <2>1 DEF Token
    <1>4. QED  BY <1>2, <1>3

\* The queue keeps its tasks, gets one or loses its first.
TasksLink ==
    \/ UNCHANGED tasks
    \/ \E t : TaskLink(t)' /\ tasks' = Append(tasks, t)
    \/ tasks # <<>> /\ tasks' = Tail(tasks)

\* What is queued stays right.
LEMMA TasksLinkStay ==
    ASSUME DerefInv, IdsKeep, \A i \in DOMAIN tasks : TaskLink(tasks[i]), TasksLink
    PROVE  (\A i \in DOMAIN tasks : TaskLink(tasks[i]))'
    <1>1. tasks \in Seq(Tasks)
        BY DEF DerefInv, Frames
    <1>2. ASSUME NEW i \in DOMAIN tasks  PROVE \A t : t = tasks[i] => TaskLink(t)'
        BY LinkStays
    <1>3. SUFFICES ASSUME NEW i \in DOMAIN tasks'  PROVE \E t : t = tasks'[i] /\ TaskLink(t)'
        BY DEF TaskLink, CopyOK
    <1>4. CASE UNCHANGED tasks
        BY <1>2, <1>4
    <1>5. ASSUME NEW t, TaskLink(t)', tasks' = Append(tasks, t)  PROVE \E x : x = tasks'[i] /\ TaskLink(x)'
        <2>1. (i \in DOMAIN tasks /\ tasks'[i] = tasks[i]) \/ tasks'[i] = t
            BY <1>1, <1>5
        <2>2. QED  BY <1>2, <1>5, <2>1
    <1>6. CASE tasks # <<>> /\ tasks' = Tail(tasks)
        <2>1. i + 1 \in DOMAIN tasks /\ tasks'[i] = tasks[i + 1]
            BY <1>1, <1>6
        <2>2. QED  BY <1>2, <2>1
    <1>7. QED  BY <1>4, <1>5, <1>6 DEF TasksLink

\* A goroutine p goes on to right frames.
LEMMA LinkStep ==
    ASSUME NEW depth, DerefInv, LinkInv(depth), IdsKeep, DbLink', Owed', TasksLink,
           NEW p \in Procs, NEW f, NEW g, NEW h, Goes(p, f, g, h),
           f = st[p] \/ StLink(f)', g = ac[p] \/ AcLink(g)', h = th[p] \/ ThLink(depth, h)', Waits(f, h)
    PROVE  LinkInv(depth)'
    <1>1. st \in [Procs -> StFrames] /\ ac \in [Procs -> AcFrames] /\ th \in [Procs -> ThFrames]
        BY DEF DerefInv, Frames
    <1>2. /\ st'[p] = f /\ ac'[p] = g /\ th'[p] = h
          /\ \A q \in Procs : q # p => st'[q] = st[q] /\ ac'[q] = ac[q] /\ th'[q] = th[q]
        BY <1>1 DEF Goes
    <1>3. ASSUME NEW q \in Procs
          PROVE  \A x, y, z : x = st[q] /\ y = ac[q] /\ z = th[q] => StLink(x)' /\ AcLink(y)' /\ ThLink(depth, z)'
        <2>1. StGood(st[q]) /\ AcGood(ac[q]) /\ StLink(st[q]) /\ AcLink(ac[q]) /\ ThLink(depth, th[q])
            BY DEF DerefInv, Frames, LinkInv
        <2>2. QED  BY <2>1, LinkStays
    <1>4. StLink(f)' /\ AcLink(g)' /\ ThLink(depth, h)'
        BY <1>3
    <1>5. ASSUME NEW q \in Procs
          PROVE  StLink(st[q])' /\ AcLink(ac[q])' /\ ThLink(depth, th[q])' /\ Waits(st[q], th[q])'
        <2>1. PICK x, y, z : x = st'[q] /\ y = ac'[q] /\ z = th'[q]
            OBVIOUS
        <2>2. StLink(x)' /\ AcLink(y)' /\ ThLink(depth, z)' /\ Waits(x, z)
            <3>1. CASE q = p
                BY <1>2, <1>4, <2>1, <3>1
            <3>2. CASE q # p
                <4>1. x = st[q] /\ y = ac[q] /\ z = th[q] /\ Waits(x, z)
                    BY <1>2, <2>1, <3>2 DEF LinkInv
                <4>2. QED  BY <1>3, <4>1
            <3>3. QED  BY <3>1, <3>2
        <2>3. StLink(st[q])'
            BY <2>1, <2>2 DEF StLink, CopyOK
        <2>4. AcLink(ac[q])'
            BY <2>1, <2>2 DEF AcLink
        <2>5. ThLink(depth, th[q])'
            BY <2>1, <2>2 DEF ThLink, CopyOK
        <2>6. Waits(st[q], th[q])'
            BY <2>1, <2>2 DEF Waits
        <2>7. QED  BY <2>3, <2>4, <2>5, <2>6
    <1>6. (\A i \in DOMAIN tasks : TaskLink(tasks[i]))'
        BY TasksLinkStay DEF LinkInv
    <1>7. QED  BY <1>5, <1>6 DEF LinkInv

\* Whoever is at a link stays at it when no thread and no task changes.
LEMMA KeepOwed ==
    ASSUME Owed, IdsKeep, UNCHANGED <<th, tasks>>,
           \A s \in Statuses : \/ s \in wiped'
                               \/ rows'[s].id = rows[s].id /\ rows'[s].parent = rows[s].parent
    PROVE  Owed'
    <1>1. \A s : Token(s) => Token(s)'
        BY DEF Token, Holds
    <1>2. \A s \in Statuses : Due(s)' => s \notin wiped'
        BY DEF Due
    <1>3. QED  BY <1>1, <1>2, OwedStep

\* A goroutine goes on, and nothing is written.
LEMMA ControlLink ==
    ASSUME NEW depth, DerefInv, LinkInv(depth), UNCHANGED <<db, gone, failed, th, tasks>>,
           NEW p \in Procs, NEW f, NEW g,
           st' = [st EXCEPT ![p] = f] \/ (UNCHANGED st /\ f = st[p]),
           ac' = [ac EXCEPT ![p] = g] \/ (UNCHANGED ac /\ g = ac[p]),
           f = st[p] \/ StLink(f), g = ac[p] \/ AcLink(g), Waits(f, th[p])
    PROVE  LinkInv(depth)'
    <1>1. DbLink /\ Owed
        BY DEF LinkInv
    <1>2. IdsKeep /\ DbLink' /\ \A s \in Statuses : rows'[s] = rows[s]
        BY <1>1, SameLink
    <1>3. Owed'
        BY <1>1, <1>2, KeepOwed
    <1>4. (StLink(f) => StLink(f)') /\ (AcLink(g) => AcLink(g)')
        BY DEF StLink, AcLink, CopyOK, LinkOK, db
    <1>5. PICK h : h = th[p]
        OBVIOUS
    <1>6. Goes(p, f, g, h) /\ Waits(f, h)
        BY <1>5 DEF Goes
    <1>7. TasksLink
        BY DEF TasksLink
    <1>8. QED  BY <1>2, <1>3, <1>4, <1>5, <1>6, <1>7, LinkStep

\* What LinkInv says of one goroutine and of the database.
LEMMA LinkFacts ==
    ASSUME NEW depth, LinkInv(depth), NEW p \in Procs
    PROVE  /\ StLink(st[p]) /\ AcLink(ac[p]) /\ ThLink(depth, th[p]) /\ Waits(st[p], th[p])
           /\ DbLink /\ Owed
           /\ \A s \in Statuses : CopyOK(s, rows[s]) /\ CopyOK(s, cached[s])
           /\ st[p].pc # "idle" => /\ CopyOK(Canon[st[p].addr], st[p].copy)
                                   /\ st[p].new \/ st[p].copy.id # 0
    BY DEF LinkInv, DbLink, StLink

\* The frame of enrichStatusSafely.
LEMMA EnrichLink ==
    ASSUME NEW addr, NEW obj, CopyOK(Canon[addr], obj), NEW ver, NEW f, f = Enrich(addr, obj, ver)
    PROVE  StLink(f) /\ f.addr = addr
    <1>1. f.pc = "lock" /\ f.addr = addr /\ f.copy = obj /\ f.new = (obj.id = 0)
        BY DEF Enrich
    <1>2. QED  BY <1>1 DEF StLink

\* A request for a status, or a message that brings one.
LEMMA AskStatusLink ==
    ASSUME NEW depth, DerefInv, LinkInv(depth), NEW p \in Procs,
           \/ \E addr \in Addresses : GetStatusByURI(p, addr)
           \/ \E s \in Statuses, v \in 1..MaxVersion : CreateStatus(p, s, v) \/ UpdateStatus(p, s, v)
    PROVE  LinkInv(depth)'
    <1>1. UNCHANGED <<db, gone, failed, th, tasks>> /\ UNCHANGED ac /\ th[p] = IdleTh
        BY DEF GetStatusByURI, CreateStatus, UpdateStatus, Call, Idle
    <1>2. \A s \in Statuses : CopyOK(s, cached[s]) /\ CopyOK(s, None) /\ Canon[s] = s
        BY LinkFacts, NoneOK, KeyFacts
    <1>3. \E addr, obj, ver : st' = [st EXCEPT ![p] = Enrich(addr, obj, ver)] /\ CopyOK(Canon[addr], obj)
        <2>1. ASSUME NEW addr \in Addresses, GetStatusByURI(p, addr)
              PROVE  \E obj : st' = [st EXCEPT ![p] = Enrich(addr, obj, 0)] /\ CopyOK(Canon[addr], obj)
            <3>1. CopyOK(Canon[addr], Lookup(addr))
                BY <1>2, KeyFacts DEF Lookup
            <3>2. QED  BY <2>1, <3>1 DEF GetStatusByURI
        <2>2. ASSUME NEW s \in Statuses, NEW v, CreateStatus(p, s, v)
              PROVE  st' = [st EXCEPT ![p] = Enrich(s, None, v)] /\ CopyOK(Canon[s], None)
            BY <1>2, <2>2 DEF CreateStatus
        <2>3. ASSUME NEW s \in Statuses, NEW v, UpdateStatus(p, s, v)
              PROVE  st' = [st EXCEPT ![p] = Enrich(s, cached[s], v)] /\ CopyOK(Canon[s], cached[s])
            BY <1>2, <2>3 DEF UpdateStatus
        <2>4. QED  BY <2>1, <2>2, <2>3
    <1>4. PICK addr, obj, ver : st' = [st EXCEPT ![p] = Enrich(addr, obj, ver)] /\ CopyOK(Canon[addr], obj)
        BY <1>3
    <1>5. PICK f, g : f = Enrich(addr, obj, ver) /\ g = ac[p]
        OBVIOUS
    <1>6. StLink(f)
        BY <1>4, <1>5, EnrichLink
    <1>7. Waits(f, th[p])
        BY <1>1, IdleFacts DEF Waits
    <1>8. st' = [st EXCEPT ![p] = f]
        BY <1>4, <1>5
    <1>9. QED  BY <1>1, <1>5, <1>6, <1>7, <1>8, ControlLink

\* A request for an account, or a message that brings one.
LEMMA AskAccountLink ==
    ASSUME NEW depth, DerefInv, LinkInv(depth), NEW p \in Procs, NEW a, NEW key, NEW obj, NEW ver,
           ac' = [ac EXCEPT ![p] = EnrichAccount(a, key, obj, ver)],
           UNCHANGED <<db, gone, failed, st, th, tasks>>
    PROVE  LinkInv(depth)'
    <1>1. PICK f, g : f = st[p] /\ g = EnrichAccount(a, key, obj, ver)
        OBVIOUS
    <1>2. AcLink(g)
        BY <1>1 DEF AcLink, EnrichAccount
    <1>3. Waits(f, th[p])
        BY <1>1, LinkFacts
    <1>4. ac' = [ac EXCEPT ![p] = g] /\ UNCHANGED st /\ UNCHANGED <<db, gone, failed, th, tasks>>
        BY <1>1
    <1>5. QED  BY <1>1, <1>2, <1>3, <1>4, ControlLink

\* The lock is taken, or the author known.
LEMMA StPcLink ==
    ASSUME NEW depth, DerefInv, LinkInv(depth), NEW p \in Procs, st[p].pc # "idle",
           NEW c \in {"fetch", "author", "convert"}, st' = [st EXCEPT ![p].pc = c],
           NEW g, ac' = [ac EXCEPT ![p] = g] \/ (UNCHANGED ac /\ g = ac[p]), g = ac[p] \/ AcLink(g),
           UNCHANGED <<db, gone, failed, th, tasks>>
    PROVE  LinkInv(depth)'
    <1>1. st \in [Procs -> StFrames] /\ st[p] \in StFrames
        BY DEF DerefInv, Frames
    <1>2. PICK f : f = [st[p] EXCEPT !.pc = c]
        OBVIOUS
    <1>3. f.pc = c /\ f.addr = st[p].addr /\ f.new = st[p].new /\ f.copy = st[p].copy
        BY <1>1, <1>2 DEF StFrames
    <1>4. StLink(f) /\ Waits(f, th[p])
        BY <1>3, LinkFacts DEF StLink, Waits
    <1>5. st' = [st EXCEPT ![p] = f]
        BY <1>2
    <1>6. QED  BY <1>4, <1>5, ControlLink

\* The account's caller is told of an error only after a failure.
LEMMA ReturnAccountLink ==
    ASSUME NEW p \in Procs, NEW err \in BOOLEAN, ReturnAccount(p, err), err => failed'
    PROVE  \E g : ac' = [ac EXCEPT ![p] = g] /\ AcLink(g)'
    <1>1. PICK g : g = IF st[p].pc = "author" THEN [IdleAc EXCEPT !.pc = "done", !.err = err] ELSE IdleAc
        OBVIOUS
    <1>2. g.pc \in {"done", "idle"} /\ g.err \in {FALSE, err}
        BY <1>1 DEF IdleAc
    <1>3. AcLink(g)'
        BY <1>2 DEF AcLink
    <1>4. QED  BY <1>1, <1>3 DEF ReturnAccount

\* The status is fetched.
LEMMA FetchStatusLink ==
    ASSUME NEW depth, DerefInv, LinkInv(depth), NEW p \in Procs, FetchStatus(p)
    PROVE  LinkInv(depth)'
    <1> DEFINE s == Canon[st[p].addr]
    <1>1. st \in [Procs -> StFrames] /\ st[p] \in StFrames /\ st[p].pc = "fetch" /\ s \in Statuses
        BY FrameFacts DEF DerefInv, Frames, FetchStatus
    <1>2. PICK f : f = [st[p] EXCEPT !.pc = "author", !.ver = version[s],
                         !.copy = IF st[p].addr \in Redirects /\ cached[s].id # 0 THEN cached[s] ELSE st[p].copy]
        OBVIOUS
    <1>3. /\ f.pc = "author" /\ f.addr = st[p].addr /\ f.new = st[p].new
          /\ f.copy = st[p].copy \/ (f.copy = cached[s] /\ cached[s].id # 0)
        BY <1>1, <1>2 DEF StFrames
    <1>4. StLink(f) /\ Waits(f, th[p])
        BY <1>1, <1>3, LinkFacts DEF StLink, Waits
    <1>5. st' = [st EXCEPT ![p] = f] /\ UNCHANGED <<db, gone, failed, th, tasks>> /\ UNCHANGED ac
        BY <1>1, <1>2 DEF FetchStatus, StFrames, env
    <1>6. PICK g : g = ac[p]
        OBVIOUS
    <1>7. QED  BY <1>4, <1>5, <1>6, ControlLink

\* How far up the ancestors of each status reach.
Depths(depth) ==
    /\ depth \in [Statuses -> 0..MaxIter]
    /\ \A s \in Statuses : InReplyTo[s] # NoStatus => depth[InReplyTo[s]] < depth[s]

\* The lock is taken; the author is there, or asked for.
LEMMA StControlLink ==
    ASSUME NEW depth, DerefInv, LinkInv(depth), NEW p \in Procs, LockStatus(p) \/ GetAuthor(p)
    PROVE  LinkInv(depth)'
    <1>1. UNCHANGED <<db, gone, failed, th, tasks>> /\ st[p].pc \in {"lock", "author"}
        BY DEF LockStatus, GetAuthor, env
    <1>2. CASE UNCHANGED ac
        <2>1. PICK c \in {"fetch", "author", "convert"} : st' = [st EXCEPT ![p].pc = c] \/ UNCHANGED st
            BY <1>2 DEF LockStatus, GetAuthor
        <2>2. PICK f, g : f = st[p] /\ g = ac[p]
            OBVIOUS
        <2>3. Waits(f, th[p])
            BY <2>2, LinkFacts
        <2>4. CASE UNCHANGED st
            BY <1>1, <1>2, <2>2, <2>3, <2>4, ControlLink
        <2>5. CASE st' = [st EXCEPT ![p].pc = c]
            BY <1>1, <1>2, <2>2, <2>5, StPcLink
        <2>6. QED  BY <2>1, <2>4, <2>5
    <1>3. CASE ~ UNCHANGED ac
        <2>1. GetAuthor(p) /\ UNCHANGED st
            BY <1>3 DEF LockStatus, GetAuthor
        <2>2. PICK a, key, obj, ver : ac' = [ac EXCEPT ![p] = EnrichAccount(a, key, obj, ver)]
            BY <1>3, <2>1 DEF GetAuthor
        <2>3. UNCHANGED <<db, gone, failed, st, th, tasks>>
            BY <1>1, <2>1
        <2>4. QED  BY <2>2, <2>3, AskAccountLink
    <1>4. QED  BY <1>2, <1>3

\* The thread of a goroutine that gets its answer.
LEMMA AnswerLink ==
    ASSUME NEW depth, Depths(depth), DerefInv, LinkInv(depth), IdsKeep, NEW p \in Procs, st[p].pc # "idle",
           NEW s, s = Canon[st[p].addr], NEW obj \in Objects, CopyOK(s, obj)',
           NEW fetched \in BOOLEAN, NEW err \in Errors, Return(p, s, obj, fetched, err),
           th[p].pc = "wait" => /\ err = "gone" => s \in gone'
                                /\ failed' \/ s \in gone' \cup wiped' \/ (obj.id # 0 /\ err = "none"),
           fetched => obj.id # 0 /\ err = "none"
    PROVE  \E h : /\ th' = [th EXCEPT ![p] = h]
                  /\ h = th[p] \/ ThLink(depth, h)'
                  /\ h.pc # "wait" /\ TasksLink
                  /\ UNCHANGED tasks \/ (\E t \in Tasks : tasks' = Append(tasks, t))
                  /\ \A x : Holds(th[p], x) => Holds(h, x)
                  /\ fetched /\ obj.parent = 0 => Token(s)'
    <1>1. th \in [Procs -> ThFrames] /\ th[p] \in ThFrames /\ s \in Statuses
        BY FrameFacts DEF DerefInv, Frames
    <1>2. th[p].pc \in {"idle", "wait"} /\ (th[p].pc = "idle" => th[p] = IdleTh)
        BY <1>1, FrameFacts DEF Linked, ThGood, ThFrames
    <1>3. CASE th[p].pc = "wait"
        <2>1. PICK h : h = [th[p] EXCEPT !.pc = "parent", !.found = obj, !.err = err]
            OBVIOUS
        <2>2. /\ h.pc = "parent" /\ h.uri = th[p].uri /\ h.copy = th[p].copy /\ h.seen = th[p].seen
              /\ h.n = th[p].n /\ h.found = obj /\ h.err = err
            BY <1>1, <2>1 DEF ThFrames
        <2>3. th' = [th EXCEPT ![p] = h] /\ UNCHANGED tasks
            BY <1>1, <1>3, <2>1 DEF Return
        <2>4. s = InReplyTo[h.uri]
            BY <1>3, <2>2, FrameFacts DEF Linked
        <2>5. ThLink(depth, h)'
            <3>1. ThLink(depth, th[p])
                BY LinkFacts
            <3>2. /\ CopyOK(h.uri, h.copy) /\ h.copy.id # 0
                  /\ h.n + depth[InReplyTo[h.uri]] <= MaxIter
                  /\ \A x \in h.seen : depth[InReplyTo[h.uri]] <= depth[x]
                BY <1>3, <2>2, <3>1 DEF ThLink
            <3>3. CopyOK(h.uri, h.copy)'
                BY <3>2, CopyStays
            <3>4. CopyOK(InReplyTo[h.uri], h.found)'
                BY <2>2, <2>4
            <3>5. QED  BY <1>3, <2>2, <2>4, <3>2, <3>3, <3>4 DEF ThLink
        <2>6. \A x : Holds(th[p], x) => Holds(h, x)
            BY <1>3, <2>2 DEF Holds
        <2>7. fetched /\ obj.parent = 0 => Holds(h, s)
            BY <2>2, <2>4 DEF Holds
        <2>8. fetched /\ obj.parent = 0 => Token(s)'
            BY <2>3, <2>7, TokenMade
        <2>9. TasksLink
            BY <2>3 DEF TasksLink
        <2>10. QED  BY <2>2, <2>3, <2>5, <2>6, <2>8, <2>9
    <1>4. CASE th[p].pc = "idle" /\ fetched /\ st[p].new
        <2>1. PICK h : h = [IdleTh EXCEPT !.pc = "walk", !.uri = s, !.copy = obj]
            OBVIOUS
        <2>2. h.pc = "walk" /\ h.uri = s /\ h.copy = obj /\ h.seen = {} /\ h.n = 0
            BY <2>1 DEF IdleTh
        <2>3. th' = [th EXCEPT ![p] = h] /\ UNCHANGED tasks
            BY <1>1, <1>4, <2>1 DEF Return
        <2>4. ThLink(depth, h)'
            <3>1. depth[s] \in 0..MaxIter
                BY <1>1 DEF Depths
            <3>2. 0 + depth[s] <= MaxIter
                BY <3>1, BoundsAssumption
            <3>3. QED  BY <1>4, <2>2, <3>2 DEF ThLink
        <2>5. \A x : Holds(th[p], x) => Holds(h, x)
            BY <1>4 DEF Holds
        <2>6. fetched /\ obj.parent = 0 => Holds(h, s)
            BY <2>2 DEF Holds
        <2>7. fetched /\ obj.parent = 0 => Token(s)'
            BY <2>3, <2>6, TokenMade
        <2>8. TasksLink
            BY <2>3 DEF TasksLink
        <2>9. QED  BY <2>2, <2>3, <2>4, <2>5, <2>7, <2>8
    <1>5. CASE th[p].pc = "idle" /\ ~ (fetched /\ st[p].new)
        <2>1. PICK h : h = th[p]
            OBVIOUS
        <2>2. th' = [th EXCEPT ![p] = h]
            BY <1>1, <1>5, <2>1 DEF Return
        <2>3. CASE fetched
            <3>1. PICK t : t = [uri |-> s, copy |-> obj]
                OBVIOUS
            <3>2. t \in Tasks /\ t.uri = s /\ t.copy = obj
                BY <1>1, <3>1 DEF Tasks
            <3>3. tasks' = Append(tasks, t)
                BY <1>5, <2>3, <3>1 DEF Return
            <3>4. TaskLink(t)'
                BY <2>3, <3>2 DEF TaskLink
            <3>5. TasksLink
                BY <3>3, <3>4 DEF TasksLink
            <3>6. obj.parent = 0 => Token(s)'
                BY <2>2, <3>2, <3>3, TokenMade
            <3>7. QED  BY <1>5, <2>1, <2>2, <3>2, <3>3, <3>5, <3>6
        <2>4. CASE ~ fetched
            <3>1. UNCHANGED tasks
                BY <2>4 DEF Return
            <3>2. QED  BY <1>5, <2>1, <2>2, <2>4, <3>1 DEF TasksLink
        <2>5. QED  BY <2>3, <2>4
    <1>6. QED  BY <1>2, <1>3, <1>4, <1>5

\* The answer goes to the walk that waits, to a new walk or to the queue.
LEMMA ReturnLink ==
    ASSUME NEW depth, Depths(depth), DerefInv, LinkInv(depth), IdsKeep, DbLink',
           NEW p \in Procs, st[p].pc # "idle",
           NEW s, s = Canon[st[p].addr], NEW obj \in Objects, CopyOK(s, obj)',
           NEW fetched \in BOOLEAN, NEW err \in Errors, Return(p, s, obj, fetched, err),
           th[p].pc = "wait" => /\ err = "gone" => s \in gone'
                                /\ failed' \/ s \in gone' \cup wiped' \/ (obj.id # 0 /\ err = "none"),
           fetched => obj.id # 0 /\ err = "none",
           NEW g, ac' = [ac EXCEPT ![p] = g] \/ (UNCHANGED ac /\ g = ac[p]), g = ac[p] \/ AcLink(g)',
           \A x \in Statuses :
              Due(x)' => \/ rows'[x].parent # 0
                         \/ rows'[x].id = rows[x].id /\ rows'[x].parent = rows[x].parent
                         \/ x = s /\ fetched /\ obj.parent = 0
    PROVE  LinkInv(depth)'
    <1>1. PICK h : /\ th' = [th EXCEPT ![p] = h]
                   /\ h = th[p] \/ ThLink(depth, h)'
                   /\ h.pc # "wait" /\ TasksLink
                   /\ UNCHANGED tasks \/ (\E t \in Tasks : tasks' = Append(tasks, t))
                   /\ \A x : Holds(th[p], x) => Holds(h, x)
                   /\ fetched /\ obj.parent = 0 => Token(s)'
        BY AnswerLink
    <1>2. \A x : Token(x) => Token(x)'
        BY <1>1, TokenKept
    <1>3. Owed
        BY DEF LinkInv
    <1>4. Owed'
        BY <1>1, <1>2, <1>3, OwedStep
    <1>5. PICK f : f = IdleSt
        OBVIOUS
    <1>6. StLink(f)' /\ Waits(f, h)
        BY <1>1, <1>5, IdleFacts DEF StLink, Waits
    <1>7. Goes(p, f, g, h)
        BY <1>1, <1>5 DEF Goes, Return
    <1>8. QED  BY <1>1, <1>4, <1>6, <1>7, LinkStep

\* fetched_at alone is written.
LEMMA AtKeeps ==
    ASSUME NEW obj \in Objects, NEW n \in Nat, NEW c, c = [obj EXCEPT !.at = n]
    PROVE  c \in Objects /\ c.id = obj.id /\ c.parent = obj.parent /\ c.orphan = obj.orphan
    BY DEF Objects

\* enrichStatus failed.
LEMMA FailLink ==
    ASSUME NEW depth, Depths(depth), DerefInv, LinkInv(depth), NEW p \in Procs,
           st[p].pc \in {"fetch", "author"}, NEW err \in Errors, FailStatus(p, err),
           gone \subseteq gone', failed => failed', failed' \/ Canon[st[p].addr] \in gone',
           err = "gone" => Canon[st[p].addr] \in gone',
           NEW g, ac' = [ac EXCEPT ![p] = g] \/ (UNCHANGED ac /\ g = ac[p]), g = ac[p] \/ AcLink(g)'
    PROVE  LinkInv(depth)'
    <1>1. PICK s : s = Canon[st[p].addr]
        OBVIOUS
    <1>2. /\ s \in Statuses /\ s \in URIs /\ Known(s, st[p].copy) /\ CopyOK(s, st[p].copy)
          /\ st[p].copy \in Objects /\ (st[p].new \/ st[p].copy.id # 0) /\ DbLink
        BY <1>1, FrameFacts, LinkFacts DEF Known
    <1>3. rows \in [URIs -> Objects] /\ rows[s] \in Objects /\ now \in Nat /\ CopyOK(s, rows[s])
        BY <1>2 DEF DerefInv, Stored, DbLink
    <1>4. CASE err \in {"gone", "http"} /\ ~ st[p].new
        <2>1. PICK obj, row : obj = [st[p].copy EXCEPT !.at = now] /\ row = [rows[s] EXCEPT !.at = now]
            OBVIOUS
        <2>2. /\ obj \in Objects /\ obj.id = st[p].copy.id /\ obj.parent = st[p].copy.parent
              /\ obj.orphan = st[p].copy.orphan
              /\ row.id = rows[s].id /\ row.parent = rows[s].parent /\ row.orphan = rows[s].orphan
            BY <1>2, <1>3, <2>1, AtKeeps
        <2>3. Update(s, obj, row) /\ Return(p, s, obj, FALSE, err)
            BY <1>1, <1>4, <2>1 DEF FailStatus, UpdateFetchedAt
        <2>4. CopyOK(s, obj) /\ CopyOK(s, row) /\ Known(s, obj) /\ obj.id # 0
            BY <1>2, <1>3, <1>4, <2>2, CopyLike DEF Known
        <2>5. /\ IdsKeep /\ DbLink'
              /\ \A v \in URIs : v # s => rows'[v] = rows[v]
              /\ rows'[s] = IF rows[s].id = obj.id THEN row ELSE rows[s]
            BY <1>2, <2>2, <2>3, <2>4, UpdateLink
        <2>6. \A x \in Statuses : rows'[x].id = rows[x].id /\ rows'[x].parent = rows[x].parent
            BY <2>2, <2>5, KeyFacts
        <2>7. CopyOK(s, obj)'
            BY <2>4, <2>5, CopyStays
        <2>8. FALSE \in BOOLEAN /\ st[p].pc # "idle"
            OBVIOUS
        <2>9. QED  BY <1>1, <2>2, <2>3, <2>5, <2>6, <2>7, <2>8, ReturnLink
    <1>5. CASE ~ (err \in {"gone", "http"} /\ ~ st[p].new)
        <2>1. PICK obj : obj = IF st[p].new THEN None ELSE st[p].copy
            OBVIOUS
        <2>2. obj \in Objects /\ CopyOK(s, obj)
            BY <1>2, <2>1, ObjectFacts, NoneOK
        <2>3. UNCHANGED db /\ Return(p, s, obj, FALSE, err)
            BY <1>1, <1>5, <2>1 DEF FailStatus
        <2>4. IdsKeep /\ DbLink' /\ \A x \in Statuses : rows'[x] = rows[x]
            BY <1>2, <2>3, SameLink
        <2>5. CopyOK(s, obj)'
            BY <2>2, <2>4, CopyStays
        <2>6. FALSE \in BOOLEAN /\ st[p].pc # "idle"
            OBVIOUS
        <2>7. QED  BY <1>1, <2>2, <2>3, <2>4, <2>5, <2>6, ReturnLink
    <1>6. QED  BY <1>4, <1>5

\* The server does not give the status.
LEMMA StatusUnavailableLink ==
    ASSUME NEW depth, Depths(depth), DerefInv, LinkInv(depth), NEW p \in Procs,
           StatusGone(p) \/ \E err \in {"http", "other"} : StatusUnavailable(p, err)
    PROVE  LinkInv(depth)'
    <1>1. PICK g : g = ac[p]
        OBVIOUS
    <1>2. CASE StatusGone(p)
        <2>1. /\ st[p].pc = "fetch" /\ FailStatus(p, "gone") /\ UNCHANGED ac /\ UNCHANGED <<gone, failed>>
              /\ Canon[st[p].addr] \in gone /\ "gone" \in Errors
            BY <1>2 DEF StatusGone, env, Errors
        <2>2. QED  BY <1>1, <2>1, FailLink
    <1>3. ASSUME NEW err \in {"http", "other"}, StatusUnavailable(p, err)  PROVE LinkInv(depth)'
        <2>1. /\ st[p].pc = "fetch" /\ FailStatus(p, err) /\ UNCHANGED ac /\ UNCHANGED gone /\ failed' = TRUE
              /\ err \in Errors
            BY <1>3 DEF StatusUnavailable, Errors
        <2>2. QED  BY <1>1, <2>1, FailLink
    <1>4. QED  BY <1>2, <1>3

\* The author is there, or is not.
LEMMA AuthorDoneLink ==
    ASSUME NEW depth, Depths(depth), DerefInv, LinkInv(depth), NEW p \in Procs, AuthorDone(p)
    PROVE  LinkInv(depth)'
    <1>1. /\ st[p].pc = "author" /\ ac' = [ac EXCEPT ![p] = IdleAc] /\ UNCHANGED <<gone, failed>>
        BY DEF AuthorDone, env
    <1>2. PICK g : g = IdleAc
        OBVIOUS
    <1>3. AcLink(g) /\ AcLink(g)' /\ ac' = [ac EXCEPT ![p] = g]
        BY <1>1, <1>2 DEF AcLink, IdleAc
    <1>4. CASE ac[p].err /\ st[p].copy.id = 0
        <2>1. failed
            BY <1>4, LinkFacts DEF AcLink
        <2>2. FailStatus(p, "other") /\ "other" \in Errors
            BY <1>4 DEF AuthorDone, Errors
        <2>3. QED  BY <1>1, <1>3, <2>1, <2>2, FailLink
    <1>5. CASE ~ (ac[p].err /\ st[p].copy.id = 0)
        <2>1. st' = [st EXCEPT ![p].pc = "convert"] /\ UNCHANGED <<db, gone, failed, th, tasks>>
            BY <1>1, <1>5 DEF AuthorDone
        <2>2. QED  BY <1>1, <1>3, <2>1, StPcLink
    <1>6. QED  BY <1>4, <1>5

\* The status is converted, or deleted because its author is suspended.
LEMMA ConvertLink ==
    ASSUME NEW depth, Depths(depth), DerefInv, LinkInv(depth), NEW p \in Procs, ConvertStatus(p)
    PROVE  LinkInv(depth)'
    <1>1. PICK s, g : s = Canon[st[p].addr] /\ g = ac[p]
        OBVIOUS
    <1>2. /\ st[p].pc = "convert" /\ UNCHANGED <<gone, ac>>
        BY DEF ConvertStatus
    <1>3. /\ s \in Statuses /\ s \in URIs /\ CopyOK(s, st[p].copy) /\ st[p] \in StFrames
          /\ st[p].copy \in Objects /\ (st[p].new \/ st[p].copy.id # 0) /\ DbLink
        BY <1>1, <1>2, FrameFacts, LinkFacts DEF Known
    <1>4. CASE cached[Author[s]].susp
        <2>1. PICK obj : obj = IF st[p].new THEN None ELSE st[p].copy
            OBVIOUS
        <2>2. obj \in Objects /\ CopyOK(s, obj)
            BY <1>3, <2>1, ObjectFacts, NoneOK
        <2>3. /\ Return(p, s, obj, FALSE, "other") /\ failed' = TRUE
              /\ UNCHANGED db \/ DeleteStatusByID(s, st[p].copy.id)
            BY <1>1, <1>4, <2>1 DEF ConvertStatus
        <2>4. IdsKeep /\ DbLink'
            BY <1>2, <1>3, <2>3, SameLink, DeleteLink
        <2>5. CopyOK(s, obj)'
            BY <2>2, <2>4, CopyStays
        <2>6. \A x \in Statuses : ~ Due(x)'
            BY <2>3 DEF Due
        <2>7. FALSE \in BOOLEAN /\ st[p].pc # "idle" /\ "other" \in Errors /\ failed'
            BY <1>2, <2>3 DEF Errors
        <2>8. QED  BY <1>1, <1>2, <2>2, <2>3, <2>4, <2>5, <2>6, <2>7, ReturnLink
    <1>5. CASE ~ cached[Author[s]].susp
        <2>1. PICK n : n = IF InReplyTo[s] = NoStatus THEN 0 ELSE cached[InReplyTo[s]].id
            OBVIOUS
        <2>2. PICK f : f = [st[p] EXCEPT !.pc = "store", !.parent = n]
            OBVIOUS
        <2>3. f.pc = "store" /\ f.addr = st[p].addr /\ f.new = st[p].new /\ f.copy = st[p].copy /\ f.parent = n
            BY <1>3, <2>2 DEF StFrames
        <2>4. /\ st' = [st EXCEPT ![p].pc = "store", ![p].parent = n]
              /\ UNCHANGED <<db, gone, failed, th, tasks>>
            BY <1>1, <1>2, <1>5, <2>1 DEF ConvertStatus
        <2>5. st' = [st EXCEPT ![p] = f]
            <3>1. st \in [Procs -> StFrames]
                BY DEF DerefInv, Frames
            <3>2. QED  BY <2>2, <2>4, <3>1 DEF StFrames
        <2>6. LinkOK(s, n)
            <3>1. InReplyTo[s] \in Statuses \ wiped => InReplyTo[s] # NoStatus /\ InReplyTo[s] \in URIs
                BY AddressesAssumption, KeyFacts
            <3>2. QED  BY <1>3, <2>1, <3>1 DEF LinkOK, DbLink
        <2>7. StLink(f) /\ Waits(f, th[p])
            BY <1>1, <1>3, <2>3, <2>6, LinkFacts DEF StLink, Waits
        <2>8. QED  BY <1>1, <1>2, <2>4, <2>5, <2>7, ControlLink
    <1>6. QED  BY <1>4, <1>5

\* The status is stored: it is linked, or its thread will be walked.
LEMMA StoreStatusLink ==
    ASSUME NEW depth, Depths(depth), DerefInv, LinkInv(depth), NEW p \in Procs, StoreStatus(p)
    PROVE  LinkInv(depth)'
    <1>1. PICK s, g : s = Canon[st[p].addr] /\ g = ac[p]
        OBVIOUS
    <1>2. st[p].pc = "store" /\ UNCHANGED <<gone, failed>> /\ UNCHANGED ac
        BY DEF StoreStatus, env
    <1>3. /\ s \in Statuses /\ s \in URIs /\ CopyOK(s, st[p].copy) /\ st[p] \in StFrames
          /\ st[p].copy \in Objects /\ (st[p].new \/ st[p].copy.id # 0) /\ DbLink /\ Known(s, st[p].copy)
        BY <1>1, <1>2, FrameFacts, LinkFacts DEF Known
    <1>4. PICK obj : obj = [None EXCEPT !.id = IF st[p].copy.id = 0 THEN nextID[s] ELSE st[p].copy.id,
                                       !.ver = st[p].ver, !.at = now, !.parent = st[p].parent]
        OBVIOUS
    <1>5. /\ nextID[s] \in Nat /\ 0 < nextID[s] /\ now \in Nat /\ st[p].ver \in Nat /\ st[p].parent \in Nat
          /\ st[p].copy.id \in Nat
        BY <1>3 DEF DerefInv, Stored, StFrames, Objects
    <1>6. obj = [id |-> IF st[p].copy.id = 0 THEN nextID[s] ELSE st[p].copy.id, ver |-> st[p].ver, at |-> now,
                 parent |-> st[p].parent, orphan |-> FALSE, susp |-> FALSE]
        BY <1>4 DEF None
    <1>7. /\ obj \in Objects /\ obj.parent = st[p].parent /\ obj.id # 0 /\ obj.orphan = FALSE
          /\ st[p].copy.id # 0 => obj.id = st[p].copy.id
        BY <1>5, <1>6 DEF Objects
    <1>8. CopyOK(s, obj)
        <2>1. LinkOK(s, st[p].parent)
            BY <1>1, <1>2, LinkFacts DEF StLink
        <2>2. QED  BY <1>7, <2>1 DEF CopyOK
    <1>9. CASE st[p].copy.id = 0 /\ rows[s].id # 0
        <2>1. st' = [st EXCEPT ![p].pc = "race"] /\ UNCHANGED <<db, gone, failed, th, tasks>>
            BY <1>1, <1>2, <1>9 DEF StoreStatus
        <2>2. PICK f : f = [st[p] EXCEPT !.pc = "race"]
            OBVIOUS
        <2>3. f.pc = "race" /\ f.addr = st[p].addr /\ f.new = st[p].new /\ f.copy = st[p].copy
            BY <1>3, <2>2 DEF StFrames
        <2>4. StLink(f) /\ Waits(f, th[p])
            BY <1>1, <1>3, <1>9, <2>3, LinkFacts DEF StLink, Waits
        <2>5. st' = [st EXCEPT ![p] = f]
            BY <2>1, <2>2
        <2>6. QED  BY <1>1, <1>2, <2>1, <2>4, <2>5, ControlLink
    <1>10. CASE ~ (st[p].copy.id = 0 /\ rows[s].id # 0)
        <2>1. /\ Return(p, s, obj, TRUE, "none")
              /\ IF st[p].copy.id = 0 THEN Put(s, obj) ELSE Update(s, obj, obj)
            BY <1>1, <1>4, <1>10 DEF StoreStatus
        <2>2. /\ IdsKeep /\ DbLink'
              /\ \A v \in URIs : v # s => rows'[v] = rows[v]
              /\ rows'[s] = obj \/ rows'[s] = rows[s]
            <3>1. CASE st[p].copy.id = 0
                BY <1>2, <1>3, <1>8, <1>10, <2>1, <3>1, PutLink
            <3>2. CASE st[p].copy.id # 0
                <4>1. Known(s, obj)
                    BY <1>3, <1>7, <3>2 DEF Known
                <4>2. PICK row : row = obj
                    OBVIOUS
                <4>3. Update(s, obj, row) /\ row.id = obj.id /\ CopyOK(s, row)
                    BY <1>8, <2>1, <3>2, <4>2
                <4>4. QED  BY <1>2, <1>3, <1>7, <1>8, <4>1, <4>2, <4>3, UpdateLink
            <3>3. QED  BY <3>1, <3>2
        <2>3. CopyOK(s, obj)'
            BY <1>8, <2>2, CopyStays
        <2>4. PICK fetched \in BOOLEAN, err \in Errors : fetched = TRUE /\ err = "none"
            BY DEF Errors
        <2>5. \A x \in Statuses :
                Due(x)' => \/ rows'[x].parent # 0
                           \/ rows'[x].id = rows[x].id /\ rows'[x].parent = rows[x].parent
                           \/ x = s /\ fetched /\ obj.parent = 0
            BY <2>2, <2>4, KeyFacts
        <2>6. /\ st[p].pc # "idle" /\ Return(p, s, obj, fetched, err) /\ (fetched => obj.id # 0 /\ err = "none")
              /\ err # "gone" /\ obj.id # 0 /\ err = "none"
            BY <1>2, <1>7, <2>1, <2>4
        <2>7. obj \in Objects /\ UNCHANGED ac
            BY <1>2, <1>7
        <2>8. QED  BY <1>1, <2>2, <2>3, <2>5, <2>6, <2>7, ReturnLink
    <1>11. QED  BY <1>9, <1>10

\* The loser of the race finds the winner, unless it was asked for a URL.
LEMMA StatusRaceLink ==
    ASSUME NEW depth, Depths(depth), DerefInv, LinkInv(depth), NEW p \in Procs, StatusRace(p)
    PROVE  LinkInv(depth)'
    <1>1. PICK s, g : s = Canon[st[p].addr] /\ g = ac[p]
        OBVIOUS
    <1>2. st[p].pc = "race" /\ UNCHANGED <<gone, failed>> /\ UNCHANGED ac /\ UNCHANGED db
        BY DEF StatusRace, env
    <1>3. s \in Statuses /\ s \in URIs /\ DbLink /\ CopyOK(s, cached[s]) /\ cached[s] \in Objects
        BY <1>1, <1>2, FrameFacts, LinkFacts DEF DerefInv, Stored
    <1>4. PICK obj : obj = IF st[p].addr \in Statuses THEN cached[st[p].addr] ELSE None
        OBVIOUS
    <1>5. PICK err : err = IF obj.id = 0 THEN "other" ELSE "none"
        OBVIOUS
    <1>6. Return(p, s, obj, FALSE, err) /\ err \in Errors /\ err # "gone"
        BY <1>1, <1>4, <1>5 DEF StatusRace, Errors
    <1>7. obj \in Objects /\ CopyOK(s, obj)
        BY <1>1, <1>3, <1>4, KeyFacts, ObjectFacts, NoneOK
    <1>8. IdsKeep /\ DbLink' /\ \A x \in Statuses : rows'[x] = rows[x]
        BY <1>2, <1>3, SameLink
    <1>9. CopyOK(s, obj)'
        BY <1>7, <1>8, CopyStays
    <1>10. th[p].pc = "wait" => s \in gone' \cup wiped' \/ (obj.id # 0 /\ err = "none")
        <2> SUFFICES ASSUME th[p].pc = "wait", s \notin wiped'  PROVE obj.id # 0
            BY <1>5
        <2>1. st[p].addr \in Statuses
            <3>1. st[p].addr = InReplyTo[th[p].uri]
                BY LinkFacts DEF Waits
            <3>2. InReplyTo[th[p].uri] \in Statuses
                BY FrameFacts DEF ThGood
            <3>3. QED  BY <3>1, <3>2
        <2>2. obj = cached[s]
            BY <1>1, <1>4, <2>1, KeyFacts
        <2>3. rows[s].id # 0
            BY <1>1, <1>2, LinkFacts DEF StLink, db
        <2>4. cached[s].id = rows[s].id
            BY <1>2, <1>3 DEF DbLink, db
        <2>5. QED  BY <2>2, <2>3, <2>4
    <1>11. FALSE \in BOOLEAN /\ st[p].pc # "idle"
        BY <1>2
    <1>12. QED  BY <1>1, <1>2, <1>6, <1>7, <1>8, <1>9, <1>10, <1>11, ReturnLink

-----------------------------------------------------------------------------
(***************************************************************************)
(* Links: the steps at accounts                                            *)
(***************************************************************************)
\* The goroutine goes on at its account.
LEMMA AcControlLink ==
    ASSUME NEW depth, DerefInv, LinkInv(depth), NEW p \in Procs, LockAccount(p) \/ startHandshake(p) \/ FetchAccount(p)
    PROVE  LinkInv(depth)'
    <1>1. UNCHANGED <<db, gone, failed, th, tasks>> /\ UNCHANGED st
        BY DEF LockAccount, startHandshake, FetchAccount, env
    <1>2. ac \in [Procs -> AcFrames] /\ ac[p] \in AcFrames
        BY DEF DerefInv, Frames
    <1>3. \E g : ac' = [ac EXCEPT ![p] = g] /\ g.pc # "race" /\ g.err = ac[p].err
        <2>1. ASSUME NEW c, c # "race", ac' = [ac EXCEPT ![p].pc = c]
              PROVE  \E g : ac' = [ac EXCEPT ![p] = g] /\ g.pc # "race" /\ g.err = ac[p].err
            <3>1. PICK g : g = [ac[p] EXCEPT !.pc = c]
                OBVIOUS
            <3>2. g.pc = c /\ g.err = ac[p].err
                BY <1>2, <3>1 DEF AcFrames
            <3>3. QED  BY <2>1, <3>1, <3>2
        <2>2. CASE FetchAccount(p)
            <3>1. PICK g : g = [ac[p] EXCEPT !.pc = "store", !.ver = version[ac[p].uri]]
                OBVIOUS
            <3>2. g.pc = "store" /\ g.err = ac[p].err
                BY <1>2, <3>1 DEF AcFrames
            <3>3. ac' = [ac EXCEPT ![p] = g]
                BY <1>2, <2>2, <3>1 DEF FetchAccount, AcFrames
            <3>4. QED  BY <3>2, <3>3
        <2>3. QED  BY <2>1, <2>2 DEF LockAccount, startHandshake
    <1>4. PICK g : ac' = [ac EXCEPT ![p] = g] /\ g.pc # "race" /\ g.err = ac[p].err
        BY <1>3
    <1>5. AcLink(g)
        BY <1>4, LinkFacts DEF AcLink
    <1>6. PICK f : f = st[p]
        OBVIOUS
    <1>7. Waits(f, th[p])
        BY <1>6, LinkFacts
    <1>8. QED  BY <1>1, <1>4, <1>5, <1>6, <1>7, ControlLink

\* An account was written, and the goroutine is done with it.
LEMMA AcWriteLink ==
    ASSUME NEW depth, DerefInv, LinkInv(depth), NEW p \in Procs, IdsKeep, DbLink',
           \A s \in Statuses : rows'[s] = rows[s], UNCHANGED <<st, th, tasks>>,
           NEW g, ac' = [ac EXCEPT ![p] = g], AcLink(g)'
    PROVE  LinkInv(depth)'
    <1>1. PICK f, h : f = st[p] /\ h = th[p]
        OBVIOUS
    <1>2. Waits(f, h) /\ Owed
        BY <1>1, LinkFacts
    <1>3. Owed'
        BY <1>2, KeepOwed
    <1>4. Goes(p, f, g, h) /\ TasksLink
        BY <1>1 DEF Goes, TasksLink
    <1>5. QED  BY <1>1, <1>2, <1>3, <1>4, LinkStep

\* The fetch failed.
LEMMA AccountUnavailableLink ==
    ASSUME NEW depth, DerefInv, LinkInv(depth), NEW p \in Procs, NEW err, AccountUnavailable(p, err)
    PROVE  LinkInv(depth)'
    <1>1. /\ ac[p].pc = "fetch" /\ failed' = TRUE /\ UNCHANGED gone /\ UNCHANGED <<st, th, tasks>>
          /\ ReturnAccount(p, ac[p].copy.id = 0) /\ (ac[p].copy.id = 0) \in BOOLEAN
        BY DEF AccountUnavailable
    <1>2. PICK g : ac' = [ac EXCEPT ![p] = g] /\ AcLink(g)'
        BY <1>1, ReturnAccountLink
    <1>3. PICK a : a = ac[p].uri
        OBVIOUS
    <1>4. /\ a \in URIs /\ a \in Accounts /\ a \notin Statuses /\ Known(a, ac[p].copy) /\ DbLink
          /\ ac[p].copy \in Objects /\ rows[a] \in Objects /\ now \in Nat
        BY <1>1, <1>3, FrameFacts, KeyFacts, LinkFacts DEF AcGood, Known, DerefInv, Stored
    <1>5. IdsKeep /\ DbLink' /\ \A s \in Statuses : rows'[s] = rows[s]
        <2>1. CASE UNCHANGED db
            BY <1>1, <1>4, <2>1, SameLink
        <2>2. CASE UpdateFetchedAt(a, ac[p].copy) /\ ac[p].copy.id # 0
            <3>1. PICK obj, row : obj = [ac[p].copy EXCEPT !.at = now] /\ row = [rows[a] EXCEPT !.at = now]
                OBVIOUS
            <3>2. obj \in Objects /\ obj.id = ac[p].copy.id /\ row.id = rows[a].id
                BY <1>4, <3>1, AtKeeps
            <3>3. Update(a, obj, row) /\ Known(a, obj) /\ obj.id # 0
                BY <1>4, <2>2, <3>1, <3>2 DEF UpdateFetchedAt, Known
            <3>4. IdsKeep /\ DbLink' /\ \A v \in URIs : v # a => rows'[v] = rows[v]
                BY <1>1, <1>4, <3>2, <3>3, UpdateLink
            <3>5. QED  BY <1>4, <3>4, KeyFacts
        <2>3. QED  BY <1>3, <2>1, <2>2 DEF AccountUnavailable
    <1>6. QED  BY <1>1, <1>2, <1>5, AcWriteLink

\* The account is stored.
LEMMA StoreAccountLink ==
    ASSUME NEW depth, DerefInv, LinkInv(depth), NEW p \in Procs, StoreAccount(p)
    PROVE  LinkInv(depth)'
    <1>1. PICK a : a = ac[p].uri
        OBVIOUS
    <1>2. ac[p].pc = "store" /\ UNCHANGED <<gone, failed>> /\ UNCHANGED <<st, th, tasks>>
        BY DEF StoreAccount, env
    <1>3. /\ a \in URIs /\ a \in Accounts /\ a \notin Statuses /\ Known(a, ac[p].copy) /\ DbLink
          /\ ac \in [Procs -> AcFrames] /\ ac[p] \in AcFrames
        BY <1>1, <1>2, FrameFacts, KeyFacts, LinkFacts DEF AcGood, DerefInv, Frames
    <1>4. PICK obj : obj = [None EXCEPT !.id = IF ac[p].copy.id = 0 THEN nextID[a] ELSE ac[p].copy.id,
                                       !.ver = ac[p].ver, !.at = now]
        OBVIOUS
    <1>5. CASE ac[p].copy.id = 0 /\ rows[a].id # 0
        <2>1. ac' = [ac EXCEPT ![p].pc = "race"] /\ UNCHANGED db
            BY <1>1, <1>5 DEF StoreAccount
        <2>2. PICK g : g = [ac[p] EXCEPT !.pc = "race"]
            OBVIOUS
        <2>3. g.uri = a /\ g.err = ac[p].err
            BY <1>1, <1>3, <2>2 DEF AcFrames
        <2>4. AcLink(g)
            BY <1>5, <2>3, LinkFacts DEF AcLink
        <2>5. ac' = [ac EXCEPT ![p] = g]
            BY <2>1, <2>2
        <2>6. PICK f : f = st[p]
            OBVIOUS
        <2>7. Waits(f, th[p])
            BY <2>6, LinkFacts
        <2>8. UNCHANGED <<db, gone, failed, th, tasks>> /\ UNCHANGED st
            BY <1>2, <2>1
        <2>9. QED  BY <2>4, <2>5, <2>6, <2>7, <2>8, ControlLink
    <1>6. CASE ~ (ac[p].copy.id = 0 /\ rows[a].id # 0)
        <2>1. /\ IF ac[p].copy.id = 0 THEN Put(a, obj) ELSE Update(a, obj, obj)
              /\ ReturnAccount(p, FALSE)
            BY <1>1, <1>4, <1>6 DEF StoreAccount
        <2>2. IdsKeep /\ DbLink' /\ \A v \in URIs : v # a => rows'[v] = rows[v]
            <3>1. CASE ac[p].copy.id = 0
                BY <1>2, <1>3, <1>6, <2>1, <3>1, PutLink
            <3>2. CASE ac[p].copy.id # 0
                <4>1. PICK row : row = obj
                    OBVIOUS
                <4>2. obj.id = ac[p].copy.id
                    BY <1>4, <3>2 DEF None
                <4>3. obj \in Objects
                    <5>1. /\ ac[p].copy.id \in Nat /\ ac[p].ver \in Nat /\ now \in Nat
                        BY <1>3 DEF AcFrames, Objects, DerefInv, Stored
                    <5>2. obj = [id |-> ac[p].copy.id, ver |-> ac[p].ver, at |-> now, parent |-> 0,
                                 orphan |-> FALSE, susp |-> FALSE]
                        BY <1>4, <3>2 DEF None
                    <5>3. QED  BY <5>1, <5>2 DEF Objects
                <4>4. Known(a, obj)
                    BY <1>3, <4>2, <4>3 DEF Known
                <4>5. Update(a, obj, row) /\ row.id = obj.id
                    BY <2>1, <3>2, <4>1
                <4>6. QED  BY <1>2, <1>3, <3>2, <4>2, <4>4, <4>5, UpdateLink
            <3>3. QED  BY <3>1, <3>2
        <2>3. \A s \in Statuses : rows'[s] = rows[s]
            BY <1>3, <2>2, KeyFacts
        <2>4. FALSE \in BOOLEAN
            OBVIOUS
        <2>5. PICK g : ac' = [ac EXCEPT ![p] = g] /\ AcLink(g)'
            BY <2>1, <2>4, ReturnAccountLink
        <2>6. QED  BY <1>2, <2>2, <2>3, <2>5, AcWriteLink
    <1>7. QED  BY <1>5, <1>6

\* The loser of the race looks again, and finds the winner.
LEMMA AccountRaceLink ==
    ASSUME NEW depth, DerefInv, LinkInv(depth), NEW p \in Procs, AccountRace(p)
    PROVE  LinkInv(depth)'
    <1>1. /\ ac[p].pc = "race" /\ UNCHANGED <<gone, failed>> /\ UNCHANGED <<st, th, tasks>> /\ UNCHANGED db
          /\ ReturnAccount(p, cached[ac[p].uri].id = 0) /\ (cached[ac[p].uri].id = 0) \in BOOLEAN
        BY DEF AccountRace, env
    <1>2. ac[p].uri \in URIs /\ ac[p].uri \notin Statuses /\ DbLink
        BY <1>1, FrameFacts, KeyFacts, LinkFacts DEF AcGood
    <1>3. cached[ac[p].uri].id # 0
        BY <1>1, <1>2, LinkFacts DEF AcLink, DbLink
    <1>4. PICK g : ac' = [ac EXCEPT ![p] = g] /\ AcLink(g)'
        BY <1>1, <1>3, ReturnAccountLink
    <1>5. IdsKeep /\ DbLink' /\ \A s \in Statuses : rows'[s] = rows[s]
        BY <1>1, <1>2, SameLink
    <1>6. QED  BY <1>1, <1>4, <1>5, AcWriteLink

-----------------------------------------------------------------------------
(***************************************************************************)
(* Links: the steps at threads                                             *)
(***************************************************************************)
\* A goroutine goes on with its thread: a link that is due is written, or who
\* was at it still is.
LEMMA WalkLink ==
    ASSUME NEW depth, DerefInv, LinkInv(depth), IdsKeep, DbLink', NEW p \in Procs, NEW f, NEW h,
           st' = [st EXCEPT ![p] = f] \/ (UNCHANGED st /\ f = st[p]),
           th' = [th EXCEPT ![p] = h], UNCHANGED <<ac, tasks>>,
           f = st[p] \/ StLink(f)', ThLink(depth, h)', Waits(f, h),
           \A x \in Statuses :
              Due(x)' => \/ rows'[x].parent # 0
                         \/ /\ rows'[x].id = rows[x].id /\ rows'[x].parent = rows[x].parent
                            /\ Holds(th[p], x) => Holds(h, x)
    PROVE  LinkInv(depth)'
    <1>1. PICK g : g = ac[p]
        OBVIOUS
    <1>2. Goes(p, f, g, h) /\ TasksLink
        BY <1>1 DEF Goes, TasksLink
    <1>3. \A x \in Statuses : (Holds(th[p], x) => Holds(h, x)) => (Token(x) => Token(x)')
        BY TokenKept
    <1>4. Owed
        BY DEF LinkInv
    <1>5. Owed'
        BY <1>3, <1>4, OwedStep
    <1>6. QED  BY <1>1, <1>2, <1>5, LinkStep

\* A thread that is over.
LEMMA IdleLink == ASSUME NEW depth, NEW h, h = IdleTh  PROVE ThLink(depth, h)' /\ \A f : Waits(f, h)
    BY IdleFacts DEF ThLink, Waits

\* A worker takes a task.
LEMMA TakeTaskLink ==
    ASSUME NEW depth, Depths(depth), DerefInv, LinkInv(depth), NEW p \in Procs, TakeTask(p)
    PROVE  LinkInv(depth)'
    <1>1. /\ tasks # <<>> /\ tasks' = Tail(tasks) /\ th[p] = IdleTh
          /\ UNCHANGED db /\ UNCHANGED <<gone, failed>> /\ UNCHANGED <<st, ac>>
        BY DEF TakeTask, Idle, env
    <1>2. tasks \in Seq(Tasks) /\ th \in [Procs -> ThFrames]
        BY DEF DerefInv, Frames
    <1>3. 1 \in DOMAIN tasks /\ Head(tasks) = tasks[1] /\ tasks[1] \in Tasks
        BY <1>1, <1>2
    <1>4. PICK t : t = tasks[1]
        OBVIOUS
    <1>5. t.uri \in Statuses /\ CopyOK(t.uri, t.copy) /\ t.copy.id # 0
        BY <1>3, <1>4 DEF Tasks, LinkInv, TaskLink
    <1>6. PICK h : h = [IdleTh EXCEPT !.pc = "walk", !.uri = t.uri, !.copy = t.copy]
        OBVIOUS
    <1>7. h.pc = "walk" /\ h.uri = t.uri /\ h.copy = t.copy /\ h.seen = {} /\ h.n = 0
        BY <1>6 DEF IdleTh
    <1>8. th' = [th EXCEPT ![p] = h]
        BY <1>3, <1>4, <1>6 DEF TakeTask
    <1>9. IdsKeep /\ DbLink' /\ \A x \in Statuses : rows'[x] = rows[x]
        BY <1>1, SameLink DEF LinkInv
    <1>10. ThLink(depth, h)'
        <2>1. CopyOK(t.uri, t.copy)'
            BY <1>5, <1>9, CopyStays
        <2>2. depth[t.uri] \in 0..MaxIter
            BY <1>5 DEF Depths
        <2>3. 0 + depth[t.uri] <= MaxIter
            BY <2>2, BoundsAssumption
        <2>4. QED  BY <1>5, <1>7, <2>1, <2>3 DEF ThLink
    <1>11. ASSUME NEW x, Token(x)  PROVE Token(x)'
        <2>1. th'[p] = h /\ \A q \in Procs : q # p => th'[q] = th[q]
            BY <1>2, <1>8
        <2>2. ~ Holds(th[p], x)
            BY <1>1, IdleFacts DEF Holds
        <2>3. ASSUME NEW q \in Procs, Holds(th[q], x)  PROVE Token(x)'
            <3>1. Holds(th'[q], x)
                BY <2>1, <2>2, <2>3
            <3>2. QED  BY <3>1 DEF Token, Holds
        <2>4. ASSUME NEW i \in DOMAIN tasks, tasks[i].uri = x, tasks[i].copy.parent = 0  PROVE Token(x)'
            <3>1. CASE i = 1
                <4>1. Holds(h, x)
                    BY <1>4, <1>7, <2>4, <3>1 DEF Holds
                <4>2. QED  BY <1>8, <4>1, TokenMade
            <3>2. CASE i # 1
                <4>1. i - 1 \in DOMAIN tasks' /\ tasks'[i - 1] = tasks[i]
                    BY <1>1, <1>2, <3>2
                <4>2. QED  BY <2>4, <4>1 DEF Token
            <3>3. QED  BY <3>1, <3>2
        <2>5. QED  BY <1>11, <2>3, <2>4 DEF Token
    <1>12. Owed'
        BY <1>9, <1>11, OwedStep DEF LinkInv
    <1>13. PICK f, g : f = st[p] /\ g = ac[p]
        OBVIOUS
    <1>14. Goes(p, f, g, h) /\ TasksLink /\ Waits(f, h)
        BY <1>1, <1>7, <1>8, <1>13 DEF Goes, TasksLink, Waits
    <1>15. QED  BY <1>9, <1>10, <1>12, <1>13, <1>14, LinkStep

\* The walk is over: not before it has come to the first of the thread.
LEMMA WalkEndsLink ==
    ASSUME NEW depth, Depths(depth), DerefInv, LinkInv(depth), NEW p \in Procs, WalkEnds(p)
    PROVE  LinkInv(depth)'
    <1>1. /\ th[p].pc = "walk" /\ th' = [th EXCEPT ![p] = IdleTh] /\ UNCHANGED <<ac, tasks>>
          /\ UNCHANGED db /\ UNCHANGED <<gone, failed>> /\ UNCHANGED st
        BY DEF WalkEnds, env
    <1>2. IdsKeep /\ DbLink' /\ \A x \in Statuses : rows'[x] = rows[x]
        BY <1>1, SameLink DEF LinkInv
    <1>3. ASSUME NEW x \in Statuses, Due(x)', Holds(th[p], x)  PROVE FALSE
        <2>1. th[p].uri = x /\ InReplyTo[x] \in Statuses /\ InReplyTo[x] \notin gone
            BY <1>1, <1>3 DEF Holds, Due
        <2>2. ThLink(depth, th[p]) /\ th[p] \in ThFrames
            BY LinkFacts, FrameFacts
        <2>3. CopyOK(x, th[p].copy)
            BY <1>1, <2>1, <2>2 DEF ThLink
        <2>4. InReplyToURI(p) = InReplyTo[x]
            BY <2>1, <2>3 DEF CopyOK, InReplyToURI
        <2>5. InReplyTo[x] # NoStatus
            BY <2>1, AddressesAssumption
        <2>6. depth[InReplyTo[x]] < depth[x] /\ depth[x] \in 0..MaxIter /\ depth[InReplyTo[x]] \in 0..MaxIter
            BY <2>1, <2>5 DEF Depths
        <2>7. th[p].n \in Nat /\ th[p].n + depth[x] <= MaxIter /\ \A y \in th[p].seen : depth[x] <= depth[y]
            BY <1>1, <2>1, <2>2 DEF ThLink, ThFrames
        <2>8. InReplyTo[x] \notin th[p].seen
            BY <2>6, <2>7, BoundsAssumption
        <2>9. th[p].n # MaxIter
            BY <2>6, <2>7, BoundsAssumption
        <2>10. QED  BY <2>4, <2>5, <2>8, <2>9 DEF WalkEnds
    <1>4. PICK f, h : f = st[p] /\ h = IdleTh
        OBVIOUS
    <1>5. ThLink(depth, h)' /\ Waits(f, h) /\ th' = [th EXCEPT ![p] = h]
        BY <1>1, <1>4, IdleLink
    <1>6. QED  BY <1>1, <1>2, <1>3, <1>4, <1>5, WalkLink

\* The next ancestor is there, or asked for.
LEMMA FollowAncestorLink ==
    ASSUME NEW depth, Depths(depth), DerefInv, LinkInv(depth), NEW p \in Procs, FollowAncestor(p)
    PROVE  LinkInv(depth)'
    <1>1. PICK r : r = InReplyToURI(p)
        OBVIOUS
    <1>2. /\ th[p].pc = "walk" /\ r # NoStatus /\ UNCHANGED <<ac, tasks>>
          /\ UNCHANGED db /\ UNCHANGED <<gone, failed>>
        BY <1>1 DEF FollowAncestor, env
    <1>3. /\ th[p] \in ThFrames /\ th \in [Procs -> ThFrames] /\ th[p].uri \in Statuses
          /\ ThLink(depth, th[p])
        BY <1>2, FrameFacts, LinkFacts DEF ThGood, DerefInv, Frames
    <1>4. r = InReplyTo[th[p].uri] /\ r \in Statuses /\ Canon[r] = r
        BY <1>1, <1>2, <1>3, KeyFacts DEF InReplyToURI
    <1>5. PICK fresh \in BOOLEAN : fresh = (cached[r].id # 0 /\ statusFresh(cached[r]))
        OBVIOUS
    <1>6. PICK h : h = [th[p] EXCEPT !.seen = th[p].seen \cup {r}, !.n = th[p].n + 1,
                            !.pc = IF fresh THEN "parent" ELSE "wait",
                            !.found = IF fresh THEN cached[r] ELSE None, !.err = "none"]
        OBVIOUS
    <1>7. /\ h.pc = (IF fresh THEN "parent" ELSE "wait") /\ h.uri = th[p].uri /\ h.copy = th[p].copy
          /\ h.seen = th[p].seen \cup {r} /\ h.n = th[p].n + 1
          /\ fresh => h.found = cached[r]
          /\ h.err = "none"
        BY <1>3, <1>6 DEF ThFrames
    <1>8. th' = [th EXCEPT ![p] = h] /\ st' = IF fresh THEN st ELSE [st EXCEPT ![p] = Enrich(r, cached[r], 0)]
        BY <1>1, <1>2, <1>3, <1>5, <1>6 DEF FollowAncestor, ThFrames
    <1>9. IdsKeep /\ DbLink' /\ (\A x \in Statuses : rows'[x] = rows[x]) /\ CopyOK(r, cached[r])
        BY <1>2, <1>4, SameLink DEF LinkInv, DbLink
    <1>10. ThLink(depth, h)'
        <2>1. CopyOK(h.uri, h.copy)' /\ h.copy.id # 0
            BY <1>2, <1>3, <1>7, <1>9, CopyStays DEF ThLink
        <2>2. /\ depth[r] \in Nat /\ depth[h.uri] \in Nat /\ depth[r] < depth[h.uri]
              /\ \A x \in Statuses : depth[x] \in Nat
            BY <1>2, <1>3, <1>4, <1>7, BoundsAssumption DEF Depths
        <2>3. /\ th[p].n \in Nat /\ th[p].seen \subseteq Statuses /\ th[p].n + depth[h.uri] <= MaxIter
              /\ \A x \in th[p].seen : depth[h.uri] <= depth[x]
            BY <1>2, <1>3, <1>7 DEF ThLink, ThFrames
        <2>4. h.n + depth[r] <= MaxIter
            BY <1>7, <2>2, <2>3, BoundsAssumption
        <2>5. \A x \in h.seen : depth[r] <= depth[x]
            BY <1>7, <2>2, <2>3
        <2>6. fresh => CopyOK(r, h.found)' /\ h.found.id # 0
            BY <1>5, <1>7, <1>9, CopyStays
        <2>7. r = InReplyTo[h.uri]
            BY <1>4, <1>7
        <2>8. QED  BY <1>7, <2>1, <2>4, <2>5, <2>6, <2>7 DEF ThLink
    <1>11. \A x : Holds(th[p], x) => Holds(h, x)
        BY <1>2, <1>7 DEF Holds
    <1>12. CASE fresh
        <2>1. PICK f : f = st[p]
            OBVIOUS
        <2>2. Waits(f, h) /\ UNCHANGED st
            BY <1>7, <1>8, <1>12 DEF Waits
        <2>3. QED  BY <1>2, <1>8, <1>9, <1>10, <1>11, <2>1, <2>2, WalkLink
    <1>13. CASE ~ fresh
        <2>1. PICK f : f = Enrich(r, cached[r], 0)
            OBVIOUS
        <2>2. StLink(f) /\ f.addr = r
            BY <1>4, <1>9, <2>1, EnrichLink
        <2>3. StLink(f)'
            BY <1>2, <2>2 DEF StLink, CopyOK, LinkOK, db
        <2>4. Waits(f, h) /\ st' = [st EXCEPT ![p] = f]
            BY <1>4, <1>7, <1>8, <1>13, <2>1, <2>2 DEF Waits
        <2>5. th' = [th EXCEPT ![p] = h] /\ UNCHANGED <<ac, tasks>>
            BY <1>2, <1>8
        <2>6. \A x \in Statuses : /\ rows'[x].id = rows[x].id /\ rows'[x].parent = rows[x].parent
                                  /\ Holds(th[p], x) => Holds(h, x)
            BY <1>9, <1>11
        <2>7. IdsKeep /\ DbLink'
            BY <1>9
        <2>8. QED  BY <1>10, <2>3, <2>4, <2>5, <2>6, <2>7, WalkLink
    <1>14. QED  BY <1>12, <1>13

\* The parent is linked to, waited for no longer, or forgotten.
LEMMA LinkParentLink ==
    ASSUME NEW depth, Depths(depth), DerefInv, LinkInv(depth), NEW p \in Procs, LinkParent(p)
    PROVE  LinkInv(depth)'
    <1>1. PICK t : t = th[p]
        OBVIOUS
    <1>2. t.pc = "parent" /\ UNCHANGED <<ac, tasks>> /\ UNCHANGED <<gone, failed>> /\ UNCHANGED st
        BY <1>1 DEF LinkParent, env
    <1>3. PICK s, r : s = t.uri /\ r = InReplyTo[t.uri]
        OBVIOUS
    <1>4. /\ t \in ThFrames /\ s \in Statuses /\ r \in Statuses /\ Known(s, t.copy) /\ Known(r, t.found)
          /\ ThLink(depth, t)
        BY <1>1, <1>2, <1>3, FrameFacts, LinkFacts DEF ThGood
    <1>5. /\ s \in URIs /\ r \in URIs /\ t.copy \in Objects /\ t.found \in Objects /\ rows[s] \in Objects
          /\ DbLink
        BY <1>4, KeyFacts DEF Known, DerefInv, Stored, LinkInv
    <1>6. /\ CopyOK(s, t.copy) /\ t.copy.id # 0 /\ CopyOK(r, t.found)
          /\ t.err = "gone" => r \in gone
          /\ failed \/ r \in gone \cup wiped \/ (t.found.id # 0 /\ t.err = "none")
          /\ t.n + depth[r] <= MaxIter /\ \A x \in t.seen : depth[r] <= depth[x]
        BY <1>2, <1>3, <1>4 DEF ThLink
    <1>7. PICK f : f = st[p]
        OBVIOUS
    \* Writing the columns of the parent.
    <1>8. ASSUME NEW n \in Nat, NEW b \in BOOLEAN, NEW obj, obj = [t.copy EXCEPT !.parent = n, !.orphan = b],
                 UpdateStatusParent(s, obj), LinkOK(s, n), b => r \in gone
          PROVE  /\ IdsKeep /\ DbLink'
                 /\ \A v \in URIs : v # s => rows'[v] = rows[v]
                 /\ s \in wiped' \/ rows'[s].parent = n
        <2>1. obj \in Objects /\ obj.id = t.copy.id /\ obj.parent = n /\ obj.orphan = b
            BY <1>5, <1>8 DEF Objects
        <2>2. PICK row : row = [rows[s] EXCEPT !.parent = obj.parent, !.orphan = obj.orphan]
            OBVIOUS
        <2>3. row.id = rows[s].id /\ row.parent = n /\ row.orphan = b
            BY <1>5, <2>1, <2>2 DEF Objects
        <2>4. Update(s, obj, row)
            BY <1>8, <2>2 DEF UpdateStatusParent
        <2>5. CopyOK(s, obj) /\ CopyOK(s, row)
            BY <1>3, <1>8, <2>1, <2>3 DEF CopyOK
        <2>6. Known(s, obj) /\ obj.id # 0
            BY <1>4, <1>6, <2>1 DEF Known
        <2>7. /\ IdsKeep /\ DbLink'
              /\ \A v \in URIs : v # s => rows'[v] = rows[v]
              /\ rows'[s] = IF rows[s].id = obj.id THEN row ELSE rows[s]
            BY <1>2, <1>5, <2>3, <2>4, <2>5, <2>6, UpdateLink
        <2>8. s \in wiped' \/ rows[s].id = obj.id
            BY <2>6, <2>7 DEF Known, IdsKeep
        <2>9. QED  BY <2>3, <2>7, <2>8
    <1>9. CASE /\ t.err = "gone" /\ th' = [th EXCEPT ![p] = IdleTh]
               /\ UpdateStatusParent(s, [t.copy EXCEPT !.parent = 0, !.orphan = TRUE])
        <2>1. PICK obj, h : obj = [t.copy EXCEPT !.parent = 0, !.orphan = TRUE] /\ h = IdleTh
            OBVIOUS
        <2>2. UpdateStatusParent(s, obj) /\ th' = [th EXCEPT ![p] = h] /\ LinkOK(s, 0) /\ r \in gone
            BY <1>6, <1>9, <2>1 DEF LinkOK
        <2>3. IdsKeep /\ DbLink' /\ \A v \in URIs : v # s => rows'[v] = rows[v]
            BY <1>8, <2>1, <2>2
        <2>4. \A x \in Statuses : Due(x)' => x # s /\ ~ Holds(t, x)
            BY <1>2, <1>3, <1>9, <2>2 DEF Due, Holds
        <2>5. \A x \in Statuses : Due(x)' => /\ rows'[x].id = rows[x].id /\ rows'[x].parent = rows[x].parent
                                             /\ Holds(th[p], x) => Holds(h, x)
            BY <1>1, <2>3, <2>4, KeyFacts
        <2>6. ThLink(depth, h)' /\ Waits(f, h)
            BY <2>1, IdleLink
        <2>7. QED  BY <1>2, <1>7, <2>2, <2>3, <2>5, <2>6, WalkLink
    <1>10. CASE t.err \in {"http", "other"} /\ t.found.id = 0 /\ th' = [th EXCEPT ![p] = IdleTh] /\ UNCHANGED db
        <2>1. PICK h : h = IdleTh
            OBVIOUS
        <2>2. IdsKeep /\ DbLink' /\ \A x \in Statuses : rows'[x] = rows[x]
            BY <1>2, <1>5, <1>10, SameLink
        <2>3. \A x \in Statuses : Due(x)' => x # s /\ ~ Holds(t, x)
            <3>1. failed' \/ r \in gone' \cup wiped'
                BY <1>2, <1>6, <1>10, <2>2 DEF IdsKeep
            <3>2. \A x \in Statuses : Due(x)' => x # s
                BY <1>3, <3>1 DEF Due
            <3>3. \A x : Holds(t, x) => x = s
                BY <1>3, <1>10 DEF Holds
            <3>4. QED  BY <3>2, <3>3
        <2>4. \A x \in Statuses : Due(x)' => /\ rows'[x].id = rows[x].id /\ rows'[x].parent = rows[x].parent
                                             /\ Holds(th[p], x) => Holds(h, x)
            BY <1>1, <2>2, <2>3
        <2>5. ThLink(depth, h)' /\ Waits(f, h) /\ th' = [th EXCEPT ![p] = h]
            BY <1>10, <2>1, IdleLink
        <2>6. QED  BY <1>2, <1>7, <2>2, <2>4, <2>5, WalkLink
    <1>11. CASE /\ t.err # "gone" /\ t.found.id # 0
                /\ IF t.copy.parent # t.found.id
                   THEN UpdateStatusParent(s, [t.copy EXCEPT !.parent = t.found.id]) ELSE UNCHANGED db
                /\ th' = [th EXCEPT ![p] = [t EXCEPT !.pc = "walk", !.uri = r, !.copy = t.found,
                                            !.found = None, !.err = "none"]]
        <2>1. PICK h : h = [t EXCEPT !.pc = "walk", !.uri = r, !.copy = t.found, !.found = None, !.err = "none"]
            OBVIOUS
        <2>2. h.pc = "walk" /\ h.uri = r /\ h.copy = t.found /\ h.seen = t.seen /\ h.n = t.n
            BY <1>4, <2>1 DEF ThFrames
        <2>3. th' = [th EXCEPT ![p] = h] /\ Waits(f, h)
            BY <1>11, <2>1, <2>2 DEF Waits
        <2>4. /\ IdsKeep /\ DbLink'
              /\ \A x \in Statuses : x # s => rows'[x] = rows[x]
              /\ \/ s \in wiped' \/ rows'[s].parent # 0
                 \/ rows'[s] = rows[s] /\ t.copy.parent # 0
            <3>1. CASE t.copy.parent = t.found.id
                <4>1. UNCHANGED db /\ t.copy.parent # 0
                    BY <1>11, <3>1
                <4>2. IdsKeep /\ DbLink' /\ \A x \in Statuses : rows'[x] = rows[x]
                    BY <1>2, <1>5, <4>1, SameLink
                <4>3. QED  BY <1>4, <4>1, <4>2
            <3>2. CASE t.copy.parent # t.found.id
                <4>1. PICK obj, b : obj = [t.copy EXCEPT !.parent = t.found.id] /\ b = t.copy.orphan
                    OBVIOUS
                <4>2. t.found.id \in Nat /\ b \in BOOLEAN
                    BY <1>5, <4>1 DEF Objects
                <4>3. obj = [t.copy EXCEPT !.parent = t.found.id, !.orphan = b]
                    BY <1>5, <4>1 DEF Objects
                <4>4. LinkOK(s, t.found.id)
                    BY <1>3, <1>4 DEF LinkOK, Known
                <4>5. b => r \in gone
                    BY <1>3, <1>6, <4>1 DEF CopyOK
                <4>6. UpdateStatusParent(s, obj)
                    BY <1>11, <3>2, <4>1
                <4>7. PICK n \in Nat : n = t.found.id
                    BY <4>2
                <4>8. /\ IdsKeep /\ DbLink'
                      /\ \A v \in URIs : v # s => rows'[v] = rows[v]
                      /\ s \in wiped' \/ rows'[s].parent = n
                    BY <1>8, <4>2, <4>3, <4>4, <4>5, <4>6, <4>7
                <4>9. QED  BY <1>11, <4>7, <4>8, KeyFacts
            <3>3. QED  BY <3>1, <3>2
        <2>5. \A x \in Statuses :
                Due(x)' => \/ rows'[x].parent # 0
                           \/ /\ rows'[x].id = rows[x].id /\ rows'[x].parent = rows[x].parent
                              /\ Holds(th[p], x) => Holds(h, x)
            <3>1. \A x : Holds(t, x) => Holds(h, x) \/ (x = s /\ t.copy.parent = 0)
                BY <1>3, <2>2 DEF Holds
            <3>2. \A x \in Statuses : Due(x)' => x \notin wiped'
                BY DEF Due
            <3>3. QED  BY <1>1, <2>4, <3>1, <3>2
        <2>6. ThLink(depth, h)'
            <3>1. CopyOK(r, t.found)'
                BY <1>6, <2>4, CopyStays
            <3>2. QED  BY <1>6, <1>11, <2>2, <3>1 DEF ThLink
        <2>7. IdsKeep /\ DbLink'
            BY <2>4
        <2>8. QED  BY <1>2, <1>7, <2>3, <2>5, <2>6, <2>7, WalkLink
    <1>12. QED  BY <1>1, <1>3, <1>9, <1>10, <1>11 DEF LinkParent

-----------------------------------------------------------------------------
(***************************************************************************)
(* Links: the steps around the dereferencer                                *)
(***************************************************************************)
\* No goroutine goes on.
LEMMA EnvLink ==
    ASSUME NEW depth, DerefInv, LinkInv(depth), IdsKeep, DbLink', UNCHANGED <<st, ac, th, tasks>>,
           \A s \in Statuses : \/ s \in wiped'
                               \/ rows'[s].id = rows[s].id /\ rows'[s].parent = rows[s].parent
    PROVE  LinkInv(depth)'
    <1>1. Owed'
        BY KeepOwed DEF LinkInv
    <1>2. ASSUME NEW p \in Procs
          PROVE  StLink(st[p])' /\ AcLink(ac[p])' /\ ThLink(depth, th[p])' /\ Waits(st[p], th[p])'
        <2>1. PICK x, y, z : x = st[p] /\ y = ac[p] /\ z = th[p]
            OBVIOUS
        <2>2. /\ StLink(x) /\ AcLink(y) /\ ThLink(depth, z) /\ Waits(x, z)
              /\ StGood(x) /\ AcGood(y)
            BY <2>1, LinkFacts, FrameFacts
        <2>3. StLink(x)' /\ AcLink(y)' /\ ThLink(depth, z)'
            BY <2>2, LinkStays
        <2>4. x = st'[p] /\ y = ac'[p] /\ z = th'[p]
            BY <2>1
        <2>5. StLink(st[p])' /\ AcLink(ac[p])'
            BY <2>3, <2>4 DEF StLink, AcLink, CopyOK
        <2>6. ThLink(depth, th[p])' /\ Waits(st[p], th[p])'
            BY <2>2, <2>3, <2>4 DEF ThLink, CopyOK, Waits
        <2>7. QED  BY <2>5, <2>6
    <1>3. (\A i \in DOMAIN tasks : TaskLink(tasks[i]))'
        <2>1. TasksLink
            BY DEF TasksLink
        <2>2. QED  BY <2>1, TasksLinkStay DEF LinkInv
    <1>4. QED  BY <1>1, <1>2, <1>3 DEF LinkInv

\* An object changes or a status goes on its server, or time passes.
LEMMA OutsideLink ==
    ASSUME NEW depth, DerefInv, LinkInv(depth), UNCHANGED db, UNCHANGED <<st, ac, th, tasks>>,
           gone \subseteq gone', failed' = failed
    PROVE  LinkInv(depth)'
    <1>1. IdsKeep /\ DbLink' /\ \A s \in Statuses : rows'[s] = rows[s]
        BY SameLink DEF LinkInv
    <1>2. QED  BY <1>1, EnvLink

\* The server's Delete is processed.
LEMMA DeleteStatusLink ==
    ASSUME NEW depth, DerefInv, LinkInv(depth), NEW s \in Statuses, DeleteStatus(s)
    PROVE  LinkInv(depth)'
    <1>1. /\ UNCHANGED <<st, ac, th, tasks>> /\ UNCHANGED <<gone, failed>> /\ DbLink
          /\ \E id : DeleteStatusByID(s, id)
        BY DEF DeleteStatus, env, LinkInv
    <1>2. IdsKeep /\ DbLink' /\ s \in wiped' /\ \A v \in URIs : v # s => rows'[v] = rows[v]
        BY <1>1, DeleteLink
    <1>3. \A x \in Statuses : \/ x \in wiped'
                              \/ rows'[x].id = rows[x].id /\ rows'[x].parent = rows[x].parent
        BY <1>2, KeyFacts
    <1>4. QED  BY <1>1, <1>2, <1>3, EnvLink

\* An account is suspended.
LEMMA SuspendLink ==
    ASSUME NEW depth, DerefInv, LinkInv(depth), NEW a \in Accounts, Suspend(a)
    PROVE  LinkInv(depth)'
    <1>1. /\ UNCHANGED <<st, ac, th, tasks>> /\ UNCHANGED <<gone, failed>> /\ DbLink /\ cached[a].id # 0
        BY DEF Suspend, LinkInv
    <1>2. PICK obj, row : /\ obj = [cached[a] EXCEPT !.susp = TRUE, !.at = 0]
                          /\ row = [rows[a] EXCEPT !.susp = TRUE, !.at = 0]
        OBVIOUS
    <1>3. a \in URIs /\ a \notin Statuses /\ Known(a, cached[a]) /\ rows[a] \in Objects /\ cached[a] \in Objects
        BY KeyFacts DEF DerefInv, Stored
    <1>4. obj \in Objects /\ obj.id = cached[a].id /\ row.id = rows[a].id
        BY <1>2, <1>3 DEF Objects
    <1>5. Update(a, obj, row) /\ Known(a, obj)
        BY <1>2, <1>3, <1>4 DEF Suspend, Known
    <1>6. IdsKeep /\ DbLink' /\ \A v \in URIs : v # a => rows'[v] = rows[v]
        BY <1>1, <1>3, <1>4, <1>5, UpdateLink
    <1>7. \A x \in Statuses : rows'[x] = rows[x]
        BY <1>3, <1>6, KeyFacts
    <1>8. QED  BY <1>1, <1>6, <1>7, EnvLink

\* The cache drops an entry.
LEMMA EvictLink ==
    ASSUME NEW depth, DerefInv, LinkInv(depth), NEW u \in URIs, Evict(u)
    PROVE  LinkInv(depth)'
    <1>1. /\ cached' = [cached EXCEPT ![u] = rows[u]] /\ UNCHANGED <<rows, wiped>>
          /\ UNCHANGED <<st, ac, th, tasks>> /\ UNCHANGED <<gone, failed>> /\ DbLink
        BY DEF Evict, env, LinkInv
    <1>2. cached'[u] = rows[u] /\ \A v \in URIs : v # u => cached'[v] = cached[v]
        BY <1>1 DEF DerefInv, Stored
    <1>3. IdsKeep
        BY <1>1 DEF IdsKeep, DbLink
    <1>4. \A s \in Statuses : cached'[s] = cached[s] \/ CopyOK(s, cached'[s])
        BY <1>1, <1>2, KeyFacts DEF DbLink
    <1>5. \A v \in URIs : v \in wiped' \/ cached'[v].id = rows'[v].id
        BY <1>1, <1>2 DEF DbLink
    <1>6. DbLink'
        BY <1>1, <1>3, <1>4, <1>5, DbLinkStep
    <1>7. QED  BY <1>1, <1>3, <1>6, EnvLink

\* At the start the statuses that are stored are linked.
LEMMA LinkInit == ASSUME NEW depth  PROVE Init => LinkInv(depth)
    <1> SUFFICES ASSUME Init  PROVE LinkInv(depth)
        OBVIOUS
    <1>1. PICK known \in SUBSET URIs :
              /\ \A s \in known \cap Statuses : {Author[s], InReplyTo[s]} \subseteq known \cup {NoStatus}
              /\ rows = [u \in URIs |-> IF u \notin known THEN None
                                        ELSE [None EXCEPT !.id = 1, !.ver = 1, !.parent = FirstParent(u)]]
        BY DEF Init
    <1>2. /\ cached = rows /\ tasks = <<>> /\ wiped = {}
          /\ st = [p \in Procs |-> IdleSt] /\ ac = [p \in Procs |-> IdleAc] /\ th = [p \in Procs |-> IdleTh]
        BY DEF Init
    <1>3. ASSUME NEW u \in URIs
          PROVE  /\ u \notin known => rows[u] = None /\ rows[u].id = 0
                 /\ u \in known => /\ rows[u].id = 1 /\ rows[u].parent = FirstParent(u)
                                   /\ rows[u].orphan = FALSE
        <2>1. CASE u \notin known
            BY <1>1, <2>1, ObjectFacts
        <2>2. CASE u \in known
            <3>1. rows[u] = [None EXCEPT !.id = 1, !.ver = 1, !.parent = FirstParent(u)]
                BY <1>1, <2>2
            <3>2. QED  BY <2>2, <3>1 DEF None
        <2>3. QED  BY <2>1, <2>2
    <1>4. ASSUME NEW s \in Statuses  PROVE CopyOK(s, rows[s])
        <2>1. s \in URIs
            BY KeyFacts
        <2>2. CASE s \notin known
            BY <1>3, <2>1, <2>2, NoneOK
        <2>3. CASE s \in known
            <3>1. rows[s].parent = FirstParent(s) /\ rows[s].orphan = FALSE
                BY <1>3, <2>1, <2>3
            <3>2. ASSUME InReplyTo[s] \in Statuses  PROVE rows[InReplyTo[s]].id = 1
                <4>1. InReplyTo[s] \in known
                    BY <1>1, <2>3, <3>2, AddressesAssumption
                <4>2. QED  BY <1>3, <4>1
            <3>3. FirstParent(s) \in {0, 1}
                BY DEF FirstParent
            <3>4. LinkOK(s, rows[s].parent)
                BY <3>1, <3>2, <3>3 DEF LinkOK
            <3>5. QED  BY <3>1, <3>4 DEF CopyOK
        <2>4. QED  BY <2>2, <2>3
    <1>5. DbLink
        BY <1>2, <1>4 DEF DbLink
    <1>6. ASSUME NEW p \in Procs
          PROVE  StLink(st[p]) /\ AcLink(ac[p]) /\ ThLink(depth, th[p]) /\ Waits(st[p], th[p])
        <2>1. st[p] = IdleSt /\ ac[p] = IdleAc /\ th[p] = IdleTh
            BY <1>2
        <2>2. ac[p].err = FALSE
            BY <2>1 DEF IdleAc
        <2>3. QED  BY <2>1, <2>2, IdleFacts DEF StLink, AcLink, ThLink, Waits
    <1>7. Owed
        <2> SUFFICES ASSUME NEW s \in Statuses, Due(s)  PROVE rows[s].parent # 0
            BY DEF Owed
        <2>1. s \in URIs /\ rows[s].id # 0 /\ InReplyTo[s] \in Statuses
            BY KeyFacts DEF Due
        <2>2. s \in known /\ rows[s].parent = FirstParent(s)
            BY <1>3, <2>1
        <2>3. FirstParent(s) = 1
            BY <2>1, AddressesAssumption DEF FirstParent
        <2>4. QED  BY <2>2, <2>3
    <1>8. \A i \in DOMAIN tasks : TaskLink(tasks[i])
        BY <1>2
    <1>9. QED  BY <1>5, <1>6, <1>7, <1>8 DEF LinkInv

\* Every step keeps the links.
LEMMA LinkNext ==
    ASSUME NEW depth, Depths(depth)
    PROVE  DerefInv /\ LinkInv(depth) /\ [Next]_vars => LinkInv(depth)'
    <1> SUFFICES ASSUME DerefInv, LinkInv(depth), [Next]_vars  PROVE LinkInv(depth)'
        OBVIOUS
    <1>1. ASSUME NEW p \in Procs, Step(p)  PROVE LinkInv(depth)'
        BY <1>1, StControlLink, FetchStatusLink, StatusUnavailableLink, AuthorDoneLink, ConvertLink,
           StoreStatusLink, StatusRaceLink, AcControlLink, StoreAccountLink, AccountRaceLink,
           TakeTaskLink, WalkEndsLink, FollowAncestorLink, LinkParentLink DEF Step
    <1>2. ASSUME NEW p \in Procs, Unavailable(p)  PROVE LinkInv(depth)'
        BY <1>2, StatusUnavailableLink, AccountUnavailableLink DEF Unavailable
    <1>3. ASSUME NEW p \in Procs, Ask(p)  PROVE LinkInv(depth)'
        <2>1. CASE \/ \E addr \in Addresses : GetStatusByURI(p, addr)
                   \/ \E s \in Statuses, v \in 1..MaxVersion : CreateStatus(p, s, v) \/ UpdateStatus(p, s, v)
            BY <2>1, AskStatusLink
        <2>2. ASSUME NEW a \in Accounts, GetAccountByURI(p, a)  PROVE LinkInv(depth)'
            BY <2>2, AskAccountLink DEF GetAccountByURI
        <2>3. ASSUME NEW a \in Accounts, GetAccountByUsernameDomain(p, a)  PROVE LinkInv(depth)'
            BY <2>3, AskAccountLink DEF GetAccountByUsernameDomain
        <2>4. ASSUME NEW a \in Accounts, NEW v \in 1..MaxVersion, UpdateAccount(p, a, v)  PROVE LinkInv(depth)'
            BY <2>4, AskAccountLink DEF UpdateAccount
        <2>5. QED  BY <1>3, <2>1, <2>2, <2>3, <2>4 DEF Ask
    <1>4. CASE (\E u \in URIs : Edit(u)) \/ (\E s \in Statuses : RemoteDelete(s)) \/ Tick \/ UNCHANGED vars
        <2>1. UNCHANGED db /\ UNCHANGED <<st, ac, th, tasks>> /\ gone \subseteq gone' /\ failed' = failed
            BY <1>4 DEF Edit, RemoteDelete, Tick, vars, db
        <2>2. QED  BY <2>1, OutsideLink
    <1>5. ASSUME NEW u \in URIs, Evict(u)  PROVE LinkInv(depth)'
        BY <1>5, EvictLink
    <1>6. ASSUME NEW s \in Statuses, DeleteStatus(s)  PROVE LinkInv(depth)'
        BY <1>6, DeleteStatusLink
    <1>7. ASSUME NEW a \in Accounts, Suspend(a)  PROVE LinkInv(depth)'
        BY <1>7, SuspendLink
    <1>8. QED  BY <1>1, <1>2, <1>3, <1>4, <1>5, <1>6, <1>7 DEF Next

\* Once everybody is done nobody owes a link any more.
LEMMA LinksDone == ASSUME NEW depth  PROVE LinkInv(depth) => RepliesLinked
    <1> SUFFICES ASSUME LinkInv(depth), Quiet, ~ failed, NEW s \in Statuses, NEW r, r = InReplyTo[s],
                        r # NoStatus, {r, s} \cap (wiped \cup gone) = {}, rows[s].id # 0, rows[r].id # 0
                 PROVE  rows[s].parent = rows[r].id
        BY DEF RepliesLinked
    <1>1. r \in Statuses
        BY KeyFacts
    <1>2. Due(s)
        BY <1>1 DEF Due
    <1>3. ~ Token(s)
        <2>1. \A p \in Procs : th[p].pc = "idle"
            BY IdleFacts DEF Quiet, Idle
        <2>2. DOMAIN tasks = {}
            BY DEF Quiet
        <2>3. QED  BY <2>1, <2>2 DEF Token, Holds
    <1>4. rows[s].parent # 0
        BY <1>2, <1>3 DEF LinkInv, Owed
    <1>5. LinkOK(s, rows[s].parent)
        BY DEF LinkInv, DbLink, CopyOK
    <1>6. QED  BY <1>1, <1>4, <1>5 DEF LinkOK

\* Once the goroutines are done every stored reply is linked to its stored parent,
\* however they were interleaved, unless a fetch failed or one of the two is gone:
\* in threads no longer than a walk, whoever stores a reply without its link is
\* followed by a walk that writes it.
THEOREM RepliesGetLinked == ASSUME ThreadsShort  PROVE Spec => []RepliesLinked
    <1>1. PICK depth : Depths(depth)
        BY DEF ThreadsShort, Depths
    <1>2. Init => LinkInv(depth)
        BY LinkInit
    <1>3. DerefInv /\ LinkInv(depth) /\ [Next]_vars => LinkInv(depth)'
        BY <1>1, LinkNext
    <1>4. LinkInv(depth) => RepliesLinked
        BY LinksDone
    <1>5. QED  BY DerefAlways, <1>2, <1>3, <1>4, PTL DEF Spec
==============================================================================
