----------------------------- MODULE FollowStore -----------------------------
(***************************************************************************)
(* The follow of one account by another in the database of one server      *)
(* (internal/db/bundb): its row in follows, its row in follow_requests and *)
(* the entries of the follow cache, as a record, and the calls of          *)
(* relationshipDB as operators on it.                                      *)
(*                                                                         *)
(* A cached follow can be found under its ID, its URI and its pair of      *)
(* accounts. Storing another one under a key takes the key away from the   *)
(* entry that had it, which stays under its other keys. The cache of       *)
(* follow requests always agrees with its table and is left out, and so    *)
(* are cached misses.                                                      *)
(***************************************************************************)
EXTENDS Naturals

None  == [id |-> 0, uri |-> 0]
Index == {"ID", "URI", "Pair"}

EmptyStore == [row |-> None, req |-> None, cached |-> {}]

Stores(Ids, Uris) ==
    LET Follow == [id : Ids, uri : Uris]
    IN  [row : Follow \cup {None}, req : Follow \cup {None},
         cached : SUBSET [follow : Follow, under : SUBSET Index]]

-----------------------------------------------------------------------------
(***************************************************************************)
(* The cache                                                               *)
(***************************************************************************)
HasKey(f, index, key) ==
    CASE index = "ID"   -> f.id = key
      [] index = "URI"  -> f.uri = key
      [] index = "Pair" -> TRUE

Found(st, index, key) ==
    {e \in st.cached : index \in e.under /\ HasKey(e.follow, index, key)}

\* The keys f takes away from the entry e.
Shared(e, f) ==
    {index \in Index : HasKey(e.follow, index, IF index = "ID" THEN f.id ELSE f.uri)}

Displaced(cached, f) ==
    {e \in {[e EXCEPT !.under = @ \ Shared(e, f)] : e \in cached} : e.under # {}}

CachePut(st, f) ==
    [st EXCEPT !.cached = Displaced(@, f) \cup {[follow |-> f, under |-> Index]}]

Invalidate(st, index, key) == [st EXCEPT !.cached = @ \ Found(st, index, key)]

\* What a lookup returns, None for no entries, and what it leaves in the cache.
GetFollow(st, index, key) ==
    IF Found(st, index, key) # {} THEN (CHOOSE e \in Found(st, index, key) : TRUE).follow
    ELSE IF st.row # None /\ HasKey(st.row, index, key) THEN st.row ELSE None

Loaded(st, index, key) ==
    IF Found(st, index, key) = {} /\ st.row # None /\ HasKey(st.row, index, key)
    THEN CachePut(st, st.row) ELSE st

-----------------------------------------------------------------------------
(***************************************************************************)
(* Follow requests                                                         *)
(***************************************************************************)
PutFollowRequest(st, f)    == [st EXCEPT !.req = f]
DeleteFollowRequest(st)    == [st EXCEPT !.req = None]
DeleteFollowRequestByURI(st, u) == IF st.req.uri = u THEN DeleteFollowRequest(st) ELSE st

\* Mutant: the pair's older entry stays in the cache.
AcceptFollowRequest_KeepsPair(st) ==
    [st EXCEPT !.row = IF @ = None THEN st.req ELSE [@ EXCEPT !.uri = st.req.uri],
               !.cached = {e \in @ : e.follow.uri # st.req.uri}
                          \cup {[follow |-> st.req, under |-> Index]},
               !.req = None]

\* Mutant: the request is not deleted.
AcceptFollowRequest_KeepsRequest(st) ==
    [st EXCEPT !.row = IF @ = None THEN st.req ELSE [@ EXCEPT !.uri = st.req.uri],
               !.cached = Displaced(@, st.req)]

\* The follow is inserted, or the row of the pair gets its URI and keeps its own
\* ID. The new entry is put into the cache; the hook then invalidates the cached
\* request with this ID, whose hook invalidates the new entry.
AcceptFollowRequest(st) ==
    [st EXCEPT !.row = IF @ = None THEN st.req ELSE [@ EXCEPT !.uri = st.req.uri],
               !.cached = Displaced(@, st.req),
               !.req = None]

-----------------------------------------------------------------------------
(***************************************************************************)
(* Follows: the row that goes is the one with the ID the lookup found      *)
(***************************************************************************)
DeleteFollowBy(st, index, key) ==
    LET f == GetFollow(st, index, key)
        l == Loaded(st, index, key)
    IN  IF f = None THEN st
        ELSE Invalidate([l EXCEPT !.row = IF @.id = f.id THEN None ELSE @], index, key)

DeleteFollow(st)         == DeleteFollowBy(st, "Pair", 0)
DeleteFollowByID(st, id) == DeleteFollowBy(st, "ID", id)
DeleteFollowByURI(st, u) == DeleteFollowBy(st, "URI", u)
=============================================================================
