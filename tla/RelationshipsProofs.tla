------------------------- MODULE RelationshipsProofs -------------------------
(***************************************************************************)
(* Proofs of the types and the safety invariants of Relationships, for any *)
(* number of follows, blocks, lost and repeated activities.                *)
(***************************************************************************)
EXTENDS Relationships, TLAPS

Follows  == [id : RowIds, uri : Uris]
Entries  == [follow : Follows, under : SUBSET Index]
StoreSet == Stores(RowIds, Uris)

\* An entry that is found by its pair has the ID of the row.
PairAgrees(st) ==
    \A e \in st.cached : "Pair" \in e.under /\ st.row # None => e.follow.id = st.row.id

-----------------------------------------------------------------------------
(***************************************************************************)
(* The store                                                               *)
(***************************************************************************)
\* No follow has the ID of None.
LEMMA FollowIsNotNone == \A f \in Follows : f # None /\ f.id # 0
  BY DEF Follows, None, RowIds

\* What a store is made of.
LEMMA StoreParts ==
  ASSUME NEW st \in StoreSet
  PROVE  /\ st = [row |-> st.row, req |-> st.req, cached |-> st.cached]
         /\ st.row \in Follows \cup {None} /\ st.req \in Follows \cup {None}
         /\ st.cached \in SUBSET Entries
  BY DEF StoreSet, Stores, Follows, Entries

\* Storing a follow leaves the other entries, without the pair.
LEMMA DisplacedEntries ==
  ASSUME NEW c \in SUBSET Entries, NEW f \in Follows
  PROVE  /\ Displaced(c, f) \in SUBSET Entries
         /\ \A d \in Displaced(c, f) : "Pair" \notin d.under
<1>1. ASSUME NEW d \in Displaced(c, f)
      PROVE  d \in Entries /\ "Pair" \notin d.under
  <2>1. PICK e \in c : d = [e EXCEPT !.under = @ \ Shared(e, f)]
    BY DEF Displaced
  <2>2. e \in Entries
    OBVIOUS
  <2>3. "Pair" \in Shared(e, f)
    BY DEF Shared, HasKey, Index
  <2> QED BY <2>1, <2>2, <2>3 DEF Entries
<1> QED BY <1>1

\* A follow that is stored is the only one found by its pair.
LEMMA CachePutPair ==
  ASSUME NEW st \in StoreSet, NEW f \in Follows
  PROVE  /\ CachePut(st, f) \in StoreSet
         /\ CachePut(st, f).row = st.row /\ CachePut(st, f).req = st.req
         /\ \A e \in CachePut(st, f).cached : "Pair" \in e.under => e.follow = f
<1> DEFINE new == [follow |-> f, under |-> Index]
<1>1. new \in Entries
  BY DEF Entries
<1>2. Displaced(st.cached, f) \in SUBSET Entries
  BY StoreParts, DisplacedEntries
<1>3. CachePut(st, f) = [row |-> st.row, req |-> st.req, cached |-> Displaced(st.cached, f) \cup {new}]
  BY DEF CachePut, StoreSet, Stores
<1>4. CachePut(st, f) \in StoreSet
  BY <1>1, <1>2, <1>3, StoreParts DEF StoreSet, Stores, Follows, Entries
<1>5. \A e \in CachePut(st, f).cached : "Pair" \in e.under => e.follow = f
  BY <1>3, StoreParts, DisplacedEntries
<1> QED BY <1>3, <1>4, <1>5

\* A lookup changes no row.
LEMMA LoadedStore ==
  ASSUME NEW st \in StoreSet, PairAgrees(st), NEW index, NEW key
  PROVE  /\ Loaded(st, index, key) \in StoreSet /\ PairAgrees(Loaded(st, index, key))
         /\ Loaded(st, index, key).row = st.row /\ Loaded(st, index, key).req = st.req
<1>1. CASE Loaded(st, index, key) = st
  BY <1>1
<1>2. CASE st.row # None /\ Loaded(st, index, key) = CachePut(st, st.row)
  <2>1. st.row \in Follows
    BY <1>2, StoreParts
  <2> QED BY <1>2, <2>1, CachePutPair DEF PairAgrees
<1> QED BY <1>1, <1>2 DEF Loaded

\* What a lookup by pair or by ID returns has the ID of the row.
LEMMA LookupID ==
  ASSUME NEW st \in StoreSet, PairAgrees(st), st.row # None
  PROVE  /\ GetFollow(st, "Pair", 0) # None /\ GetFollow(st, "Pair", 0).id = st.row.id
         /\ GetFollow(st, "ID", st.row.id) # None /\ GetFollow(st, "ID", st.row.id).id = st.row.id
<1>1. \A e \in Found(st, "Pair", 0) \cup Found(st, "ID", st.row.id) :
          e.follow.id = st.row.id /\ e.follow # None
  <2>1. \A e \in st.cached : e.follow \in Follows
    BY StoreParts DEF Entries
  <2> QED BY <2>1, FollowIsNotNone DEF Found, HasKey, PairAgrees
<1>2. HasKey(st.row, "Pair", 0) /\ HasKey(st.row, "ID", st.row.id)
  BY DEF HasKey
<1> QED BY <1>1, <1>2 DEF GetFollow

\* Invalidation removes entries only.
LEMMA InvalidateStore ==
  ASSUME NEW st \in StoreSet, NEW index, NEW key
  PROVE  Invalidate(st, index, key)
           = [row |-> st.row, req |-> st.req, cached |-> st.cached \ Found(st, index, key)]
  BY DEF Invalidate, StoreSet, Stores

\* Deleting what was found removes no row but the one with its ID.
LEMMA DeleteStore ==
  ASSUME NEW st \in StoreSet, PairAgrees(st), NEW index, NEW key
  PROVE  LET d == DeleteFollowBy(st, index, key)
         IN  /\ d \in StoreSet /\ PairAgrees(d) /\ d.req = st.req
             /\ d.row = None \/ d.row = st.row
             /\ GetFollow(st, index, key) # None /\ GetFollow(st, index, key).id = st.row.id
                   => d.row = None
<1> DEFINE f == GetFollow(st, index, key)
           l == Loaded(st, index, key)
           r == IF l.row.id = f.id THEN None ELSE l.row
           m == [l EXCEPT !.row = r]
<1>1. CASE f = None
  BY <1>1 DEF DeleteFollowBy
<1>2. CASE f # None
  <2>1. l \in StoreSet /\ PairAgrees(l) /\ l.row = st.row /\ l.req = st.req
    BY LoadedStore
  <2>2. /\ m \in StoreSet
        /\ m.row = r /\ m.req = l.req /\ m.cached = l.cached
    BY <2>1 DEF StoreSet, Stores
  <2>3. DeleteFollowBy(st, index, key) = Invalidate(m, index, key)
    BY <1>2 DEF DeleteFollowBy
  <2>4. Invalidate(m, index, key)
          = [row |-> r, req |-> l.req, cached |-> l.cached \ Found(m, index, key)]
    BY <2>2, InvalidateStore
  <2>5. r = None \/ r = l.row
    OBVIOUS
  <2>6. Invalidate(m, index, key) \in StoreSet
    BY <2>1, <2>4, <2>5, StoreParts DEF StoreSet, Stores, Follows, Entries
  <2>7. PairAgrees(Invalidate(m, index, key))
    BY <2>1, <2>4, <2>5 DEF PairAgrees
  <2> QED BY <2>1, <2>3, <2>4, <2>5, <2>6, <2>7
<1> QED BY <1>1, <1>2

\* Deleting the follow of the pair deletes its row.
LEMMA DeleteFollowRow ==
  ASSUME NEW st \in StoreSet, PairAgrees(st)
  PROVE  /\ DeleteFollow(st) \in StoreSet /\ PairAgrees(DeleteFollow(st))
         /\ DeleteFollow(st).row = None /\ DeleteFollow(st).req = st.req
  BY DeleteStore, LookupID, StoreParts DEF DeleteFollow

\* Deleting a request leaves the follow alone.
LEMMA DeleteRequestStore ==
  ASSUME NEW st \in StoreSet, PairAgrees(st)
  PROVE  /\ DeleteFollowRequest(st) \in StoreSet /\ PairAgrees(DeleteFollowRequest(st))
         /\ DeleteFollowRequest(st).req = None /\ DeleteFollowRequest(st).row = st.row
<1>1. DeleteFollowRequest(st) = [row |-> st.row, req |-> None, cached |-> st.cached]
  BY StoreParts DEF DeleteFollowRequest
<1> QED BY <1>1, StoreParts DEF StoreSet, Stores, Follows, Entries, PairAgrees

\* So does making one.
LEMMA PutRequestStore ==
  ASSUME NEW st \in StoreSet, PairAgrees(st), NEW f \in Follows
  PROVE  /\ PutFollowRequest(st, f) \in StoreSet /\ PairAgrees(PutFollowRequest(st, f))
         /\ PutFollowRequest(st, f).row = st.row
<1>1. PutFollowRequest(st, f) = [row |-> st.row, req |-> f, cached |-> st.cached]
  BY StoreParts DEF PutFollowRequest
<1> QED BY <1>1, StoreParts DEF StoreSet, Stores, Follows, Entries, PairAgrees

\* Accepting a request leaves no entry that is found by its pair.
LEMMA AcceptStore ==
  ASSUME NEW st \in StoreSet, PairAgrees(st), st.req # None
  PROVE  /\ AcceptFollowRequest(st) \in StoreSet /\ PairAgrees(AcceptFollowRequest(st))
         /\ AcceptFollowRequest(st).req = None
<1> DEFINE r == IF st.row = None THEN st.req ELSE [st.row EXCEPT !.uri = st.req.uri]
<1>1. st.req \in Follows
  BY StoreParts
<1>2. r \in Follows
  BY <1>1, StoreParts DEF Follows
<1>3. AcceptFollowRequest(st) = [row |-> r, req |-> None, cached |-> Displaced(st.cached, st.req)]
  <2>1. AcceptFollowRequest(st)
          = [st EXCEPT !.row = r, !.cached = Displaced(st.cached, st.req), !.req = None]
    BY DEF AcceptFollowRequest
  <2> HIDE DEF r
  <2> QED BY <2>1 DEF StoreSet, Stores
<1>4. /\ Displaced(st.cached, st.req) \in SUBSET Entries
      /\ \A d \in Displaced(st.cached, st.req) : "Pair" \notin d.under
  BY <1>1, StoreParts, DisplacedEntries
<1> QED BY <1>2, <1>3, <1>4 DEF StoreSet, Stores, Follows, Entries, PairAgrees
-----------------------------------------------------------------------------
(***************************************************************************)
(* The inductive invariant                                                 *)
(***************************************************************************)
StoresOK == store \in [Servers -> StoreSet] /\ \A s \in Servers : PairAgrees(store[s])

RestOK ==
    /\ blocks \in [Servers -> [Servers -> BlockUris \cup {0}]]
    /\ fedi \in [Servers -> SUBSET Activities]
    /\ \A s \in Servers : \A m \in fedi[s] : m.to = s
    /\ net \in SUBSET Activities
    /\ locked \in BOOLEAN
    /\ followed \in 0..MaxFollows /\ troubles \in 0..MaxTroubles

IInv == StoresOK /\ RestOK /\ BlockSevers /\ FollowsOrAsks

\* A server's store is replaced by a sound one.
LEMMA StoreChange ==
  ASSUME StoresOK, NEW s \in Servers, NEW X \in StoreSet, PairAgrees(X),
         store' = [store EXCEPT ![s] = X]
  PROVE  /\ StoresOK' /\ store'[s] = X
         /\ \A t \in Servers : t # s => store'[t] = store[t]
  BY DEF StoresOK, PairAgrees

\* Follows, requests and blocks that only go away break nothing.
LEMMA Shrinks ==
  ASSUME BlockSevers, FollowsOrAsks,
         \A s \in Servers : /\ store'[s].row \in {None, store[s].row}
                            /\ store'[s].req \in {None, store[s].req},
         \A s, x \in Servers : blocks'[s][x] \in {0, blocks[s][x]},
         \A m \in fedi["a"] : m.type = "Block" => m \in fedi'["a"]
  PROVE  BlockSevers' /\ FollowsOrAsks'
  BY DEF BlockSevers, FollowsOrAsks, Servers

\* After unfollow nothing is left.
LEMMA UnfollowedStore ==
  ASSUME StoresOK, NEW s \in Servers
  PROVE  /\ Unfollowed(s) \in StoreSet /\ PairAgrees(Unfollowed(s))
         /\ Unfollowed(s).row = None /\ Unfollowed(s).req = None
<1> DEFINE st == store[s]
           f  == GetFollow(st, "Pair", 0)
           l  == Loaded(st, "Pair", 0)
           d  == IF f = None THEN st ELSE DeleteFollowByID(l, f.id)
<1>1. st \in StoreSet /\ PairAgrees(st)
  BY DEF StoresOK
<1>2. l \in StoreSet /\ PairAgrees(l) /\ l.row = st.row
  BY <1>1, LoadedStore
<1>3. d \in StoreSet /\ PairAgrees(d) /\ d.row = None
  <2>1. CASE st.row = None
    BY <1>1, <1>2, <2>1, DeleteStore DEF DeleteFollowByID
  <2>2. CASE st.row # None
    <3>1. f # None /\ f.id = l.row.id
      BY <1>1, <1>2, <2>2, LookupID
    <3>2. GetFollow(l, "ID", f.id) # None /\ GetFollow(l, "ID", f.id).id = l.row.id
      BY <1>2, <2>2, <3>1, LookupID
    <3> QED BY <1>2, <3>1, <3>2, DeleteStore DEF DeleteFollowByID
  <2> QED BY <2>1, <2>2
<1>4. Unfollowed(s) = DeleteFollowRequest(d)
  BY DEF Unfollowed
<1> HIDE DEF d
<1> QED BY <1>3, <1>4, DeleteRequestStore

\* A blocked pair has no follow and no request where its block counts.
LEMMA SeveredHere ==
  ASSUME BlockSevers, NEW s \in Servers, blocks[s][s] # 0
  PROVE  store[s].row = None /\ store[s].req = None
  BY DEF BlockSevers

\* The activities an operation makes are activities.
LEMMA ActivityTypes ==
  /\ \A u \in Uris : /\ Follow(u) \in Activities /\ UndoFollow(u) \in Activities
                     /\ AcceptFollow(u) \in Activities /\ RejectFollow(u) \in Activities
  /\ \A x \in Servers, w \in BlockUris :
        Block(x, w) \in Activities /\ UndoBlock(x, w) \in Activities
  BY DEF Activities, Activity, Follow, UndoFollow, AcceptFollow, RejectFollow, Block, UndoBlock,
         Servers, Peer

\* The messages of an unfollow are activities.
LEMMA UndoTypes ==
  ASSUME StoresOK, NEW s \in Servers
  PROVE  UndoMessages(s) \subseteq Activities
<1>1. store[s] \in StoreSet
  BY DEF StoresOK
<1>2. GetFollow(store[s], "Pair", 0) \in Follows \cup {None}
  <2>1. \A e \in Found(store[s], "Pair", 0) : e.follow \in Follows
    BY <1>1, StoreParts DEF Found, Entries
  <2> QED BY <1>1, <2>1, StoreParts DEF GetFollow
<1>3. store[s].req \in Follows \cup {None}
  BY <1>1, StoreParts
<1>4. \A f \in Follows : f.uri \in Uris
  BY DEF Follows
<1> QED BY <1>2, <1>3, <1>4, ActivityTypes DEF UndoMessages

-----------------------------------------------------------------------------
(***************************************************************************)
(* The steps                                                               *)
(***************************************************************************)
\* Initially nobody follows or blocks.
LEMMA InitIInv == Init => IInv
<1> SUFFICES ASSUME Init PROVE IInv
  OBVIOUS
<1>1. EmptyStore \in StoreSet /\ PairAgrees(EmptyStore)
  BY DEF EmptyStore, StoreSet, Stores, PairAgrees
<1>2. StoresOK
  BY <1>1 DEF Init, StoresOK
<1>3. RestOK
  BY RelationshipsAssumption DEF Init, RestOK
<1>4. BlockSevers /\ FollowsOrAsks
  BY DEF Init, BlockSevers, FollowsOrAsks, EmptyStore, Servers
<1> QED BY <1>2, <1>3, <1>4 DEF IInv

\* The bounds of a trouble.
LEMMA TroubleTypes ==
  ASSUME RestOK, Trouble
  PROVE  troubles' \in 0..MaxTroubles /\ troubles' \in BlockUris
  BY RelationshipsAssumption DEF RestOK, Trouble, BlockUris

\* Whether or not an activity is delivered again.
LEMMA HandledTypes ==
  ASSUME RestOK, NEW m, Handled(m)
  PROVE  troubles' \in 0..MaxTroubles /\ net' \in SUBSET Activities
  BY TroubleTypes DEF RestOK, Handled

\* FollowCreate makes a request only where there is nothing.
LEMMA FollowCreateStep == IInv /\ FollowCreate => IInv'
<1> SUFFICES ASSUME IInv, FollowCreate PROVE IInv'
  OBVIOUS
<1> USE DEF IInv
<1> DEFINE f == [id |-> followed + 1, uri |-> followed + 1]
<1>1. f \in Follows /\ followed' \in 0..MaxFollows /\ followed' \in Uris /\ followed' = followed + 1
  BY RelationshipsAssumption DEF FollowCreate, RestOK, Follows, RowIds, Uris
<1>2. "a" \in Servers /\ store["a"] \in StoreSet /\ PairAgrees(store["a"])
  BY DEF StoresOK, Servers
<1>3. store["a"].row = None
  BY <1>2, LookupID DEF FollowCreate
<1>4. store' = [store EXCEPT !["a"] = PutFollowRequest(store["a"], f)]
  BY <1>1 DEF FollowCreate
<1>5. /\ StoresOK' /\ store'["a"] = PutFollowRequest(store["a"], f)
      /\ \A t \in Servers : t # "a" => store'[t] = store[t]
  <2> HIDE DEF f
  <2>1. PutFollowRequest(store["a"], f) \in StoreSet /\ PairAgrees(PutFollowRequest(store["a"], f))
    BY <1>1, <1>2, PutRequestStore
  <2> QED BY <1>2, <1>4, <2>1, StoreChange
<1>6. store'["a"].row = None
  BY <1>1, <1>2, <1>3, <1>5, PutRequestStore
<1>7. RestOK'
  BY <1>1, ActivityTypes DEF FollowCreate, RestOK
<1>8. \A x \in Servers : blocks'["a"][x] = 0
  BY DEF FollowCreate, EitherBlocks
<1>9. BlockSevers'
  BY <1>5, <1>8 DEF BlockSevers, FollowCreate, Servers
<1> QED BY <1>5, <1>6, <1>7, <1>9 DEF FollowsOrAsks

\* FollowRemove.
LEMMA FollowRemoveStep == IInv /\ FollowRemove => IInv'
<1> SUFFICES ASSUME IInv, FollowRemove PROVE IInv'
  OBVIOUS
<1> USE DEF IInv
<1>1. "a" \in Servers
  BY DEF Servers
<1>2. /\ StoresOK' /\ store'["a"] = Unfollowed("a")
      /\ \A t \in Servers : t # "a" => store'[t] = store[t]
  BY <1>1, UnfollowedStore, StoreChange DEF FollowRemove
<1>3. RestOK'
  BY <1>1, UndoTypes DEF FollowRemove, RestOK
<1>4. \A s \in Servers : /\ store'[s].row \in {None, store[s].row}
                         /\ store'[s].req \in {None, store[s].req}
  BY <1>1, <1>2, UnfollowedStore
<1>5. BlockSevers' /\ FollowsOrAsks'
  BY <1>4, Shrinks DEF FollowRemove
<1> QED BY <1>2, <1>3, <1>5

\* BlockCreate unfollows in the same step.
LEMMA BlockCreateStep ==
  ASSUME IInv, NEW x \in Servers, BlockCreate(x)
  PROVE  IInv'
<1> USE DEF IInv
<1>1. /\ StoresOK' /\ store'[x] = Unfollowed(x)
      /\ \A t \in Servers : t # x => store'[t] = store[t]
  BY UnfollowedStore, StoreChange DEF BlockCreate
<1>2. store'[x].row = None /\ store'[x].req = None
  BY <1>1, UnfollowedStore
<1>3. troubles' \in 0..MaxTroubles /\ troubles' \in BlockUris
  BY TroubleTypes DEF BlockCreate
<1>4. RestOK'
  <2>1. Block(x, troubles') \in Activities /\ UndoMessages(x) \subseteq Activities
    BY <1>3, ActivityTypes, UndoTypes
  <2> QED BY <1>3, <2>1 DEF BlockCreate, RestOK
<1>5. BlockSevers'
  <2> SUFFICES ASSUME NEW s \in Servers, NEW y \in Servers, blocks'[s][y] # 0,
                      s = y \/ (s = "a" /\ \A m \in fedi'[s] : m.type # "Block")
               PROVE  store'[s].row = None /\ store'[s].req = None
    BY DEF BlockSevers
  <2>1. CASE s = x
    BY <1>2, <2>1
  <2>2. CASE s # x
    BY <1>1, <2>2 DEF BlockSevers, BlockCreate, RestOK
  <2> QED BY <2>1, <2>2
<1>6. FollowsOrAsks'
  BY <1>1, <1>2 DEF FollowsOrAsks, Servers
<1> QED BY <1>1, <1>4, <1>5, <1>6

\* BlockRemove.
LEMMA BlockRemoveStep ==
  ASSUME IInv, NEW x \in Servers, BlockRemove(x)
  PROVE  IInv'
<1> USE DEF IInv
<1>1. StoresOK'
  BY DEF BlockRemove, StoresOK, PairAgrees
<1>2. RestOK'
  <2>1. UndoBlock(x, blocks[x][x]) \in Activities
    BY ActivityTypes DEF BlockRemove, RestOK
  <2> QED BY <2>1 DEF BlockRemove, RestOK
<1>3. \A s, y \in Servers : blocks'[s][y] \in {0, blocks[s][y]}
  BY DEF BlockRemove, RestOK
<1>4. BlockSevers' /\ FollowsOrAsks'
  BY <1>3, Shrinks DEF BlockRemove
<1> QED BY <1>1, <1>2, <1>4

\* Accepting a request at a server: it had no block that counts.
LEMMA AcceptStep ==
  ASSUME IInv, NEW s \in Servers, store[s].req # None,
         store' = [store EXCEPT ![s] = AcceptFollowRequest(@)],
         UNCHANGED blocks,
         \A m \in fedi["a"] : m.type = "Block" => m \in fedi'["a"]
  PROVE  StoresOK' /\ BlockSevers' /\ FollowsOrAsks'
<1> USE DEF IInv
<1>1. store[s] \in StoreSet /\ PairAgrees(store[s])
  BY DEF StoresOK
<1>2. /\ AcceptFollowRequest(store[s]) \in StoreSet /\ PairAgrees(AcceptFollowRequest(store[s]))
      /\ AcceptFollowRequest(store[s]).req = None
  BY <1>1, AcceptStore
<1>3. store' = [store EXCEPT ![s] = AcceptFollowRequest(store[s])]
  BY DEF StoresOK
<1>4. /\ StoresOK' /\ store'[s] = AcceptFollowRequest(store[s])
      /\ \A t \in Servers : t # s => store'[t] = store[t]
  BY <1>2, <1>3, StoreChange
<1>5. BlockSevers'
  BY <1>4 DEF BlockSevers, Servers
<1>6. FollowsOrAsks'
  BY <1>2, <1>4 DEF FollowsOrAsks, Servers
<1> QED BY <1>4, <1>5, <1>6

\* FollowRequestAccept.
LEMMA FollowRequestAcceptStep == IInv /\ FollowRequestAccept => IInv'
<1> SUFFICES ASSUME IInv, FollowRequestAccept PROVE IInv'
  OBVIOUS
<1> USE DEF IInv
<1>1. "b" \in Servers /\ store["b"] \in StoreSet
  BY DEF Servers, StoresOK
<1>2. StoresOK' /\ BlockSevers' /\ FollowsOrAsks'
  BY <1>1, AcceptStep DEF FollowRequestAccept
<1>3. store["b"].req.uri \in Uris
  BY <1>1, StoreParts DEF FollowRequestAccept, Follows
<1>4. RestOK'
  BY <1>3, ActivityTypes DEF FollowRequestAccept, RestOK
<1> QED BY <1>2, <1>4

\* Deleting a request at a server.
LEMMA RejectStep ==
  ASSUME IInv, NEW s \in Servers,
         store' = [store EXCEPT ![s] = DeleteFollowRequest(@)], UNCHANGED <<blocks, fedi>>
  PROVE  StoresOK' /\ BlockSevers' /\ FollowsOrAsks'
<1> USE DEF IInv
<1>1. store[s] \in StoreSet /\ PairAgrees(store[s])
  BY DEF StoresOK
<1>2. store' = [store EXCEPT ![s] = DeleteFollowRequest(store[s])]
  BY DEF StoresOK
<1>3. /\ StoresOK' /\ store'[s] = DeleteFollowRequest(store[s])
      /\ \A t \in Servers : t # s => store'[t] = store[t]
  BY <1>1, <1>2, DeleteRequestStore, StoreChange
<1>4. \A t \in Servers : /\ store'[t].row \in {None, store[t].row}
                         /\ store'[t].req \in {None, store[t].req}
  BY <1>1, <1>3, DeleteRequestStore
<1>5. BlockSevers' /\ FollowsOrAsks'
  BY <1>4, Shrinks
<1> QED BY <1>3, <1>5

\* FollowRequestReject.
LEMMA FollowRequestRejectStep == IInv /\ FollowRequestReject => IInv'
<1> SUFFICES ASSUME IInv, FollowRequestReject PROVE IInv'
  OBVIOUS
<1> USE DEF IInv
<1>1. "b" \in Servers /\ store["b"] \in StoreSet
  BY DEF Servers, StoresOK
<1>2. StoresOK' /\ BlockSevers' /\ FollowsOrAsks'
  BY <1>1, RejectStep DEF FollowRequestReject
<1>3. store["b"].req.uri \in Uris
  BY <1>1, StoreParts DEF FollowRequestReject, Follows
<1>4. RestOK'
  BY <1>3, ActivityTypes DEF FollowRequestReject, RestOK
<1> QED BY <1>2, <1>4

\* An activity that is refused or given up.
LEMMA NoEffectStep ==
  ASSUME IInv, NEW m \in net, Refused(m) \/ GiveUp(m)
  PROVE  IInv'
<1> USE DEF IInv
<1>1. UNCHANGED <<store, blocks, fedi, locked, followed>>
  BY DEF Refused, GiveUp
<1>2. troubles' \in 0..MaxTroubles /\ net' \in SUBSET Activities
  BY HandledTypes, TroubleTypes DEF Refused, GiveUp, RestOK
<1>3. RestOK'
  BY <1>1, <1>2 DEF RestOK
<1>4. StoresOK'
  BY <1>1 DEF StoresOK, PairAgrees
<1>5. BlockSevers' /\ FollowsOrAsks'
  BY <1>1 DEF BlockSevers, FollowsOrAsks
<1> QED BY <1>3, <1>4, <1>5

\* Where an activity goes follows from its type.
LEMMA Destinations ==
  ASSUME RestOK, NEW m \in net
  PROVE  /\ m.to \in Servers
         /\ m.type \in {"Follow", "UndoFollow"} => m.to = "b" /\ m.uri \in Uris
         /\ m.type \in {"Accept", "Reject"} => m.to = "a" /\ m.uri \in Uris
         /\ m.type \in {"Block", "UndoBlock"} => m.uri \in BlockUris
  BY DEF RestOK, Activities, Servers

\* A follow that arrives.
LEMMA ActivityFollowStep ==
  ASSUME IInv, NEW m \in net, activityFollow(m)
  PROVE  IInv'
<1> USE DEF IInv
<1> DEFINE f == [id |-> FreshId(store["b"]), uri |-> m.uri]
<1>1. m.type = "Follow" /\ m.to = "b" /\ m.uri \in Uris /\ m \in Activities
  BY Destinations DEF activityFollow, Arrives, RestOK
<1>2. "b" \in Servers /\ store["b"] \in StoreSet /\ PairAgrees(store["b"])
  BY DEF StoresOK, Servers
<1>3. f \in Follows
  BY <1>1 DEF activityFollow, FreshId, Follows
<1>4. store' = [store EXCEPT !["b"] = PutFollowRequest(store["b"], f)]
  BY DEF activityFollow
<1>5. /\ StoresOK' /\ \A t \in Servers : t # "b" => store'[t] = store[t]
  <2> HIDE DEF f
  <2>1. PutFollowRequest(store["b"], f) \in StoreSet /\ PairAgrees(PutFollowRequest(store["b"], f))
    BY <1>2, <1>3, PutRequestStore
  <2> QED BY <1>2, <1>4, <2>1, StoreChange
<1>6. RestOK'
  BY <1>1, HandledTypes DEF activityFollow, Arrives, RestOK, Servers
<1>7. blocks["b"]["b"] = 0
  BY <1>1 DEF activityFollow, Arrives, Blocked
<1>8. BlockSevers'
  BY <1>1, <1>5, <1>7 DEF BlockSevers, activityFollow, Servers, RestOK
<1>9. FollowsOrAsks'
  BY <1>5 DEF FollowsOrAsks, Servers
<1> QED BY <1>5, <1>6, <1>8, <1>9

\* An accept or a reject that arrives.
LEMMA AnswerStep ==
  ASSUME IInv, NEW m \in net, Accept(m) \/ Reject(m)
  PROVE  IInv'
<1> USE DEF IInv
<1>1. "a" \in Servers
  BY DEF Servers
<1>2. StoresOK' /\ BlockSevers' /\ FollowsOrAsks'
  BY <1>1, AcceptStep, RejectStep DEF Accept, Reject
<1>3. RestOK'
  BY HandledTypes DEF Accept, Reject, Arrives, RestOK
<1> QED BY <1>2, <1>3

\* An undo of a follow that arrives takes away at most the follow and the request.
LEMMA UndoFollowStep ==
  ASSUME IInv, NEW m \in net, undoFollow(m)
  PROVE  IInv'
<1> USE DEF IInv
<1> DEFINE d == DeleteFollowByURI(store["b"], m.uri)
           e == DeleteFollowRequestByURI(d, m.uri)
<1>1. "b" \in Servers /\ store["b"] \in StoreSet /\ PairAgrees(store["b"])
  BY DEF StoresOK, Servers
<1>2. /\ d \in StoreSet /\ PairAgrees(d) /\ d.req = store["b"].req
      /\ d.row \in {None, store["b"].row}
  BY <1>1, DeleteStore DEF DeleteFollowByURI
<1>3. /\ e \in StoreSet /\ PairAgrees(e)
      /\ e.row = d.row /\ e.req \in {None, d.req}
  <2> HIDE DEF d
  <2> QED BY <1>2, DeleteRequestStore DEF DeleteFollowRequestByURI
<1>4. store' = [store EXCEPT !["b"] = e]
  BY DEF undoFollow
<1>5. /\ StoresOK' /\ store'["b"] = e
      /\ \A t \in Servers : t # "b" => store'[t] = store[t]
  <2> HIDE DEF e
  <2> QED BY <1>1, <1>3, <1>4, StoreChange
<1>6. \A s \in Servers : /\ store'[s].row \in {None, store[s].row}
                         /\ store'[s].req \in {None, store[s].req}
  <2> HIDE DEF d, e
  <2> QED BY <1>2, <1>3, <1>5
<1>7. BlockSevers' /\ FollowsOrAsks'
  BY <1>6, Shrinks DEF undoFollow
<1>8. RestOK'
  BY HandledTypes DEF undoFollow, Arrives, RestOK
<1> QED BY <1>5, <1>7, <1>8

\* A block that arrives counts only when its worker has handled it.
LEMMA ActivityBlockStep ==
  ASSUME IInv, NEW m \in net, activityBlock(m)
  PROVE  IInv'
<1> USE DEF IInv
<1>1. m.type = "Block" /\ m.to \in Servers /\ m.uri \in BlockUris /\ m \in Activities
  BY Destinations DEF activityBlock, Arrives, RestOK
<1>2. StoresOK'
  BY DEF activityBlock, StoresOK, PairAgrees
<1>3. RestOK'
  BY <1>1, HandledTypes DEF activityBlock, Arrives, RestOK, Servers, Peer
<1>4. FollowsOrAsks'
  BY DEF activityBlock, FollowsOrAsks
<1>5. BlockSevers'
  BY <1>1 DEF BlockSevers, activityBlock, Servers, Peer, RestOK
<1> QED BY <1>2, <1>3, <1>4, <1>5

\* An undo of a block that arrives.
LEMMA UndoBlockStep ==
  ASSUME IInv, NEW m \in net, undoBlock(m)
  PROVE  IInv'
<1> USE DEF IInv
<1>1. m.to \in Servers
  BY Destinations
<1>2. StoresOK'
  BY DEF undoBlock, StoresOK, PairAgrees
<1>3. RestOK'
  BY <1>1, HandledTypes DEF undoBlock, Arrives, RestOK, Servers, Peer
<1>4. \A s, y \in Servers : blocks'[s][y] \in {0, blocks[s][y]}
  BY <1>1 DEF undoBlock, RestOK, Servers, Peer
<1>5. BlockSevers' /\ FollowsOrAsks'
  BY <1>4, Shrinks DEF undoBlock
<1> QED BY <1>2, <1>3, <1>5

\* The worker of b answers a request or leaves it.
LEMMA CreateFollowReqStep ==
  ASSUME IInv, NEW m, CreateFollowReqWaits(m) \/ CreateFollowReq(m)
  PROVE  IInv'
<1> USE DEF IInv
<1>1. "b" \in Servers /\ store["b"] \in StoreSet
  BY DEF Servers, StoresOK
<1>2. fedi'["a"] = fedi["a"]
  BY DEF CreateFollowReqWaits, CreateFollowReq, RestOK, Servers
<1>3. CASE CreateFollowReqWaits(m)
  <2>1. RestOK'
    BY <1>3 DEF CreateFollowReqWaits, RestOK, Servers
  <2>2. StoresOK'
    BY <1>3 DEF CreateFollowReqWaits, StoresOK, PairAgrees
  <2>3. BlockSevers' /\ FollowsOrAsks'
    BY <1>2, <1>3, Shrinks DEF CreateFollowReqWaits
  <2> QED BY <2>1, <2>2, <2>3
<1>4. CASE CreateFollowReq(m)
  <2>1. StoresOK' /\ BlockSevers' /\ FollowsOrAsks'
    BY <1>1, <1>2, <1>4, AcceptStep DEF CreateFollowReq
  <2>2. store["b"].req.uri \in Uris
    BY <1>1, <1>4, StoreParts DEF CreateFollowReq, Follows
  <2>3. RestOK'
    BY <1>4, <2>2, ActivityTypes DEF CreateFollowReq, RestOK, Servers
  <2> QED BY <2>1, <2>3
<1> QED BY <1>3, <1>4

\* The worker that handles a block leaves nothing, so the block counts from then on.
LEMMA CreateBlockStep ==
  ASSUME IInv, NEW s \in Servers, NEW m, CreateBlock(s, m)
  PROVE  IInv'
<1> USE DEF IInv
<1> DEFINE d == DeleteFollow(store[s])
           e == DeleteFollowRequest(d)
<1>1. store[s] \in StoreSet /\ PairAgrees(store[s])
  BY DEF StoresOK
<1>2. d \in StoreSet /\ PairAgrees(d) /\ d.row = None
  BY <1>1, DeleteFollowRow
<1>3. e \in StoreSet /\ PairAgrees(e) /\ e.row = None /\ e.req = None
  <2> HIDE DEF d
  <2> QED BY <1>2, DeleteRequestStore
<1>4. store' = [store EXCEPT ![s] = e]
  BY DEF CreateBlock
<1>5. /\ StoresOK' /\ store'[s] = e
      /\ \A t \in Servers : t # s => store'[t] = store[t]
  <2> HIDE DEF e
  <2> QED BY <1>3, <1>4, StoreChange
<1>6. RestOK'
  BY DEF CreateBlock, RestOK, Servers
<1>7. BlockSevers'
  <2> HIDE DEF e
  <2> SUFFICES ASSUME NEW t \in Servers, NEW y \in Servers, blocks'[t][y] # 0,
                      t = y \/ (t = "a" /\ \A n \in fedi'[t] : n.type # "Block")
               PROVE  store'[t].row = None /\ store'[t].req = None
    BY DEF BlockSevers
  <2>1. CASE t = s
    BY <1>3, <1>5, <2>1
  <2>2. CASE t # s
    BY <1>5, <2>2 DEF BlockSevers, CreateBlock, RestOK
  <2> QED BY <2>1, <2>2
<1>8. FollowsOrAsks'
  <2> HIDE DEF e
  <2> QED BY <1>3, <1>5 DEF FollowsOrAsks, Servers
<1> QED BY <1>5, <1>6, <1>7, <1>8

\* An eviction removes an entry only.
LEMMA EvictStore ==
  ASSUME NEW st \in StoreSet, PairAgrees(st), NEW e
  PROVE  LET v == [st EXCEPT !.cached = @ \ {e}]
         IN  v \in StoreSet /\ PairAgrees(v) /\ v.row = st.row /\ v.req = st.req
<1> DEFINE v == [st EXCEPT !.cached = st.cached \ {e}]
<1>1. v = [row |-> st.row, req |-> st.req, cached |-> st.cached \ {e}]
  BY DEF StoreSet, Stores
<1>2. v \in StoreSet
  BY <1>1, StoreParts DEF StoreSet, Stores, Follows, Entries
<1>3. PairAgrees(v)
  BY <1>1 DEF PairAgrees
<1> QED BY <1>1, <1>2, <1>3

\* Lookups and evictions change the cache only.
LEMMA CacheStep ==
  ASSUME IInv, NEW s \in Servers, IsFollowing(s) \/ \E e \in store[s].cached : Evict(s, e)
  PROVE  IInv'
<1> USE DEF IInv
<1>1. store[s] \in StoreSet /\ PairAgrees(store[s])
  BY DEF StoresOK
<1>2. PICK X \in StoreSet : /\ PairAgrees(X) /\ X.row = store[s].row /\ X.req = store[s].req
                            /\ store' = [store EXCEPT ![s] = X]
  <2>1. CASE IsFollowing(s)
    <3> DEFINE X == Loaded(store[s], "Pair", 0)
    <3>1. X \in StoreSet /\ PairAgrees(X) /\ X.row = store[s].row /\ X.req = store[s].req
      BY <1>1, LoadedStore
    <3>2. store' = [store EXCEPT ![s] = X]
      BY <2>1 DEF IsFollowing
    <3> HIDE DEF X
    <3> QED BY <3>1, <3>2
  <2>2. ASSUME NEW e \in store[s].cached, Evict(s, e)
        PROVE  \E X \in StoreSet :
                  /\ PairAgrees(X) /\ X.row = store[s].row /\ X.req = store[s].req
                  /\ store' = [store EXCEPT ![s] = X]
    <3> DEFINE X == [store[s] EXCEPT !.cached = @ \ {e}]
    <3>1. X \in StoreSet /\ PairAgrees(X) /\ X.row = store[s].row /\ X.req = store[s].req
      BY <1>1, EvictStore
    <3>2. store' = [store EXCEPT ![s] = X]
      BY <2>2 DEF Evict
    <3> HIDE DEF X
    <3> QED BY <3>1, <3>2
  <2> QED BY <2>1, <2>2
<1>3. /\ StoresOK' /\ store'[s] = X
      /\ \A t \in Servers : t # s => store'[t] = store[t]
  BY <1>2, StoreChange
<1>4. UNCHANGED <<blocks, fedi, net, locked, followed, troubles>>
  BY DEF IsFollowing, Evict
<1>5. RestOK'
  BY <1>4 DEF RestOK
<1>6. BlockSevers' /\ FollowsOrAsks'
  <2>1. \A t \in Servers : /\ store'[t].row \in {None, store[t].row}
                           /\ store'[t].req \in {None, store[t].req}
    BY <1>2, <1>3
  <2> QED BY <1>4, <2>1, Shrinks
<1> QED BY <1>3, <1>5, <1>6

\* Every step preserves the invariant.
LEMMA NextIInv == IInv /\ [Next]_vars => IInv'
<1> SUFFICES ASSUME IInv, [Next]_vars PROVE IInv'
  OBVIOUS
<1>1. CASE Users
  BY <1>1, FollowCreateStep, FollowRemoveStep, BlockCreateStep, BlockRemoveStep,
     FollowRequestAcceptStep, FollowRequestRejectStep DEF Users
<1>2. ASSUME NEW m \in net, Refused(m) \/ Inbox(m) \/ GiveUp(m) PROVE IInv'
  BY <1>2, NoEffectStep, ActivityFollowStep, AnswerStep, UndoFollowStep, ActivityBlockStep,
     UndoBlockStep DEF Inbox
<1>3. ASSUME NEW m \in fedi["b"], CreateFollowReqWaits(m) \/ CreateFollowReq(m) PROVE IInv'
  BY <1>3, CreateFollowReqStep
<1>4. ASSUME NEW s \in Servers,
             Workers(s) \/ IsFollowing(s) \/ \E e \in store[s].cached : Evict(s, e)
      PROVE  IInv'
  BY <1>4, CreateBlockStep, CacheStep DEF Workers
<1>5. CASE UNCHANGED vars
  BY <1>5 DEF vars, IInv, StoresOK, PairAgrees, RestOK, BlockSevers, FollowsOrAsks
<1> QED BY <1>1, <1>2, <1>3, <1>4, <1>5 DEF Next

\* The invariant holds in every reachable state.
LEMMA InvariantHolds == Spec => []IInv
  BY InitIInv, NextIInv, PTL DEF Spec

-----------------------------------------------------------------------------
(***************************************************************************)
(* Theorems                                                                *)
(***************************************************************************)
\* Stores, blocks, messages and activities have their types, whatever activities
\* are lost, repeated or overtaken.
THEOREM TypesHold == Spec => []TypeOK
<1>1. IInv => TypeOK
  BY DEF IInv, StoresOK, RestOK, TypeOK, StoreSet
<1> QED BY <1>1, InvariantHolds, PTL

\* A block leaves no follow and no request where it counts.
THEOREM BlocksSever == Spec => []BlockSevers
<1>1. IInv => BlockSevers
  BY DEF IInv
<1> QED BY <1>1, InvariantHolds, PTL

\* On its own server an account never both follows and asks to follow.
THEOREM FollowOrAsk == Spec => []FollowsOrAsks
<1>1. IInv => FollowsOrAsks
  BY DEF IInv
<1> QED BY <1>1, InvariantHolds, PTL

\* What the cache has for the pair can be used to delete the row.
THEOREM LookupsFindRow == Spec => []LookupFindsRow
<1>1. IInv => LookupFindsRow
  BY LookupID DEF IInv, StoresOK, LookupFindsRow
<1> QED BY <1>1, InvariantHolds, PTL
=============================================================================
