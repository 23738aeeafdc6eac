---------------------------- MODULE Relationships ----------------------------
(***************************************************************************)
(* Account a follows, unfollows and blocks account b on another server,    *)
(* and b accepts, rejects and blocks. Both servers run this code: the API  *)
(* handlers change the database and queue a message that a client worker   *)
(* turns into an activity, the other server's inbox changes its database   *)
(* and queues a message for its federator workers. Each handler is one     *)
(* step; a client worker reads nothing of this state, so its queue is part *)
(* of an activity's way.                                                   *)
(*                                                                         *)
(* Activities overtake each other; one that is answered with an error is   *)
(* sent again, and may be delivered twice or given up. Servers are named   *)
(* after their account. URIs are numbers in order of creation.             *)
(***************************************************************************)
EXTENDS Naturals, FiniteSets, FollowStore

CONSTANTS
    MaxFollows,   \* bound: follow requests made
    MaxTroubles,  \* bound: blocks made, activities lost or delivered twice, together
    MaxIds        \* bound: IDs of rows in use at a time

ASSUME RelationshipsAssumption ==
    MaxFollows \in Nat /\ MaxTroubles \in Nat /\ MaxIds \in Nat /\ MaxFollows <= MaxIds

VARIABLES
    store,      \* each server's FollowStore for a's follow of b
    blocks,     \* blocks[s][x]: URI of x's block of the other account at server s, or 0
    fedi,       \* messages for each server's federator workers
    net,        \* activities queued and on their way
    locked,     \* b approves its followers by hand
    followed,   \* follow requests made so far
    troubles    \* blocks and faults so far

vars == <<store, blocks, fedi, net, locked, followed, troubles>>

Servers   == {"a", "b"}
Uris      == 1..MaxFollows
BlockUris == 1..MaxTroubles
RowIds    == 1..MaxIds
Peer(s)   == IF s = "a" THEN "b" ELSE "a"

Activity(to, type, uri) == [to |-> to, type |-> type, uri |-> uri]
Activities ==
    [to : {"b"}, type : {"Follow", "UndoFollow"}, uri : Uris]
    \cup [to : {"a"}, type : {"Accept", "Reject"}, uri : Uris]
    \cup [to : Servers, type : {"Block", "UndoBlock"}, uri : BlockUris]

Follow(u)       == Activity("b", "Follow", u)
UndoFollow(u)   == Activity("b", "UndoFollow", u)
AcceptFollow(u) == Activity("a", "Accept", u)
RejectFollow(u) == Activity("a", "Reject", u)
Block(x, w)     == Activity(Peer(x), "Block", w)
UndoBlock(x, w) == Activity(Peer(x), "UndoBlock", w)

TypeOK ==
    /\ store \in [Servers -> Stores(RowIds, Uris)]
    /\ blocks \in [Servers -> [Servers -> BlockUris \cup {0}]]
    /\ fedi \in [Servers -> SUBSET Activities]
    /\ \A s \in Servers : \A m \in fedi[s] : m.to = s
    /\ net \in SUBSET Activities
    /\ locked \in BOOLEAN
    /\ followed \in 0..MaxFollows /\ troubles \in 0..MaxTroubles

Init ==
    /\ store  = [s \in Servers |-> EmptyStore]
    /\ blocks = [s \in Servers |-> [x \in Servers |-> 0]]
    /\ fedi   = [s \in Servers |-> {}]
    /\ net = {} /\ locked \in BOOLEAN
    /\ followed = 0 /\ troubles = 0

Trouble == troubles < MaxTroubles /\ troubles' = troubles + 1

-----------------------------------------------------------------------------
(***************************************************************************)
(* API handlers                                                            *)
(***************************************************************************)
EitherBlocks(s) == \E x \in Servers : blocks[s][x] # 0

FollowCreate ==
    /\ ~EitherBlocks("a")
    /\ GetFollow(store["a"], "Pair", 0) = None /\ store["a"].req = None
    /\ followed < MaxFollows /\ followed' = followed + 1
    /\ store' = [store EXCEPT !["a"] = PutFollowRequest(@, [id |-> followed', uri |-> followed'])]
    /\ net' = net \cup {Follow(followed')}
    /\ UNCHANGED <<blocks, fedi, locked, troubles>>

\* Mutant: the other direction is forgotten.
Unfollowed_OwnOnly(s) == IF s = "a" THEN DeleteFollowRequest(DeleteFollow(store[s])) ELSE store[s]

\* The follow is looked up by its pair and deleted by the ID that was found.
Unfollowed(s) ==
    LET st == store[s]
        f  == GetFollow(st, "Pair", 0)
    IN  DeleteFollowRequest(IF f = None THEN st
                            ELSE DeleteFollowByID(Loaded(st, "Pair", 0), f.id))

\* Mutant: a message is made although nothing was deleted.
UndoMessages_Always(s) ==
    {UndoFollow(f.uri) : f \in {g \in {GetFollow(store[s], "Pair", 0), store[s].req} : s = "a"}}

\* Messages are made for the account of this server only.
UndoMessages(s) ==
    {UndoFollow(f.uri) : f \in {g \in {GetFollow(store[s], "Pair", 0), store[s].req} :
                                    g # None /\ s = "a"}}

FollowRemove ==
    /\ ~EitherBlocks("a")
    /\ store' = [store EXCEPT !["a"] = Unfollowed("a")]
    /\ net' = net \cup UndoMessages("a")
    /\ UNCHANGED <<blocks, fedi, locked, followed, troubles>>

BlockCreate(x) ==
    /\ blocks[x][x] = 0
    /\ Trouble
    /\ blocks' = [blocks EXCEPT ![x][x] = troubles']
    /\ store' = [store EXCEPT ![x] = Unfollowed(x)]
    /\ net' = net \cup UndoMessages(x) \cup {Block(x, troubles')}
    /\ UNCHANGED <<fedi, locked, followed>>

BlockRemove(x) ==
    /\ blocks[x][x] # 0
    /\ blocks' = [blocks EXCEPT ![x][x] = 0]
    /\ net' = net \cup {UndoBlock(x, blocks[x][x])}
    /\ UNCHANGED <<store, fedi, locked, followed, troubles>>

\* An insert with the URI of the row it would replace violates two unique
\* columns: one database updates the row, the other may refuse.
SameUri(s) == store[s].row # None /\ store[s].row.uri = store[s].req.uri

FollowRequestAccept ==
    /\ store["b"].req # None
    /\ store' = [store EXCEPT !["b"] = AcceptFollowRequest(@)]
    /\ net' = net \cup {AcceptFollow(store["b"].req.uri)}
    /\ UNCHANGED <<blocks, fedi, locked, followed, troubles>>

FollowRequestReject ==
    /\ store["b"].req # None
    /\ store' = [store EXCEPT !["b"] = DeleteFollowRequest(@)]
    /\ net' = net \cup {RejectFollow(store["b"].req.uri)}
    /\ UNCHANGED <<blocks, fedi, locked, followed, troubles>>

-----------------------------------------------------------------------------
(***************************************************************************)
(* The inbox. An activity that causes an error stays on its way.           *)
(***************************************************************************)
\* The sender hears of it, or sends it again.
Handled(m) ==
    \/ net' = net \ {m} /\ UNCHANGED troubles
    \/ Trouble /\ UNCHANGED net

\* Only the receiver's own block counts.
Blocked(s) == blocks[s][s] # 0

Refused(m) ==
    /\ m \in net /\ Blocked(m.to)
    /\ Handled(m)
    /\ UNCHANGED <<store, blocks, fedi, locked, followed>>

Arrives(m, type) == m \in net /\ m.type = type /\ ~Blocked(m.to) /\ Handled(m)

UsedIds(st) == {st.row.id, st.req.id} \cup {e.follow.id : e \in st.cached}
FreshId(st) == CHOOSE i \in RowIds : i \notin UsedIds(st)

activityFollow(m) ==
    /\ Arrives(m, "Follow")
    /\ store["b"].req = None
    /\ RowIds \ UsedIds(store["b"]) # {}
    /\ store' = [store EXCEPT !["b"] = PutFollowRequest(@, [id |-> FreshId(@), uri |-> m.uri])]
    /\ fedi' = [fedi EXCEPT !["b"] = @ \cup {m}]
    /\ UNCHANGED <<blocks, locked, followed>>

\* The URI of the follow is not compared with that of the request.
Accept(m) ==
    /\ Arrives(m, "Accept")
    /\ store["a"].req # None
    /\ store' = [store EXCEPT !["a"] = AcceptFollowRequest(@)]
    /\ UNCHANGED <<blocks, fedi, locked, followed>>

Reject(m) ==
    /\ Arrives(m, "Reject")
    /\ store' = [store EXCEPT !["a"] = DeleteFollowRequest(@)]
    /\ UNCHANGED <<blocks, fedi, locked, followed>>

undoFollow(m) ==
    /\ Arrives(m, "UndoFollow")
    /\ store' = [store EXCEPT !["b"] = DeleteFollowRequestByURI(DeleteFollowByURI(@, m.uri), m.uri)]
    /\ UNCHANGED <<blocks, fedi, locked, followed>>

activityBlock(m) ==
    /\ Arrives(m, "Block")
    /\ blocks[m.to][Peer(m.to)] = 0
    /\ blocks' = [blocks EXCEPT ![m.to][Peer(m.to)] = m.uri]
    /\ fedi' = [fedi EXCEPT ![m.to] = @ \cup {m}]
    /\ UNCHANGED <<store, locked, followed>>

undoBlock(m) ==
    /\ Arrives(m, "UndoBlock")
    /\ blocks' = [blocks EXCEPT ![m.to][Peer(m.to)] = IF @ = m.uri THEN 0 ELSE @]
    /\ UNCHANGED <<store, fedi, locked, followed>>

GiveUp(m) ==
    /\ m \in net /\ Trouble
    /\ net' = net \ {m}
    /\ UNCHANGED <<store, blocks, fedi, locked, followed>>

-----------------------------------------------------------------------------
(***************************************************************************)
(* Federator workers                                                       *)
(***************************************************************************)
\* A locked account decides later; a request that is gone is an error.
CreateFollowReqWaits(m) ==
    /\ m \in fedi["b"] /\ m.type = "Follow"
    /\ locked \/ store["b"].req = None \/ SameUri("b")
    /\ fedi' = [fedi EXCEPT !["b"] = @ \ {m}]
    /\ UNCHANGED <<store, blocks, net, locked, followed, troubles>>

\* Mutant: the other server is not told.
CreateFollowReq_Silent(m) ==
    /\ m \in fedi["b"] /\ m.type = "Follow"
    /\ ~locked /\ store["b"].req # None
    /\ fedi' = [fedi EXCEPT !["b"] = @ \ {m}]
    /\ store' = [store EXCEPT !["b"] = AcceptFollowRequest(@)]
    /\ UNCHANGED <<blocks, net, locked, followed, troubles>>

CreateFollowReq(m) ==
    /\ m \in fedi["b"] /\ m.type = "Follow"
    /\ ~locked /\ store["b"].req # None
    /\ fedi' = [fedi EXCEPT !["b"] = @ \ {m}]
    /\ store' = [store EXCEPT !["b"] = AcceptFollowRequest(@)]
    /\ net' = net \cup {AcceptFollow(store["b"].req.uri)}
    /\ UNCHANGED <<blocks, locked, followed, troubles>>

CreateBlock(s, m) ==
    /\ m \in fedi[s] /\ m.type = "Block"
    /\ fedi' = [fedi EXCEPT ![s] = @ \ {m}]
    /\ store' = [store EXCEPT ![s] = DeleteFollowRequest(DeleteFollow(@))]
    /\ UNCHANGED <<blocks, net, locked, followed, troubles>>

-----------------------------------------------------------------------------
(***************************************************************************)
(* Other users of the cache                                                *)
(***************************************************************************)
\* Some check asks whether a follows b.
IsFollowing(s) ==
    /\ store' = [store EXCEPT ![s] = Loaded(@, "Pair", 0)]
    /\ UNCHANGED <<blocks, fedi, net, locked, followed, troubles>>

\* The cache is full, or is swept.
Evict(s, e) ==
    /\ e \in store[s].cached
    /\ store' = [store EXCEPT ![s].cached = @ \ {e}]
    /\ UNCHANGED <<blocks, fedi, net, locked, followed, troubles>>

Users ==
    \/ FollowCreate \/ FollowRemove
    \/ \E x \in Servers : BlockCreate(x) \/ BlockRemove(x)
    \/ FollowRequestAccept \/ FollowRequestReject

Inbox(m) ==
    \/ activityFollow(m) \/ Accept(m) \/ Reject(m) \/ undoFollow(m)
    \/ activityBlock(m) \/ undoBlock(m)

Workers(s) ==
    \E m \in fedi[s] : CreateBlock(s, m)

Next ==
    \/ Users
    \/ \E m \in net : Refused(m) \/ Inbox(m) \/ GiveUp(m)
    \/ \E m \in fedi["b"] : CreateFollowReqWaits(m) \/ CreateFollowReq(m)
    \/ \E s \in Servers : Workers(s) \/ IsFollowing(s) \/ \E e \in store[s].cached : Evict(s, e)

\* Workers take their messages, and an activity is tried again and again.
Fairness ==
    /\ \A s \in Servers : WF_vars(Workers(s))
    /\ WF_vars(\E m \in fedi["b"] : CreateFollowReq(m))
    /\ \A u \in Uris : /\ WF_vars(Inbox(Follow(u)))
                       /\ WF_vars(Inbox(AcceptFollow(u))) /\ WF_vars(Inbox(RejectFollow(u)))

Spec == Init /\ [][Next]_vars

FairSpec == Spec /\ Fairness

-----------------------------------------------------------------------------
(***************************************************************************)
(* Properties                                                              *)
(***************************************************************************)
\* A block leaves neither a follow nor a request of a on the server of the
\* account that blocks, and none on a's server once its worker has handled the
\* block of b, whatever was queued or on its way when it was made.
BlockSevers ==
    \A s, x \in Servers :
        /\ blocks[s][x] # 0
        /\ s = x \/ (s = "a" /\ \A m \in fedi[s] : m.type # "Block")
        => store[s].row = None /\ store[s].req = None

\* On its own server an account never both follows and asks to follow.
FollowsOrAsks == store["a"].row = None \/ store["a"].req = None

\* The follow the cache has for the pair has the ID of the row, so that
\* deleting what was looked up deletes the row.
LookupFindsRow ==
    \A s \in Servers : store[s].row # None => GetFollow(store[s], "Pair", 0).id = store[s].row.id

\* An unlocked account answers every request to follow it that stands, unless a
\* block or a lost or repeated activity gets in the way.
FollowAnswered ==
    \A u \in Uris :
        store["a"].req.uri = u ~> \/ store["a"].req.uri # u
                                  \/ locked \/ troubles > 0
=============================================================================
