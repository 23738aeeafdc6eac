------------------------------ MODULE RssProofs ------------------------------
(***************************************************************************)
(* Proofs about the two halves of the RSS bridge.                          *)
(*                                                                         *)
(* RssPoller, for every set of accounts, every set of dates and every      *)
(* bound on items and faults: the types, no status twice, statuses in the  *)
(* order of their dates, and no item hidden behind the stored validators.  *)
(*                                                                         *)
(* RssUser, for any requests, any site and any number of faults: two       *)
(* requests never make two accounts of a name, the rows of a proxy account *)
(* match, and an answer is about the feed that was loaded.                 *)
(***************************************************************************)
EXTENDS RssPoller, RssUser, TLAPS

\* An item that a document with only dated items listed.
Known(x) == x[2] \in 1..Version(x[1]) /\ Date(x) \in Dates

\* Creating x now would neither repeat a status nor break their order.
Appendable(x) ==
    /\ Known(x)
    /\ x[2] \notin Tooted(x[1])
    /\ \A i \in Tooted(x[1]) : feed[x[1]][i] <= Date(x)

TootedKnown == \A a \in Accounts : \A i \in Tooted(a) : Known(<<a, i>>)

\* The LastTweet read when the poll began still bounds what is tooted.
PollsFresh ==
    \A p \in toPoll : \A i \in Tooted(p.acct) : feed[p.acct][i] <= p.last

CreatesFresh == \A x \in toCreate : Appendable(x)

\* The item being created comes before all the others.
CreatingFirst ==
    pc = "put" => \A x \in creating :
        Appendable(x) /\ x \notin toCreate /\ \A y \in toCreate : Date(x) <= Date(y)

\* What each control state has in hand.
PhasesOK ==
    /\ pc # "poll" => toPoll = {}
    /\ pc \in {"select", "exited"} => toCreate = {}

\* The inductive invariant.
IInv ==
    /\ TypeOK /\ TootedKnown /\ PollsFresh /\ CreatesFresh /\ CreatingFirst /\ PhasesOK
    /\ NoDuplicateStatus /\ ChronologicalStatuses

-----------------------------------------------------------------------------
\* Appending an element to a sequence: what the provers need to know of it.
LEMMA AppendFacts ==
    ASSUME NEW S, NEW s \in Seq(S), NEW e \in S
    PROVE  /\ Append(s, e) \in Seq(S)
           /\ DOMAIN Append(s, e) = 1..(Len(s) + 1)
           /\ DOMAIN s = 1..Len(s)
           /\ Len(s) \in Nat
           /\ Len(Append(s, e)) = Len(s) + 1
           /\ \A i \in 1..Len(s) : Append(s, e)[i] = s[i]
           /\ Append(s, e)[Len(s) + 1] = e
    OBVIOUS

\* The range of a sequence grows by the element appended.
LEMMA AppendRange ==
    ASSUME NEW S, NEW s \in Seq(S), NEW e \in S
    PROVE  Range(Append(s, e)) = Range(s) \cup {e}
    <1>1. /\ DOMAIN Append(s, e) = DOMAIN s \cup {Len(s) + 1}
          /\ \A i \in DOMAIN s : Append(s, e)[i] = s[i]
          /\ Append(s, e)[Len(s) + 1] = e
        BY AppendFacts
    <1>2. QED  BY <1>1 DEF Range

\* Initially nothing is polled, created or tooted.
LEMMA InitIInv == Init => IInv
    <1> SUFFICES ASSUME Init PROVE IInv
        OBVIOUS
    <1> USE DEF Init
    <1>0. <<>> \in Seq(SiteDates) /\ <<>> \in Seq(Nat \ {0})
        OBVIOUS
    <1>1. TypeOK
        <2>1. follows \in [Accounts -> BOOLEAN] /\ tick \in BOOLEAN /\ done \in BOOLEAN
            BY Zenon
        <2>2. feed \in [Accounts -> Seq(SiteDates)] /\ statuses \in [Accounts -> Seq(Nat \ {0})]
            BY <1>0
        <2>3. etag \in [Accounts -> Nat \cup {NoEtag}] /\ fetchedAt \in [Accounts -> Nat]
            OBVIOUS
        <2>4. QED  BY <2>1, <2>2, <2>3 DEF TypeOK
    <1>2. \A a \in Accounts : statuses[a] = <<>> /\ DOMAIN statuses[a] = {} /\ Tooted(a) = {}
        BY DEF Tooted, Range
    <1>3. NoDuplicateStatus /\ ChronologicalStatuses /\ TootedKnown
        BY <1>2 DEF NoDuplicateStatus, ChronologicalStatuses, TootedKnown, IsInjective
    <1>4. QED
        BY <1>1, <1>3 DEF IInv, PollsFresh, CreatesFresh, CreatingFirst, PhasesOK

\* The date LastTweet reads bounds the dates of all statuses of the account:
\* the statuses are in order, so the last one has the greatest date.
LEMMA LastTweetBounds ==
    ASSUME TypeOK, TootedKnown, ChronologicalStatuses, NEW a \in Accounts
    PROVE  /\ LastTweet(a) \in Nat
           /\ \A i \in Tooted(a) : feed[a][i] <= LastTweet(a)
           /\ LastTweet(a) = 0 \/ \E i \in Tooted(a) : feed[a][i] = LastTweet(a)
    <1> DEFINE dates == {0} \cup {feed[a][i] : i \in Tooted(a)}
               s == statuses[a]
    <1>1. s \in Seq(Nat \ {0}) /\ Len(s) \in Nat /\ DOMAIN s = 1..Len(s)
        BY DEF TypeOK
    <1>2. dates \subseteq Nat /\ \A i \in Tooted(a) : feed[a][i] \in Nat
        <2>1. ASSUME NEW i \in Tooted(a) PROVE feed[a][i] \in Nat
            <3>1. Known(<<a, i>>)  BY DEF TootedKnown
            <3>2. QED  BY <3>1, DatesAssumption DEF Known, Date
        <2>2. QED  BY <2>1
    <1>3. \E d \in dates : \A e \in dates : e <= d
        <2>1. CASE Len(s) = 0
            <3>1. Tooted(a) = {}  BY <1>1, <2>1 DEF Tooted, Range
            <3>2. QED  BY <3>1
        <2>2. CASE Len(s) # 0
            <3> DEFINE l == s[Len(s)]
            <3>1. Len(s) \in DOMAIN s  BY <1>1, <2>2
            <3>2. l \in Tooted(a)  BY <3>1 DEF Tooted, Range
            <3>3. ASSUME NEW i \in Tooted(a) PROVE feed[a][i] <= feed[a][l]
                <4>1. PICK k \in DOMAIN s : s[k] = i  BY DEF Tooted, Range
                <4>2. CASE k = Len(s)  BY <4>1, <4>2, <1>2, <3>2
                <4>3. CASE k # Len(s)
                    <5>1. k < Len(s)  BY <1>1, <4>3
                    <5>2. Date(<<a, s[k]>>) <= Date(<<a, s[Len(s)]>>)
                        BY <5>1, <3>1 DEF ChronologicalStatuses
                    <5>3. QED  BY <5>2, <4>1 DEF Date
                <4>4. QED  BY <4>2, <4>3
            <3>4. feed[a][l] \in dates /\ 0 <= feed[a][l]  BY <3>2, <1>2
            <3>5. QED  BY <3>3, <3>4
        <2>3. QED  BY <2>1, <2>2
    <1>4. LastTweet(a) \in dates /\ \A e \in dates : e <= LastTweet(a)
        BY <1>3, Zenon DEF LastTweet
    <1>5. QED  BY <1>2, <1>4

-----------------------------------------------------------------------------
\* Every row of GetAccountsToPoll is an account with a date.
LEMMA AccountsToPollType ==
    ASSUME IInv  PROVE AccountsToPoll \subseteq Poll
    <1>1. \A a \in Accounts : LastTweet(a) \in Nat
        BY LastTweetBounds DEF IInv
    <1>2. QED  BY <1>1 DEF AccountsToPoll, Poll

\* Types are preserved by what the world outside the poller does.
LEMMA TypeEnvironment ==
    ASSUME TypeOK, Environment  PROVE TypeOK'
    <1> USE DEF TypeOK, db, local, Fault, Die
    <1>1. CASE \E a \in Accounts : Follow(a)
        <2> PICK a \in Accounts : Follow(a)  BY <1>1
        <2>1. follows' \in [Accounts -> BOOLEAN]  BY Zenon DEF Follow
        <2>2. QED  BY <2>1 DEF Follow
    <1>2. CASE \E a \in Accounts, d \in SiteDates : Publish(a, d)
        <2> PICK a \in Accounts, d \in SiteDates : Publish(a, d)  BY <1>2
        <2>1. Append(feed[a], d) \in Seq(SiteDates)  OBVIOUS
        <2>2. feed' \in [Accounts -> Seq(SiteDates)]  BY <2>1 DEF Publish
        <2>3. QED  BY <2>2 DEF Publish
    <1>3. CASE Tick  BY <1>3 DEF Tick
    <1>4. CASE Stop  BY <1>4 DEF Stop
    <1>5. CASE Crash
        <2>1. faults' \in Nat  BY <1>5 DEF Crash
        <2>2. QED  BY <1>5, <2>1 DEF Crash
    <1>6. CASE Start  BY <1>6 DEF Start
    <1>7. \/ \E a \in Accounts : Follow(a)
          \/ \E a \in Accounts, d \in SiteDates : Publish(a, d)
          \/ Tick \/ Stop \/ Crash \/ Start
        BY Zenon DEF Environment
    <1>8. QED  BY <1>1, <1>2, <1>3, <1>4, <1>5, <1>6, <1>7

\* Types are preserved by every step of refresh().
LEMMA TypeRefresh ==
    ASSUME IInv, Refresh  PROVE TypeOK'
    <1>0. TypeOK  BY DEF IInv
    <1> USE <1>0 DEF TypeOK, db, local, Fault, Die
    <1>1. CASE Exit  BY <1>1 DEF Exit
    <1>2. CASE BeginPoll  BY <1>2, AccountsToPollType DEF BeginPoll
    <1>3. CASE BeginPollFails
        <2>1. toPoll' \subseteq Poll  BY <1>3, AccountsToPollType DEF BeginPollFails
        <2>2. faults' \in Nat  BY <1>3 DEF BeginPollFails
        <2>3. QED  BY <1>3, <2>1, <2>2 DEF BeginPollFails
    <1>4. CASE \E p \in toPoll : FetchFails(p)  BY <1>4 DEF FetchFails
    <1>5. CASE \E p \in toPoll : FetchPanics(p)  BY <1>5 DEF FetchPanics
    <1>6. CASE \E p \in toPoll : \E r \in Replies(p.acct) : Fetch(p, r)
        <2> PICK p \in toPoll : \E r \in Replies(p.acct) : Fetch(p, r)  BY <1>6
        <2> PICK r \in Replies(p.acct) : Fetch(p, r)  OBVIOUS
        <2>1. p.acct \in Accounts /\ Version(p.acct) \in Nat  BY DEF Poll, Version
        <2>2. r \in Reply  BY <2>1 DEF Replies, Reply
        <2>3. NewItems(p) \subseteq Item  BY <2>1 DEF NewItems, Item
        <2>4. QED  BY <2>2, <2>3 DEF Fetch
    <1>7. CASE SaveValidators
        <2>1. PICK r \in reply : /\ etag' = [etag EXCEPT ![r.acct] = r.etag]
                                 /\ fetchedAt' = [fetchedAt EXCEPT ![r.acct] = r.fetchedAt]
            BY <1>7 DEF SaveValidators
        <2>2. r.etag \in Nat \cup {NoEtag} /\ r.fetchedAt \in Nat  BY DEF Reply
        <2>3. etag' \in [Accounts -> Nat \cup {NoEtag}] /\ fetchedAt' \in [Accounts -> Nat]
            BY <2>1, <2>2
        <2>4. QED  BY <1>7, <2>3 DEF SaveValidators
    <1>8. CASE SaveValidatorsFails  BY <1>8 DEF SaveValidatorsFails
    <1>9. CASE BeginCreate  BY <1>9 DEF BeginCreate
    <1>10. CASE \E x \in toCreate : PutThread(x)  BY <1>10 DEF PutThread
    <1>11. CASE \E x \in toCreate : PutThreadFails(x)  BY <1>11 DEF PutThreadFails
    <1>12. CASE PutStatus
        <2>1. PICK x \in creating : statuses' = [statuses EXCEPT ![x[1]] = Append(@, x[2])]
            BY <1>12 DEF PutStatus
        <2>2. x[1] \in Accounts /\ x[2] \in Nat \ {0}  BY DEF Item
        <2>3. Append(statuses[x[1]], x[2]) \in Seq(Nat \ {0})  BY <2>2
        <2>4. statuses' \in [Accounts -> Seq(Nat \ {0})]  BY <2>1, <2>3
        <2>5. QED  BY <1>12, <2>4 DEF PutStatus
    <1>13. CASE PutStatusFails  BY <1>13 DEF PutStatusFails
    <1>14. CASE PushToClientQueue  BY <1>14 DEF PushToClientQueue
    <1>15. CASE EndPoll  BY <1>15 DEF EndPoll
    <1>16. QED
        BY <1>1, <1>2, <1>3, <1>4, <1>5, <1>6, <1>7, <1>8, <1>9, <1>10, <1>11, <1>12,
           <1>13, <1>14, <1>15 DEF Refresh

-----------------------------------------------------------------------------
\* While no document grows and no status is written, dropping work keeps what is
\* known of statuses, polls and items to create.
LEMMA Stable ==
    ASSUME IInv, UNCHANGED <<feed, statuses>>, toPoll' \subseteq toPoll,
           toCreate' \subseteq toCreate
    PROVE  /\ TootedKnown' /\ PollsFresh' /\ CreatesFresh'
           /\ NoDuplicateStatus' /\ ChronologicalStatuses'
    <1>1. \A a : Tooted(a)' = Tooted(a)  BY DEF Tooted
    <1>2. \A x : Known(x)' = Known(x) /\ Date(x)' = Date(x)  BY DEF Known, Date, Version
    <1>3. \A x : Appendable(x)' = Appendable(x)  BY <1>1, <1>2 DEF Appendable
    <1>4. TootedKnown' /\ PollsFresh' /\ CreatesFresh'
        BY <1>1, <1>2, <1>3 DEF IInv, TootedKnown, PollsFresh, CreatesFresh
    <1>5. NoDuplicateStatus' /\ ChronologicalStatuses'
        BY <1>2 DEF IInv, NoDuplicateStatus, ChronologicalStatuses
    <1>6. QED  BY <1>4, <1>5

\* ... and so the invariant is kept by a step that ends or drops work without
\* entering the state "put".
LEMMA StableStep ==
    ASSUME IInv, TypeOK', PhasesOK', UNCHANGED <<feed, statuses>>,
           toPoll' \subseteq toPoll, toCreate' \subseteq toCreate,
           pc' = "put" => UNCHANGED <<pc, creating, toCreate>>
    PROVE  IInv'
    <1>1. CreatingFirst'
        <2> SUFFICES ASSUME pc' = "put" PROVE CreatingFirst'  BY DEF CreatingFirst
        <2>1. UNCHANGED <<pc, creating, toCreate, feed, statuses>>  OBVIOUS
        <2>2. QED
            BY <2>1 DEF IInv, CreatingFirst, Appendable, Known, Date, Version, Tooted
    <1>2. QED  BY <1>1, Stable DEF IInv

\* A site appends an item to its document: the items known before keep their dates.
LEMMA PublishStep ==
    ASSUME IInv, TypeOK', NEW a \in Accounts, NEW d \in SiteDates, Publish(a, d)
    PROVE  IInv'
    <1>0. TypeOK /\ UNCHANGED <<statuses, toPoll, toCreate, creating, pc>>
        BY DEF IInv, Publish, db, local
    <1>1. \A b \in Accounts : /\ Version(b) \in Nat /\ Version(b)' \in Nat
                              /\ Version(b) <= Version(b)'
                              /\ \A i \in 1..Version(b) : feed'[b][i] = feed[b][i]
        <2> TAKE b \in Accounts
        <2>1. feed[b] \in Seq(SiteDates)  BY <1>0 DEF TypeOK
        <2>2. CASE b = a
            <3>1. feed'[b] = Append(feed[b], d)  BY <1>0, <2>2 DEF TypeOK, Publish
            <3>2. QED  BY <2>1, <3>1, AppendFacts DEF Version
        <2>3. CASE b # a
            <3>1. feed'[b] = feed[b]  BY <1>0, <2>3 DEF TypeOK, Publish
            <3>2. QED  BY <2>1, <3>1 DEF Version
        <2>4. QED  BY <2>2, <2>3
    <1>2. \A b : Tooted(b)' = Tooted(b)  BY <1>0 DEF Tooted
    <1>3. ASSUME NEW x, x[1] \in Accounts, Known(x)
          PROVE  Known(x)' /\ Date(x)' = Date(x)
        BY <1>1, <1>3 DEF Known, Date
    <1>4. ASSUME NEW b \in Accounts, NEW i \in Tooted(b)
          PROVE  Known(<<b, i>>)' /\ feed'[b][i] = feed[b][i]
        <2>1. Known(<<b, i>>)  BY DEF IInv, TootedKnown
        <2>2. QED  BY <2>1, <1>3 DEF Date
    <1>5. ASSUME NEW x, x[1] \in Accounts, Appendable(x)
          PROVE  Appendable(x)' /\ Date(x)' = Date(x)
        BY <1>2, <1>3, <1>4, <1>5 DEF Appendable
    <1>6. TootedKnown'  BY <1>2, <1>4 DEF TootedKnown
    <1>7. PollsFresh'
        <2>1. \A p \in toPoll : p.acct \in Accounts  BY <1>0 DEF TypeOK, Poll
        <2>2. QED  BY <1>0, <1>2, <1>4, <2>1 DEF IInv, PollsFresh
    <1>8. \A x \in toCreate \cup creating : x[1] \in Accounts  BY <1>0 DEF TypeOK, Item
    <1>9. CreatesFresh'  BY <1>0, <1>5, <1>8 DEF IInv, CreatesFresh
    <1>10. CreatingFirst'
        BY <1>0, <1>5, <1>8 DEF IInv, CreatingFirst, CreatesFresh
    <1>11. NoDuplicateStatus'  BY <1>0 DEF IInv, NoDuplicateStatus
    <1>12. ChronologicalStatuses'
        <2> SUFFICES ASSUME NEW b \in Accounts, NEW i \in DOMAIN statuses[b],
                            NEW j \in DOMAIN statuses[b], i < j
                     PROVE  feed'[b][statuses[b][i]] <= feed'[b][statuses[b][j]]
            BY <1>0 DEF ChronologicalStatuses, Date
        <2>1. statuses[b][i] \in Tooted(b) /\ statuses[b][j] \in Tooted(b)
            BY DEF Tooted, Range
        <2>2. Date(<<b, statuses[b][i]>>) <= Date(<<b, statuses[b][j]>>)
            BY DEF IInv, ChronologicalStatuses
        <2>3. QED  BY <1>4, <2>1, <2>2 DEF Date
    <1>13. QED
        BY <1>0, <1>6, <1>7, <1>9, <1>10, <1>11, <1>12 DEF IInv, PhasesOK

\* A poll begins: LastTweet has just been read.
LEMMA BeginPollStep ==
    ASSUME IInv, TypeOK', pc = "select", pc' = "poll", toPoll' \subseteq AccountsToPoll,
           UNCHANGED <<feed, statuses, toCreate>>
    PROVE  IInv'
    <1>1. \A b : Tooted(b)' = Tooted(b)  BY DEF Tooted
    <1>2. PollsFresh'
        <2> SUFFICES ASSUME NEW p \in toPoll', NEW i \in Tooted(p.acct)
                     PROVE  feed[p.acct][i] <= p.last
            BY <1>1 DEF PollsFresh
        <2>1. p.acct \in Accounts /\ p.last = LastTweet(p.acct)  BY DEF AccountsToPoll
        <2>2. QED  BY <2>1, LastTweetBounds DEF IInv
    <1>3. \A x : Appendable(x)' = Appendable(x) /\ Known(x)' = Known(x) /\ Date(x)' = Date(x)
        BY <1>1 DEF Appendable, Known, Date, Version
    <1>4. TootedKnown' /\ CreatesFresh'
        BY <1>1, <1>3 DEF IInv, TootedKnown, CreatesFresh
    <1>5. NoDuplicateStatus' /\ ChronologicalStatuses'
        BY <1>3 DEF IInv, NoDuplicateStatus, ChronologicalStatuses
    <1>6. QED  BY <1>2, <1>4, <1>5 DEF IInv, CreatingFirst, PhasesOK

\* A document is read: its items newer than LastTweet may all be created.
LEMMA FetchStep ==
    ASSUME IInv, TypeOK', NEW p \in toPoll, NEW r, Fetch(p, r)
    PROVE  IInv'
    <1>0. TypeOK /\ UNCHANGED <<feed, statuses, pc>> /\ pc = "poll"
        BY DEF IInv, Fetch, db
    <1>1. \A b : Tooted(b)' = Tooted(b)  BY <1>0 DEF Tooted
    <1>2. \A x : Appendable(x)' = Appendable(x) /\ Known(x)' = Known(x) /\ Date(x)' = Date(x)
        BY <1>0, <1>1 DEF Appendable, Known, Date, Version
    <1>3. p.acct \in Accounts /\ p.last \in Nat  BY <1>0 DEF TypeOK, Poll
    <1>4. ASSUME AllDated(p.acct), NEW x \in NewItems(p)  PROVE Appendable(x)
        <2>1. PICK i \in 1..Version(p.acct) : x = <<p.acct, i>> /\ feed[p.acct][i] > p.last
            BY DEF NewItems
        <2>2. feed[p.acct][i] \in Dates
            <3>1. feed[p.acct] \in Seq(SiteDates)  BY <1>0, <1>3 DEF TypeOK
            <3>2. feed[p.acct][i] \in SiteDates  BY <3>1 DEF Version
            <3>3. QED  BY <1>4, <3>2, UndatedAssumption DEF AllDated
        <2>3. x[1] = p.acct /\ x[2] = i /\ Known(x)  BY <2>1, <2>2 DEF Known, Date
        <2>4. ASSUME NEW j \in Tooted(p.acct)
              PROVE  feed[p.acct][j] <= p.last /\ feed[p.acct][j] \in Nat
            <3>1. Known(<<p.acct, j>>)  BY <1>3 DEF IInv, TootedKnown
            <3>2. QED  BY <3>1, DatesAssumption DEF IInv, PollsFresh, Known, Date
        <2>5. feed[p.acct][i] \in Nat  BY <2>2, DatesAssumption
        <2>6. i \notin Tooted(p.acct)  BY <1>3, <2>1, <2>4, <2>5
        <2>7. \A j \in Tooted(p.acct) : feed[p.acct][j] <= feed[p.acct][i]
            BY <1>3, <2>1, <2>4, <2>5
        <2>8. QED  BY <2>3, <2>6, <2>7 DEF Appendable, Date
    <1>5. CreatesFresh'  BY <1>2, <1>4 DEF IInv, CreatesFresh, Fetch
    <1>6. TootedKnown' /\ PollsFresh'
        BY <1>0, <1>1, <1>2 DEF IInv, TootedKnown, PollsFresh, Fetch
    <1>7. NoDuplicateStatus' /\ ChronologicalStatuses'
        BY <1>0, <1>2 DEF IInv, NoDuplicateStatus, ChronologicalStatuses
    <1>8. QED  BY <1>0, <1>5, <1>6, <1>7 DEF IInv, CreatingFirst, PhasesOK

\* The oldest item left is taken.
LEMMA PutThreadStep ==
    ASSUME IInv, TypeOK', NEW x \in toCreate, PutThread(x)
    PROVE  IInv'
    <1>0. /\ UNCHANGED <<feed, statuses, toPoll>> /\ pc = "create" /\ pc' = "put"
          /\ creating' = {x} /\ toCreate' = toCreate \ {x}
        BY DEF PutThread
    <1>1. /\ TootedKnown' /\ PollsFresh' /\ CreatesFresh'
          /\ NoDuplicateStatus' /\ ChronologicalStatuses'
        BY <1>0, Stable
    <1>2. Appendable(x)'
        BY <1>0 DEF IInv, CreatesFresh, Appendable, Known, Date, Version, Tooted
    <1>3. \A y \in toCreate' : Date(x)' <= Date(y)'
        BY <1>0 DEF PutThread, Oldest, Date
    <1>4. CreatingFirst'  BY <1>0, <1>2, <1>3 DEF CreatingFirst
    <1>5. PhasesOK'  BY <1>0 DEF IInv, PhasesOK
    <1>6. QED  BY <1>1, <1>4, <1>5 DEF IInv

\* The status of the oldest item is written after all the others.
LEMMA PutStatusStep ==
    ASSUME IInv, TypeOK', PutStatus
    PROVE  IInv'
    <1>1. PICK x \in creating : statuses' = [statuses EXCEPT ![x[1]] = Append(@, x[2])]
        BY DEF PutStatus
    <1>0. /\ TypeOK /\ UNCHANGED <<feed, toPoll, toCreate, creating>>
          /\ pc = "put" /\ pc' = "push" /\ toPoll = {}
        BY DEF IInv, PhasesOK, PutStatus, local
    <1> DEFINE a == x[1]
               s == statuses[a]
               n == Len(s) + 1
    <1>2. a \in Accounts /\ x[2] \in Nat \ {0} /\ x = <<a, x[2]>>  BY <1>0 DEF TypeOK, Item
    <1>3. Appendable(x) /\ x \notin toCreate /\ \A y \in toCreate : Date(x) <= Date(y)
        BY <1>0 DEF IInv, CreatingFirst
    <1>4. s \in Seq(Nat \ {0})  BY <1>0, <1>2 DEF TypeOK
    <1>5. statuses'[a] = Append(s, x[2]) /\ \A b \in Accounts : b # a => statuses'[b] = statuses[b]
        BY <1>0, <1>1, <1>2 DEF TypeOK
    <1>6. Tooted(a)' = Tooted(a) \cup {x[2]} /\ \A b \in Accounts : b # a => Tooted(b)' = Tooted(b)
        <2>1. Range(Append(s, x[2])) = Range(s) \cup {x[2]}  BY <1>2, <1>4, AppendRange
        <2>2. QED  BY <1>5, <2>1 DEF Tooted
    <1>7. \A y : Known(y)' = Known(y) /\ Date(y)' = Date(y)
        BY <1>0 DEF Known, Date, Version
    <1>8. TootedKnown'
        <2> SUFFICES ASSUME NEW b \in Accounts, NEW i \in Tooted(b)' PROVE Known(<<b, i>>)
            BY <1>7 DEF TootedKnown
        <2>1. CASE i \in Tooted(b)  BY <2>1 DEF IInv, TootedKnown
        <2>2. CASE i \notin Tooted(b)
            <3>1. b = a /\ i = x[2]  BY <1>6, <2>2
            <3>2. QED  BY <1>2, <1>3, <3>1 DEF Appendable
        <2>3. QED  BY <2>1, <2>2
    <1>9. CreatesFresh'
        <2> SUFFICES ASSUME NEW y \in toCreate PROVE Appendable(y)'
            BY <1>0 DEF CreatesFresh
        <2>1. Appendable(y) /\ y[1] \in Accounts /\ y = <<y[1], y[2]>>
            BY <1>0 DEF IInv, CreatesFresh, TypeOK, Item
        <2>2. CASE y[1] # a  BY <1>0, <1>6, <1>7, <2>1, <2>2 DEF Appendable
        <2>3. CASE y[1] = a
            <3>1. y[2] # x[2]  BY <1>2, <1>3, <2>1, <2>3
            <3>2. Date(x) <= Date(y) /\ Date(x) = feed[a][x[2]]  BY <1>3 DEF Date
            <3>3. QED  BY <1>0, <1>6, <1>7, <2>1, <2>3, <3>1, <3>2 DEF Appendable
        <2>4. QED  BY <2>2, <2>3
    <1>10. \A b \in Accounts : \A i \in DOMAIN statuses'[b] :
              \/ i \in DOMAIN statuses[b] /\ statuses'[b][i] = statuses[b][i]
                 /\ statuses'[b][i] \in Tooted(b)
              \/ b = a /\ i = n /\ statuses'[b][i] = x[2]
        <2> TAKE b \in Accounts
        <2> TAKE i \in DOMAIN statuses'[b]
        <2>1. CASE b # a  BY <1>5, <2>1 DEF Tooted, Range
        <2>2. CASE b = a /\ i = n  BY <1>4, <1>5, <2>2, AppendFacts
        <2>3. CASE b = a /\ i # n
            <3>1. i \in DOMAIN s /\ Append(s, x[2])[i] = s[i]
                BY <1>2, <1>4, <1>5, <2>3, AppendFacts
            <3>2. QED  BY <1>5, <2>3, <3>1 DEF Tooted, Range
        <2>4. QED  BY <2>1, <2>2, <2>3
    <1>11. NoDuplicateStatus'
        <2> SUFFICES ASSUME NEW b \in Accounts, NEW i \in DOMAIN statuses'[b],
                            NEW j \in DOMAIN statuses'[b], statuses'[b][i] = statuses'[b][j]
                     PROVE  i = j
            BY DEF NoDuplicateStatus, IsInjective
        <2>1. x[2] \notin Tooted(a)  BY <1>3 DEF Appendable
        <2>2. QED  BY <1>10, <2>1 DEF IInv, NoDuplicateStatus, IsInjective
    <1>12. ChronologicalStatuses'
        <2> SUFFICES ASSUME NEW b \in Accounts, NEW i \in DOMAIN statuses'[b],
                            NEW j \in DOMAIN statuses'[b], i < j
                     PROVE  Date(<<b, statuses'[b][i]>>) <= Date(<<b, statuses'[b][j]>>)
            BY <1>7 DEF ChronologicalStatuses
        <2>1. CASE j \in DOMAIN statuses[b] /\ statuses'[b][j] = statuses[b][j]
            <3>1. ~(b = a /\ i = n)  BY <1>4, <2>1
            <3>2. QED  BY <1>10, <2>1, <3>1 DEF IInv, ChronologicalStatuses
        <2>2. CASE b = a /\ j = n /\ statuses'[b][j] = x[2]
            <3>1. statuses'[b][i] \in Tooted(a)  BY <1>4, <1>10, <2>2
            <3>2. QED  BY <1>2, <1>3, <2>2, <3>1 DEF Appendable, Date
        <2>3. QED  BY <1>10, <2>1, <2>2
    <1>13. QED
        BY <1>0, <1>8, <1>9, <1>11, <1>12 DEF IInv, PollsFresh, CreatingFirst, PhasesOK

\* Every step keeps the inductive invariant.
LEMMA NextIInv == IInv /\ [Next]_vars => IInv'
    <1> SUFFICES ASSUME IInv, [Next]_vars PROVE IInv'
        OBVIOUS
    <1>1. CASE UNCHANGED vars
        <2>1. UNCHANGED <<feed, follows, statuses, threads, etag, fetchedAt, tick, done, pc,
                          toPoll, reply, toCreate, creating, pushed, faults>>
            BY <1>1 DEF vars, db, local
        <2>2. TypeOK' /\ PhasesOK'  BY <2>1 DEF IInv, TypeOK, PhasesOK
        <2>3. QED  BY <2>1, <2>2, StableStep
    <1>2. CASE Environment
        <2>0. TypeOK'  BY <1>2, TypeEnvironment DEF IInv
        <2> USE <2>0 DEF db, local
        <2>1. CASE \E a \in Accounts, d \in SiteDates : Publish(a, d)
            BY <2>1, PublishStep
        <2>2. CASE (\E a \in Accounts : Follow(a)) \/ Tick \/ Stop
            <3>1. UNCHANGED <<feed, statuses, toPoll, toCreate, creating, pc>>
                BY <2>2 DEF Follow, Tick, Stop
            <3>2. PhasesOK'  BY <3>1 DEF IInv, PhasesOK
            <3>3. QED  BY <3>1, <3>2, StableStep
        <2>3. CASE Crash
            BY <2>3, StableStep DEF Crash, Die, PhasesOK
        <2>4. CASE Start
            <3>1. PhasesOK'  BY <2>4 DEF IInv, PhasesOK, Start
            <3>2. QED  BY <2>4, <3>1, StableStep DEF Start
        <2>5. \/ \E a \in Accounts, d \in SiteDates : Publish(a, d)
              \/ (\E a \in Accounts : Follow(a)) \/ Tick \/ Stop
              \/ Crash \/ Start
            BY <1>2, Zenon DEF Environment
        <2>6. QED  BY <2>1, <2>2, <2>3, <2>4, <2>5
    <1>3. CASE Refresh
        <2>0. TypeOK'  BY <1>3, TypeRefresh
        <2> USE <2>0 DEF db, local
        <2>1. CASE BeginPoll \/ BeginPollFails
            BY <2>1, BeginPollStep DEF BeginPoll, BeginPollFails
        <2>2. CASE \E p \in toPoll : \E r \in Replies(p.acct) : Fetch(p, r)
            BY <2>2, FetchStep
        <2>3. CASE \E p \in toPoll : FetchPanics(p)
            BY <2>3, StableStep DEF FetchPanics, Die, PhasesOK
        <2>4. CASE \/ \E p \in toPoll : FetchFails(p)
                   \/ SaveValidators \/ SaveValidatorsFails
            <3>1. /\ UNCHANGED <<feed, statuses, toCreate, creating, pc>>
                  /\ toPoll' \subseteq toPoll
                BY <2>4 DEF FetchFails, SaveValidators, SaveValidatorsFails
            <3>2. PhasesOK'  BY <3>1 DEF IInv, PhasesOK
            <3>3. QED  BY <3>1, <3>2, StableStep
        <2>5. CASE Exit \/ BeginCreate \/ EndPoll
            <3>1. /\ UNCHANGED <<feed, statuses, toPoll, toCreate>>
                  /\ pc' # "put" /\ PhasesOK'
                BY <2>5 DEF Exit, BeginCreate, EndPoll, IInv, PhasesOK
            <3>2. QED  BY <3>1, StableStep
        <2>6. CASE \E x \in toCreate : PutThread(x)
            BY <2>6, PutThreadStep
        <2>7. CASE \E x \in toCreate : PutThreadFails(x)
            <3>1. PhasesOK'  BY <2>7 DEF PutThreadFails, IInv, PhasesOK
            <3>2. QED  BY <2>7, <3>1, StableStep DEF PutThreadFails
        <2>8. CASE PutStatus  BY <2>8, PutStatusStep
        <2>9. CASE PutStatusFails \/ PushToClientQueue
            <3>1. /\ UNCHANGED <<feed, statuses, toPoll, toCreate>>
                  /\ pc' = "create" /\ PhasesOK'
                BY <2>9 DEF PutStatusFails, PushToClientQueue, IInv, PhasesOK
            <3>2. QED  BY <3>1, StableStep
        <2>10. QED
            BY <1>3, <2>1, <2>2, <2>3, <2>4, <2>5, <2>6, <2>7, <2>8, <2>9, Zenon DEF Refresh
    <1>4. QED  BY <1>1, <1>2, <1>3 DEF Next

-----------------------------------------------------------------------------
\* The poller's state always has the types its declarations promise.
THEOREM TypeCorrect == Spec => []TypeOK
    <1>1. IInv => TypeOK  BY DEF IInv
    <1>2. QED  BY InitIInv, NextIInv, <1>1, PTL DEF Spec

\* No feed item ever gets two statuses, through any number of polls, refetches,
\* failed calls, stops and crashes.
THEOREM NeverTwice == Spec => []NoDuplicateStatus
    <1>1. IInv => NoDuplicateStatus  BY DEF IInv
    <1>2. QED  BY InitIInv, NextIInv, <1>1, PTL DEF Spec

\* The statuses of every account are written in the order of their dates.
THEOREM AlwaysChronological == Spec => []ChronologicalStatuses
    <1>1. IInv => ChronologicalStatuses  BY DEF IInv
    <1>2. QED  BY InitIInv, NextIInv, <1>1, PTL DEF Spec

-----------------------------------------------------------------------------
(***************************************************************************)
(* Nothing behind the stored validators is lost. This takes more of the    *)
(* state: what is in hand, where LastTweet comes from and, as long as      *)
(* nothing fails and the feeds are in order, that the items tooted or to   *)
(* be created are the first ones of their feed, with no gap.               *)
(***************************************************************************)
Here(a, i)    == i \in Tooted(a) \/ <<a, i>> \in toCreate \cup creating
Covered(a, n) == \A i \in 1..n : Here(a, i)

\* At most one item is being created; after PutStatus it is tooted.
Hands ==
    /\ pc \notin {"put", "push"} => creating = {}
    /\ \A x, y \in creating : x = y
    /\ pc = "push" => \A x \in creating : x[2] \in Tooted(x[1])

\* LastTweet is the date of a status, or there is none.
LastsTooted ==
    \A p \in toPoll : p.last = 0 \/ \E i \in Tooted(p.acct) : feed[p.acct][i] = p.last

Undisturbed == faults = 0 /\ \A a \in Accounts : StrictFeed(a)

\* No gaps, and every validator stored or about to be claims only what is there.
Cover ==
    /\ ~ done
    /\ \A a \in Accounts, n \in Nat : Here(a, n) => Covered(a, n)
    /\ \A a \in Accounts : (etag[a] # NoEtag => Covered(a, etag[a])) /\ Covered(a, fetchedAt[a])
    /\ \A r \in reply : (r.etag # NoEtag => Covered(r.acct, r.etag)) /\ Covered(r.acct, r.fetchedAt)

\* The inductive invariant for the validators.
CInv == IInv /\ Hands /\ LastsTooted /\ (Undisturbed => Cover)

\* A feed that is in order was in order, and faults are not forgotten.
LEMMA UndisturbedBefore ==
    ASSUME TypeOK, TypeOK', [Next]_vars, Undisturbed'
    PROVE  Undisturbed /\ UNCHANGED faults
    <1>1. UNCHANGED faults
        <2>1. UNCHANGED faults \/ faults' = faults + 1
            BY DEF Next, Environment, Refresh, Follow, Publish, Tick, Stop, Crash, Start, Fault, Exit,
                   BeginPoll, BeginPollFails, FetchFails, FetchPanics, Fetch, SaveValidators,
                   SaveValidatorsFails, BeginCreate, PutThread, PutThreadFails, PutStatus,
                   PutStatusFails, PushToClientQueue, EndPoll, vars
        <2>2. QED  BY <2>1 DEF Undisturbed, TypeOK
    <1>2. ASSUME NEW b \in Accounts, NEW a \in Accounts, NEW d \in SiteDates, Publish(a, d)
          PROVE  StrictFeed(b)
        <2>1. feed[b] \in Seq(SiteDates) /\ feed \in [Accounts -> Seq(SiteDates)]
            BY DEF TypeOK
        <2>2. feed'[b] = feed[b] \/ feed'[b] = Append(feed[b], d)
            BY <1>2, <2>1 DEF Publish
        <2>3. /\ Len(feed[b]) \in Nat /\ Len(feed'[b]) \in Nat /\ Len(feed[b]) <= Len(feed'[b])
              /\ \A i \in 1..Len(feed[b]) : feed'[b][i] = feed[b][i]
            BY <2>1, <2>2, AppendFacts
        <2>4. StrictFeed(b)'
            BY DEF Undisturbed
        <2>5. AllDated(b)
            BY <2>3, <2>4 DEF StrictFeed, AllDated, Version
        <2>6. ASSUME NEW i \in 1..Version(b), NEW j \in 1..Version(b), i < j
              PROVE  feed[b][i] < feed[b][j]
            <3>1. i \in 1..Version(b)' /\ j \in 1..Version(b)'
                BY <2>3 DEF Version
            <3>2. feed'[b][i] < feed'[b][j]
                BY <2>4, <2>6, <3>1 DEF StrictFeed
            <3>3. QED  BY <2>3, <3>2 DEF Version
        <2>7. QED  BY <2>5, <2>6 DEF StrictFeed
    <1>3. ASSUME UNCHANGED feed  PROVE \A b \in Accounts : StrictFeed(b)
        BY <1>3 DEF Undisturbed, StrictFeed, AllDated, Version
    <1>4. (\E a \in Accounts, d \in SiteDates : Publish(a, d)) \/ UNCHANGED feed
        BY DEF Next, Environment, Refresh, Follow, Tick, Stop, Crash, Start, Die, Exit,
               BeginPoll, BeginPollFails, FetchFails, FetchPanics, Fetch, SaveValidators,
               SaveValidatorsFails, BeginCreate, PutThread, PutThreadFails, PutStatus,
               PutStatusFails, PushToClientQueue, EndPoll, vars
    <1>5. \A b \in Accounts : StrictFeed(b)
        BY <1>2, <1>3, <1>4
    <1>6. QED  BY <1>1, <1>5 DEF Undisturbed

\* Nothing goes while the validators stay.
LEMMA CoverStays ==
    ASSUME TypeOK, Cover, UNCHANGED <<etag, fetchedAt, done>>, reply' \subseteq reply,
           \A a \in Accounts : \A i : Here(a, i)' <=> Here(a, i)
    PROVE  Cover'
    <1>1. \A a \in Accounts : \A n : Covered(a, n)' <=> Covered(a, n)
        BY DEF Covered
    <1>2. \A r \in reply : r.acct \in Accounts
        BY DEF TypeOK, Reply
    <1>3. /\ \A a \in Accounts, n \in Nat : Here(a, n)' => Covered(a, n)'
          /\ \A a \in Accounts : (etag[a] # NoEtag => Covered(a, etag[a])') /\ Covered(a, fetchedAt[a])'
          /\ \A r \in reply : (r.etag # NoEtag => Covered(r.acct, r.etag)') /\ Covered(r.acct, r.fetchedAt)'
        BY <1>1, <1>2 DEF Cover
    <1>4. QED  BY <1>3 DEF Cover

\* PutStatus writes the status of the item in hand.
LEMMA PutStatusFacts ==
    ASSUME TypeOK, PutStatus
    PROVE  \E x \in creating : /\ x[1] \in Accounts /\ x = <<x[1], x[2]>>
                               /\ \A b \in Accounts : Tooted(b)' = IF b = x[1] THEN Tooted(b) \cup {x[2]} ELSE Tooted(b)
    <1>1. PICK x \in creating : statuses' = [statuses EXCEPT ![x[1]] = Append(@, x[2])]
        BY DEF PutStatus
    <1>2. x[1] \in Accounts /\ x[2] \in Nat \ {0} /\ x = <<x[1], x[2]>>
        BY DEF TypeOK, Item
    <1>3. statuses[x[1]] \in Seq(Nat \ {0}) /\ statuses \in [Accounts -> Seq(Nat \ {0})]
        BY <1>2 DEF TypeOK
    <1>4. Range(Append(statuses[x[1]], x[2])) = Range(statuses[x[1]]) \cup {x[2]}
        BY <1>2, <1>3, AppendRange
    <1>5. \A b \in Accounts : statuses'[b] = IF b = x[1] THEN Append(statuses[b], x[2]) ELSE statuses[b]
        BY <1>1, <1>3
    <1>6. \A b \in Accounts : Tooted(b)' = IF b = x[1] THEN Tooted(b) \cup {x[2]} ELSE Tooted(b)
        BY <1>4, <1>5 DEF Tooted
    <1>7. QED  BY <1>2, <1>6

\* Only PutStatus writes a status, and only Publish adds to a feed.
LEMMA Writes ==
    ASSUME [Next]_vars
    PROVE  /\ UNCHANGED statuses \/ PutStatus
           /\ UNCHANGED feed \/ (UNCHANGED statuses /\ \E a \in Accounts, d \in SiteDates : Publish(a, d))
    BY DEF Next, Environment, Refresh, Follow, Publish, Tick, Stop, Crash, Start, Die, Exit,
           BeginPoll, BeginPollFails, FetchFails, FetchPanics, Fetch, SaveValidators,
           SaveValidatorsFails, BeginCreate, PutThread, PutThreadFails, PutStatus,
           PutStatusFails, PushToClientQueue, EndPoll, vars, db

\* What is tooted stays tooted, with its date.
LEMMA TootedStays ==
    ASSUME IInv, [Next]_vars, NEW a \in Accounts, NEW i \in Tooted(a)
    PROVE  i \in Tooted(a)' /\ feed'[a][i] = feed[a][i]
    <1>1. TypeOK /\ i \in 1..Version(a)
        BY DEF IInv, TootedKnown, Known
    <1>2. i \in Tooted(a)'
        <2>1. CASE UNCHANGED statuses
            BY <2>1 DEF Tooted
        <2>2. CASE PutStatus
            BY <1>1, <2>2, PutStatusFacts
        <2>3. QED  BY <2>1, <2>2, Writes
    <1>3. feed'[a][i] = feed[a][i]
        <2>1. CASE UNCHANGED feed
            BY <2>1
        <2>2. ASSUME NEW b \in Accounts, NEW d \in SiteDates, Publish(b, d)
              PROVE  feed'[a][i] = feed[a][i]
            <3>1. feed[a] \in Seq(SiteDates) /\ (feed'[a] = feed[a] \/ feed'[a] = Append(feed[a], d))
                BY <1>1, <2>2 DEF TypeOK, Publish
            <3>2. QED  BY <1>1, <3>1, AppendFacts DEF Version
        <2>3. QED  BY <2>1, <2>2, Writes
    <1>4. QED  BY <1>2, <1>3

\* LastTweet stays the date of a status.
LEMMA LastsStay == ASSUME IInv, LastsTooted, [Next]_vars  PROVE LastsTooted'
    <1>1. CASE toPoll' \subseteq toPoll
        <2>1. \A p \in toPoll : p.acct \in Accounts
            BY DEF IInv, TypeOK, Poll
        <2>2. QED  BY <1>1, <2>1, TootedStays DEF LastsTooted
    <1>2. CASE toPoll' \subseteq AccountsToPoll /\ UNCHANGED <<feed, statuses>>
        <2> SUFFICES ASSUME NEW p \in toPoll'
                     PROVE  p.last = 0 \/ \E i \in Tooted(p.acct) : feed[p.acct][i] = p.last
            BY <1>2 DEF LastsTooted, Tooted
        <2>1. p.acct \in Accounts /\ p.last = LastTweet(p.acct)
            BY <1>2 DEF AccountsToPoll
        <2>2. QED  BY <2>1, LastTweetBounds DEF IInv
    <1>3. QED
        BY <1>1, <1>2 DEF Next, Environment, Refresh, Follow, Publish, Tick, Stop, Crash, Start, Die, Exit,
           BeginPoll, BeginPollFails, FetchFails, FetchPanics, Fetch, SaveValidators,
           SaveValidatorsFails, BeginCreate, PutThread, PutThreadFails, PutStatus,
           PutStatusFails, PushToClientQueue, EndPoll, vars, db, local

\* One item is in hand at a time.
LEMMA HandsStay == ASSUME TypeOK, Hands, [Next]_vars  PROVE Hands'
    <1>1. CASE creating' = {}
        BY <1>1 DEF Hands
    <1>2. CASE UNCHANGED <<pc, creating, statuses>>
        BY <1>2 DEF Hands, Tooted
    <1>3. CASE pc \notin {"put", "push"} /\ UNCHANGED creating
        BY <1>1, <1>3 DEF Hands
    <1>4. ASSUME NEW x, PutThread(x)  PROVE Hands'
        BY <1>4 DEF PutThread, Hands
    <1>5. CASE PutStatus
        <2>1. PICK x \in creating : /\ x[1] \in Accounts /\ x = <<x[1], x[2]>>
                                    /\ \A b \in Accounts : Tooted(b)' = IF b = x[1] THEN Tooted(b) \cup {x[2]} ELSE Tooted(b)
            BY <1>5, PutStatusFacts
        <2>2. x[2] \in Tooted(x[1])' /\ \A y \in creating : y = x
            BY <2>1 DEF Hands
        <2>3. pc' = "push" /\ UNCHANGED creating
            BY <1>5 DEF PutStatus, local
        <2>4. QED  BY <2>2, <2>3 DEF Hands
    <1>6. \/ creating' = {} \/ UNCHANGED <<pc, creating, statuses>>
          \/ pc \notin {"put", "push"} /\ UNCHANGED creating
          \/ (\E x \in toCreate : PutThread(x)) \/ PutStatus
        BY DEF Next, Environment, Refresh, Follow, Publish, Tick, Stop, Crash, Start, Die, Exit,
           BeginPoll, BeginPollFails, FetchFails, FetchPanics, Fetch, SaveValidators,
           SaveValidatorsFails, BeginCreate, PutThreadFails,
           PutStatusFails, PushToClientQueue, EndPoll, vars, db, local
    <1>7. QED  BY <1>1, <1>2, <1>3, <1>4, <1>5, <1>6


\* An answer is read: its items are tooted, or newer than LastTweet and to be
\* created; the older ones are before an item that is tooted.
LEMMA FetchCovers ==
    ASSUME IInv, LastsTooted, Undisturbed, Cover, NEW p \in toPoll, NEW r \in Replies(p.acct), Fetch(p, r)
    PROVE  Cover'
    <1> DEFINE a == p.acct
    <1>0. /\ TypeOK /\ a \in Accounts /\ p.last \in Nat /\ Version(a) \in Nat
          /\ feed[a] \in Seq(SiteDates) /\ StrictFeed(a)
        BY DEF IInv, TypeOK, Poll, Version, Undisturbed
    <1>1. /\ UNCHANGED <<feed, statuses, etag, fetchedAt, done, creating>>
          /\ reply' = {r} /\ (UNCHANGED toCreate \/ toCreate' = toCreate \cup NewItems(p))
        BY DEF Fetch, db
    <1>2. \A b, i : Tooted(b)' = Tooted(b) /\ (Here(b, i) => Here(b, i)')
        BY <1>1 DEF Here, Tooted
    <1>3. \A b, n : Covered(b, n) => Covered(b, n)'
        BY <1>2 DEF Covered
    <1>4. ASSUME ~ NotModified(a)  PROVE Covered(a, Version(a))'
        <2> SUFFICES ASSUME NEW i \in 1..Version(a)  PROVE Here(a, i)'
            BY <1>1 DEF Covered, Version
        <2>1. toCreate' = toCreate \cup NewItems(p)
            BY <1>4 DEF Fetch
        <2>2. \A j \in 1..Version(a) : feed[a][j] \in Nat \ {0}
            <3>1. \A j \in 1..Version(a) : feed[a][j] \in SiteDates /\ feed[a][j] # Undated
                BY <1>0 DEF Version, StrictFeed, AllDated
            <3>2. QED  BY <3>1, UndatedAssumption, DatesAssumption
        <2>3. CASE feed[a][i] > p.last
            <3>1. <<a, i>> \in NewItems(p)
                BY <2>3 DEF NewItems
            <3>2. QED  BY <2>1, <3>1 DEF Here
        <2>4. CASE ~ (feed[a][i] > p.last)
            <3>1. feed[a][i] \in Nat /\ feed[a][i] # 0 /\ feed[a][i] <= p.last
                BY <1>0, <2>2, <2>4
            <3>2. PICK j \in Tooted(a) : feed[a][j] = p.last
                BY <1>0, <3>1 DEF LastsTooted
            <3>3. j \in 1..Version(a)
                BY <1>0 DEF IInv, TootedKnown, Known
            <3>4. i <= j
                <4>1. j < i => feed[a][j] < feed[a][i]
                    BY <1>0, <3>3 DEF StrictFeed
                <4>2. QED  BY <1>0, <3>1, <3>2, <3>3, <4>1
            <3>5. Covered(a, j) /\ i \in 1..j
                <4>1. j \in Nat /\ i \in 1..j
                    BY <1>0, <3>3, <3>4
                <4>2. Here(a, j)
                    BY <3>2 DEF Here
                <4>3. QED  BY <1>0, <4>1, <4>2 DEF Cover
            <3>6. QED  BY <1>2, <3>5 DEF Covered
        <2>5. QED  BY <2>3, <2>4
    <1>5. Covered(a, Version(a))'
        <2>1. CASE NotModified(a)
            <3>1. Covered(a, Version(a))
                BY <1>0, <2>1 DEF NotModified, Cover
            <3>2. QED  BY <1>1, <1>3, <3>1 DEF Covered, Version
        <2>2. QED  BY <1>4, <2>1
    <1>6. ASSUME NEW b \in Accounts, NEW n \in Nat, Here(b, n)'  PROVE Covered(b, n)'
        <2>1. CASE Here(b, n)
            BY <1>3, <2>1 DEF Cover
        <2>2. CASE ~ Here(b, n)
            <3>1. <<b, n>> \in NewItems(p)
                BY <1>1, <1>2, <1>6, <2>2 DEF Here
            <3>2. b = a /\ n \in 1..Version(a)
                BY <3>1 DEF NewItems
            <3>3. QED  BY <1>0, <1>1, <1>5, <3>2 DEF Covered, Version
        <2>3. QED  BY <2>1, <2>2
    <1>7. /\ r.acct = a /\ r.etag \in {Version(a), NoEtag} /\ r.fetchedAt \in {Version(a), fetchedAt[a]}
        BY DEF Replies
    <1>8. Covered(a, Version(a))' /\ Covered(a, fetchedAt[a])' /\ Version(a)' = Version(a)
        BY <1>0, <1>1, <1>3, <1>5 DEF Cover, Version
    <1>9. (r.etag # NoEtag => Covered(r.acct, r.etag)') /\ Covered(r.acct, r.fetchedAt)'
        <2>1. \A n : n = Version(a) \/ n = fetchedAt[a] => Covered(a, n)'
            BY <1>1, <1>8 DEF Covered
        <2>2. QED  BY <1>7, <2>1
    <1>10. \A b \in Accounts : (etag[b] # NoEtag => Covered(b, etag[b])') /\ Covered(b, fetchedAt[b])'
        BY <1>1, <1>3 DEF Cover
    <1>11. QED  BY <1>1, <1>6, <1>9, <1>10 DEF Cover

\* The validators of an answer are stored: what they claim is there already.
LEMMA SaveCovers ==
    ASSUME IInv, Cover, SaveValidators  PROVE Cover'
    <1>1. PICK r \in reply : /\ etag' = [etag EXCEPT ![r.acct] = r.etag]
                             /\ fetchedAt' = [fetchedAt EXCEPT ![r.acct] = r.fetchedAt]
        BY DEF SaveValidators
    <1>2. UNCHANGED <<statuses, toCreate, creating, done>> /\ reply' = {}
        BY DEF SaveValidators
    <1>3. r.acct \in Accounts /\ etag \in [Accounts -> Nat \cup {NoEtag}] /\ fetchedAt \in [Accounts -> Nat]
        BY DEF IInv, TypeOK, Reply
    <1>4. \A b, i : (Here(b, i)' <=> Here(b, i)) /\ (Covered(b, i)' <=> Covered(b, i))
        BY <1>2 DEF Here, Covered, Tooted
    <1>5. \A b \in Accounts : (etag'[b] # NoEtag => Covered(b, etag'[b])) /\ Covered(b, fetchedAt'[b])
        BY <1>1, <1>3 DEF Cover
    <1>6. QED  BY <1>2, <1>4, <1>5 DEF Cover

\* Every step of an undisturbed poller keeps the items behind the validators.
LEMMA CoverNext ==
    ASSUME IInv, Hands, LastsTooted, [Next]_vars, Undisturbed, UNCHANGED faults, Cover
    PROVE  Cover'
    <1>1. TypeOK /\ ~ done /\ faults = 0 /\ \A a \in Accounts : StrictFeed(a)
        BY DEF IInv, Cover, Undisturbed
    <1>2. ~ Fault
        BY <1>1 DEF Fault
    <1>3. CASE UNCHANGED <<statuses, toCreate, creating, etag, fetchedAt, reply, done>>
        <2>1. \A a, i : Here(a, i)' <=> Here(a, i)
            BY <1>3 DEF Here, Tooted
        <2>2. QED  BY <1>1, <1>3, <2>1, CoverStays
    <1>4. ASSUME NEW x \in toCreate, PutThread(x)  PROVE Cover'
        <2>1. /\ UNCHANGED <<statuses, etag, fetchedAt, reply, done>>
              /\ toCreate' = toCreate \ {x} /\ creating' = {x} /\ creating = {}
            BY <1>4 DEF PutThread, Hands
        <2>2. \A a, i : Here(a, i)' <=> Here(a, i)
            BY <2>1 DEF Here, Tooted
        <2>3. QED  BY <1>1, <2>1, <2>2, CoverStays
    <1>5. CASE PutStatus
        <2>1. PICK x \in creating : /\ x[1] \in Accounts /\ x = <<x[1], x[2]>>
                                    /\ \A b \in Accounts : Tooted(b)' = IF b = x[1] THEN Tooted(b) \cup {x[2]} ELSE Tooted(b)
            BY <1>1, <1>5, PutStatusFacts
        <2>2. UNCHANGED <<toCreate, creating, etag, fetchedAt, reply, done>>
            BY <1>5 DEF PutStatus, local
        <2>3. \A a \in Accounts : \A i : Here(a, i)' <=> Here(a, i)
            BY <2>1, <2>2 DEF Here
        <2>4. QED  BY <1>1, <2>2, <2>3, CoverStays
    <1>6. CASE PushToClientQueue
        <2>1. /\ UNCHANGED <<statuses, toCreate, etag, fetchedAt, reply, done>> /\ creating' = {}
              /\ \A x \in creating : x[2] \in Tooted(x[1])
            BY <1>6 DEF PushToClientQueue, Hands, db
        <2>2. \A a, i : <<a, i>> \in creating => i \in Tooted(a)
            BY <2>1
        <2>3. \A a, i : Here(a, i)' <=> Here(a, i)
            BY <2>1, <2>2 DEF Here, Tooted
        <2>4. QED  BY <1>1, <2>1, <2>3, CoverStays
    <1>7. ASSUME NEW p \in toPoll, FetchPanics(p)  PROVE FALSE
        <2>1. p.acct \in Accounts
            BY <1>1 DEF TypeOK, Poll
        <2>2. QED  BY <1>1, <1>7, <2>1 DEF FetchPanics, StrictFeed
    <1>8. ASSUME NEW p \in toPoll, NEW r \in Replies(p.acct), Fetch(p, r)  PROVE Cover'
        BY <1>8, FetchCovers
    <1>9. CASE SaveValidators
        BY <1>9, SaveCovers
    <1>10. CASE Environment \/ UNCHANGED vars
        <2>1. UNCHANGED <<statuses, toCreate, creating, etag, fetchedAt, reply>>
            BY <1>2, <1>10 DEF Environment, Follow, Publish, Tick, Stop, Crash, Start, vars, db, local
        <2>2. UNCHANGED done
            <3>1. UNCHANGED done \/ done' = FALSE
                BY <1>2, <1>10 DEF Environment, Follow, Publish, Tick, Stop, Crash, Start, vars
            <3>2. done = FALSE
                BY <1>1 DEF TypeOK
            <3>3. QED  BY <3>1, <3>2
        <2>3. QED  BY <1>3, <2>1, <2>2
    <1>11. CASE BeginPoll \/ BeginCreate \/ EndPoll
        BY <1>3, <1>11 DEF BeginPoll, BeginCreate, EndPoll, db, local
    <1>12. ~ Exit /\ ~ BeginPollFails /\ ~ SaveValidatorsFails /\ ~ PutStatusFails
        BY <1>1, <1>2 DEF Exit, BeginPollFails, SaveValidatorsFails, PutStatusFails
    <1>13. (\A p : ~ FetchFails(p)) /\ (\A x : ~ PutThreadFails(x))
        BY <1>1, <1>2 DEF FetchFails, PutThreadFails
    <1>14. CASE Refresh
        BY <1>4, <1>5, <1>6, <1>7, <1>8, <1>9, <1>11, <1>12, <1>13, <1>14 DEF Refresh
    <1>15. QED  BY <1>10, <1>14 DEF Next

\* refresh() stores the validators of an answer before it creates the items: no
\* item behind them is lost, for any number of accounts, items and polls, as long
\* as nothing has failed and every feed is in the order of its dates.
THEOREM NothingHidden == Spec => []ValidatorsCoverItems
    <1>1. Init => CInv
        <2> SUFFICES ASSUME Init  PROVE CInv
            OBVIOUS
        <2>1. \A a \in Accounts : \A i : ~ Here(a, i)
            BY DEF Init, Here, Tooted, Range
        <2>2. /\ ~ done /\ reply = {} /\ creating = {} /\ toPoll = {}
              /\ \A a \in Accounts : etag[a] = NoEtag /\ fetchedAt[a] = 0
            BY DEF Init
        <2>3. Cover
            BY <2>1, <2>2 DEF Cover, Covered
        <2>4. Hands /\ LastsTooted
            BY <2>2 DEF Hands, LastsTooted
        <2>5. QED  BY InitIInv, <2>3, <2>4 DEF CInv
    <1>2. CInv /\ [Next]_vars => CInv'
        <2> SUFFICES ASSUME CInv, [Next]_vars  PROVE CInv'
            OBVIOUS
        <2>1. IInv /\ IInv' /\ TypeOK /\ TypeOK' /\ Hands /\ LastsTooted
            BY NextIInv DEF CInv, IInv
        <2>2. Hands' /\ LastsTooted'
            BY <2>1, HandsStay, LastsStay
        <2>3. ASSUME Undisturbed'  PROVE Cover'
            <3>1. Undisturbed /\ UNCHANGED faults
                BY <2>1, <2>3, UndisturbedBefore
            <3>2. QED  BY <2>1, <3>1, CoverNext DEF CInv
        <2>4. QED  BY <2>1, <2>2, <2>3 DEF CInv
    <1>3. CInv => ValidatorsCoverItems
        <2> SUFFICES ASSUME CInv, Undisturbed, NEW a \in Accounts, NEW i \in 1..Seen(a)
                     PROVE  i \in Tooted(a) \/ <<a, i>> \in toCreate \cup creating
            BY DEF ValidatorsCoverItems, Undisturbed
        <2>1. Covered(a, Seen(a))
            BY DEF CInv, Cover, Seen
        <2>2. QED  BY <2>1 DEF Covered, Here
    <1>4. QED  BY <1>1, <1>2, <1>3, PTL DEF Spec

-----------------------------------------------------------------------------
(***************************************************************************)
(* Creation of proxy accounts: RssUser, with state of its own. What        *)
(* DbUsername computes is not looked at: the proofs hold for any name      *)
(* derived from a feed.                                                    *)
(***************************************************************************)
\* As much of the types as the argument needs.
Shapes ==
    /\ userPc \in [Requests -> {"idle", "lookup", "fetch", "check", "avatar", "settings",
                            "account", "user", "webfinger", "done", "dead"}]
    /\ result \in [Requests -> {"none", "ok", "bad_request", "not_found"}]
    /\ userFeed = [r \in Requests |-> userFeed[r]]
    /\ name = [r \in Requests |-> name[r]]
    /\ \A a \in accounts : a.id \in Requests
    /\ userFaults \in Nat

\* Names are those of feeds that were served, and a request has one feed when it
\* has loaded it.
NamesDerived ==
    /\ \A r \in Requests :
         /\ \A f, g \in userFeed[r] : f = g
         /\ \A f \in userFeed[r] : name[r] = DbUsername(f) /\ \E u \in DOMAIN Site : f = Site[u]
         /\ userPc[r] = "idle" => userFeed[r] = {}
         /\ userPc[r] \in {"check", "avatar", "settings", "account"} => userFeed[r] # {}
    /\ \A a \in accounts : a.name = DbUsername(a.url) /\ \E u \in DOMAIN Site : a.url = Site[u]

\* What a request has written when it comes to its next insert.
WrittenSoFar ==
    /\ \A r \in Requests :
         /\ userPc[r] \in {"account", "user"} => r \in settings
         /\ userPc[r] = "user" => \E a \in accounts : a.id = r /\ a.name = name[r]
    /\ \A u \in users : userPc[u.id] \in {"webfinger", "done", "dead"}

\* A request that is answered is over, and a good answer was about an account.
Answered ==
    \A r \in Requests :
        /\ result[r] # "none" => userPc[r] = "done"
        /\ result[r] = "ok" => \E a \in accounts : a.name = name[r]

\* The inductive invariant.
UserInv == Shapes /\ NamesDerived /\ WrittenSoFar /\ Answered /\ OneAccountPerName /\ RowsMatch

-----------------------------------------------------------------------------
\* Initially nothing is stored and nobody asks.
LEMMA InitUser == UserInit => UserInv
    <1> SUFFICES ASSUME UserInit PROVE UserInv
        OBVIOUS
    <1>1. Shapes
        BY DEF UserInit, Shapes
    <1>2. NamesDerived /\ WrittenSoFar /\ Answered
        BY DEF UserInit, NamesDerived, WrittenSoFar, Answered
    <1>3. OneAccountPerName /\ RowsMatch
        BY DEF UserInit, OneAccountPerName, RowsMatch
    <1>4. QED  BY <1>1, <1>2, <1>3 DEF UserInv

\* A request moves on without writing: it looks something up, ends or fails.
LEMMA ControlStep ==
    ASSUME UserInv, NEW r \in Requests,
           Lookup(r) \/ FetchNothing(r) \/ Check(r) \/ FetchAvatar(r) \/ WebfingerGet(r)
             \/ CallFails(r) \/ WebfingerFails(r)
    PROVE  UserInv'
    <1> USE DEF Lookup, FetchNothing, Check, FetchAvatar, WebfingerGet,
                CallFails, WebfingerFails, Goto, Answer, UserFault, tables
    <1>1. UNCHANGED <<name, userFeed, accounts, settings, users>>
        OBVIOUS
    <1>2. /\ userPc \in [Requests -> {"idle", "lookup", "fetch", "check", "avatar", "settings",
                                  "account", "user", "webfinger", "done", "dead"}]
          /\ result \in [Requests -> {"none", "ok", "bad_request", "not_found"}]
          /\ userFaults \in Nat
        BY DEF UserInv, Shapes
    <1>3. PICK l \in {"fetch", "webfinger", "done", "avatar", "settings"} :
              /\ userPc' = [userPc EXCEPT ![r] = l]
              /\ l \in {"avatar", "settings"} => userPc[r] \in {"check", "avatar"}
        OBVIOUS
    <1>4. /\ userPc'[r] = l /\ \A q \in Requests : q # r => userPc'[q] = userPc[q]
          /\ userPc[r] \notin {"done", "idle", "dead"}
        BY <1>2, <1>3
    <1>5. /\ userFaults' \in Nat /\ (userFaults > 0 => userFaults' > 0)
          /\ userPc[r] = "user" => userFaults' > 0
          /\ userPc[r] = "webfinger" => l = "done"
        BY <1>2, <1>3
    <1>6. Shapes'
        BY <1>1, <1>2, <1>3, <1>5 DEF UserInv, Shapes
    <1>7. NamesDerived'
        BY <1>1, <1>3, <1>4 DEF UserInv, NamesDerived
    <1>8. WrittenSoFar'
        <2>1. \A q \in Requests : userPc'[q] \in {"account", "user"} => q # r
            BY <1>4
        <2>2. \A q \in Requests : userPc[q] \in {"webfinger", "done", "dead"}
                                    => userPc'[q] \in {"webfinger", "done", "dead"}
            BY <1>4, <1>5
        <2>3. \A u \in users : u.id \in Requests
            BY DEF UserInv, RowsMatch, Shapes
        <2>4. QED  BY <1>1, <1>4, <2>1, <2>2, <2>3 DEF UserInv, WrittenSoFar
    <1>9. Answered'
        <2>1. \/ result' = result
              \/ \E res \in {"bad_request", "not_found"} : l = "done" /\ result' = [result EXCEPT ![r] = res]
              \/ l = "done" /\ result' = [result EXCEPT ![r] = "ok"] /\ ~IsUsernameAvailable(name[r])
            BY <1>2, <1>3
        <2>2. result[r] = "none"
            BY <1>2, <1>4 DEF UserInv, Answered
        <2>3. result'[r] # "none" => userPc'[r] = "done"
            BY <1>2, <1>4, <2>1, <2>2
        <2>4. result'[r] = "ok" => \E a \in accounts : a.name = name[r]
            BY <1>2, <2>1, <2>2 DEF IsUsernameAvailable
        <2>5. \A q \in Requests : q # r => result'[q] = result[q]
            BY <1>2, <2>1
        <2>6. QED  BY <1>1, <1>4, <2>3, <2>4, <2>5 DEF UserInv, Answered
    <1>10. OneAccountPerName'
        BY <1>1 DEF UserInv, OneAccountPerName
    <1>11. RowsMatch'
        <2>1. \A a \in accounts : userPc[a.id] = "user" => userPc'[a.id] = "user" \/ userFaults' > 0
            BY <1>4, <1>5 DEF UserInv, Shapes
        <2>2. QED  BY <1>1, <1>5, <2>1 DEF UserInv, RowsMatch
    <1>12. QED  BY <1>6, <1>7, <1>8, <1>9, <1>10, <1>11 DEF UserInv

\* A request begins, or has its feed: it has written nothing yet.
LEMMA NameStep ==
    ASSUME UserInv, NEW r \in Requests, FetchFeed(r) \/ \E s \in Resources : Begin(r, s)
    PROVE  UserInv'
    <1>1. /\ userPc \in [Requests -> {"idle", "lookup", "fetch", "check", "avatar", "settings",
                                  "account", "user", "webfinger", "done", "dead"}]
          /\ result \in [Requests -> {"none", "ok", "bad_request", "not_found"}]
          /\ userFeed = [q \in Requests |-> userFeed[q]]
          /\ name = [q \in Requests |-> name[q]]
        BY DEF UserInv, Shapes
    <1>2. UNCHANGED <<result, accounts, settings, users, userFaults>>
        BY DEF FetchFeed, Begin, Goto, tables
    <1>3. /\ userPc[r] \in {"idle", "fetch"}
          /\ \E l \in {"lookup", "fetch", "check"} : userPc' = [userPc EXCEPT ![r] = l]
          /\ \E n : name' = [name EXCEPT ![r] = n]
        BY DEF FetchFeed, Begin, Goto
    <1>4. /\ userPc'[r] \in {"lookup", "fetch", "check"} /\ name' = [q \in Requests |-> name'[q]]
          /\ \A q \in Requests : q # r => userPc'[q] = userPc[q] /\ name'[q] = name[q]
        BY <1>1, <1>3
    <1>5. \A q \in Requests : q # r => userFeed'[q] = userFeed[q]
        BY <1>1 DEF FetchFeed, Begin
    <1>6. /\ userFeed' = [q \in Requests |-> userFeed'[q]]
          /\ \A f, g \in userFeed'[r] : f = g
          /\ \A f \in userFeed'[r] : name'[r] = DbUsername(f) /\ \E u \in DOMAIN Site : f = Site[u]
          /\ userPc'[r] = "check" => userFeed'[r] # {}
        <2>1. CASE FetchFeed(r)
            <3>1. PICK u \in DOMAIN Site : /\ userFeed' = [userFeed EXCEPT ![r] = {Site[u]}]
                                           /\ name' = [name EXCEPT ![r] = DbUsername(Site[u])]
                BY <2>1 DEF FetchFeed
            <3>3. userFeed'[r] = {Site[u]} /\ name'[r] = DbUsername(Site[u])
                BY <1>1, <3>1
            <3>2. userFeed' = [q \in Requests |-> userFeed'[q]]
                BY <1>1, <3>1
            <3>4. QED  BY <3>2, <3>3
        <2>2. CASE \E s \in Resources : Begin(r, s)
            <3>1. userFeed' = userFeed /\ userPc[r] = "idle" /\ userPc'[r] # "check"
                BY <1>1, <2>2 DEF Begin, Goto
            <3>2. userFeed[r] = {}
                BY <3>1 DEF UserInv, NamesDerived
            <3>3. QED  BY <1>1, <3>1, <3>2
        <2>3. QED  BY <2>1, <2>2
    <1>7. Shapes'
        <2>1. userPc' \in [Requests -> {"idle", "lookup", "fetch", "check", "avatar", "settings",
                                    "account", "user", "webfinger", "done", "dead"}]
            BY <1>1, <1>3
        <2>2. QED  BY <1>2, <1>4, <1>6, <2>1 DEF UserInv, Shapes
    <1>8. NamesDerived'
        BY <1>2, <1>4, <1>5, <1>6 DEF UserInv, NamesDerived
    <1>9. WrittenSoFar'
        <2>1. \A u \in users : u.id \in Requests /\ u.id # r
            BY <1>3 DEF UserInv, RowsMatch, Shapes, WrittenSoFar
        <2>2. QED  BY <1>2, <1>4, <2>1 DEF UserInv, WrittenSoFar
    <1>10. Answered'
        <2>1. result[r] = "none"
            BY <1>1, <1>3 DEF UserInv, Answered
        <2>2. QED  BY <1>2, <1>4, <2>1 DEF UserInv, Answered
    <1>11. OneAccountPerName' /\ RowsMatch'
        <2>1. \A a \in accounts : userPc[a.id] = "user" => userPc'[a.id] = "user"
            BY <1>3, <1>4 DEF UserInv, Shapes
        <2>2. QED  BY <1>2, <2>1 DEF UserInv, OneAccountPerName, RowsMatch
    <1>12. QED  BY <1>7, <1>8, <1>9, <1>10, <1>11 DEF UserInv

\* The settings are stored first.
LEMMA SettingsStep ==
    ASSUME UserInv, NEW r \in Requests, PutAccountSettings(r)  PROVE UserInv'
    <1> USE DEF PutAccountSettings, Goto
    <1>1. /\ UNCHANGED <<name, userFeed, result, accounts, users, userFaults>>
          /\ settings' = settings \cup {r} /\ userPc[r] = "settings"
          /\ userPc' = [userPc EXCEPT ![r] = "account"]
          /\ userPc \in [Requests -> {"idle", "lookup", "fetch", "check", "avatar", "settings",
                                  "account", "user", "webfinger", "done", "dead"}]
        BY DEF UserInv, Shapes
    <1>2. userPc'[r] = "account" /\ \A q \in Requests : q # r => userPc'[q] = userPc[q]
        BY <1>1
    <1>3. Shapes'
        BY <1>1 DEF UserInv, Shapes
    <1>4. NamesDerived'
        BY <1>1, <1>2 DEF UserInv, NamesDerived
    <1>5. WrittenSoFar'
        <2>1. \A u \in users : u.id \in Requests /\ u.id # r
            BY <1>1 DEF UserInv, RowsMatch, Shapes, WrittenSoFar
        <2>2. QED  BY <1>1, <1>2, <2>1 DEF UserInv, WrittenSoFar
    <1>6. Answered'
        BY <1>1, <1>2 DEF UserInv, Answered
    <1>7. OneAccountPerName' /\ RowsMatch'
        <2>1. \A a \in accounts : userPc[a.id] = "user" => userPc'[a.id] = "user"
            BY <1>1, <1>2 DEF UserInv, Shapes
        <2>2. QED  BY <1>1, <2>1 DEF UserInv, OneAccountPerName, RowsMatch
    <1>8. QED  BY <1>3, <1>4, <1>5, <1>6, <1>7 DEF UserInv

\* The account is inserted when name and URL are new, and refused otherwise.
LEMMA AccountStep ==
    ASSUME UserInv, NEW r \in Requests, PutAccount(r)  PROVE UserInv'
    <1>1. /\ UNCHANGED <<name, userFeed, settings, users, userFaults>> /\ userPc[r] = "account"
          /\ userPc \in [Requests -> {"idle", "lookup", "fetch", "check", "avatar", "settings",
                                  "account", "user", "webfinger", "done", "dead"}]
          /\ result \in [Requests -> {"none", "ok", "bad_request", "not_found"}]
        BY DEF PutAccount, UserInv, Shapes
    <1>2. /\ r \in settings /\ result[r] = "none"
          /\ \A u \in users : u.id \in Requests /\ u.id # r
        BY <1>1 DEF UserInv, RowsMatch, Shapes, WrittenSoFar, Answered
    <1>3. PICK f : userFeed[r] = {f}
        <2>1. userFeed[r] # {} /\ \A f, g \in userFeed[r] : f = g
            BY <1>1 DEF UserInv, NamesDerived
        <2>2. PICK f : f \in userFeed[r]
            BY <2>1
        <2>3. userFeed[r] = {f}
            BY <2>1, <2>2
        <2>4. QED  BY <2>3
    <1>4. name[r] = DbUsername(f) /\ \E u \in DOMAIN Site : f = Site[u]
        BY <1>3 DEF UserInv, NamesDerived
    <1>5. CASE Inserts(r)
        <2> DEFINE new == [id |-> r, name |-> name[r], url |-> f]
        <2>1. /\ accounts' = accounts \cup {[id |-> r, name |-> name[r], url |-> u] : u \in userFeed[r]}
              /\ userPc' = [userPc EXCEPT ![r] = "user"] /\ result' = result
            BY <1>5 DEF PutAccount, Goto
        <2>2. accounts' = accounts \cup {new}
            BY <1>3, <2>1
        <2>3. userPc'[r] = "user" /\ \A q \in Requests : q # r => userPc'[q] = userPc[q]
            BY <1>1, <2>1
        <2>4. new.id = r /\ new.name = name[r] /\ new.url = f
            OBVIOUS
        <2> HIDE DEF new
        <2>5. \A a \in accounts : a.name # new.name
            BY <1>5, <2>4 DEF Inserts
        <2>6. Shapes'
            BY <1>1, <2>1, <2>2, <2>4 DEF UserInv, Shapes
        <2>7. NamesDerived'
            BY <1>1, <1>4, <2>2, <2>3, <2>4 DEF UserInv, NamesDerived
        <2>8. WrittenSoFar'
            BY <1>1, <1>2, <2>2, <2>3, <2>4 DEF UserInv, WrittenSoFar
        <2>9. Answered'
            BY <1>1, <1>2, <2>1, <2>2, <2>3 DEF UserInv, Answered
        <2>10. OneAccountPerName'
            BY <2>2, <2>5 DEF UserInv, OneAccountPerName
        <2>11. RowsMatch'
            <3>1. \A a \in accounts : userPc[a.id] = "user" => userPc'[a.id] = "user"
                BY <1>1, <2>3 DEF UserInv, Shapes
            <3>2. QED  BY <1>1, <1>2, <2>2, <2>3, <2>4, <3>1 DEF UserInv, RowsMatch
        <2>12. QED  BY <2>6, <2>7, <2>8, <2>9, <2>10, <2>11 DEF UserInv
    <1>6. CASE ~Inserts(r)
        <2>1. /\ accounts' = accounts /\ userPc' = [userPc EXCEPT ![r] = "done"]
              /\ result' = [result EXCEPT ![r] = "bad_request"]
            BY <1>6 DEF PutAccount, Answer
        <2>2. /\ userPc'[r] = "done" /\ \A q \in Requests : q # r => userPc'[q] = userPc[q] /\ result'[q] = result[q]
              /\ result'[r] = "bad_request"
            BY <1>1, <2>1
        <2>3. Shapes'
            BY <1>1, <2>1 DEF UserInv, Shapes
        <2>4. NamesDerived'
            BY <1>1, <2>1, <2>2 DEF UserInv, NamesDerived
        <2>5. WrittenSoFar'
            BY <1>1, <1>2, <2>1, <2>2 DEF UserInv, WrittenSoFar
        <2>6. Answered'
            BY <1>1, <2>1, <2>2 DEF UserInv, Answered
        <2>7. OneAccountPerName' /\ RowsMatch'
            <3>1. \A a \in accounts : userPc[a.id] = "user" => userPc'[a.id] = "user"
                BY <1>1, <2>2 DEF UserInv, Shapes
            <3>2. QED  BY <1>1, <2>1, <3>1 DEF UserInv, OneAccountPerName, RowsMatch
        <2>8. QED  BY <2>3, <2>4, <2>5, <2>6, <2>7 DEF UserInv
    <1>7. QED  BY <1>5, <1>6

\* The user is always inserted: another with its email would have an account of
\* the same name.
LEMMA UserStep ==
    ASSUME UserInv, NEW r \in Requests, PutUser(r)  PROVE UserInv'
    <1>1. /\ UNCHANGED <<name, userFeed, accounts, settings, userFaults>> /\ userPc[r] = "user"
          /\ userPc \in [Requests -> {"idle", "lookup", "fetch", "check", "avatar", "settings",
                                  "account", "user", "webfinger", "done", "dead"}]
        BY DEF PutUser, UserInv, Shapes
    <1>2. PICK a \in accounts : a.id = r /\ a.name = name[r]
        BY <1>1 DEF UserInv, WrittenSoFar
    <1>3. \A u \in users : u.id \in Requests /\ u.id # r
        BY <1>1 DEF UserInv, RowsMatch, Shapes, WrittenSoFar
    <1>4. \A u \in users : u.email # name[r]
        <2> SUFFICES ASSUME NEW u \in users, u.email = name[r] PROVE FALSE
            OBVIOUS
        <2>1. PICK b \in accounts : b.id = u.id /\ b.name = u.email
            BY DEF UserInv, RowsMatch
        <2>2. b = a
            BY <1>2, <2>1 DEF UserInv, OneAccountPerName
        <2>3. QED  BY <1>2, <1>3, <2>1, <2>2
    <1> DEFINE new == [id |-> r, email |-> name[r]]
    <1>5. /\ users' = users \cup {new} /\ result' = result
          /\ userPc' = [userPc EXCEPT ![r] = "webfinger"]
        BY <1>4 DEF PutUser, Goto
    <1>6. new.id = r /\ new.email = name[r]
        OBVIOUS
    <1> HIDE DEF new
    <1>7. userPc'[r] = "webfinger" /\ \A q \in Requests : q # r => userPc'[q] = userPc[q]
        BY <1>1, <1>5
    <1>8. Shapes'
        BY <1>1, <1>5 DEF UserInv, Shapes
    <1>9. NamesDerived'
        BY <1>1, <1>7 DEF UserInv, NamesDerived
    <1>10. WrittenSoFar'
        BY <1>1, <1>3, <1>5, <1>6, <1>7 DEF UserInv, WrittenSoFar
    <1>11. Answered'
        BY <1>1, <1>5, <1>7 DEF UserInv, Answered
    <1>12. OneAccountPerName'
        BY <1>1 DEF UserInv, OneAccountPerName
    <1>13. RowsMatch'
        <2>1. \A b \in accounts : b.id \in Requests
            BY DEF UserInv, Shapes
        <2>2. \A b \in accounts : b.id = r \/ (userPc[b.id] = "user" => userPc'[b.id] = "user")
            BY <1>7, <2>1
        <2>3. \E u \in users' : u.id = r
            BY <1>5, <1>6
        <2>4. QED  BY <1>1, <1>2, <1>5, <1>6, <2>2, <2>3 DEF UserInv, RowsMatch
    <1>14. QED  BY <1>8, <1>9, <1>10, <1>11, <1>12, <1>13 DEF UserInv

\* The process ends; what is stored stays.
LEMMA CrashStep == ASSUME UserInv, UserCrash  PROVE UserInv'
    <1>1. /\ UNCHANGED <<name, userFeed, result, accounts, settings, users>>
          /\ userFaults' \in Nat /\ userFaults' > 0
          /\ userPc' = [r \in Requests |-> IF userPc[r] \in {"idle", "done"} THEN userPc[r] ELSE "dead"]
          /\ \A u \in users : u.id \in Requests
        BY DEF UserCrash, UserFault, tables, UserInv, Shapes, RowsMatch
    <1>2. Shapes'
        BY <1>1 DEF UserInv, Shapes
    <1>3. NamesDerived'
        BY <1>1 DEF UserInv, NamesDerived
    <1>4. WrittenSoFar'
        BY <1>1 DEF UserInv, WrittenSoFar
    <1>5. Answered'
        BY <1>1 DEF UserInv, Answered
    <1>6. OneAccountPerName' /\ RowsMatch'
        BY <1>1 DEF UserInv, OneAccountPerName, RowsMatch
    <1>7. QED  BY <1>2, <1>3, <1>4, <1>5, <1>6 DEF UserInv

\* Every step preserves the invariant.
LEMMA NextUser == UserInv /\ [UserNext]_userVars => UserInv'
    <1> SUFFICES ASSUME UserInv, [UserNext]_userVars PROVE UserInv'
        OBVIOUS
    <1>1. ASSUME NEW r \in Requests, Handle(r) PROVE UserInv'
        BY <1>1, ControlStep, NameStep, SettingsStep, AccountStep, UserStep DEF Handle
    <1>2. ASSUME NEW r \in Requests, \E s \in Resources : Begin(r, s) PROVE UserInv'
        BY <1>2, NameStep
    <1>3. CASE UserCrash
        BY <1>3, CrashStep
    <1>4. CASE UNCHANGED userVars
        BY <1>4 DEF userVars, tables, UserInv, Shapes, NamesDerived, WrittenSoFar, Answered,
                    OneAccountPerName, RowsMatch
    <1>5. QED  BY <1>1, <1>2, <1>3, <1>4 DEF UserNext, Done

\* The invariant holds in every reachable state.
LEMMA UserInvariant == UserSpec => []UserInv
    BY InitUser, NextUser, PTL DEF UserSpec

-----------------------------------------------------------------------------
\* NewUser checks a name and inserts its account in separate calls, and still no
\* two requests make two accounts of a name.
THEOREM NamesUnique == UserSpec => []OneAccountPerName
    <1>1. UserInv => OneAccountPerName
        BY DEF UserInv
    <1>2. QED  BY UserInvariant, <1>1, PTL

\* Account, settings and user of a proxy match, but for what a fault cuts off.
THEOREM ProxyRowsMatch == UserSpec => []RowsMatch
    <1>1. UserInv => RowsMatch
        BY DEF UserInv
    <1>2. QED  BY UserInvariant, <1>1, PTL

\* Where feeds have names of their own, a request that loaded a feed and is
\* answered gets the account of that feed, whichever request created it.
THEOREM AnswerIsFeeds == ASSUME NamesApart  PROVE UserSpec => []AnswersFeed
    <1>1. UserInv => AnswersFeed
        <2> SUFFICES ASSUME UserInv, NEW r \in Requests, result[r] = "ok", NEW f \in userFeed[r]
                     PROVE  \E a \in accounts : a.name = name[r] /\ a.url = f
            BY DEF AnswersFeed
        <2>1. PICK a \in accounts : a.name = name[r]
            BY DEF UserInv, Answered
        <2>2. name[r] = DbUsername(f) /\ \E u \in DOMAIN Site : f = Site[u]
            BY DEF UserInv, NamesDerived
        <2>3. a.name = DbUsername(a.url) /\ \E u \in DOMAIN Site : a.url = Site[u]
            BY DEF UserInv, NamesDerived
        <2>4. a.url = f
            BY <2>1, <2>2, <2>3, NamesApart DEF NamesApart
        <2>5. QED  BY <2>1, <2>4
    <1>2. QED  BY UserInvariant, <1>1, PTL

==============================================================================
