------------------------------- MODULE RssUser -------------------------------
(***************************************************************************)
(* Creation of proxy accounts (internal/rss/user.go, feed.go and the hook  *)
(* in internal/api/wellknown/webfinger/webfingerget.go): every webfinger   *)
(* request runs NewUser in its own goroutine, and every database call and  *)
(* network call of it is a step of its own, without a transaction around   *)
(* them.                                                                   *)
(***************************************************************************)
EXTENDS FeedUsername, FiniteSets

CONSTANTS
    Requests,      \* webfinger requests, each handled by one goroutine
    Resources,     \* what they may ask for
    Site,          \* what the network serves: fetched URL -> feed URL found there
    MaxUserFaults  \* bound: failing calls and crashes

ASSUME SiteAssumption == \A u \in DOMAIN Site : Site[u] \in FeedUrl
ASSUME RssUserBounds == MaxUserFaults \in Nat

\* No two of the feeds that are served have the same username.
NamesApart ==
    \A u, v \in DOMAIN Site : DbUsername(Site[u]) = DbUsername(Site[v]) => Site[u] = Site[v]

VARIABLES
    userPc,        \* control state of each request
    resource,      \* its resource query
    name,          \* the username it works with: dbUsername
    userFeed,      \* the feed it has loaded: {} or one URL
    result,        \* its answer: "none", "ok", "bad_request", "not_found"
    accounts,      \* database: rows [id, name, url]
    settings,      \* database: account ids with a settings row
    users,         \* database: rows [id, email], the email being the name's
    userFaults     \* number of failures so far

tables   == <<accounts, settings, users>>
userVars == <<userPc, resource, name, userFeed, result, tables, userFaults>>

Names == Seq(STRING)

UserTypeOK ==
    /\ userPc \in [Requests -> {"idle", "lookup", "fetch", "check", "avatar", "settings",
                                "account", "user", "webfinger", "done", "dead"}]
    /\ resource \in [Requests -> Names]
    /\ name \in [Requests -> Names]
    /\ \A r \in Requests : userFeed[r] \subseteq FeedUrl /\ Cardinality(userFeed[r]) <= 1
    /\ result \in [Requests -> {"none", "ok", "bad_request", "not_found"}]
    /\ accounts \subseteq [id : Requests, name : Names, url : FeedUrl]
    /\ settings \subseteq Requests
    /\ users \subseteq [id : Requests, email : Names]
    /\ userFaults \in 0..MaxUserFaults

UserInit ==
    /\ userPc = [r \in Requests |-> "idle"]
    /\ resource = [r \in Requests |-> <<>>]
    /\ name = [r \in Requests |-> <<>>]
    /\ userFeed = [r \in Requests |-> {}]
    /\ result = [r \in Requests |-> "none"]
    /\ accounts = {} /\ settings = {} /\ users = {}
    /\ userFaults = 0

IsUsernameAvailable(n) == \A a \in accounts : a.name # n

UserFault == userFaults < MaxUserFaults /\ userFaults' = userFaults + 1

Goto(r, l) == userPc' = [userPc EXCEPT ![r] = l] /\ UNCHANGED result

Answer(r, res) == userPc' = [userPc EXCEPT ![r] = "done"] /\ result' = [result EXCEPT ![r] = res]

-----------------------------------------------------------------------------
\* A request arrives; NewRssFeed cleans its resource, and only what does not
\* begin with "http" is looked up among the accounts.
Begin(r, s) ==
    /\ userPc[r] = "idle"
    /\ resource' = [resource EXCEPT ![r] = s]
    /\ name' = [name EXCEPT ![r] = TolUsernameDB(Cleaned(s))]
    /\ Goto(r, IF HasHttp(Cleaned(s)) THEN "fetch" ELSE "lookup")
    /\ UNCHANGED <<userFeed, tables, userFaults>>

\* The first IsUsernameAvailable.
Lookup(r) ==
    /\ userPc[r] = "lookup"
    /\ Goto(r, IF IsUsernameAvailable(name[r]) THEN "fetch" ELSE "webfinger")
    /\ UNCHANGED <<resource, name, userFeed, tables, userFaults>>

\* Mutant: the account is named after the site and not after its feed.
FetchFeed_SiteName(r) ==
    LET u == Url(Cleaned(resource[r]))
    IN  /\ userPc[r] = "fetch"
        /\ u \in DOMAIN Site
        /\ userFeed' = [userFeed EXCEPT ![r] = {Site[u]}]
        /\ name' = [name EXCEPT ![r] = TolUsernameDB(CleanHost(Site[u].host))]
        /\ Goto(r, "check")
        /\ UNCHANGED <<resource, tables, userFaults>>

\* The feed, or the page that links to it, is loaded and the name derived.
FetchFeed(r) ==
    LET u == Url(Cleaned(resource[r]))
    IN  /\ userPc[r] = "fetch"
        /\ u \in DOMAIN Site
        /\ userFeed' = [userFeed EXCEPT ![r] = {Site[u]}]
        /\ name' = [name EXCEPT ![r] = DbUsername(Site[u])]
        /\ Goto(r, "check")
        /\ UNCHANGED <<resource, tables, userFaults>>

\* Nothing there is a feed or links to one.
FetchNothing(r) ==
    /\ userPc[r] = "fetch"
    /\ Url(Cleaned(resource[r])) \notin DOMAIN Site
    /\ Answer(r, "bad_request")
    /\ UNCHANGED <<resource, name, userFeed, tables, userFaults>>

\* The second IsUsernameAvailable.
Check(r) ==
    /\ userPc[r] = "check"
    /\ Goto(r, IF IsUsernameAvailable(name[r]) THEN "avatar" ELSE "webfinger")
    /\ UNCHANGED <<resource, name, userFeed, tables, userFaults>>

\* Transport, key and FetchRemoteAccountAvatar.
FetchAvatar(r) ==
    /\ userPc[r] = "avatar"
    /\ Goto(r, "settings")
    /\ UNCHANGED <<resource, name, userFeed, tables, userFaults>>

PutAccountSettings(r) ==
    /\ userPc[r] = "settings"
    /\ settings' = settings \cup {r}
    /\ Goto(r, "account")
    /\ UNCHANGED <<resource, name, userFeed, accounts, users, userFaults>>

\* Mutant: only the pair (username, domain) is unique, and a NULL domain is
\* never equal to another one.
Inserts_NullDomain(r) == TRUE

\* The unique constraints on URI (made from the name) and URL. The one on
\* (username, domain) never applies to local accounts, whose domain is NULL.
Inserts(r) == \A a \in accounts : a.name # name[r] /\ a.url \notin userFeed[r]

\* Mutant: the error of PutAccount is dropped and the user inserted all the same.
PutAccount_ErrorDropped(r) ==
    /\ userPc[r] = "account"
    /\ accounts' = IF Inserts(r)
                   THEN accounts \cup {[id |-> r, name |-> name[r], url |-> u] : u \in userFeed[r]}
                   ELSE accounts
    /\ Goto(r, "user")
    /\ UNCHANGED <<resource, name, userFeed, settings, users, userFaults>>

PutAccount(r) ==
    /\ userPc[r] = "account"
    /\ IF Inserts(r)
       THEN /\ accounts' = accounts \cup {[id |-> r, name |-> name[r], url |-> u] : u \in userFeed[r]}
            /\ Goto(r, "user")
       ELSE Answer(r, "bad_request") /\ UNCHANGED accounts
    /\ UNCHANGED <<resource, name, userFeed, settings, users, userFaults>>

\* The password hash and PutUser, whose email is unique.
PutUser(r) ==
    /\ userPc[r] = "user"
    /\ IF \A u \in users : u.email # name[r]
       THEN /\ users' = users \cup {[id |-> r, email |-> name[r]]}
            /\ Goto(r, "webfinger")
       ELSE Answer(r, "bad_request") /\ UNCHANGED users
    /\ UNCHANGED <<resource, name, userFeed, accounts, settings, userFaults>>

\* Fedi().WebfingerGet answers with the account of that name.
WebfingerGet(r) ==
    /\ userPc[r] = "webfinger"
    /\ Answer(r, IF IsUsernameAvailable(name[r]) THEN "not_found" ELSE "ok")
    /\ UNCHANGED <<resource, name, userFeed, tables, userFaults>>

\* A call of NewUser fails (network, database): the handler answers 400 and
\* what was written before stays.
CallFails(r) ==
    /\ userPc[r] \in {"lookup", "fetch", "check", "avatar", "settings", "account", "user"}
    /\ UserFault
    /\ Answer(r, "bad_request")
    /\ UNCHANGED <<resource, name, userFeed, tables>>

\* The lookup behind WebfingerGet fails: every error becomes a 404.
WebfingerFails(r) ==
    /\ userPc[r] = "webfinger"
    /\ UserFault
    /\ Answer(r, "not_found")
    /\ UNCHANGED <<resource, name, userFeed, tables>>

\* The process ends: requests under way are never answered.
UserCrash ==
    /\ UserFault
    /\ userPc' = [r \in Requests |-> IF userPc[r] \in {"idle", "done"} THEN userPc[r] ELSE "dead"]
    /\ UNCHANGED <<resource, name, userFeed, result, tables>>

Handle(r) ==
    \/ Lookup(r) \/ FetchFeed(r) \/ FetchNothing(r) \/ Check(r) \/ FetchAvatar(r)
    \/ PutAccountSettings(r) \/ PutAccount(r) \/ PutUser(r) \/ WebfingerGet(r)
    \/ CallFails(r) \/ WebfingerFails(r)

Done == (\A r \in Requests : userPc[r] \in {"done", "dead"}) /\ UNCHANGED userVars

UserNext ==
    \/ \E r \in Requests : Handle(r) \/ \E s \in Resources : Begin(r, s)
    \/ UserCrash \/ Done

UserSpec == UserInit /\ [][UserNext]_userVars

-----------------------------------------------------------------------------
(***************************************************************************)
(* Properties                                                              *)
(***************************************************************************)

\* Two requests that both found the name available never make two accounts of
\* it: NewUser checks and inserts in separate calls.
OneAccountPerName ==
    \A a, b \in accounts : a.name = b.name => a = b

\* The three rows of a proxy account: an account has its settings, a user has
\* an account with its name, and an account without its user means that its creator is still at work, or
\* that something failed between the two inserts.
RowsMatch ==
    /\ \A a \in accounts : a.id \in settings
    /\ \A u \in users : \E a \in accounts : a.id = u.id /\ a.name = u.email
    /\ \A a \in accounts :
         \/ \E u \in users : u.id = a.id
         \/ userPc[a.id] = "user"
         \/ userFaults > 0

\* A request that loaded a feed and is answered gets the account of that feed.
AnswersFeed ==
    \A r \in Requests : result[r] = "ok" =>
        \A f \in userFeed[r] : \E a \in accounts : a.name = name[r] /\ a.url = f

==============================================================================
