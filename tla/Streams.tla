------------------------------- MODULE Streams -------------------------------
(***************************************************************************)
(* Streaming to clients: the streams of internal/stream/stream.go, posted  *)
(* to by the workers (internal/processing/stream), and the goroutines that *)
(* serve each websocket (internal/api/client/streaming/stream.go): one     *)
(* reads commands, one writes messages and pings, and one waits for either *)
(* to end, closes the stream and then the connection.                      *)
(***************************************************************************)
EXTENDS Naturals, Sequences, SequencesExt, FiniteSets

CONSTANTS
    StreamIds,    \* streams, each opened at most once
    Accounts,
    AccountOf,    \* StreamIds -> the account it was opened for
    Types,        \* stream types, pairs <<timeline, list id or "">>
    AllStatusTimelines,  \* timelines a status could be delivered to
    Posters,      \* goroutines that post messages
    MaxPosts,     \* bound: messages each of them posts
    MaxPings,     \* bound: pings of one websocket
    Cap           \* capacity of msgCh (50 in the code)

ASSUME StreamsAssumption ==
    /\ IsFiniteSet(StreamIds) /\ "none" \notin Posters
    /\ MaxPosts \in Nat /\ MaxPings \in Nat /\ Cap \in Nat \ {0}

VARIABLES
    registered,   \* streams in the map of Streams{}
    done,         \* streams whose done channel is closed
    types,        \* types each stream is subscribed to
    msgCh,        \* messages in the channel of each stream
    posted,       \* messages each poster has begun to post
    todo,         \* its deferred sends, in order
    quit,         \* posters whose context is cancelled
    conn,         \* each websocket: "none", "upgrading", "up", "down"
    reader,       \* its reading goroutine: "off", "run", "ended"
    writer,       \* its writing goroutine: "off", "recv", "ping", "write", "ended"
    msg,          \* what Recv gave the writer
    closing,      \* steps handleWSConn has done after ctx.Done
    pings,        \* pings so far
    out           \* history: JSON messages each client was sent

stream == <<registered, done, types, msgCh>>
poster == <<posted, todo, quit>>
socket == <<conn, reader, writer, msg, closing, pings, out>>
vars   == <<stream, poster, socket>>

\* The n-th message of a poster; n = 0 is the empty Message{}.
Message == [from : Posters \cup {"none"}, n : 0..MaxPosts]
Empty   == [from |-> "none", n |-> 0]

TypeOK ==
    /\ registered \subseteq StreamIds /\ done \subseteq StreamIds
    /\ types \in [StreamIds -> SUBSET Types]
    /\ msgCh \in [StreamIds -> Seq(Message)]
    /\ \A s \in StreamIds : Len(msgCh[s]) <= Cap
    /\ posted \in [Posters -> 0..MaxPosts]
    /\ todo \in [Posters -> Seq(StreamIds)]
    /\ quit \subseteq Posters
    /\ conn \in [StreamIds -> {"none", "upgrading", "up", "down"}]
    /\ reader \in [StreamIds -> {"off", "run", "ended"}]
    /\ writer \in [StreamIds -> {"off", "recv", "ping", "write", "ended"}]
    /\ msg \in [StreamIds -> Message]
    /\ closing \in [StreamIds -> 0..3]
    /\ pings \in [StreamIds -> 0..MaxPings]
    /\ out \in [StreamIds -> Seq(Message)]

Init ==
    /\ registered = {} /\ done = {}
    /\ types = [s \in StreamIds |-> {}]
    /\ msgCh = [s \in StreamIds |-> <<>>]
    /\ posted = [p \in Posters |-> 0]
    /\ todo = [p \in Posters |-> <<>>]
    /\ quit = {}
    /\ conn = [s \in StreamIds |-> "none"]
    /\ reader = [s \in StreamIds |-> "off"]
    /\ writer = [s \in StreamIds |-> "off"]
    /\ msg = [s \in StreamIds |-> Empty]
    /\ closing = [s \in StreamIds |-> 0]
    /\ pings = [s \in StreamIds |-> 0]
    /\ out = [s \in StreamIds |-> <<>>]

\* The context of the websocket's goroutines: cancelled when one of them ends.
CtxDone(s) == reader[s] = "ended" \/ writer[s] = "ended"

-----------------------------------------------------------------------------
(***************************************************************************)
(* Streams{} and the workers that post                                     *)
(***************************************************************************)
\* A stream is opened: posts reach its channel from now on, ...
Open(s, t) ==
    /\ conn[s] = "none"
    /\ registered' = registered \cup {s}
    /\ types' = [types EXCEPT ![s] = {t}]
    /\ conn' = [conn EXCEPT ![s] = "upgrading"]
    /\ UNCHANGED <<done, msgCh, poster, reader, writer, msg, closing, pings, out>>

\* ... the websocket is upgraded and its goroutines are started, ...
Upgrade(s) ==
    /\ conn[s] = "upgrading"
    /\ conn' = [conn EXCEPT ![s] = "up"]
    /\ reader' = [reader EXCEPT ![s] = "run"]
    /\ writer' = [writer EXCEPT ![s] = "recv"]
    /\ UNCHANGED <<stream, poster, msg, closing, pings, out>>

\* ... or the upgrade fails, and Close begins.
UpgradeFails(s) ==
    /\ conn[s] = "upgrading"
    /\ conn' = [conn EXCEPT ![s] = "down"]
    /\ done' = done \cup {s}
    /\ closing' = [closing EXCEPT ![s] = 1]
    /\ UNCHANGED <<registered, types, msgCh, poster, reader, writer, msg, pings, out>>

\* Streams to send to: those of the account (PostAll: of every account) with
\* one of the types.
Targets(as, ts) == {s \in registered : AccountOf[s] \in as /\ types[s] \cap ts # {}}

\* Post and PostAll collect the sends under the mutex, in any order of streams.
Post(p, as, ts) ==
    /\ todo[p] = <<>> /\ posted[p] < MaxPosts /\ p \notin quit
    /\ posted' = [posted EXCEPT ![p] = @ + 1]
    /\ \E q \in SetToSeqs(Targets(as, ts)) : todo' = [todo EXCEPT ![p] = q]
    /\ UNCHANGED <<stream, quit, socket>>

\* The stream processor: Update and StatusUpdate, for a home timeline or a list; ...
Update(p, a, t) == Post(p, {a}, {t})

Notify(p, a) == Post(p, {a}, {<<"user:notification", "">>, <<"user", "">>})

FiltersChanged(p, a) == Post(p, {a}, {<<"user", "">>})

\* ... Delete, for every account.
DeleteStatus(p) == Post(p, Accounts, {<<tl, "">> : tl \in AllStatusTimelines})

Sent(p) == todo' = [todo EXCEPT ![p] = Tail(@)]

\* send: there is room in the channel.
Send(p) ==
    /\ todo[p] # <<>>
    /\ Len(msgCh[Head(todo[p])]) < Cap
    /\ msgCh' = [msgCh EXCEPT ![Head(todo[p])] = Append(@, [from |-> p, n |-> posted[p]])]
    /\ Sent(p)
    /\ UNCHANGED <<registered, done, types, posted, quit, socket>>

\* Mutant: send does not look at the done channel.
SendReturns_NotDone(p) ==
    /\ todo[p] # <<>>
    /\ p \in quit
    /\ Sent(p)
    /\ UNCHANGED <<stream, posted, quit, socket>>

\* send: the stream is closed or the context cancelled.
SendReturns(p) ==
    /\ todo[p] # <<>>
    /\ Head(todo[p]) \in done \/ p \in quit
    /\ Sent(p)
    /\ UNCHANGED <<stream, posted, quit, socket>>

\* The worker that posts is being stopped.
Quit(p) ==
    /\ p \notin quit
    /\ quit' = quit \cup {p}
    /\ UNCHANGED <<stream, posted, todo, socket>>

-----------------------------------------------------------------------------
(***************************************************************************)
(* The goroutines of a websocket                                           *)
(***************************************************************************)
\* The client leaves.
Disconnect(s) ==
    /\ conn[s] = "up"
    /\ conn' = [conn EXCEPT ![s] = "down"]
    /\ UNCHANGED <<stream, poster, reader, writer, msg, closing, pings, out>>

\* readFromWSConn: a command of the client; a timeline that is not for statuses
\* is ignored.
Subscribe(s, t) ==
    /\ reader[s] = "run" /\ conn[s] = "up"
    /\ t[1] \in AllStatusTimelines
    /\ \/ types' = [types EXCEPT ![s] = @ \cup {t}]
       \/ types' = [types EXCEPT ![s] = @ \ {t}]
    /\ UNCHANGED <<registered, done, msgCh, poster, socket>>

\* Reading fails.
ReadEnds(s) ==
    /\ reader[s] = "run" /\ conn[s] = "down"
    /\ reader' = [reader EXCEPT ![s] = "ended"]
    /\ UNCHANGED <<stream, poster, conn, writer, msg, closing, pings, out>>

\* Mutant: the newest message first.
Recv_Newest(s) ==
    /\ writer[s] = "recv" /\ msgCh[s] # <<>>
    /\ msg' = [msg EXCEPT ![s] = Last(msgCh[s])]
    /\ msgCh' = [msgCh EXCEPT ![s] = Front(@)]
    /\ writer' = [writer EXCEPT ![s] = "write"]
    /\ UNCHANGED <<registered, done, types, poster, conn, reader, closing, pings, out>>

\* writeToWSConn: Recv gives a message.
Recv(s) ==
    /\ writer[s] = "recv" /\ msgCh[s] # <<>>
    /\ msg' = [msg EXCEPT ![s] = Head(msgCh[s])]
    /\ msgCh' = [msgCh EXCEPT ![s] = Tail(@)]
    /\ writer' = [writer EXCEPT ![s] = "write"]
    /\ UNCHANGED <<registered, done, types, poster, conn, reader, closing, pings, out>>

\* Recv gives nothing because the ping's time is up, the context is cancelled
\* or the stream is closed. The writer does not tell the three apart: the stream
\* is closed only when the context is cancelled, so pingctx.Err() is set and
\* "case !ok" is never the one that is taken.
RecvPings(s) ==
    /\ writer[s] = "recv"
    /\ \/ CtxDone(s) /\ UNCHANGED pings
       \/ pings[s] < MaxPings /\ pings' = [pings EXCEPT ![s] = @ + 1]
    /\ msg' = [msg EXCEPT ![s] = Empty]
    /\ writer' = [writer EXCEPT ![s] = "ping"]
    /\ UNCHANGED <<stream, poster, conn, reader, closing, out>>

\* The ping is written or fails; both ways lead out of the switch, not out of
\* the loop, and on to writing the message.
WritePing(s) ==
    /\ writer[s] = "ping"
    /\ writer' = [writer EXCEPT ![s] = "write"]
    /\ UNCHANGED <<stream, poster, conn, reader, msg, closing, pings, out>>

\* The message is written, or the write fails and ends the loop.
WriteJSON(s) ==
    /\ writer[s] = "write"
    /\ IF conn[s] = "up"
       THEN /\ writer' = [writer EXCEPT ![s] = "recv"]
            /\ out' = [out EXCEPT ![s] = Append(@, msg[s])]
       ELSE /\ writer' = [writer EXCEPT ![s] = "ended"]
            /\ UNCHANGED out
    /\ UNCHANGED <<stream, poster, conn, reader, msg, closing, pings>>

\* handleWSConn: Close closes the done channel, ...
CloseDone(s) ==
    /\ CtxDone(s) /\ closing[s] = 0
    /\ done' = done \cup {s}
    /\ closing' = [closing EXCEPT ![s] = 1]
    /\ UNCHANGED <<registered, types, msgCh, poster, conn, reader, writer, msg, pings, out>>

\* Mutant: the close hook is not called.
CloseHook_Forgotten(s) ==
    /\ closing[s] = 1
    /\ closing' = [closing EXCEPT ![s] = 2]
    /\ UNCHANGED <<stream, poster, conn, reader, writer, msg, pings, out>>

\* ... the hook removes the stream from the map, ...
CloseHook(s) ==
    /\ closing[s] = 1
    /\ registered' = registered \ {s}
    /\ closing' = [closing EXCEPT ![s] = 2]
    /\ UNCHANGED <<done, types, msgCh, poster, conn, reader, writer, msg, pings, out>>

\* ... and the connection is closed.
CloseConn(s) ==
    /\ closing[s] = 2 /\ CtxDone(s)
    /\ conn' = [conn EXCEPT ![s] = "down"]
    /\ closing' = [closing EXCEPT ![s] = 3]
    /\ UNCHANGED <<stream, poster, reader, writer, msg, pings, out>>

-----------------------------------------------------------------------------
Serve(s) ==
    \/ Recv(s) \/ RecvPings(s) \/ WritePing(s) \/ WriteJSON(s)

Hang(s) == ReadEnds(s) \/ CloseDone(s) \/ CloseHook(s) \/ CloseConn(s)

Deliver(p) == Send(p) \/ SendReturns(p)

Begin(s) == Upgrade(s) \/ UpgradeFails(s)

Next ==
    \/ \E s \in StreamIds, t \in Types : Open(s, t) \/ Subscribe(s, t)
    \/ \E s \in StreamIds : Begin(s) \/ Disconnect(s) \/ Serve(s) \/ Hang(s)
    \/ \E p \in Posters : Deliver(p) \/ Quit(p) \/ DeleteStatus(p)
    \/ \E p \in Posters, a \in Accounts :
          Notify(p, a) \/ FiltersChanged(p, a) \/ \E t \in Types : Update(p, a, t)

Spec == Init /\ [][Next]_vars

\* Goroutines are scheduled, and every write of a websocket ends: the client
\* reads, or its connection breaks.
FairSpec ==
    /\ Spec
    /\ \A s \in StreamIds : WF_vars(Begin(s)) /\ WF_vars(Serve(s)) /\ WF_vars(Hang(s))
    /\ \A p \in Posters : WF_vars(Deliver(p))

-----------------------------------------------------------------------------
(***************************************************************************)
(* Properties                                                              *)
(***************************************************************************)

\* A client gets the messages of one worker in the order they were posted and
\* none of them twice, although the sends happen outside the mutex.
InOrder ==
    \A s \in StreamIds : \A i, j \in DOMAIN out[s] :
        i < j /\ out[s][i].from = out[s][j].from /\ out[s][i] # Empty
            => out[s][i].n < out[s][j].n

\* Post ends in the end: the worker is not held by a client whose channel is
\* full once that client is gone.
PostEnds == \A p \in Posters : (todo[p] # <<>>) ~> (todo[p] = <<>>)

\* When the client has left, both goroutines end and the stream leaves the map.
ClientGoneCleanedUp ==
    \A s \in StreamIds :
        (conn[s] = "down") ~> /\ s \notin registered
                              /\ reader[s] \in {"off", "ended"} /\ writer[s] \in {"off", "ended"}

==============================================================================
