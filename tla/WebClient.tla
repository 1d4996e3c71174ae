----------------------------- MODULE WebClient -----------------------------
(***************************************************************************)
(* The browser's view of a room (frontend/src/App.jsx and                  *)
(* frontend/src/api/index.js) over the durable history of module History.  *)
(*                                                                         *)
(* Rows reach the list that is shown on three ways: the socket (the replay *)
(* to a new client, then live messages), the page of recent history        *)
(* fetched when the connection comes up, and the older pages the user asks *)
(* for.  Answers arrive late, out of order or never, while the user        *)
(* changes rooms and the socket reconnects.                                *)
(*                                                                         *)
(* connectionStatus is set by socket events and reaches the effects of the *)
(* component at the next render.  A click or popstate is rendered, and its *)
(* effects run, before any other event.                                    *)
(***************************************************************************)
EXTENDS History, Functions

CONSTANTS
    MaxChanges,     \* bound: room changes
    MaxDrops,       \* bound: lost connections and server restarts
    MaxOlder        \* bound: requests for an older page

VARIABLES
    room,           \* currentRoom
    status,         \* connectionStatus as last set
    rendered,       \* connectionStatus of the last render
    socket,         \* "waiting" (timer), "opening", "upgraded" (101 sent),
                    \* "live" (in Hub.clients), "dropped"
    feed,           \* events of the socket not yet handled
    replay,         \* sendMessageHistory: "none", "query", "send" or "cut"
    backlog,        \* rows the replay has still to queue
    chatHistory,    \* the rows shown
    cursor,         \* historyCursorRef
    version,        \* historyRequestVersionRef
    loading,        \* historyLoading
    requests,       \* history requests in flight
    base,           \* ghost: rows of the room when the cursor was first set
    caughtUp,       \* ghost: a recent page read since the client was registered
                    \* has been applied
    changes, drops, olders  \* how much of the bounds is used

socketVars == <<status, socket, feed, replay, backlog>>
listVars == <<chatHistory, cursor, version, loading, base, caughtUp>>
boundVars == <<changes, drops, olders>>
clientVars == <<room, rendered, requests, socketVars, listVars, boundVars>>
vars == <<historyVars, clientVars>>

Ids(messages) == {messages[i].id : i \in DOMAIN messages}

\* Mutant: rows are appended without looking at their ids.
appendAllMessages(existing, incoming) == existing \o incoming

\* The numbers of P in ascending order.
Ascending(P) ==
    [k \in 1..Cardinality(P) |->
        CHOOSE i \in P : Cardinality({j \in P : j < i}) = k - 1]

\* A row is appended unless its id is shown or was seen earlier in incoming.
appendUniqueMessages(existing, incoming) ==
    LET IsNew(i) == /\ incoming[i].id \notin Ids(existing)
                    /\ \A j \in 1..(i - 1) : incoming[j].id # incoming[i].id
        fresh == Ascending({i \in DOMAIN incoming : IsNew(i)})
    IN existing \o [k \in DOMAIN fresh |-> incoming[fresh[k]]]

prependUniqueMessages(existing, incoming) ==
    appendUniqueMessages(incoming, existing)

NoPage == [messages |-> <<>>, nextCursor |-> None]

Request(kind, rm, before, v) ==
    [kind |-> kind, room |-> rm, before |-> before, version |-> v,
     answered |-> FALSE, page |-> NoPage, snapshot |-> {}, fresh |-> FALSE]

Event(name, messages) == [name |-> name, messages |-> messages]

\* Cleanup of the effect that fetches the recent page: its answer is ignored.
CancelRecent(rs) == {q \in rs : q.kind = "older"}

\* The effect that fetches the recent page when the status is 'connected'.
FetchRecent(st, rm) ==
    IF st = "connected" THEN {Request("recent", rm, None, 0)} ELSE {}

-----------------------------------------------------------------------------
(* The socket *)

\* The server answers 101: onopen will run, but the client is not in
\* Hub.clients yet.
Upgrade ==
    /\ socket = "opening"
    /\ socket' = "upgraded"
    /\ feed' = <<Event("open", <<>>)>>
    /\ UNCHANGED <<historyVars, room, status, rendered, replay, backlog,
                   listVars, requests, boundVars>>

\* registerClient: from now on the client is sent the broadcasts of its room,
\* and a goroutine replays the history.  The row that says the user joined is
\* saved by one of Writers; a hub that is draining refuses the client (Drop).
Register ==
    /\ socket = "upgraded"
    /\ socket' = "live"
    /\ replay' = "query"
    /\ UNCHANGED <<historyVars, room, status, rendered, feed, backlog,
                   listVars, requests, boundVars>>

\* sendMessageHistory reads the newest rows, or gives up when the query fails.
HistoryQuery ==
    /\ replay = "query"
    /\ \/ replay' = "send" /\ backlog' = GetRecentMessages(room, PageSize)
       \/ replay' = "cut" /\ UNCHANGED backlog
    /\ UNCHANGED <<historyVars, room, status, rendered, socket, feed, listVars,
                   requests, boundVars>>

\* It queues them one by one, and stops at the first the queue has no room for.
HistorySend ==
    /\ replay = "send"
    /\ backlog # <<>>
    /\ \/ /\ feed' = Append(feed, Event("message", <<Head(backlog)>>))
          /\ backlog' = Tail(backlog)
          /\ UNCHANGED replay
       \/ /\ replay' = "cut"
          /\ backlog' = <<>>
          /\ UNCHANGED feed
    /\ UNCHANGED <<historyVars, room, status, rendered, socket, listVars,
                   requests, boundVars>>

Broadcast(r) ==
    /\ r \in unsent
    /\ unsent' = unsent \ {r}
    /\ feed' = IF socket = "live" /\ r.room = room
                 THEN Append(feed, Event("message", <<r>>)) ELSE feed
    /\ UNCHANGED <<rows, saving, lastID, now, room, status, rendered, socket,
                   replay, backlog, listVars, requests, boundVars>>

\* The page will learn that the socket is closed; the server is done with it.
LoseSocket ==
    /\ socket' = "dropped"
    /\ feed' = <<Event("close", <<>>)>>
    /\ replay' = "none"
    /\ backlog' = <<>>

\* The connection is lost, or the handshake fails.
Drop ==
    /\ socket \in {"opening", "upgraded", "live"}
    /\ drops < MaxDrops
    /\ drops' = drops + 1
    /\ LoseSocket
    /\ UNCHANGED <<historyVars, room, status, rendered, listVars, requests,
                   changes, olders>>

Restart ==
    /\ drops < MaxDrops
    /\ drops' = drops + 1
    /\ \E cutoff \in 0..now : RestartServer(cutoff)
    /\ IF socket = "waiting"
         THEN UNCHANGED <<socket, feed, replay, backlog>>
         ELSE LoseSocket
    /\ UNCHANGED <<room, status, rendered, listVars, requests, changes,
                   olders>>

\* onopen, onmessage and onclose.
SocketEvent ==
    /\ feed # <<>>
    /\ LET event == Head(feed) IN
         /\ status' = CASE event.name = "open" -> "connected"
                        [] event.name = "close" -> "disconnected"
                        [] event.name = "message" -> status
         /\ socket' = IF event.name = "close" THEN "waiting" ELSE socket
         /\ chatHistory' = appendUniqueMessages(chatHistory, event.messages)
    /\ feed' = Tail(feed)
    /\ UNCHANGED <<historyVars, room, rendered, replay, backlog, cursor,
                   version, loading, requests, base, caughtUp, boundVars>>

\* The timer of onclose calls connect again, two seconds later: 'disconnected'
\* has been rendered by then.
Reconnect ==
    /\ socket = "waiting"
    /\ rendered = status
    /\ socket' = "opening"
    /\ status' = "connecting"
    /\ caughtUp' = FALSE
    /\ UNCHANGED <<historyVars, room, rendered, feed, replay, backlog,
                   chatHistory, cursor, version, loading, requests, base,
                   boundVars>>

Render ==
    /\ rendered # status
    /\ rendered' = status
    /\ requests' = CancelRecent(requests) \cup FetchRecent(status, room)
    /\ UNCHANGED <<historyVars, room, socketVars, listVars, boundVars>>

-----------------------------------------------------------------------------
(* The user *)

resetHistory ==
    /\ version' = version + 1
    /\ chatHistory' = <<>>
    /\ cursor' = None
    /\ loading' = FALSE

\* changeRoom or popstate, the render and its effects: the socket is closed
\* and opened again for the new room, the recent page fetched if that render
\* still had 'connected'.
ChangeRoom(rm) ==
    /\ rm # room
    /\ changes < MaxChanges
    /\ changes' = changes + 1
    /\ room' = rm
    /\ resetHistory
    /\ socket' = "opening"
    /\ feed' = <<>>
    /\ replay' = "none"
    /\ backlog' = <<>>
    /\ status' = "connecting"
    /\ rendered' \in {rendered, status}
    /\ requests' = CancelRecent(requests) \cup FetchRecent(rendered', rm)
    /\ base' = {}
    /\ caughtUp' = FALSE
    /\ UNCHANGED <<historyVars, drops, olders>>

loadOlderMessages ==
    /\ cursor # None
    /\ ~loading
    /\ olders < MaxOlder
    /\ olders' = olders + 1
    /\ version' = version + 1
    /\ loading' = TRUE
    /\ requests' = requests \cup {Request("older", room, cursor, version')}
    /\ UNCHANGED <<historyVars, room, socketVars, rendered, chatHistory,
                   cursor, base, caughtUp, changes, drops>>

-----------------------------------------------------------------------------
(* Answers *)

\* The server answers: the page is what the table holds now.
Answer(q) ==
    /\ ~q.answered
    /\ q.before # None => decodeHistoryCursor(q.before, q.room)
    /\ requests' = (requests \ {q}) \cup
         {[q EXCEPT !.answered = TRUE,
                    !.page = messagesHandler(q.room, q.before),
                    !.snapshot = {r \in rows : r.room = q.room},
                    !.fresh = (socket = "live")]}
    /\ UNCHANGED <<historyVars, room, socketVars, rendered, listVars,
                   boundVars>>

\* Mutant: the recent page replaces what is shown.
ApplyRecentReplaces(q) ==
    /\ q.answered
    /\ q.kind = "recent"
    /\ requests' = requests \ {q}
    /\ chatHistory' = q.page.messages
    /\ IF cursor = None
         THEN cursor' = q.page.nextCursor /\ base' = q.snapshot
         ELSE UNCHANGED <<cursor, base>>
    /\ caughtUp' = (caughtUp \/ q.fresh)
    /\ UNCHANGED <<historyVars, room, socketVars, rendered, version, loading,
                   boundVars>>

ApplyRecent(q) ==
    /\ q.answered
    /\ q.kind = "recent"
    /\ requests' = requests \ {q}
    /\ chatHistory' = appendUniqueMessages(chatHistory, q.page.messages)
    /\ IF cursor = None
         THEN cursor' = q.page.nextCursor /\ base' = q.snapshot
         ELSE UNCHANGED <<cursor, base>>
    /\ caughtUp' = (caughtUp \/ q.fresh)
    /\ UNCHANGED <<historyVars, room, socketVars, rendered, version, loading,
                   boundVars>>

\* Mutant: an older page is applied whatever happened since it was asked for.
isAnyRequest(q) == TRUE

isCurrentRequest(q) == q.version = version /\ q.room = room

ApplyOlder(q) ==
    /\ q.answered
    /\ q.kind = "older"
    /\ requests' = requests \ {q}
    /\ IF isCurrentRequest(q)
         THEN /\ chatHistory' = prependUniqueMessages(chatHistory, q.page.messages)
              /\ cursor' = q.page.nextCursor
              /\ loading' = FALSE
         ELSE UNCHANGED <<chatHistory, cursor, loading>>
    /\ UNCHANGED <<historyVars, room, socketVars, rendered, version, base,
                   caughtUp, boundVars>>

\* No answer, or an error status: nothing is shown, an older page may be asked
\* for again.
RequestFails(q) ==
    /\ requests' = requests \ {q}
    /\ loading' = (loading /\ ~(q.kind = "older" /\ isCurrentRequest(q)))
    /\ UNCHANGED <<historyVars, room, socketVars, rendered, chatHistory,
                   cursor, version, base, caughtUp, boundVars>>

-----------------------------------------------------------------------------

\* The page was opened on a room, the socket is being opened.
Init ==
    /\ HistoryInit
    /\ room \in Rooms
    /\ status = "connecting"
    /\ rendered = "connecting"
    /\ socket = "opening"
    /\ feed = <<>>
    /\ replay = "none"
    /\ backlog = <<>>
    /\ chatHistory = <<>>
    /\ cursor = None
    /\ version = 0
    /\ loading = FALSE
    /\ requests = {}
    /\ base = {}
    /\ caughtUp = FALSE
    /\ changes = 0 /\ drops = 0 /\ olders = 0

Next ==
    \/ HistoryNext /\ UNCHANGED clientVars
    \/ Upgrade \/ Register \/ HistoryQuery \/ HistorySend
    \/ Drop \/ Restart \/ SocketEvent \/ Reconnect \/ Render
    \/ \E r \in unsent : Broadcast(r)
    \/ \E rm \in Rooms : ChangeRoom(rm)
    \/ loadOlderMessages
    \/ \E q \in requests :
         Answer(q) \/ ApplyRecent(q) \/ ApplyOlder(q) \/ RequestFails(q)

Spec == Init /\ [][Next]_vars

-----------------------------------------------------------------------------
(* Correctness properties *)

Statuses == {"connecting", "connected", "disconnected"}
Events   == [name : {"open", "message", "close"}, messages : Seq(Row)]
Pages    == [messages : Seq(Row), nextCursor : Row \cup {None}]
Requests == [kind : {"recent", "older"}, room : Rooms, before : Row \cup {None},
             version : Nat, answered : BOOLEAN, page : Pages, snapshot : SUBSET Row,
             fresh : BOOLEAN]

SocketTypes ==
    /\ room \in Rooms
    /\ status \in Statuses /\ rendered \in Statuses
    /\ socket \in {"waiting", "opening", "upgraded", "live", "dropped"}
    /\ feed \in Seq(Events)
    /\ replay \in {"none", "query", "send", "cut"} /\ backlog \in Seq(Row)

ListTypes ==
    /\ chatHistory \in Seq(Row)
    /\ cursor \in Row \cup {None}
    /\ version \in Nat /\ loading \in BOOLEAN
    /\ base \in SUBSET Row /\ caughtUp \in BOOLEAN

\* Types of the state of App, of the socket and of the requests, whose pages
\* are bounded.
TypeOK ==
    /\ HistoryTypeOK /\ SocketTypes /\ ListTypes
    /\ requests \in SUBSET Requests
    /\ \A q \in requests : Len(q.page.messages) <= PageSize

\* A row is shown once, though the replay, the live messages and the pages
\* overlap (appendUniqueMessages).
NoDuplicateRows == Cardinality(Ids(chatHistory)) = Len(chatHistory)

\* Only rows of the current room are shown and paged through: no answer to a
\* request made in another room is applied, however late it comes (cancelled,
\* isCurrentRequest).
RoomIsolation ==
    /\ \A i \in DOMAIN chatHistory : chatHistory[i].room = room
    /\ cursor # None => cursor.room = room

\* Paging skips nothing: of the rows that were in the room when its first page
\* was read, all that the cursor has passed are shown, through equal
\* timestamps, rows committed late, failed requests, reconnects and retention.
LoadedIsComplete ==
    \A r \in base \cap rows :
        (cursor = None \/ ~Before(r, cursor)) => r \in Range(chatHistory)

\* The client is registered, it has handled all that the socket brought, and
\* the hub has sent all it was given.
Quiet == socket = "live" /\ feed = <<>> /\ unsent = {}

\* The replay was neither refused nor cut short.
ReplaySent == replay = "send" /\ backlog = <<>>

\* When all is quiet the newest page of the room is shown, provided the replay
\* was sent whole or a page was read after the registration: whichever of the
\* two it was, and whatever was saved and broadcast before, between and after
\* the upgrade, the registration, the queries and the showing of a page.
\* (onopen starts the fetch before the registration, so with the replay cut the
\* page fetched may be older than the broadcasts.)
NewestIsShown ==
    Quiet /\ (caughtUp \/ ReplaySent) =>
        Range(GetRecentMessages(room, PageSize)) \subseteq Range(chatHistory)

\* Reconnecting and fetching history brings back what was persisted meanwhile
\* (docs/adr/0009: "reconnect plus history restores it"): when all is quiet and
\* both the replay and the page have arrived, every row newer than the cursor
\* is shown.
CatchUpIsComplete ==
    /\ Quiet /\ ReplaySent /\ caughtUp
    /\ rendered = status /\ requests = {}
    => \A r \in rows :
         (r.room = room /\ (cursor = None \/ ~Before(r, cursor)))
             => r \in Range(chatHistory)
=============================================================================
