-------------------------- MODULE ClientViewProofs --------------------------
(***************************************************************************)
(* Proofs about what the page of WebClient shows: the rows of its room     *)
(* only, all the rows between the cursor and the newest page, and the      *)
(* newest page once the replay was sent or a page was read on a live       *)
(* socket.                                                                 *)
(*                                                                         *)
(* Each invariant says of what is on its way (an event of the socket, a    *)
(* request, its answer) what the list shown will need when it arrives.     *)
(***************************************************************************)
EXTENDS WebClientProofs

-----------------------------------------------------------------------------
(* The inductive invariants *)

\* The list shown, the rows on their way to it and the cursor belong to the
\* current room, an answer to the room of its request.
RequestRoom(q) ==
  /\ \A r \in Range(q.page.messages) \cup q.snapshot : r.room = q.room
  /\ q.page.nextCursor # None => q.page.nextCursor.room = q.room
  /\ q.kind = "recent" => q.room = room /\ q.before = None

RoomInv ==
  /\ \A r \in Range(chatHistory) \cup base \cup FeedRows \cup Range(backlog) : r.room = room
  /\ cursor # None => cursor.room = room
  /\ \A q \in requests : RequestRoom(q)

\* A page has the rows of its snapshot between the cursor asked for and the next.
PageComplete(q) ==
  \A r \in q.snapshot :
    /\ q.before = None \/ Before(r, q.before)
    /\ q.page.nextCursor = None \/ ~Before(r, q.page.nextCursor)
    => r \in Range(q.page.messages)

PageInv == \A q \in requests : q.answered => PageComplete(q)

\* At most one request for an older page is current; it asks for what precedes
\* the cursor, and its answer has seen the rows of base that are left.
OlderRequest(q) ==
  /\ q.before # None /\ q.version <= version
  /\ isCurrentRequest(q) =>
       q.before = cursor /\ (q.answered => base \cap rows \subseteq q.snapshot)

OlderInv ==
  /\ \A q \in requests : q.kind = "older" => OlderRequest(q)
  /\ \A p, q \in requests :
       p.kind = "older" /\ q.kind = "older" /\ p.version = q.version => p = q

\* The newest page, and what is shown or will be without another query.
Top   == Range(GetRecentMessages(room, PageSize))
Reach == Range(chatHistory) \cup FeedRows \cup unsent

\* On a live socket the newest page is shown or on its way: since a page read
\* after the registration was applied, while the replay is being sent, and with
\* such a page that is still to be applied.
FreshInv(q) == q.kind = "recent" /\ q.fresh => Top \subseteq Reach \cup Range(q.page.messages)

LiveInv ==
  socket = "live" =>
    /\ caughtUp => Top \subseteq Reach
    /\ replay = "send" => Top \subseteq Reach \cup Range(backlog)
    /\ \A q \in requests : FreshInv(q)

\* Before the registration no page counts as fresh: the requests of an earlier
\* connection were cancelled when 'disconnected' was rendered.
ConnInv ==
  /\ socket = "waiting" => status = "disconnected" /\ feed = <<>>
  /\ socket = "dropped" => feed = <<Event("close", <<>>)>>
  /\ socket \notin {"waiting", "dropped"} => \A i \in DOMAIN feed : feed[i].name # "close"
  /\ \A q \in requests : q.kind = "recent" => rendered = "connected"
  /\ socket # "live" => replay = "none"
  /\ socket \in {"opening", "upgraded"} =>
       ~caughtUp /\ \A q \in requests : q.kind = "recent" => ~q.fresh

PagedInv == PageInv /\ OlderInv /\ LoadedIsComplete

-----------------------------------------------------------------------------
(* Rooms *)

\* With ids that identify rows, appendUniqueMessages is the union.
LEMMA AppendKept ==
  ASSUME StateInv, NEW e \in Seq(Row), NEW m \in Seq(Row), Distinct(e),
         Range(e) \subseteq Known, Range(m) \subseteq Known
  PROVE  Range(appendUniqueMessages(e, m)) = Range(e) \cup Range(m)
<1> DEFINE u == appendUniqueMessages(e, m)
<1>1. /\ Range(e) \subseteq Range(u) /\ Range(u) \subseteq Range(e) \cup Range(m)
      /\ \A r \in Range(m) : \E x \in Range(u) : x.id = r.id
  BY AppendUnique
<1> HIDE DEF u
<1>2. \A r \in Range(m), x \in Range(u) : x.id = r.id => x = r
  <2>1. Range(u) \subseteq Known /\ IdInv
    BY <1>1 DEF StateInv
  <2> QED BY <2>1 DEF IdInv
<1>3. Range(m) \subseteq Range(u)
  BY <1>1, <1>2
<1> QED BY <1>1, <1>3 DEF u

\* What an event of the socket does to the list.
LEMMA EventList ==
  ASSUME StateInv, SocketEvent
  PROVE  /\ Range(chatHistory') \cup RowsOf(feed') = Range(chatHistory) \cup RowsOf(feed)
         /\ Range(chatHistory) \subseteq Range(chatHistory')
         /\ socket' \in {"waiting", socket}
         /\ UNCHANGED <<historyVars, room, cursor, version, requests, base, replay, backlog, caughtUp>>
<1> DEFINE e == Head(feed)
<1>1. /\ feed # <<>> /\ feed' = Tail(feed)
      /\ chatHistory' = appendUniqueMessages(chatHistory, e.messages)
      /\ socket' \in {"waiting", socket}
      /\ UNCHANGED <<historyVars, room, cursor, version, requests, base, replay, backlog, caughtUp>>
  BY DEF SocketEvent
<1>2. feed \in Seq(Events) /\ chatHistory \in Seq(Row) /\ Distinct(chatHistory)
  BY ClientParts DEF SocketTypes, ListTypes
<1>3. e.messages \in Seq(Row) /\ RowsOf(feed) = Range(e.messages) \cup RowsOf(feed')
  BY <1>1, <1>2, FeedFacts
<1> HIDE DEF e
<1>4. Range(chatHistory) \subseteq Known /\ Range(e.messages) \subseteq Known
  BY <1>3, ClientParts
<1>5. Range(chatHistory') = Range(chatHistory) \cup Range(e.messages)
  BY <1>1, <1>2, <1>3, <1>4, AppendKept
<1> QED BY <1>1, <1>3, <1>5

\* What applying an answer does to the list.
LEMMA ApplyList ==
  ASSUME StateInv, NEW q \in requests
  PROVE  /\ ApplyRecent(q) => Range(chatHistory') = Range(chatHistory) \cup Range(q.page.messages)
         /\ ApplyOlder(q) /\ isCurrentRequest(q)
              => Range(chatHistory') = Range(chatHistory) \cup Range(q.page.messages)
<1> DEFINE m == q.page.messages
<1>1. m \in Seq(Row)
  BY ClientParts DEF Requests, Pages
<1>2. Distinct(m)
  BY ClientParts
<1>3. Range(m) \subseteq Known
  BY ClientParts DEF PagesOf
<1>4. chatHistory \in Seq(Row) /\ Distinct(chatHistory) /\ Range(chatHistory) \subseteq Known
  BY ClientParts DEF ListTypes
<1> HIDE DEF m
<1>5. ASSUME ApplyRecent(q) PROVE Range(chatHistory') = Range(chatHistory) \cup Range(m)
  <2>1. chatHistory' = appendUniqueMessages(chatHistory, m)
    BY <1>5 DEF ApplyRecent, m
  <2> QED BY <2>1, <1>1, <1>3, <1>4, AppendKept
<1>6. ASSUME ApplyOlder(q), isCurrentRequest(q)
      PROVE  Range(chatHistory') = Range(chatHistory) \cup Range(m)
  <2>1. chatHistory' = appendUniqueMessages(m, chatHistory)
    BY <1>6 DEF ApplyOlder, prependUniqueMessages, m
  <2>2. Range(chatHistory') = Range(m) \cup Range(chatHistory)
    BY <2>1, <1>1, <1>2, <1>3, <1>4, AppendKept
  <2> QED BY <2>2
<1> QED BY <1>5, <1>6 DEF m

\* No new row in the list or on its way, no new request.
LEMMA RoomFrame ==
  ASSUME RoomInv, room' = room, base' = base, cursor' = cursor, requests' \subseteq requests,
         \A r \in Range(chatHistory') \cup RowsOf(feed') \cup Range(backlog') :
           r \in Range(chatHistory) \cup RowsOf(feed) \cup Range(backlog) \/ r.room = room
  PROVE  RoomInv'
<1>1. \A q \in requests' : RequestRoom(q)'
  BY DEF RoomInv, RequestRoom
<1>2. \A r \in (Range(chatHistory) \cup base \cup FeedRows \cup Range(backlog))' : r.room = room'
  BY DEF RoomInv, FeedRows
<1> QED BY <1>1, <1>2 DEF RoomInv

LEMMA RoomReplay ==
  ASSUME StateInv, RoomInv, Upgrade \/ Register \/ HistoryQuery \/ HistorySend
  PROVE  RoomInv'
<1>1. UNCHANGED <<room, base, cursor, requests, chatHistory>>
  BY Zenon DEF Upgrade, Register, HistoryQuery, HistorySend, listVars
<1>2. CASE Upgrade
  <2>1. feed' = <<Event("open", <<>>)>> /\ backlog' = backlog
    BY <1>2 DEF Upgrade
  <2>2. RowsOf(feed') = {}
    BY <2>1, EventFacts
  <2> QED BY <1>1, <2>1, <2>2, RoomFrame
<1>3. CASE Register
  <2>1. UNCHANGED <<feed, backlog>>
    BY <1>3 DEF Register
  <2> QED BY <1>1, <2>1, RoomFrame
<1>4. CASE HistoryQuery
  <2> DEFINE m == GetRecentMessages(room, PageSize)
  <2>1. \A r \in Range(m) : r.room = room
    BY RecentFacts, Zenon
  <2> HIDE DEF m
  <2>2. feed' = feed /\ backlog' \in {m, backlog}
    BY <1>4 DEF HistoryQuery, m
  <2> QED BY <1>1, <2>1, <2>2, RoomFrame
<1>5. CASE HistorySend
  <2>1. /\ backlog # <<>>
        /\ \/ feed' = Append(feed, Event("message", <<Head(backlog)>>)) /\ backlog' = Tail(backlog)
           \/ feed' = feed /\ backlog' = <<>>
    BY <1>5 DEF HistorySend
  <2>2. backlog \in Seq(Row) /\ feed \in Seq(Events)
    BY ClientParts DEF SocketTypes
  <2>3. Head(backlog) \in Row /\ Range(backlog) = {Head(backlog)} \cup Range(Tail(backlog))
    BY <2>1, <2>2, BacklogFacts
  <2>4. CASE feed' = Append(feed, Event("message", <<Head(backlog)>>)) /\ backlog' = Tail(backlog)
    <3>1. RowsOf(feed') = RowsOf(feed) \cup {Head(backlog)}
      BY <2>2, <2>3, <2>4, FeedFacts
    <3> QED BY <1>1, <2>3, <2>4, <3>1, RoomFrame
  <2>5. CASE feed' = feed /\ backlog' = <<>>
    BY <1>1, <2>5, EmptyFacts, RoomFrame
  <2> QED BY <2>1, <2>4, <2>5
<1> QED BY <1>2, <1>3, <1>4, <1>5

LEMMA RoomSocket ==
  ASSUME StateInv, RoomInv, Drop \/ Restart \/ SocketEvent \/ Reconnect
                            \/ \E r \in unsent : Broadcast(r)
  PROVE  RoomInv'
<1>1. UNCHANGED <<room, base, cursor, requests>>
  BY Zenon DEF Drop, Restart, SocketEvent, Reconnect, Broadcast, listVars
<1>3. CASE Drop \/ Restart
  <2>1. /\ chatHistory' = chatHistory
        /\ \/ feed' = <<Event("close", <<>>)>> /\ backlog' = <<>>
           \/ UNCHANGED <<feed, backlog>>
    BY <1>3 DEF Drop, Restart, LoseSocket, listVars
  <2>2. \/ RowsOf(feed') = {} /\ Range(backlog') = {}
        \/ UNCHANGED <<feed, backlog>>
    BY <2>1, EventFacts, EmptyFacts
  <2> QED BY <1>1, <2>1, <2>2, RoomFrame
<1>4. CASE SocketEvent
  BY <1>1, <1>4, EventList, RoomFrame
<1>5. CASE Reconnect
  <2>1. UNCHANGED <<feed, chatHistory, backlog>>
    BY <1>5 DEF Reconnect
  <2> QED BY <1>1, <2>1, RoomFrame
<1>6. ASSUME NEW r \in unsent, Broadcast(r) PROVE RoomInv'
  <2>1. /\ UNCHANGED <<chatHistory, backlog>>
        /\ feed' = feed \/ (r.room = room /\ feed' = Append(feed, Event("message", <<r>>)))
    BY <1>6 DEF Broadcast, listVars
  <2>2. r \in Row /\ feed \in Seq(Events)
    BY TableFacts, ClientParts DEF SocketTypes
  <2>3. CASE feed' = feed
    BY <1>1, <2>1, <2>3, RoomFrame
  <2>4. CASE r.room = room /\ feed' = Append(feed, Event("message", <<r>>))
    <3>1. RowsOf(feed') = RowsOf(feed) \cup {r}
      BY <2>2, <2>4, FeedFacts
    <3> QED BY <1>1, <2>1, <2>4, <3>1, RoomFrame
  <2> QED BY <2>1, <2>3, <2>4
<1> QED BY <1>3, <1>4, <1>5, <1>6

\* A request that was just sent, for the recent page of rm or an older one.
LEMMA BlankRoom ==
  ASSUME NEW q, Blank(q), q.kind = "recent" => q.room = room' /\ q.before = None
  PROVE  RequestRoom(q)'
BY BlankFacts DEF RequestRoom

LEMMA RoomUser ==
  ASSUME StateInv, RoomInv, Render \/ loadOlderMessages \/ \E rm \in Rooms : ChangeRoom(rm)
  PROVE  RoomInv'
<1>1. room \in Rooms /\ cursor \in Row \cup {None} /\ version \in Nat
  BY ClientParts DEF SocketTypes, ListTypes
<1>2. \A q \in CancelRecent(requests) : q \in requests /\ q.kind = "older"
  BY DEF CancelRecent
<1>3. \A q \in requests : q.kind = "older" => RequestRoom(q)'
  BY DEF RoomInv, RequestRoom
<1>4. CASE Render
  <2>1. /\ UNCHANGED <<room, base, cursor, feed, backlog, chatHistory>>
        /\ requests' = CancelRecent(requests) \cup FetchRecent(status, room)
    BY <1>4 DEF Render, listVars, socketVars
  <2>2. \A q \in FetchRecent(status, room) : RequestRoom(q)'
    BY <1>1, <2>1, FetchFacts, BlankRoom
  <2>3. \A q \in requests' : RequestRoom(q)'
    BY <1>2, <1>3, <2>1, <2>2
  <2> QED BY <2>1, <2>3 DEF RoomInv, FeedRows
<1>5. CASE loadOlderMessages
  <2>0. PICK q : q = Request("older", room, cursor, version + 1)
    OBVIOUS
  <2>1. /\ UNCHANGED <<room, base, cursor, feed, backlog, chatHistory>> /\ requests' = requests \cup {q}
    BY <1>5, <2>0 DEF loadOlderMessages, socketVars
  <2>2. Blank(q) /\ q.kind = "older"
    <3>1. version + 1 \in Nat
      BY <1>1
    <3> QED BY <1>1, <2>0, <3>1, RequestFacts
  <2>3. RequestRoom(q)'
    BY <2>2, BlankRoom
  <2>4. \A x \in requests : RequestRoom(x)'
    BY <2>1 DEF RoomInv, RequestRoom
  <2>5. \A x \in requests' : RequestRoom(x)'
    BY <2>1, <2>3, <2>4
  <2> QED BY <2>1, <2>5 DEF RoomInv, FeedRows
<1>6. ASSUME NEW rm \in Rooms, ChangeRoom(rm) PROVE RoomInv'
  <2>1. /\ room' = rm /\ chatHistory' = <<>> /\ cursor' = None /\ feed' = <<>> /\ base' = {}
        /\ backlog' = <<>>
        /\ requests' = CancelRecent(requests) \cup FetchRecent(rendered', rm)
    BY <1>6 DEF ChangeRoom, resetHistory
  <2>2. \A q \in FetchRecent(rendered', rm) : RequestRoom(q)'
    BY <2>1, FetchFacts, BlankRoom
  <2>3. \A q \in requests' : RequestRoom(q)'
    BY <1>2, <1>3, <2>1, <2>2
  <2>4. Range(chatHistory') = {} /\ RowsOf(feed') = {} /\ Range(backlog') = {}
    BY <2>1, EmptyFacts, EventFacts
  <2> QED BY <2>1, <2>3, <2>4 DEF RoomInv, FeedRows
<1> QED BY <1>4, <1>5, <1>6

\* An answer is applied in the room of its request (cancelled,
\* isCurrentRequest).
LEMMA RoomAnswer ==
  ASSUME StateInv, RoomInv, NEW q \in requests,
         Answer(q) \/ ApplyRecent(q) \/ ApplyOlder(q) \/ RequestFails(q)
  PROVE  RoomInv'
<1>1. UNCHANGED <<room, feed, backlog>>
  BY Zenon DEF Answer, ApplyRecent, ApplyOlder, RequestFails, socketVars
<1>2. RequestRoom(q)
  BY DEF RoomInv
<1>3. \A x \in requests : RequestRoom(x)'
  BY <1>1 DEF RoomInv, RequestRoom
<1>4. CASE Answer(q)
  <2>1. PICK a \in Requests :
          /\ requests' = (requests \ {q}) \cup {a}
          /\ a.kind = q.kind /\ a.room = q.room /\ a.before = q.before
          /\ a.snapshot = {r \in rows : r.room = q.room}
          /\ Range(a.page.messages) \subseteq a.snapshot
          /\ a.page.nextCursor # None => a.page.nextCursor.room = q.room
    BY <1>4, AnswerFacts
  <2>2. UNCHANGED <<chatHistory, base, cursor>>
    BY <1>4, Zenon DEF Answer, listVars
  <2>3. RequestRoom(a)'
    BY <1>1, <1>2, <2>1 DEF RequestRoom
  <2>4. \A x \in requests' : RequestRoom(x)'
    BY <1>3, <2>1, <2>3
  <2> QED BY <1>1, <2>2, <2>4 DEF RoomInv, FeedRows
<1>5. ASSUME requests' \subseteq requests, q.room = room,
             Range(chatHistory') = Range(chatHistory) \cup Range(q.page.messages),
             base' \in {base, q.snapshot}, cursor' \in {cursor, q.page.nextCursor}
      PROVE  RoomInv'
  <2>1. \A r \in Range(chatHistory') \cup base' : r.room = room
    BY <1>2, <1>5 DEF RoomInv, RequestRoom
  <2>2. \A r \in FeedRows' \cup Range(backlog') : r.room = room
    BY <1>1 DEF RoomInv, FeedRows
  <2>3. cursor' # None => cursor'.room = room
    BY <1>2, <1>5 DEF RoomInv, RequestRoom
  <2>4. \A x \in requests' : RequestRoom(x)'
    BY <1>3, <1>5
  <2> QED BY <1>1, <2>1, <2>2, <2>3, <2>4 DEF RoomInv
<1>6. CASE ApplyRecent(q)
  <2>1. /\ requests' \subseteq requests /\ q.kind = "recent"
        /\ base' \in {base, q.snapshot} /\ cursor' \in {cursor, q.page.nextCursor}
    BY <1>6 DEF ApplyRecent
  <2>2. q.room = room
    BY <1>2, <2>1 DEF RequestRoom
  <2> QED BY <1>5, <1>6, <2>1, <2>2, ApplyList
<1>7. ASSUME requests' \subseteq requests, UNCHANGED <<chatHistory, base, cursor>> PROVE RoomInv'
  BY <1>1, <1>7, RoomFrame
<1>8. CASE ApplyOlder(q)
  <2>1. requests' \subseteq requests /\ base' = base
    BY <1>8 DEF ApplyOlder
  <2>2. CASE isCurrentRequest(q)
    <3>1. q.room = room /\ cursor' = q.page.nextCursor
      BY <1>8, <2>2 DEF ApplyOlder, isCurrentRequest
    <3> QED BY <1>5, <1>8, <2>1, <2>2, <3>1, ApplyList
  <2>3. CASE ~isCurrentRequest(q)
    <3>1. UNCHANGED <<chatHistory, cursor>>
      BY <1>8, <2>3 DEF ApplyOlder
    <3> QED BY <1>7, <2>1, <3>1
  <2> QED BY <2>2, <2>3
<1>9. CASE RequestFails(q)
  <2>1. requests' \subseteq requests /\ UNCHANGED <<chatHistory, base, cursor>>
    BY <1>9 DEF RequestFails
  <2> QED BY <1>7, <2>1
<1> QED BY <1>4, <1>6, <1>8, <1>9

LEMMA RoomStep == ASSUME StateInv, RoomInv, [Next]_vars PROVE RoomInv'
<1>1. CASE UNCHANGED clientVars
  <2>1. UNCHANGED <<room, base, cursor, requests, chatHistory, feed, backlog>>
    BY <1>1 DEF clientVars, listVars, socketVars
  <2> QED BY <2>1, RoomFrame
<1>2. CASE ~UNCHANGED clientVars
  BY <1>2, RoomReplay, RoomSocket, RoomUser, RoomAnswer DEF Next, vars
<1> QED BY <1>1, <1>2

LEMMA InitRoom == ASSUME Init PROVE RoomInv
<1>1. /\ feed = <<>> /\ backlog = <<>> /\ chatHistory = <<>> /\ cursor = None /\ requests = {}
      /\ base = {}
  BY DEF Init
<1>2. Range(chatHistory) = {} /\ FeedRows = {} /\ Range(backlog) = {}
  BY <1>1, EmptyFacts, EventFacts DEF FeedRows
<1> QED BY <1>1, <1>2 DEF RoomInv

\* Only rows of the current room are shown and paged through, however late an
\* answer comes.
THEOREM ClientRoom == Spec => []RoomIsolation
<1>1. RoomInv => RoomIsolation
  BY DEF RoomInv, RoomIsolation, Range
<1>2. Init => StateInv /\ RoomInv
  BY InitState, InitRoom
<1>3. StateInv /\ RoomInv /\ [Next]_vars => (StateInv /\ RoomInv)'
  BY StateStep, RoomStep
<1> QED BY <1>1, <1>2, <1>3, PTL DEF Spec

-----------------------------------------------------------------------------
(* Paging *)

\* The requests that stay or are sent for the recent page; the list grows, and
\* of base no row comes back.
LEMMA PagedFrame ==
  ASSUME PagedInv, UNCHANGED <<room, cursor, version, base>>, base \cap rows' \subseteq rows,
         Range(chatHistory) \subseteq Range(chatHistory'),
         \A q \in requests' : q \in requests \/ (Blank(q) /\ q.kind = "recent")
  PROVE  PagedInv'
<1>1. PageInv'
  BY DEF PagedInv, PageInv, PageComplete, Blank
<1>2. \A q \in requests' : q.kind = "older" => q \in requests
  OBVIOUS
<1>3. \A q \in requests : q.kind = "older" => OlderRequest(q)'
  BY DEF PagedInv, OlderInv, OlderRequest, isCurrentRequest
<1>4. OlderInv'
  BY <1>2, <1>3 DEF PagedInv, OlderInv
<1>5. LoadedIsComplete'
  BY DEF PagedInv, LoadedIsComplete
<1> QED BY <1>1, <1>4, <1>5 DEF PagedInv

\* A row that is committed is new: it was not in the snapshot of a page.
LEMMA PagedHistory ==
  ASSUME StateInv, PagedInv, HistoryNext, UNCHANGED clientVars
  PROVE  PagedInv'
<1>1. UNCHANGED <<room, cursor, version, base, chatHistory, requests>>
  BY DEF clientVars, listVars
<1>2. base \cap rows' \subseteq rows
  <2>1. ASSUME NEW w \in Writers, CommitRow(w) PROVE base \cap rows' \subseteq rows
    <3>1. rows' = rows \cup {saving[w]} /\ w \in Inserted
      BY <2>1 DEF CommitRow, Inserted
    <3>2. saving[w] \notin base
      <4>1. base \subseteq Known /\ \A a \in Known : a.id # saving[w].id
        BY <3>1, ClientParts DEF StateInv, IdInv
      <4> QED BY <4>1
    <3> QED BY <3>1, <3>2
  <2>2. ASSUME NEW w \in Writers, NEW rm \in Rooms, BeginSave(w, rm) PROVE rows' = rows
    BY <2>2 DEF BeginSave
  <2>3. ASSUME NEW w \in Writers, Insert(w) PROVE rows' = rows
    BY <2>3 DEF Insert
  <2>4. ASSUME Tick PROVE rows' = rows
    BY <2>4 DEF Tick
  <2> QED BY <2>1, <2>2, <2>3, <2>4 DEF HistoryNext
<1> QED BY <1>1, <1>2, PagedFrame

LEMMA PagedSocket ==
  ASSUME StateInv, PagedInv, Upgrade \/ Register \/ HistoryQuery \/ HistorySend
                             \/ Drop \/ Restart \/ SocketEvent \/ Reconnect \/ Render
                             \/ \E r \in unsent : Broadcast(r)
  PROVE  PagedInv'
<1>1. UNCHANGED <<room, cursor, version, base>>
  BY Zenon DEF Upgrade, Register, HistoryQuery, HistorySend, Drop, Restart, SocketEvent, Reconnect, Render, Broadcast, listVars
<1>2. rows' \subseteq rows
  BY Zenon DEF Upgrade, Register, HistoryQuery, HistorySend, Drop, Restart, RestartServer, PruneMessagesBefore, SocketEvent, Reconnect, Render,
         Broadcast, historyVars
<1>3. Range(chatHistory) \subseteq Range(chatHistory')
  <2>1. CASE SocketEvent
    BY <2>1, EventList
  <2>2. CASE ~SocketEvent
    <3>1. chatHistory' = chatHistory
      BY <2>2, Zenon DEF Upgrade, Register, HistoryQuery, HistorySend, Drop, Restart, Reconnect, Render, Broadcast, listVars
    <3> QED BY <3>1
  <2> QED BY <2>1, <2>2
<1>4. \A q \in requests' : q \in requests \/ (Blank(q) /\ q.kind = "recent")
  <2>1. CASE Render
    <3>1. requests' = CancelRecent(requests) \cup FetchRecent(status, room) /\ room \in Rooms
      BY <2>1, ClientParts DEF Render, SocketTypes
    <3>2. \A q \in CancelRecent(requests) : q \in requests
      BY DEF CancelRecent
    <3> QED BY <3>1, <3>2, FetchFacts
  <2>2. CASE ~Render
    <3>1. requests' = requests
      BY <2>2, Zenon DEF Upgrade, Register, HistoryQuery, HistorySend, Drop, Restart, SocketEvent, Reconnect, Broadcast
    <3> QED BY <3>1
  <2> QED BY <2>1, <2>2
<1> QED BY <1>1, <1>2, <1>3, <1>4, PagedFrame

LEMMA Versions ==
  ASSUME StateInv
  PROVE  version \in Nat /\ \A q \in requests : q.version \in Nat /\ q.room \in Rooms
<1>1. version \in Nat
  BY ClientParts DEF ListTypes
<1>2. \A q \in requests : q.version \in Nat /\ q.room \in Rooms
  BY ClientParts DEF Requests
<1> QED BY <1>1, <1>2

\* No request is current after the version has been counted up.
LEMMA VersionUp ==
  ASSUME StateInv, PagedInv, version' = version + 1
  PROVE  \A q \in requests : q.kind = "older" =>
           /\ OlderRequest(q)' /\ q.version <= version /\ q.version # version + 1
<1> SUFFICES ASSUME NEW q \in requests, q.kind = "older"
             PROVE  OlderRequest(q)' /\ q.version <= version /\ q.version # version + 1
  OBVIOUS
<1>1. q.before # None /\ q.version <= version
  BY DEF PagedInv, OlderInv, OlderRequest
<1>2. q.version <= version' /\ q.version # version'
  BY <1>1, Versions
<1>3. OlderRequest(q)'
  BY <1>1, <1>2 DEF OlderRequest, isCurrentRequest
<1> QED BY <1>1, <1>2, <1>3

LEMMA PagedUser ==
  ASSUME StateInv, PagedInv, loadOlderMessages \/ \E rm \in Rooms : ChangeRoom(rm)
  PROVE  PagedInv'
<1>1. version' = version + 1 /\ rows' = rows
  BY DEF loadOlderMessages, ChangeRoom, resetHistory, historyVars
<1>2. CASE loadOlderMessages
  <2>0. PICK q : q = Request("older", room, cursor, version + 1)
    OBVIOUS
  <2>1. /\ UNCHANGED <<room, base, cursor, chatHistory>> /\ requests' = requests \cup {q}
        /\ cursor # None
    BY <1>2, <2>0 DEF loadOlderMessages
  <2>2. Blank(q) /\ q.kind = "older" /\ q.room = room /\ q.before = cursor /\ q.version = version + 1
    <3>1. room \in Rooms /\ cursor \in Row \cup {None} /\ version + 1 \in Nat
      BY Versions, ClientParts DEF SocketTypes, ListTypes
    <3> QED BY <2>0, <3>1, RequestFacts
  <2>3. ~q.answered
    BY <2>2, BlankFacts
  <2>4. PageInv'
    BY <2>1, <2>3 DEF PagedInv, PageInv, PageComplete
  <2>5. OlderRequest(q)'
    <3>1. q.version <= version'
      BY <1>1, <2>2, Versions
    <3> QED BY <2>1, <2>2, <2>3, <3>1 DEF OlderRequest
  <2>6. OlderInv'
    <3>1. \A x \in requests' : x.kind = "older" => OlderRequest(x)'
      BY <1>1, <2>1, <2>5, VersionUp
    <3>2. \A x \in requests : x.kind = "older" => x.version # q.version
      BY <1>1, <2>2, VersionUp
    <3>3. \A x, y \in requests' :
            x.kind = "older" /\ y.kind = "older" /\ x.version = y.version => x = y
      BY <2>1, <3>2 DEF PagedInv, OlderInv
    <3> QED BY <3>1, <3>3 DEF OlderInv
  <2>7. LoadedIsComplete'
    BY <1>1, <2>1 DEF PagedInv, LoadedIsComplete
  <2> QED BY <2>4, <2>6, <2>7 DEF PagedInv
<1>3. ASSUME NEW rm \in Rooms, ChangeRoom(rm) PROVE PagedInv'
  <2>1. /\ base' = {}
        /\ requests' = CancelRecent(requests) \cup FetchRecent(rendered', rm)
    BY <1>3 DEF ChangeRoom
  <2>2. \A q \in requests' : q \in requests \/ (~q.answered /\ q.kind = "recent")
    <3>1. \A q \in FetchRecent(rendered', rm) : ~q.answered /\ q.kind = "recent"
      BY FetchFacts DEF Blank
    <3> QED BY <2>1, <3>1 DEF CancelRecent
  <2>3. PageInv'
    BY <2>2 DEF PagedInv, PageInv, PageComplete
  <2>4. OlderInv'
    <3>1. \A x \in requests' : x.kind = "older" => x \in requests
      BY <2>2
    <3>2. \A x \in requests' : x.kind = "older" => OlderRequest(x)'
      BY <1>1, <3>1, VersionUp
    <3> QED BY <3>1, <3>2 DEF PagedInv, OlderInv
  <2>5. LoadedIsComplete'
    BY <2>1 DEF LoadedIsComplete
  <2> QED BY <2>3, <2>4, <2>5 DEF PagedInv
<1> QED BY <1>2, <1>3

LEMMA PagedAnswer ==
  ASSUME StateInv, RoomInv, PagedInv, NEW q \in requests,
         Answer(q) \/ ApplyRecent(q) \/ ApplyOlder(q) \/ RequestFails(q)
  PROVE  PagedInv'
<1>1. UNCHANGED <<rows, room, version>>
  BY Zenon DEF Answer, ApplyRecent, ApplyOlder, RequestFails, historyVars, listVars
<1>2. CASE Answer(q)
  <2>1. PICK a \in Requests :
          /\ requests' = (requests \ {q}) \cup {a} /\ ~q.answered /\ a.answered
          /\ a.kind = q.kind /\ a.room = q.room /\ a.before = q.before /\ a.version = q.version
          /\ a.snapshot = {r \in rows : r.room = q.room}
          /\ \A r \in a.snapshot :
               /\ q.before = None \/ Before(r, q.before)
               /\ a.page.nextCursor = None \/ ~Before(r, a.page.nextCursor)
               => r \in Range(a.page.messages)
    BY <1>2, AnswerFacts
  <2>2. UNCHANGED <<chatHistory, cursor, base>>
    BY <1>2, Zenon DEF Answer, listVars
  <2>3. PageComplete(a)
    BY <2>1 DEF PageComplete
  <2>4. PageInv'
    BY <2>1, <2>3 DEF PagedInv, PageInv, PageComplete
  <2>5. \A x \in requests : x.kind = "older" => OlderRequest(x)'
    BY <1>1, <2>2 DEF PagedInv, OlderInv, OlderRequest, isCurrentRequest
  <2>6. ASSUME a.kind = "older" PROVE OlderRequest(a)'
    <3>1. OlderRequest(q)
      BY <2>1, <2>6, Zenon DEF PagedInv, OlderInv
    <3>2. ASSUME isCurrentRequest(a)' PROVE a.before = cursor /\ base \cap rows \subseteq a.snapshot
      <4>1. isCurrentRequest(q) /\ q.room = room
        BY <1>1, <2>1, <3>2 DEF isCurrentRequest
      <4>2. \A r \in base : r.room = room
        BY DEF RoomInv
      <4> QED BY <2>1, <3>1, <4>1, <4>2 DEF OlderRequest
    <3> QED BY <1>1, <2>1, <2>2, <3>1, <3>2 DEF OlderRequest
  <2>7. OlderInv'
    <3>1. \A x \in requests' : x.kind = "older" => OlderRequest(x)'
      BY <2>1, <2>5, <2>6
    <3>2. \A x \in requests \ {q} : ~(x.kind = "older" /\ a.kind = "older" /\ x.version = a.version)
      BY <2>1 DEF PagedInv, OlderInv
    <3>3. \A x, y \in requests' :
            x.kind = "older" /\ y.kind = "older" /\ x.version = y.version => x = y
      BY <2>1, <3>2 DEF PagedInv, OlderInv
    <3> QED BY <3>1, <3>3 DEF OlderInv
  <2>8. LoadedIsComplete'
    BY <1>1, <2>2 DEF PagedInv, LoadedIsComplete
  <2> QED BY <2>4, <2>7, <2>8 DEF PagedInv
<1>3. ASSUME requests' \subseteq requests, \A x \in requests' : x.kind = "older" => OlderRequest(x)',
             LoadedIsComplete'
      PROVE  PagedInv'
  <2>1. PageInv'
    BY <1>3 DEF PagedInv, PageInv, PageComplete
  <2>2. OlderInv'
    BY <1>3 DEF PagedInv, OlderInv
  <2> QED BY <1>3, <2>1, <2>2 DEF PagedInv
<1>4. CASE ApplyRecent(q)
  <2>1. requests' \subseteq requests /\ q.kind = "recent" /\ q.answered
    BY <1>4 DEF ApplyRecent
  <2>2. Range(chatHistory') = Range(chatHistory) \cup Range(q.page.messages)
    BY <1>4, ApplyList
  <2>3. CASE cursor = None
    <3>1. cursor' = q.page.nextCursor /\ base' = q.snapshot
      BY <1>4, <2>3 DEF ApplyRecent
    <3>2. q.before = None /\ PageComplete(q)
      BY <2>1 DEF RoomInv, RequestRoom, PagedInv, PageInv
    <3>3. LoadedIsComplete'
      BY <2>2, <3>1, <3>2 DEF LoadedIsComplete, PageComplete
    <3>4. \A x \in requests' : x.kind = "older" => OlderRequest(x)'
      BY <1>1, <2>1, <2>3 DEF PagedInv, OlderInv, OlderRequest, isCurrentRequest
    <3> QED BY <1>3, <2>1, <3>3, <3>4
  <2>4. CASE cursor # None
    <3>1. UNCHANGED <<cursor, base>>
      BY <1>4, <2>4 DEF ApplyRecent
    <3> QED BY <1>1, <2>1, <2>2, <3>1, PagedFrame
  <2> QED BY <2>3, <2>4
<1>5. CASE ApplyOlder(q)
  <2>1. requests' = requests \ {q} /\ base' = base /\ q.kind = "older" /\ q.answered
    BY <1>5 DEF ApplyOlder
  <2>2. CASE isCurrentRequest(q)
    <3>1. cursor' = q.page.nextCursor
      BY <1>5, <2>2 DEF ApplyOlder
    <3>2. Range(chatHistory') = Range(chatHistory) \cup Range(q.page.messages)
      BY <1>5, <2>2, ApplyList
    <3>3. q.before = cursor /\ q.before # None /\ base \cap rows \subseteq q.snapshot /\ PageComplete(q)
      BY <2>1, <2>2 DEF PagedInv, OlderInv, OlderRequest, PageInv
    <3>4. LoadedIsComplete'
      <4> SUFFICES ASSUME NEW r \in base \cap rows, cursor' = None \/ ~Before(r, cursor')
                   PROVE  r \in Range(chatHistory')
        BY <1>1, <2>1 DEF LoadedIsComplete
      <4>1. CASE ~Before(r, cursor)
        BY <3>2, <4>1 DEF PagedInv, LoadedIsComplete
      <4>2. CASE Before(r, cursor)
        BY <3>1, <3>2, <3>3, <4>2 DEF PageComplete
      <4> QED BY <4>1, <4>2
    <3>5. \A x \in requests' : x.kind = "older" => OlderRequest(x)'
      <4> SUFFICES ASSUME NEW x \in requests', x.kind = "older" PROVE OlderRequest(x)'
        OBVIOUS
      <4>1. x \in requests /\ x # q /\ OlderRequest(x)
        BY <2>1 DEF PagedInv, OlderInv
      <4>2. x.version # version
        BY <2>1, <2>2, <4>1 DEF PagedInv, OlderInv, isCurrentRequest
      <4> QED BY <1>1, <4>1, <4>2 DEF OlderRequest, isCurrentRequest
    <3> QED BY <1>3, <2>1, <3>4, <3>5
  <2>3. CASE ~isCurrentRequest(q)
    <3>1. UNCHANGED <<chatHistory, cursor>>
      BY <1>5, <2>3 DEF ApplyOlder
    <3> QED BY <1>1, <2>1, <3>1, PagedFrame
  <2> QED BY <2>2, <2>3
<1>6. CASE RequestFails(q)
  <2>1. requests' \subseteq requests /\ UNCHANGED <<chatHistory, cursor, base>>
    BY <1>6 DEF RequestFails
  <2> QED BY <1>1, <2>1, PagedFrame
<1> QED BY <1>2, <1>4, <1>5, <1>6

LEMMA PagedStep == ASSUME StateInv, RoomInv, PagedInv, [Next]_vars PROVE PagedInv'
<1>1. CASE UNCHANGED vars
  <2>1. UNCHANGED <<room, cursor, version, base, rows, chatHistory, requests>>
    BY <1>1 DEF vars, historyVars, clientVars, listVars
  <2> QED BY <2>1, PagedFrame
<1>2. CASE Next
  BY <1>2, PagedHistory, PagedSocket, PagedUser, PagedAnswer DEF Next
<1> QED BY <1>1, <1>2

LEMMA InitPaged == ASSUME Init PROVE PagedInv
<1>1. base = {} /\ requests = {}
  BY DEF Init
<1> QED BY <1>1 DEF PagedInv, PageInv, OlderInv, LoadedIsComplete

\* Paging skips nothing: every row of the first snapshot of the room that is
\* left and that the cursor has passed is shown.
THEOREM ClientLoaded == Spec => []LoadedIsComplete
<1> DEFINE Inv == StateInv /\ RoomInv /\ PagedInv
<1>1. Init => Inv
  BY InitState, InitRoom, InitPaged
<1>2. Inv /\ [Next]_vars => Inv'
  BY StateStep, RoomStep, PagedStep
<1>3. Inv => LoadedIsComplete
  BY DEF PagedInv
<1> QED BY <1>1, <1>2, <1>3, PTL DEF Spec

-----------------------------------------------------------------------------
(* The newest page *)

LEMMA ConnFrame ==
  ASSUME ConnInv, UNCHANGED <<socket, status, feed, replay>>,
         \A q \in requests' : q.kind = "recent" => rendered' = "connected",
         socket \in {"opening", "upgraded"} =>
           ~caughtUp' /\ \A q \in requests' : q.kind = "recent" => ~q.fresh
  PROVE  ConnInv'
BY DEF ConnInv

\* An event other than 'close' is added to the feed.
LEMMA FeedNames ==
  ASSUME NEW f \in Seq(Events), \A i \in DOMAIN f : f[i].name # "close", NEW m
  PROVE  \A i \in DOMAIN Append(f, Event("message", m)) :
           Append(f, Event("message", m))[i].name # "close"
<1> DEFINE e == Event("message", m)
           g == Append(f, e)
<1>1. e.name # "close"
  BY DEF Event
<1> HIDE DEF e
<1>2. DOMAIN g = DOMAIN f \cup {Len(f) + 1} /\ g[Len(f) + 1] = e /\ \A i \in DOMAIN f : g[i] = f[i]
  OBVIOUS
<1> HIDE DEF g
<1> QED BY <1>1, <1>2 DEF g, e

LEMMA ConnReplay ==
  ASSUME StateInv, ConnInv, \/ Upgrade \/ Register \/ HistoryQuery \/ HistorySend
                            \/ \E r \in unsent : Broadcast(r)
  PROVE  ConnInv'
<1>1. UNCHANGED <<status, rendered, requests, caughtUp>>
  BY Zenon DEF Upgrade, Register, HistoryQuery, HistorySend, Broadcast, listVars
<1>2. feed \in Seq(Events)
  BY ClientParts DEF SocketTypes
<1>3. CASE Upgrade
  <2>1. /\ socket = "opening" /\ socket' = "upgraded" /\ replay' = replay
        /\ feed' = <<Event("open", <<>>)>>
    BY <1>3 DEF Upgrade
  <2>2. \A i \in DOMAIN feed' : feed'[i].name # "close"
    BY <2>1 DEF Event
  <2> QED BY <1>1, <2>1, <2>2 DEF ConnInv
<1>4. CASE Register
  <2>1. socket = "upgraded" /\ socket' = "live" /\ feed' = feed
    BY <1>4 DEF Register
  <2> QED BY <1>1, <2>1 DEF ConnInv
<1>5. ASSUME socket = "live", socket' = "live",
             feed' = feed \/ \E m : feed' = Append(feed, Event("message", m))
      PROVE  ConnInv'
  <2>1. \A i \in DOMAIN feed : feed[i].name # "close"
    BY <1>5 DEF ConnInv
  <2>2. \A i \in DOMAIN feed' : feed'[i].name # "close"
    BY <1>2, <1>5, <2>1, FeedNames
  <2> QED BY <1>1, <1>5, <2>2 DEF ConnInv
<1>6. CASE HistoryQuery \/ HistorySend
  <2>1. /\ socket' = socket /\ replay # "none"
        /\ feed' = feed \/ \E m : feed' = Append(feed, Event("message", m))
    BY <1>6, Zenon DEF HistoryQuery, HistorySend
  <2>2. socket = "live"
    BY <2>1 DEF ConnInv
  <2> QED BY <1>5, <2>1, <2>2
<1>7. ASSUME NEW r \in unsent, Broadcast(r) PROVE ConnInv'
  <2>1. /\ UNCHANGED <<socket, replay>>
        /\ feed' = feed \/ (socket = "live" /\ feed' = Append(feed, Event("message", <<r>>)))
    BY <1>7 DEF Broadcast
  <2>2. CASE feed' = feed
    BY <1>1, <2>1, <2>2, ConnFrame DEF ConnInv
  <2>3. CASE socket = "live" /\ feed' = Append(feed, Event("message", <<r>>))
    BY <1>5, <2>1, <2>3
  <2> QED BY <2>1, <2>2, <2>3
<1> QED BY <1>3, <1>4, <1>6, <1>7

\* A close event comes only from a socket that was dropped, and it is the last.
LEMMA ConnEvent ==
  ASSUME StateInv, ConnInv, SocketEvent
  PROVE  ConnInv'
<1> DEFINE e == Head(feed)
<1>1. /\ feed # <<>> /\ feed' = Tail(feed) /\ UNCHANGED <<rendered, requests, caughtUp, replay>>
      /\ e.name = "close" => status' = "disconnected" /\ socket' = "waiting"
      /\ e.name # "close" => socket' = socket
  BY DEF SocketEvent
<1>2. feed \in Seq(Events)
  BY ClientParts DEF SocketTypes
<1>3. /\ e = feed[1] /\ 1 \in DOMAIN feed
      /\ \A i \in DOMAIN feed' : i + 1 \in DOMAIN feed /\ feed'[i] = feed[i + 1]
  BY <1>1, <1>2
<1>4. socket # "waiting"
  BY <1>1 DEF ConnInv
<1>5. CASE socket = "dropped"
  <2>1. feed = <<Event("close", <<>>)>>
    BY <1>5 DEF ConnInv
  <2>2. feed' = <<>> /\ e.name = "close"
    BY <1>1, <2>1 DEF Event
  <2> QED BY <1>1, <1>5, <2>2 DEF ConnInv
<1>6. CASE socket # "dropped"
  <2>1. \A i \in DOMAIN feed : feed[i].name # "close"
    BY <1>4, <1>6 DEF ConnInv
  <2>2. e.name # "close" /\ \A i \in DOMAIN feed' : feed'[i].name # "close"
    BY <1>3, <2>1
  <2>3. socket' = socket
    BY <1>1, <2>2
  <2> HIDE DEF e
  <2> QED BY <1>1, <1>4, <1>6, <2>2, <2>3 DEF ConnInv
<1> QED BY <1>5, <1>6

LEMMA ConnSocket ==
  ASSUME StateInv, ConnInv, Drop \/ Restart \/ Reconnect
  PROVE  ConnInv'
<1>1. CASE LoseSocket /\ UNCHANGED <<rendered, requests>>
  <2>1. socket' = "dropped" /\ feed' = <<Event("close", <<>>)>> /\ replay' = "none"
    BY <1>1 DEF LoseSocket
  <2> QED BY <1>1, <2>1 DEF ConnInv
<1>2. CASE Drop
  BY <1>1, <1>2 DEF Drop
<1>3. CASE Restart
  <2>1. UNCHANGED <<status, rendered, requests, caughtUp>>
    BY <1>3, Zenon DEF Restart, listVars
  <2>2. CASE LoseSocket
    BY <1>1, <2>1, <2>2
  <2>3. CASE UNCHANGED <<socket, feed, replay>>
    BY <2>1, <2>3, ConnFrame DEF ConnInv
  <2> QED BY <1>3, <2>2, <2>3 DEF Restart
<1>4. CASE Reconnect
  <2>1. /\ socket = "waiting" /\ rendered = status /\ socket' = "opening" /\ caughtUp' = FALSE
        /\ UNCHANGED <<rendered, feed, requests, replay>>
    BY <1>4 DEF Reconnect
  <2>2. feed = <<>> /\ rendered = "disconnected" /\ replay = "none"
    BY <2>1 DEF ConnInv
  <2>3. \A q \in requests : q.kind # "recent"
    BY <2>2 DEF ConnInv
  <2> QED BY <2>1, <2>2, <2>3 DEF ConnInv
<1> QED BY <1>2, <1>3, <1>4

\* The requests after a render: no fresh page among those for the recent page.
LEMMA FetchedRequests ==
  ASSUME NEW st, NEW rm \in Rooms, NEW q \in CancelRecent(requests) \cup FetchRecent(st, rm)
  PROVE  /\ (q \in requests /\ q.kind = "older") \/ (Blank(q) /\ ~q.fresh)
         /\ q.kind = "recent" => st = "connected" /\ ~q.fresh
<1>1. CASE q \in CancelRecent(requests)
  BY <1>1 DEF CancelRecent
<1>2. CASE q \in FetchRecent(st, rm)
  <2>1. Blank(q) /\ st = "connected"
    BY <1>2, FetchFacts DEF FetchRecent
  <2> QED BY <2>1 DEF Blank
<1> QED BY <1>1, <1>2

LEMMA ConnUser ==
  ASSUME StateInv, ConnInv, Render \/ loadOlderMessages \/ \E rm \in Rooms : ChangeRoom(rm)
  PROVE  ConnInv'
<1>1. room \in Rooms /\ cursor \in Row \cup {None} /\ version \in Nat
  BY ClientParts DEF SocketTypes, ListTypes
<1>2. CASE Render
  <2>1. /\ rendered' = status /\ UNCHANGED <<socket, status, feed, replay, caughtUp>>
        /\ requests' = CancelRecent(requests) \cup FetchRecent(status, room)
    BY <1>2 DEF Render, socketVars, listVars
  <2>2. \A q \in requests' : q.kind = "recent" => status = "connected" /\ ~q.fresh
    BY <1>1, <2>1, FetchedRequests
  <2>3. socket \in {"opening", "upgraded"} => ~caughtUp'
    BY <2>1 DEF ConnInv
  <2> QED BY <2>1, <2>2, <2>3, ConnFrame
<1>3. CASE loadOlderMessages
  <2>0. PICK q : q = Request("older", room, cursor, version + 1)
    OBVIOUS
  <2>1. /\ UNCHANGED <<socket, status, feed, replay, rendered, caughtUp>>
        /\ requests' = requests \cup {q}
    BY <1>3, <2>0 DEF loadOlderMessages, socketVars
  <2>2. q.kind # "recent"
    BY <2>0 DEF Request
  <2> QED BY <2>1, <2>2, ConnFrame DEF ConnInv
<1>4. ASSUME NEW rm \in Rooms, ChangeRoom(rm) PROVE ConnInv'
  <2>1. /\ socket' = "opening" /\ feed' = <<>> /\ replay' = "none" /\ caughtUp' = FALSE
        /\ requests' = CancelRecent(requests) \cup FetchRecent(rendered', rm)
    BY <1>4 DEF ChangeRoom
  <2>2. \A q \in requests' : q.kind = "recent" => rendered' = "connected" /\ ~q.fresh
    BY <2>1, FetchedRequests
  <2> QED BY <2>1, <2>2 DEF ConnInv
<1> QED BY <1>2, <1>3, <1>4

LEMMA ConnAnswer ==
  ASSUME StateInv, ConnInv, NEW q \in requests,
         Answer(q) \/ ApplyRecent(q) \/ ApplyOlder(q) \/ RequestFails(q)
  PROVE  ConnInv'
<1>1. UNCHANGED <<socket, status, feed, replay, rendered>>
  BY Zenon DEF Answer, ApplyRecent, ApplyOlder, RequestFails, socketVars
<1>2. CASE Answer(q)
  <2>1. PICK a \in Requests : /\ requests' = (requests \ {q}) \cup {a} /\ a.kind = q.kind
                              /\ a.fresh = (socket = "live")
    BY <1>2, AnswerFacts
  <2>2. caughtUp' = caughtUp
    BY <1>2, Zenon DEF Answer, listVars
  <2>3. \A x \in requests' : x.kind = "recent" => rendered = "connected"
    BY <2>1 DEF ConnInv
  <2>4. socket \in {"opening", "upgraded"} =>
          ~caughtUp /\ \A x \in requests' : x.kind = "recent" => ~x.fresh
    BY <2>1 DEF ConnInv
  <2> QED BY <1>1, <2>2, <2>3, <2>4, ConnFrame
<1>3. CASE ApplyRecent(q)
  <2>1. requests' = requests \ {q} /\ q.kind = "recent" /\ caughtUp' = (caughtUp \/ q.fresh)
    BY <1>3 DEF ApplyRecent
  <2> QED BY <1>1, <2>1, ConnFrame DEF ConnInv
<1>4. CASE ApplyOlder(q) \/ RequestFails(q)
  <2>1. requests' = requests \ {q} /\ caughtUp' = caughtUp
    BY <1>4, Zenon DEF ApplyOlder, RequestFails
  <2> QED BY <1>1, <2>1, ConnFrame DEF ConnInv
<1> QED BY <1>2, <1>3, <1>4

LEMMA ConnStep == ASSUME StateInv, ConnInv, [Next]_vars PROVE ConnInv'
<1>1. CASE UNCHANGED clientVars
  <2>1. UNCHANGED <<socket, status, feed, replay, rendered, requests, caughtUp>>
    BY <1>1 DEF clientVars, listVars, socketVars
  <2> QED BY <2>1, ConnFrame DEF ConnInv
<1>2. CASE ~UNCHANGED clientVars
  BY <1>2, ConnReplay, ConnEvent, ConnSocket, ConnUser, ConnAnswer DEF Next, vars
<1> QED BY <1>1, <1>2

\* The list and what is on its way lose nothing of the newest page, and what
\* joins the newest page is on its way.
LEMMA LiveFrame ==
  ASSUME LiveInv, socket = "live",
         \A r \in Top' : r \in Top \/ r \in Reach',
         \A r \in Top : r \in Reach => r \in Reach',
         caughtUp' => caughtUp \/ Top' \subseteq Reach',
         replay' = "send" => replay = "send" /\ Range(backlog) \subseteq Range(backlog') \cup Reach',
         \A q \in requests' : q \in requests \/ FreshInv(q)'
  PROVE  LiveInv'
<1>1. /\ caughtUp => Top \subseteq Reach
      /\ replay = "send" => Top \subseteq Reach \cup Range(backlog)
      /\ \A q \in requests : q.kind = "recent" /\ q.fresh => Top \subseteq Reach \cup Range(q.page.messages)
  BY DEF LiveInv, FreshInv
<1> HIDE DEF Top, Reach
<1>2. caughtUp' => Top' \subseteq Reach'
  BY <1>1
<1>3. replay' = "send" => Top' \subseteq Reach' \cup Range(backlog')
  BY <1>1
<1>4. \A q \in requests' : FreshInv(q)'
  BY <1>1 DEF FreshInv
<1> QED BY <1>2, <1>3, <1>4 DEF LiveInv

LEMMA TopKept == ASSUME UNCHANGED <<rows, room>> PROVE Top' = Top
BY DEF Top, GetRecentMessages

\* A committed row joins the newest page, or the page stays as it is.
LEMMA CommitRecent ==
  ASSUME StateInv, StateInv', NEW w \in Writers, CommitRow(w), room' = room
  PROVE  Range(GetRecentMessages(room, PageSize)')
           \subseteq Range(GetRecentMessages(room, PageSize)) \cup {saving[w]}
<1> DEFINE S == {r \in rows : r.room = room}
           T == {r \in rows' : r.room = room}
           A(r) == {q \in S : Before(r, q)}
           B(r) == {q \in T : Before(r, q)}
<1>1. rows' = rows \cup {saving[w]}
  BY DEF CommitRow
<1>2. S \subseteq T /\ \A r \in T : r \in S \/ r = saving[w]
  BY <1>1
<1>3. IsFiniteSet(T)
  <2>1. rows' \subseteq Row /\ Unique(rows')
    BY DEF StateInv, IdInv, Known, TypeOK, HistoryTypeOK, Unique
  <2>2. IsFiniteSet(rows')
    BY <2>1, UniqueFinite
  <2>3. T \in SUBSET rows'
    OBVIOUS
  <2> QED BY <2>2, <2>3, FS_Subset
<1>4. Range(GetRecentMessages(room, PageSize)) = {r \in S : Cardinality(A(r)) < PageSize}
  BY RecentFacts
<1>5. Range(GetRecentMessages(room, PageSize)') = {r \in T : Cardinality(B(r)) < PageSize}
  <2>1. T \subseteq Row /\ Unique(T) /\ PageSize \in Nat
    BY Limits DEF StateInv, IdInv, Known, TypeOK, HistoryTypeOK, Unique
  <2>2. GetRecentMessages(room, PageSize)' = Newest(T, PageSize)
    BY DEF GetRecentMessages
  <2> HIDE DEF T
  <2>3. Range(Newest(T, PageSize)) = {r \in T : Cardinality({q \in T : Before(r, q)}) < PageSize}
    BY <2>1, NewestFacts, Zenon
  <2> QED BY <2>2, <2>3
<1> HIDE DEF S, T
<1>6. ASSUME NEW r \in S, Cardinality(B(r)) < PageSize PROVE Cardinality(A(r)) < PageSize
  <2>1. B(r) \in SUBSET T /\ A(r) \in SUBSET B(r)
    BY <1>2
  <2>2. IsFiniteSet(B(r))
    BY <1>3, <2>1, FS_Subset
  <2>3. Cardinality(A(r)) <= Cardinality(B(r)) /\ IsFiniteSet(A(r))
    BY <2>1, <2>2, FS_Subset
  <2>4. Cardinality(A(r)) \in Nat /\ Cardinality(B(r)) \in Nat
    BY <2>2, <2>3, FS_CardinalityType
  <2> HIDE DEF A, B
  <2> QED BY <1>6, <2>3, <2>4, Limits
<1> HIDE DEF A, B
<1> QED BY <1>2, <1>4, <1>5, <1>6

LEMMA LiveHistory ==
  ASSUME StateInv, StateInv', LiveInv, HistoryNext, UNCHANGED clientVars, socket' = "live"
  PROVE  LiveInv'
<1>1. UNCHANGED <<room, socket, feed, chatHistory, caughtUp, replay, backlog, requests>>
  BY DEF clientVars, socketVars, listVars
<1>2. ASSUME NEW w \in Writers, CommitRow(w) PROVE LiveInv'
  <2>1. unsent' = unsent \cup {saving[w]}
    BY <1>2 DEF CommitRow
  <2>2. Top' \subseteq Top \cup {saving[w]}
    BY <1>1, <1>2, CommitRecent DEF Top
  <2>3. Reach' = Reach \cup {saving[w]}
    BY <1>1, <2>1 DEF Reach, FeedRows
  <2> HIDE DEF Top, Reach
  <2> QED BY <1>1, <2>2, <2>3, LiveFrame
<1>3. ASSUME UNCHANGED <<rows, unsent>> PROVE LiveInv'
  <2>1. Top' = Top
    BY <1>1, <1>3, TopKept
  <2>2. Reach' = Reach
    BY <1>1, <1>3 DEF Reach, FeedRows
  <2> QED BY <1>1, <2>1, <2>2, LiveFrame
<1>4. ASSUME NEW w \in Writers, NEW rm \in Rooms, BeginSave(w, rm) PROVE LiveInv'
  BY <1>3, <1>4 DEF BeginSave
<1>5. ASSUME NEW w \in Writers, Insert(w) PROVE LiveInv'
  BY <1>3, <1>5 DEF Insert
<1>6. ASSUME Tick PROVE LiveInv'
  BY <1>3, <1>6 DEF Tick
<1> QED BY <1>2, <1>4, <1>5, <1>6 DEF HistoryNext

\* The registration and the replay: nothing is promised before the query, and
\* what the query returns is the newest page.
LEMMA LiveReplay ==
  ASSUME StateInv, ConnInv, LiveInv, Register \/ HistoryQuery \/ HistorySend
  PROVE  LiveInv'
<1>1. UNCHANGED <<rows, unsent, room, chatHistory, caughtUp, requests>>
  BY Zenon DEF Register, HistoryQuery, HistorySend, historyVars, listVars
<1>2. Top' = Top
  BY <1>1, TopKept
<1>3. CASE Register
  <2>1. socket = "upgraded" /\ replay' = "query"
    BY <1>3 DEF Register
  <2>2. ~caughtUp /\ \A q \in requests : q.kind = "recent" => ~q.fresh
    BY <2>1 DEF ConnInv
  <2> QED BY <1>1, <2>1, <2>2 DEF LiveInv, FreshInv
<1>4. CASE HistoryQuery
  <2>1. /\ replay = "query" /\ UNCHANGED <<socket, feed>>
        /\ replay' = "send" => backlog' = GetRecentMessages(room, PageSize)
    BY <1>4 DEF HistoryQuery
  <2>2. socket = "live"
    BY <2>1 DEF ConnInv
  <2>3. Reach' = Reach
    BY <1>1, <2>1 DEF Reach, FeedRows
  <2>4. replay' = "send" => Top' \subseteq Reach' \cup Range(backlog')
    BY <1>2, <2>1 DEF Top
  <2> HIDE DEF Top, Reach
  <2>5. \A q \in requests : FreshInv(q)'
    BY <1>2, <2>2, <2>3 DEF LiveInv, FreshInv
  <2> QED BY <1>1, <1>2, <2>1, <2>2, <2>3, <2>4, <2>5 DEF LiveInv
<1>5. CASE HistorySend
  <2>1. /\ replay = "send" /\ backlog # <<>> /\ socket' = socket
        /\ \/ feed' = Append(feed, Event("message", <<Head(backlog)>>)) /\ backlog' = Tail(backlog)
           \/ replay' = "cut" /\ feed' = feed
    BY <1>5 DEF HistorySend
  <2>2. socket = "live"
    BY <2>1 DEF ConnInv
  <2>3. backlog \in Seq(Row) /\ feed \in Seq(Events)
    BY ClientParts DEF SocketTypes
  <2>4. Head(backlog) \in Row /\ Range(backlog) = {Head(backlog)} \cup Range(Tail(backlog))
    BY <2>1, <2>3, BacklogFacts
  <2>5. CASE feed' = Append(feed, Event("message", <<Head(backlog)>>)) /\ backlog' = Tail(backlog)
    <3>1. RowsOf(feed') = RowsOf(feed) \cup {Head(backlog)}
      BY <2>3, <2>4, <2>5, FeedFacts
    <3>2. Reach' = Reach \cup {Head(backlog)}
      BY <1>1, <3>1 DEF Reach, FeedRows
    <3> HIDE DEF Top, Reach
    <3>3. Range(backlog) \subseteq Range(backlog') \cup Reach'
      BY <2>4, <2>5, <3>2
    <3> QED BY <1>1, <1>2, <2>1, <2>2, <3>2, <3>3, LiveFrame
  <2>6. CASE replay' = "cut" /\ feed' = feed
    <3>1. Reach' = Reach
      BY <1>1, <2>6 DEF Reach, FeedRows
    <3> HIDE DEF Top, Reach
    <3> QED BY <1>1, <1>2, <2>2, <2>6, <3>1, LiveFrame
  <2> QED BY <2>1, <2>5, <2>6
<1> QED BY <1>3, <1>4, <1>5

\* The broadcasts and the events of the socket.
LEMMA LiveSocket ==
  ASSUME StateInv, LiveInv, SocketEvent \/ \E r \in unsent : Broadcast(r), socket' = "live"
  PROVE  LiveInv'
<1>1. CASE SocketEvent
  <2>1. UNCHANGED <<rows, unsent, room, requests, replay, backlog, caughtUp>> /\ socket = "live"
    BY <1>1, EventList DEF historyVars
  <2>2. Reach' = Reach
    BY <1>1, <2>1, EventList DEF Reach, FeedRows
  <2>3. Top' = Top
    BY <2>1, TopKept
  <2> HIDE DEF Top, Reach
  <2> QED BY <2>1, <2>2, <2>3, LiveFrame
<1>2. ASSUME NEW r \in unsent, Broadcast(r) PROVE LiveInv'
  <2>1. /\ unsent' = unsent \ {r} /\ socket = "live"
        /\ UNCHANGED <<rows, room, chatHistory, requests, replay, backlog, caughtUp>>
        /\ r.room = room => feed' = Append(feed, Event("message", <<r>>))
        /\ r.room # room => feed' = feed
    BY <1>2 DEF Broadcast, listVars
  <2>2. Top' = Top
    BY <2>1, TopKept
  <2>3. \A x \in Top : x.room = room
    BY RecentFacts, Zenon DEF Top
  <2>4. r \in Row /\ feed \in Seq(Events)
    BY TableFacts, ClientParts DEF SocketTypes
  <2>5. \A x \in Top : x \in Reach => x \in Reach'
    <3>1. CASE r.room = room
      <4>1. RowsOf(feed') = RowsOf(feed) \cup {r}
        BY <2>1, <2>4, <3>1, FeedFacts, Zenon
      <4> QED BY <2>1, <4>1 DEF Reach, FeedRows
    <3>2. CASE r.room # room
      <4>1. \A x \in Top : x # r
        BY <2>3, <3>2
      <4> QED BY <2>1, <3>2, <4>1 DEF Reach, FeedRows
    <3> QED BY <3>1, <3>2
  <2> HIDE DEF Top, Reach
  <2> QED BY <2>1, <2>2, <2>5, LiveFrame
<1> QED BY <1>1, <1>2

\* A request that was just sent has no page yet.
LEMMA LiveUser ==
  ASSUME StateInv, LiveInv, Render \/ loadOlderMessages, socket' = "live"
  PROVE  LiveInv'
<1>1. /\ UNCHANGED <<rows, unsent, room, feed, chatHistory, replay, backlog, caughtUp>>
      /\ socket = "live"
  BY DEF Render, loadOlderMessages, historyVars, socketVars, listVars
<1>2. Top' = Top
  BY <1>1, TopKept
<1>3. Reach' = Reach
  BY <1>1 DEF Reach, FeedRows
<1>4. \A q \in requests' : q \in requests \/ FreshInv(q)'
  <2>1. CASE Render
    <3>1. requests' = CancelRecent(requests) \cup FetchRecent(status, room) /\ room \in Rooms
      BY <2>1, ClientParts DEF Render, SocketTypes
    <3>2. \A q \in requests' : q \in requests \/ ~q.fresh
      BY <3>1, FetchedRequests
    <3> QED BY <3>2 DEF FreshInv
  <2>2. CASE loadOlderMessages
    <3>0. PICK q : q = Request("older", room, cursor, version + 1)
      OBVIOUS
    <3>1. requests' = requests \cup {q}
      BY <2>2, <3>0 DEF loadOlderMessages
    <3>2. q.kind # "recent"
      BY <3>0 DEF Request
    <3> QED BY <3>1, <3>2 DEF FreshInv
  <2> QED BY <2>1, <2>2
<1> HIDE DEF Top, Reach
<1> QED BY <1>1, <1>2, <1>3, <1>4, LiveFrame

\* A page that the server reads on a live socket holds the newest rows.
LEMMA LiveAnswer ==
  ASSUME StateInv, RoomInv, LiveInv, NEW q \in requests, socket' = "live",
         Answer(q) \/ ApplyRecent(q) \/ ApplyOlder(q) \/ RequestFails(q)
  PROVE  LiveInv'
<1>1. UNCHANGED <<rows, unsent, room, feed, replay, backlog>> /\ socket = "live"
  BY Zenon DEF Answer, ApplyRecent, ApplyOlder, RequestFails, historyVars, socketVars
<1>2. Top' = Top
  BY <1>1, TopKept
<1>3. CASE Answer(q)
  <2>1. PICK a \in Requests :
          /\ requests' = (requests \ {q}) \cup {a} /\ a.kind = q.kind
          /\ q.before = None => Range(GetRecentMessages(q.room, PageSize)) \subseteq Range(a.page.messages)
    BY <1>3, AnswerFacts
  <2>2. UNCHANGED <<chatHistory, caughtUp>>
    BY <1>3, Zenon DEF Answer, listVars
  <2>3. Reach' = Reach
    BY <1>1, <2>2 DEF Reach, FeedRows
  <2>4. a.kind = "recent" => Top \subseteq Range(a.page.messages)
    BY <2>1 DEF RoomInv, RequestRoom, Top
  <2> HIDE DEF Top, Reach
  <2>5. \A x \in requests' : x \in requests \/ FreshInv(x)'
    BY <1>2, <2>1, <2>4 DEF FreshInv
  <2> QED BY <1>1, <1>2, <2>2, <2>3, <2>5, LiveFrame
<1>4. CASE ApplyRecent(q)
  <2>1. requests' = requests \ {q} /\ q.kind = "recent" /\ caughtUp' = (caughtUp \/ q.fresh)
    BY <1>4 DEF ApplyRecent
  <2>2. Reach' = Reach \cup Range(q.page.messages)
    BY <1>1, <1>4, ApplyList DEF Reach, FeedRows
  <2> HIDE DEF Top, Reach
  <2>3. q.fresh => Top' \subseteq Reach'
    BY <1>1, <1>2, <2>1, <2>2 DEF LiveInv, FreshInv
  <2> QED BY <1>1, <1>2, <2>1, <2>2, <2>3, LiveFrame
<1>5. CASE ApplyOlder(q) \/ RequestFails(q)
  <2>1. requests' = requests \ {q} /\ caughtUp' = caughtUp
    BY <1>5, Zenon DEF ApplyOlder, RequestFails
  <2>2. Range(chatHistory) \subseteq Range(chatHistory')
    <3>1. CASE ApplyOlder(q) /\ isCurrentRequest(q)
      BY <3>1, ApplyList
    <3>2. CASE ~(ApplyOlder(q) /\ isCurrentRequest(q))
      <4>1. chatHistory' = chatHistory
        BY <1>5, <3>2, Zenon DEF ApplyOlder, RequestFails
      <4> QED BY <4>1
    <3> QED BY <3>1, <3>2
  <2>3. Reach \subseteq Reach'
    BY <1>1, <2>2 DEF Reach, FeedRows
  <2> HIDE DEF Top, Reach
  <2> QED BY <1>1, <1>2, <2>1, <2>3, LiveFrame
<1> QED BY <1>3, <1>4, <1>5

LEMMA LiveStep == ASSUME StateInv, RoomInv, ConnInv, LiveInv, [Next]_vars PROVE LiveInv'
<1> SUFFICES ASSUME socket' = "live" PROVE LiveInv'
  BY DEF LiveInv
<1>1. CASE UNCHANGED vars
  <2>1. UNCHANGED <<rows, unsent, room, socket, feed, chatHistory, replay, backlog, caughtUp, requests>>
    BY <1>1 DEF vars, historyVars, clientVars, socketVars, listVars
  <2>2. Top' = Top
    BY <2>1, TopKept
  <2>3. Reach' = Reach
    BY <2>1 DEF Reach, FeedRows
  <2> HIDE DEF Top, Reach
  <2> QED BY <2>1, <2>2, <2>3, LiveFrame
<1>2. ~(Upgrade \/ Drop \/ Restart \/ Reconnect \/ \E rm \in Rooms : ChangeRoom(rm))
  BY DEF Upgrade, Drop, Restart, LoseSocket, Reconnect, ChangeRoom
<1>3. CASE Next
  BY <1>2, <1>3, StateStep, LiveHistory, LiveReplay, LiveSocket, LiveUser, LiveAnswer DEF Next
<1> QED BY <1>1, <1>3

\* When the client is registered, its events are handled and the hub has sent
\* all it was given, the newest page of the room is shown, provided the replay
\* was sent whole or a page read after the registration was applied.
THEOREM ClientNewest == Spec => []NewestIsShown
<1> DEFINE Inv == StateInv /\ RoomInv /\ ConnInv /\ LiveInv
<1>1. Init => Inv
  <2>1. Init => LiveInv
    BY DEF Init, LiveInv
  <2>2. Init => ConnInv
    BY DEF Init, ConnInv
  <2> QED BY <2>1, <2>2, InitState, InitRoom
<1>2. Inv /\ [Next]_vars => Inv'
  BY StateStep, RoomStep, ConnStep, LiveStep
<1>3. Inv => NewestIsShown
  <2> SUFFICES ASSUME LiveInv, Quiet, caughtUp \/ ReplaySent
               PROVE  Top \subseteq Range(chatHistory)
    BY DEF NewestIsShown, Top
  <2>1. FeedRows = {} /\ unsent = {} /\ socket = "live"
    BY EventFacts DEF FeedRows, Quiet
  <2>2. Reach = Range(chatHistory)
    BY <2>1 DEF Reach
  <2>3. ReplaySent => replay = "send" /\ Range(backlog) = {}
    BY EmptyFacts DEF ReplaySent
  <2> HIDE DEF Top, Reach
  <2> QED BY <2>1, <2>2, <2>3 DEF LiveInv
<1> QED BY <1>1, <1>2, <1>3, PTL DEF Spec
=============================================================================
