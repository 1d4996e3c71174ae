------------------------------ MODULE Delivery ------------------------------
(***************************************************************************)
(* How a room message travels through one Chatster server: the goroutine   *)
(* that reads it saves it (readMessages, registerClient, the leave worker) *)
(* and queues it on Hub.broadcast; run hands it to the outbound queues of  *)
(* the clients of the room; each client's writer empties its queue; and a  *)
(* client that has just registered is given the recent history by a        *)
(* goroutine of its own (sendMessageHistory), concurrently with live       *)
(* messages.  Shutdown is the subject of module Hub.                       *)
(*                                                                         *)
(* A message is <<client, n>>: n = 0 is the join notification, 1, 2, ...   *)
(* are the client's chat messages, and LeaveNo is the leave notification.  *)
(***************************************************************************)
EXTENDS Naturals, FiniteSets, Sequences, Functions

CONSTANTS
  Clients, Rooms, RoomOf,
  Named,          \* clients whose name is not "Anonymous"
  SendCap,        \* outboundQueueSize (256)
  BroadcastCap,   \* capacity of Hub.broadcast (1024)
  LeaveCap,       \* leaveNotificationQueueSize (256)
  HistoryLimit,   \* rows replayed to a new client (50)
  MaxFrames,      \* bound: chat frames the clients send, together
  MaxFailures,    \* bound: failing inserts and history queries
  Worker,         \* the leave worker, which saves messages like a client does
  None

ASSUME DeliveryAssumption ==
  /\ IsFiniteSet(Clients) /\ RoomOf \in [Clients -> Rooms]
  /\ Named \subseteq Clients
  /\ {SendCap, BroadcastCap, LeaveCap, HistoryLimit} \subseteq Nat \ {0}
  /\ MaxFrames \in Nat /\ MaxFailures \in Nat
  /\ {Worker, None} \cap Clients = {}

LeaveNo       == MaxFrames + 1
Messages      == Clients \X (0..LeaveNo)
RoomFor(m)    == RoomOf[m[1]]
Savers        == Clients \cup {Worker}

VARIABLES
  clients,     \* Hub.clients
  closed,      \* clients on which Client.close() has run
  evicted,     \* history: clients removed by the fan-out
  pc,          \* what each saver is doing
  job,         \* the message a saver is saving or publishing
  sent,        \* the number of the last message of each client
  frames,      \* chat frames that may still arrive (a bound)
  failures,    \* storage calls that may still fail (a bound)
  stamps,      \* messages in the order of their timestamps
  stored,      \* messages in the messages table
  broadcast,   \* Hub.broadcast
  log,         \* history: messages that run has taken, in order
  send,        \* how many messages wait in each client's outbound queue
  live,        \* history: live messages accepted by the queue of each client
  joinedAt,    \* history: length of log when the client registered
  hist,        \* where sendMessageHistory is
  rows,        \* rows it still has to queue
  replayed,    \* history: rows accepted by the queue of each client
  leaveQueue   \* Hub.leaveQueue

hubVars  == <<clients, closed, evicted, leaveQueue>>
saveVars == <<pc, job, sent, frames, failures, stamps, stored>>
liveVars == <<broadcast, log, live, joinedAt>>
histVars == <<hist, rows, replayed>>
vars     == <<hubVars, saveVars, liveVars, histVars, send>>

HubTypes ==
  /\ clients \subseteq Clients /\ closed \subseteq Clients
  /\ evicted \subseteq Clients
  /\ leaveQueue \in Seq(Clients) /\ Len(leaveQueue) <= LeaveCap

SaveTypes ==
  /\ pc \in [Savers -> {"idle", "stamp", "insert", "publish", "gone"}]
  /\ job \in [Savers -> Messages \cup {None}]
  /\ sent \in [Clients -> 0..MaxFrames] /\ frames \in 0..MaxFrames
  /\ failures \in 0..MaxFailures
  /\ stamps \in Seq(Messages) /\ stored \subseteq Range(stamps)

LiveTypes ==
  /\ broadcast \in Seq(Messages) /\ Len(broadcast) <= BroadcastCap
  /\ log \in Seq(Messages)
  /\ live \in [Clients -> Seq(Messages)]
  /\ joinedAt \in [Clients -> Nat]

HistTypes ==
  /\ hist \in [Clients -> {"none", "query", "send", "done", "cut", "failed"}]
  /\ rows \in [Clients -> SUBSET Messages]
  /\ replayed \in [Clients -> SUBSET Messages]

\* Every variable has its type; queues stay within their capacity.
TypeOK ==
  /\ HubTypes /\ SaveTypes /\ LiveTypes /\ HistTypes
  /\ send \in [Clients -> 0..SendCap]

Init ==
  /\ clients = {} /\ closed = {} /\ evicted = {} /\ leaveQueue = <<>>
  /\ pc = [p \in Savers |-> "idle"]
  /\ job = [p \in Savers |-> None]
  /\ sent = [c \in Clients |-> 0]
  /\ frames = MaxFrames /\ failures = MaxFailures
  /\ stamps = <<>> /\ stored = {}
  /\ broadcast = <<>> /\ log = <<>>
  /\ send = [c \in Clients |-> 0]
  /\ live = [c \in Clients |-> <<>>]
  /\ joinedAt = [c \in Clients |-> 0]
  /\ hist = [c \in Clients |-> "none"]
  /\ rows = [c \in Clients |-> {}]
  /\ replayed = [c \in Clients |-> {}]

\* Mutant: the outbound queue has no bound.
EnqueueUnbounded(c) == c \notin closed

\* Client.enqueue succeeds.
CanEnqueue(c) == c \notin closed /\ send[c] < SendCap

-----------------------------------------------------------------------------
(* registerClient and the read loop *)

\* registerClient: the client is in the map, the history goroutine starts and
\* the join notification is about to be saved.
RegisterClient(c) ==
  /\ hist[c] = "none"
  /\ clients' = clients \cup {c}
  /\ hist' = [hist EXCEPT ![c] = "query"]
  /\ joinedAt' = [joinedAt EXCEPT ![c] = Len(log)]
  /\ pc' = [pc EXCEPT ![c] = "stamp"]
  /\ job' = [job EXCEPT ![c] = <<c, 0>>]
  /\ UNCHANGED <<closed, evicted, leaveQueue, sent, frames, failures, stamps, stored, broadcast,
                 log, live, rows, replayed, send>>

\* SaveMessageForUserInRoomContext takes the timestamp, then waits for the one
\* connection of the pool to insert the row.  Timestamps of different messages
\* are taken to differ.
Stamp(p) ==
  /\ pc[p] = "stamp"
  /\ stamps' = Append(stamps, job[p])
  /\ pc' = [pc EXCEPT ![p] = "insert"]
  /\ UNCHANGED <<hubVars, job, sent, frames, failures, stored, liveVars, histVars, send>>

\* The insert succeeds, or fails and leaves no row; the message is broadcast in
\* either case.
Insert(p) ==
  /\ pc[p] = "insert"
  /\ \/ /\ stored' = stored \cup {job[p]}
        /\ UNCHANGED failures
     \/ /\ failures > 0
        /\ failures' = failures - 1
        /\ UNCHANGED stored
  /\ pc' = [pc EXCEPT ![p] = "publish"]
  /\ UNCHANGED <<hubVars, job, sent, frames, stamps, liveVars, histVars, send>>

\* publishContext queues the message.
Publish(p) ==
  /\ pc[p] = "publish"
  /\ Len(broadcast) < BroadcastCap
  /\ broadcast' = Append(broadcast, job[p])
  /\ job' = [job EXCEPT ![p] = None]
  /\ pc' = [pc EXCEPT ![p] = "idle"]
  /\ UNCHANGED <<hubVars, sent, frames, failures, stamps, stored, log, live, joinedAt, histVars,
                 send>>

\* Mutant: the read loop goes on after it has unregistered the client.
ReadingAfterUnregister(c) == pc[c] \in {"idle", "gone"} /\ hist[c] # "none"

\* The read loop waits for the next frame.
Reading(c) == pc[c] = "idle" /\ hist[c] # "none"

\* readMessages: a valid chat frame.
ReadMessage(c) ==
  /\ Reading(c)
  /\ frames > 0
  /\ frames' = frames - 1
  /\ sent' = [sent EXCEPT ![c] = @ + 1]
  /\ job' = [job EXCEPT ![c] = <<c, sent[c] + 1>>]
  /\ pc' = [pc EXCEPT ![c] = "stamp"]
  /\ UNCHANGED <<hubVars, failures, stamps, stored, liveVars, histVars, send>>

\* readMessages: a frame over the rate limit; the notice is lost when the queue
\* is full.
ReadLimited(c) ==
  /\ Reading(c)
  /\ frames > 0
  /\ frames' = frames - 1
  /\ send' = IF CanEnqueue(c) THEN [send EXCEPT ![c] = @ + 1]
                              ELSE send
  /\ UNCHANGED <<hubVars, pc, job, sent, failures, stamps, stored, liveVars,
                 histVars>>

-----------------------------------------------------------------------------
(* run *)

\* disconnectClientLocked for a set of registered clients, visited in any order;
\* the leave notifications that do not fit are dropped.  The queue of a closed
\* client is never read again.
Disconnect(gone) ==
  /\ clients' = clients \ gone
  /\ closed' = closed \cup gone
  /\ \E q \in Bijection(1..Cardinality(gone \cap Named), gone \cap Named) :
       LET free == LeaveCap - Len(leaveQueue)
       IN  leaveQueue' = leaveQueue \o SubSeq(q, 1, IF Len(q) < free THEN Len(q) ELSE free)

\* The read loop ends and hands the client to run, which disconnects it unless
\* the fan-out already has.
Unregister(c) ==
  /\ Reading(c)
  /\ IF c \in clients
       THEN Disconnect({c})
       ELSE closed' = closed \cup {c} /\ UNCHANGED <<clients, leaveQueue>>
  /\ pc' = [pc EXCEPT ![c] = "gone"]
  /\ send' = [send EXCEPT ![c] = 0]
  /\ UNCHANGED <<evicted, job, sent, frames, failures, stamps, stored, liveVars, histVars>>

\* Mutant: a slow client misses the message and stays.
FanoutSkips ==
  /\ broadcast # <<>>
  /\ LET m     == Head(broadcast)
         ready == {c \in clients : RoomOf[c] = RoomFor(m) /\ CanEnqueue(c)}
     IN  /\ log' = Append(log, m)
         /\ live' = [c \in Clients |-> IF c \in ready THEN Append(live[c], m)
                                                      ELSE live[c]]
         /\ send' = [c \in Clients |-> IF c \in ready THEN send[c] + 1
                                                      ELSE send[c]]
  /\ broadcast' = Tail(broadcast)
  /\ UNCHANGED <<hubVars, saveVars, joinedAt, histVars>>

\* Mutant: the clients of other rooms are not skipped.
FanoutEverywhere ==
  /\ broadcast # <<>>
  /\ LET m    == Head(broadcast)
         slow == {c \in clients : ~CanEnqueue(c)}
     IN  /\ Disconnect(slow)
         /\ evicted' = evicted \cup slow
         /\ log' = Append(log, m)
         /\ live' = [c \in Clients |-> IF c \in clients \ slow
                                         THEN Append(live[c], m) ELSE live[c]]
         /\ send' = [c \in Clients |->
                       IF c \in slow THEN 0
                       ELSE IF c \in clients THEN send[c] + 1
                       ELSE send[c]]
  /\ broadcast' = Tail(broadcast)
  /\ UNCHANGED <<saveVars, joinedAt, histVars>>

\* The fan-out of one message, under Hub.mutex.  Enqueueing does not wait, and
\* the clients' queues are independent, so the loop over them is one step.
Fanout ==
  /\ broadcast # <<>>
  /\ LET m      == Head(broadcast)
         in     == {c \in clients : RoomOf[c] = RoomFor(m)}
         slow   == {c \in in : ~CanEnqueue(c)}
     IN  /\ Disconnect(slow)
         /\ evicted' = evicted \cup slow
         /\ log' = Append(log, m)
         /\ live' = [c \in Clients |-> IF c \in in \ slow
                                         THEN Append(live[c], m) ELSE live[c]]
         /\ send' = [c \in Clients |->
                       IF c \in slow THEN 0
                       ELSE IF c \in in THEN send[c] + 1
                       ELSE send[c]]
  /\ broadcast' = Tail(broadcast)
  /\ UNCHANGED <<saveVars, joinedAt, histVars>>

\* runLeaveNotifications takes the next notification.
LeaveTake ==
  /\ pc[Worker] = "idle"
  /\ leaveQueue # <<>>
  /\ leaveQueue' = Tail(leaveQueue)
  /\ job' = [job EXCEPT ![Worker] = <<Head(leaveQueue), LeaveNo>>]
  /\ pc' = [pc EXCEPT ![Worker] = "stamp"]
  /\ UNCHANGED <<clients, closed, evicted, sent, frames, failures, stamps, stored, liveVars,
                 histVars, send>>

-----------------------------------------------------------------------------
(* sendMessageHistory *)

\* The saved messages of a room.
RoomRows(room) == {m \in stored : RoomFor(m) = room}

\* Message n has a later timestamp than message m.
Newer(n, m) ==
  \E i, j \in DOMAIN stamps : i < j /\ stamps[i] = m /\ stamps[j] = n

\* Mutant: the oldest rows instead of the newest.
OldestRows(room) ==
  {m \in RoomRows(room) : Cardinality({n \in RoomRows(room) : Newer(m, n)}) < HistoryLimit}

\* GetRecentMessagesInRoomContext: the newest rows of the room by timestamp.
RecentRows(room) ==
  {m \in RoomRows(room) : Cardinality({n \in RoomRows(room) : Newer(n, m)}) < HistoryLimit}

\* The query answers, or fails and the client gets no history.
HistoryQuery(c) ==
  /\ hist[c] = "query"
  /\ \/ /\ rows' = [rows EXCEPT ![c] = RecentRows(RoomOf[c])]
        /\ hist' = [hist EXCEPT ![c] = "send"]
        /\ UNCHANGED failures
     \/ /\ failures > 0
        /\ failures' = failures - 1
        /\ hist' = [hist EXCEPT ![c] = "failed"]
        /\ UNCHANGED rows
  /\ UNCHANGED <<hubVars, pc, job, sent, frames, stamps, stored, liveVars,
                 replayed, send>>

\* The next row, oldest first, then the welcome message; a queue that refuses a row ends the replay
\* and the client stays connected.
HistorySend(c) ==
  /\ hist[c] = "send"
  /\ \/ \E m \in rows[c] :
          /\ CanEnqueue(c) /\ \A n \in rows[c] \ {m} : Newer(n, m)
          /\ send' = [send EXCEPT ![c] = @ + 1]
          /\ rows' = [rows EXCEPT ![c] = @ \ {m}]
          /\ replayed' = [replayed EXCEPT ![c] = @ \cup {m}]
          /\ UNCHANGED hist
     \/ /\ CanEnqueue(c) /\ rows[c] = {}
        /\ send' = [send EXCEPT ![c] = @ + 1]
        /\ hist' = [hist EXCEPT ![c] = "done"]
        /\ UNCHANGED <<rows, replayed>>
     \/ /\ ~CanEnqueue(c)
        /\ hist' = [hist EXCEPT ![c] = IF rows[c] = {} THEN "done" ELSE "cut"]
        /\ rows' = [rows EXCEPT ![c] = {}]
        /\ UNCHANGED <<replayed, send>>
  /\ UNCHANGED <<hubVars, saveVars, liveVars>>

-----------------------------------------------------------------------------
(* writeMessages *)

WriteMessage(c) ==
  /\ c \notin closed
  /\ send[c] > 0
  /\ send' = [send EXCEPT ![c] = @ - 1]
  /\ UNCHANGED <<hubVars, saveVars, liveVars, histVars>>

\* A write or a ping fails.
WriteError(c) ==
  /\ hist[c] # "none" /\ pc[c] # "gone"
  /\ c \notin closed
  /\ closed' = closed \cup {c}
  /\ send' = [send EXCEPT ![c] = 0]
  /\ UNCHANGED <<clients, evicted, leaveQueue, saveVars, liveVars, histVars>>

-----------------------------------------------------------------------------
Next ==
  \/ \E p \in Savers : Stamp(p) \/ Insert(p) \/ Publish(p)
  \/ \E c \in Clients :
       \/ RegisterClient(c) \/ ReadMessage(c) \/ ReadLimited(c)
       \/ Unregister(c)
       \/ HistoryQuery(c) \/ HistorySend(c)
       \/ WriteMessage(c) \/ WriteError(c)
  \/ Fanout
  \/ LeaveTake

Spec == Init /\ [][Next]_vars

-----------------------------------------------------------------------------
(* Correctness properties *)

Feed == INSTANCE RoomFeed WITH members <- clients, seen <- live

\* Live delivery keeps the promise of RoomFeed: every registered client of the
\* room gets every message that run takes, in the order of run, or is removed.
LiveDelivery == Feed!FeedSpec

\* The same for every step, from any state.
LiveSteps == [][Feed!FeedNext]_(Feed!feedVars)

\* A message the client can no longer get live is in its history: what the event
\* loop handled before the client registered was saved before the history query
\* runs, so a replay that completes has every such row, except rows older than
\* all of the HistoryLimit rows it does have.
NoGap ==
  \A c \in Clients : hist[c] = "done" =>
    \A i \in 1..joinedAt[c] :
      LET m == log[i]
      IN  m \in stored /\ RoomFor(m) = RoomOf[c] /\ m \notin replayed[c] =>
            /\ Cardinality(replayed[c]) = HistoryLimit
            /\ \A n \in replayed[c] : Newer(n, m)

\* The messages of a client reach the room in the order it sent them, its join
\* first and its leave last, unless the fan-out evicted the client while a
\* message of it was on its way.
SenderOrder ==
  \A i, j \in DOMAIN log :
    i < j /\ log[i][1] = log[j][1] =>
      log[i][2] < log[j][2] \/ (log[i][2] = LeaveNo /\ log[i][1] \in evicted)

\* ARCHITECTURE.md: a full outbound queue is treated as a slow-client failure and
\* the server disconnects that client.  A replay that a full queue cut short
\* belongs to a client that is closed.
FullQueueDisconnects ==
  \A c \in Clients : hist[c] = "cut" => c \in closed
=============================================================================
