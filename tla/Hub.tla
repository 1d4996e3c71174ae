-------------------------------- MODULE Hub --------------------------------
(***************************************************************************)
(* The connection hub of one Chatster server: the goroutines that share    *)
(* the Hub struct of backend/hub.go and the life of a WebSocket client     *)
(* from the upgrade (serveWs) through the read loop (readMessages) to its  *)
(* end, the event loop (run), the leave-notification worker and the drain  *)
(* (Shutdown).  Each action is one step of one goroutine between two       *)
(* points where another goroutine can be scheduled: a lock acquisition, a  *)
(* channel operation or a storage call.                                    *)
(*                                                                         *)
(* What messages say and how a client's outbound queue fills up is left to *)
(* the delivery model; here a broadcast is the room it goes to, and a      *)
(* fan-out may find any client's outbound queue full.  The server has no   *)
(* Redis broker, so stopBroker returns at once.                            *)
(***************************************************************************)
EXTENDS Naturals, FiniteSets, Sequences, Functions

CONSTANTS
  Clients,        \* connections: one Client struct each, never reused
  Authenticated,  \* the clients admitted with a session, hence with a name
                  \* (one whose display name is "Anonymous" behaves like an
                  \* unauthenticated client that never sends a username)
  Rooms,          \* the rooms
  RoomOf,         \* the room each client selected when it connected
  BroadcastCap,   \* capacity of Hub.broadcast (1024 in newHub)
  LeaveCap,       \* leaveNotificationQueueSize (256)
  MaxFrames,      \* bound: chat messages the clients send, together
  None            \* "no client" and "no room"

ASSUME ConstantsAssumption ==
  /\ IsFiniteSet(Clients)
  /\ Authenticated \subseteq Clients
  /\ RoomOf \in [Clients -> Rooms]
  /\ BroadcastCap \in Nat \ {0}
  /\ LeaveCap \in Nat \ {0}
  /\ MaxFrames \in Nat
  /\ None \notin Clients
  /\ None \notin Rooms

VARIABLES
  \* Hub fields guarded by Hub.mutex
  clients,        \* registered clients
  finished,       \* clients whose read loop has ended
  draining,       \* the hub no longer admits clients
  drainPending,   \* collected clients whose read loop has not ended
  \* channels
  drainEvents,    \* chan *Client: read loops that ended during the drain
  broadcast,      \* chan Message, reduced to the message's room
  done,           \* close(done) has happened
  \* the connections and their read loops
  conn,           \* where the goroutine serving a client is
  closed,         \* clients on which Client.close() has run
  named,          \* clients whose username is not "Anonymous"
  frames,         \* chat messages the peers may still send (a bound)
  \* the event loop
  run, runRoom, todo,
  \* the drain
  drain, collected, pending, ctxDone, leaveErr,
  \* the leave-notification worker
  worker, workerLoop, workerClient, leaveQueue, leaveStop, leaveCancelled,
  leave           \* history: what became of a client's leave notification

hubVars    == <<clients, finished, draining, drainPending>>
connVars   == <<conn, closed, named, frames>>
runVars    == <<run, runRoom, todo>>
drainVars  == <<drain, collected, pending, ctxDone, leaveErr>>
leaveVars  == <<worker, workerLoop, workerClient, leaveQueue, leaveStop,
                leaveCancelled, leave>>
vars == <<hubVars, drainEvents, broadcast, done, connVars, runVars, drainVars,
          leaveVars>>

ConnStates   == {"absent", "upgraded", "rejected", "join", "joinSelect",
                 "reading", "publish", "publishSelect", "unregister",
                 "unregisterSelect", "notify", "sendEvent", "close", "exited"}
RunStates    == {"new", "check", "select", "disconnect", "deliver", "fanout",
                 "exited"}
DrainStates  == {"idle", "closing", "waiting", "stop", "stopLeave",
                 "leaveWait", "awaitRun", "returned"}
WorkerStates == {"off", "select", "drain", "save", "publish", "publishSelect",
                 "done"}
LeaveStates  == {"none", "dropped", "queued", "stored", "cancelled"}

HubTypes ==
  /\ clients \subseteq Clients
  /\ finished \subseteq Clients
  /\ drainPending \subseteq Clients

ChannelTypes ==
  /\ drainEvents \in Seq(Clients)
  /\ broadcast \in Seq(Rooms) /\ Len(broadcast) <= BroadcastCap

ConnTypes ==
  /\ conn \in [Clients -> ConnStates]
  /\ closed \subseteq Clients
  /\ named \subseteq Clients
  /\ frames \in 0..MaxFrames

RunTypes ==
  /\ run \in RunStates
  /\ runRoom \in Rooms \cup {None}
  /\ todo \subseteq Clients

DrainTypes ==
  /\ drain \in DrainStates
  /\ collected \subseteq Clients
  /\ pending \subseteq Clients

LeaveTypes ==
  /\ worker \in WorkerStates
  /\ workerLoop \in {"select", "drain"}
  /\ workerClient \in Clients \cup {None}
  /\ worker \in {"save", "publish", "publishSelect"} => workerClient \in Clients
  /\ leaveQueue \in Seq(Clients) /\ Len(leaveQueue) <= LeaveCap
  /\ leave \in [Clients -> LeaveStates]

FlagTypes ==
  /\ draining \in BOOLEAN
  /\ done \in BOOLEAN
  /\ ctxDone \in BOOLEAN
  /\ leaveErr \in BOOLEAN
  /\ leaveStop \in BOOLEAN
  /\ leaveCancelled \in BOOLEAN

\* Every variable has its type; channels stay within their capacity.
TypeOK ==
  /\ HubTypes
  /\ ChannelTypes
  /\ ConnTypes
  /\ RunTypes
  /\ DrainTypes
  /\ LeaveTypes
  /\ FlagTypes

Init ==
  /\ clients = {} /\ finished = {} /\ draining = FALSE /\ drainPending = {}
  /\ drainEvents = <<>> /\ broadcast = <<>> /\ done = FALSE
  /\ conn = [c \in Clients |-> "absent"]
  /\ closed = {}
  /\ named = Authenticated
  /\ frames = MaxFrames
  /\ run = "new" /\ runRoom = None /\ todo = {}
  /\ drain = "idle" /\ collected = {} /\ pending = {}
  /\ ctxDone = FALSE /\ leaveErr = FALSE
  /\ worker = "off" /\ workerLoop = "select" /\ workerClient = None
  /\ leaveQueue = <<>> /\ leaveStop = FALSE /\ leaveCancelled = FALSE
  /\ leave = [c \in Clients |-> "none"]

\* The event loop holds Hub.mutex while it iterates over the clients.
Unlocked == run # "fanout"

\* The select of publishContext: room in the buffered channel, or done closed.
CanPublish    == Len(broadcast) < BroadcastCap
Enqueue(room) == broadcast' = Append(broadcast, room)

-----------------------------------------------------------------------------
(* serveWs and registerClient *)

\* serveWs up to the upgrade: refused with 503 when isDraining().
ServeWs(c) ==
  /\ conn[c] = "absent"
  /\ Unlocked /\ ~draining
  /\ conn' = [conn EXCEPT ![c] = "upgraded"]
  /\ UNCHANGED <<hubVars, drainEvents, broadcast, done, closed, named, frames,
                 runVars, drainVars, leaveVars>>

\* The locked part of registerClient; a refused client is closed by serveWs.
RegisterClient(c) ==
  /\ conn[c] = "upgraded"
  /\ Unlocked
  /\ IF draining
       THEN /\ conn' = [conn EXCEPT ![c] = "rejected"]
            /\ closed' = closed \cup {c}
            /\ UNCHANGED clients
       ELSE /\ conn' = [conn EXCEPT ![c] = "join"]
            /\ clients' = clients \cup {c}
            /\ UNCHANGED closed
  /\ UNCHANGED <<finished, draining, drainPending, drainEvents, broadcast, done,
                 named, frames, runVars, drainVars, leaveVars>>

\* Where publishContext returning false leads: a join goes on to the read loop
\* all the same, a chat message ends the read loop.
NotPublished(state) ==
  IF state \in {"join", "joinSelect"} THEN "reading" ELSE "unregister"

\* publishContext, first select: give up when done is already closed.
PublishCheck(c) ==
  /\ conn[c] \in {"join", "publish"}
  /\ \/ /\ done
        /\ conn' = [conn EXCEPT ![c] = NotPublished(@)]
     \/ /\ ~done
        /\ conn' = [conn EXCEPT ![c] =
                      IF @ = "join" THEN "joinSelect" ELSE "publishSelect"]
  /\ UNCHANGED <<hubVars, drainEvents, broadcast, done, closed, named, frames,
                 runVars, drainVars, leaveVars>>

\* publishContext, second select, message queued.
PublishQueued(c) ==
  /\ conn[c] \in {"joinSelect", "publishSelect"}
  /\ CanPublish
  /\ Enqueue(RoomOf[c])
  /\ conn' = [conn EXCEPT ![c] = "reading"]
  /\ UNCHANGED <<hubVars, drainEvents, done, closed, named, frames, runVars,
                 drainVars, leaveVars>>

\* publishContext, second select, done closed.
PublishStopped(c) ==
  /\ conn[c] \in {"joinSelect", "publishSelect"}
  /\ done
  /\ conn' = [conn EXCEPT ![c] = NotPublished(@)]
  /\ UNCHANGED <<hubVars, drainEvents, broadcast, done, closed, named, frames,
                 runVars, drainVars, leaveVars>>

-----------------------------------------------------------------------------
(* readMessages *)

\* A username frame: authenticated clients keep their identity, the others may
\* take any name, "Anonymous" included.
ReadUsername(c) ==
  /\ conn[c] = "reading"
  /\ c \notin Authenticated
  /\ named' \in {named \cup {c}, named \ {c}}
  /\ UNCHANGED <<hubVars, drainEvents, broadcast, done, conn, closed, frames,
                 runVars, drainVars, leaveVars>>

\* A valid chat frame: it is saved (or not) and goes to publishContext.  Frames
\* already buffered can still be read from a closed connection.
ReadMessage(c) ==
  /\ conn[c] = "reading"
  /\ frames > 0
  /\ frames' = frames - 1
  /\ conn' = [conn EXCEPT ![c] = "publish"]
  /\ UNCHANGED <<hubVars, drainEvents, broadcast, done, closed, named, runVars,
                 drainVars, leaveVars>>

\* ReadJSON fails: peer gone, read deadline, protocol error, closed socket.
ReadError(c) ==
  /\ conn[c] = "reading"
  /\ conn' = [conn EXCEPT ![c] = "unregister"]
  /\ UNCHANGED <<hubVars, drainEvents, broadcast, done, closed, named, frames,
                 runVars, drainVars, leaveVars>>

\* writeMessages or startHeartbeat meets a write error and closes the client.
\* Before registration nothing is queued for writing.
WriteError(c) ==
  /\ conn[c] \notin {"absent", "upgraded", "rejected", "exited"}
  /\ c \notin closed
  /\ closed' = closed \cup {c}
  /\ UNCHANGED <<hubVars, drainEvents, broadcast, done, conn, named, frames,
                 runVars, drainVars, leaveVars>>

\* Mutant: the hand-over to the event loop is skipped when it is not ready.
UnregisterWithoutWaiting(c) ==
  /\ conn[c] = "unregister"
  /\ conn' = [conn EXCEPT ![c] = "notify"]
  /\ UNCHANGED <<hubVars, drainEvents, broadcast, done, closed, named, frames,
                 runVars, drainVars, leaveVars>>

\* unregisterClient, first select.
UnregisterCheck(c) ==
  /\ conn[c] = "unregister"
  /\ conn' = [conn EXCEPT ![c] = IF done THEN "notify" ELSE "unregisterSelect"]
  /\ UNCHANGED <<hubVars, drainEvents, broadcast, done, closed, named, frames,
                 runVars, drainVars, leaveVars>>

\* unregisterClient, second select, done closed (RunUnregister is the other case).
UnregisterStopped(c) ==
  /\ conn[c] = "unregisterSelect"
  /\ done
  /\ conn' = [conn EXCEPT ![c] = "notify"]
  /\ UNCHANGED <<hubVars, drainEvents, broadcast, done, closed, named, frames,
                 runVars, drainVars, leaveVars>>

\* Mutant: the membership test on drainPending is missing.
NotifyUncollected(c) ==
  /\ conn[c] = "notify"
  /\ Unlocked
  /\ finished' = finished \cup {c}
  /\ drainPending' = drainPending \ {c}
  /\ conn' = [conn EXCEPT ![c] = IF draining THEN "sendEvent" ELSE "close"]
  /\ UNCHANGED <<clients, draining, drainEvents, broadcast, done, closed, named,
                 frames, runVars, drainVars, leaveVars>>

\* notifyClientFinished up to the unlock.
NotifyClientFinished(c) ==
  /\ conn[c] = "notify"
  /\ Unlocked
  /\ finished' = finished \cup {c}
  /\ IF draining /\ c \in drainPending
       THEN /\ drainPending' = drainPending \ {c}
            /\ conn' = [conn EXCEPT ![c] = "sendEvent"]
       ELSE /\ conn' = [conn EXCEPT ![c] = "close"]
            /\ UNCHANGED drainPending
  /\ UNCHANGED <<clients, draining, drainEvents, broadcast, done, closed, named,
                 frames, runVars, drainVars, leaveVars>>

\* notifyClientFinished after the unlock: events <- client.
SendDrainEvent(c) ==
  /\ conn[c] = "sendEvent"
  /\ Len(drainEvents) < Cardinality(collected)
  /\ drainEvents' = Append(drainEvents, c)
  /\ conn' = [conn EXCEPT ![c] = "close"]
  /\ UNCHANGED <<hubVars, broadcast, done, closed, named, frames, runVars,
                 drainVars, leaveVars>>

\* The end of the deferred function of readMessages.
CloseAndExit(c) ==
  /\ conn[c] = "close"
  /\ closed' = closed \cup {c}
  /\ conn' = [conn EXCEPT ![c] = "exited"]
  /\ UNCHANGED <<hubVars, drainEvents, broadcast, done, named, frames, runVars,
                 drainVars, leaveVars>>

-----------------------------------------------------------------------------
(* disconnectClientLocked and queueLeaveNotification *)

\* Mutant: the queue has no bound.
QueueLeaveUnbounded(c) ==
  /\ worker' = IF worker = "off" THEN "select" ELSE worker
  /\ leaveQueue' = Append(leaveQueue, c)
  /\ leave' = [leave EXCEPT ![c] = "queued"]
  /\ UNCHANGED <<workerLoop, workerClient, leaveStop, leaveCancelled>>

\* Starts the worker on first use and never blocks: a full queue drops.
QueueLeaveNotification(c) ==
  /\ worker' = IF worker = "off" THEN "select" ELSE worker
  /\ IF Len(leaveQueue) < LeaveCap
       THEN /\ leaveQueue' = Append(leaveQueue, c)
            /\ leave' = [leave EXCEPT ![c] = "queued"]
       ELSE /\ leave' = [leave EXCEPT ![c] = "dropped"]
            /\ UNCHANGED leaveQueue
  /\ UNCHANGED <<workerLoop, workerClient, leaveStop, leaveCancelled>>

\* Mutant: the early return for a client that is no longer registered is missing.
DisconnectAnyClient(c) ==
  /\ clients' = clients \ {c}
  /\ finished' = finished \ {c}
  /\ closed' = closed \cup {c}
  /\ IF c \in named THEN QueueLeaveNotification(c)
                    ELSE UNCHANGED leaveVars

\* Mutant: the client is removed but not closed.
DisconnectWithoutClose(c) ==
  /\ UNCHANGED closed
  /\ IF c \in clients
       THEN /\ clients' = clients \ {c}
            /\ finished' = finished \ {c}
            /\ IF c \in named THEN QueueLeaveNotification(c)
                              ELSE UNCHANGED leaveVars
       ELSE UNCHANGED <<clients, finished, leaveVars>>

DisconnectClientLocked(c) ==
  IF c \in clients
    THEN /\ clients' = clients \ {c}
         /\ finished' = finished \ {c}
         /\ closed' = closed \cup {c}
         /\ IF c \in named THEN QueueLeaveNotification(c)
                           ELSE UNCHANGED leaveVars
    ELSE UNCHANGED <<clients, finished, closed, leaveVars>>

-----------------------------------------------------------------------------
(* run *)

RunStart ==
  /\ run = "new"
  /\ run' = "check"
  /\ UNCHANGED <<hubVars, drainEvents, broadcast, done, connVars, runRoom, todo,
                 drainVars, leaveVars>>

RunCheck ==
  /\ run = "check"
  /\ run' = IF done THEN "exited" ELSE "select"
  /\ UNCHANGED <<hubVars, drainEvents, broadcast, done, connVars, runRoom, todo,
                 drainVars, leaveVars>>

RunStopped ==
  /\ run = "select"
  /\ done
  /\ run' = "exited"
  /\ UNCHANGED <<hubVars, drainEvents, broadcast, done, connVars, runRoom, todo,
                 drainVars, leaveVars>>

\* unregister is unbuffered: the send of unregisterClient and the receive of
\* run are one step, after which both goroutines go on independently.
RunUnregister(c) ==
  /\ run = "select"
  /\ conn[c] = "unregisterSelect"
  /\ conn' = [conn EXCEPT ![c] = "notify"]
  /\ run' = "disconnect"
  /\ todo' = {c}
  /\ UNCHANGED <<hubVars, drainEvents, broadcast, done, closed, named, frames,
                 runRoom, drainVars, leaveVars>>

RunDisconnect(c) ==
  /\ run = "disconnect"
  /\ c \in todo
  /\ DisconnectClientLocked(c)
  /\ run' = "check"
  /\ todo' = {}
  /\ UNCHANGED <<draining, drainPending, drainEvents, broadcast, done, conn,
                 named, frames, runRoom, drainVars>>

RunReceive ==
  /\ run = "select"
  /\ broadcast # <<>>
  /\ runRoom' = Head(broadcast)
  /\ broadcast' = Tail(broadcast)
  /\ run' = "deliver"
  /\ UNCHANGED <<hubVars, drainEvents, done, connVars, todo, drainVars,
                 leaveVars>>

\* Takes the lock; todo is what the range over h.clients still has to visit
\* once the clients of other rooms are skipped.
RunLock ==
  /\ run = "deliver"
  /\ run' = "fanout"
  /\ todo' = {c \in clients : RoomOf[c] = runRoom}
  /\ runRoom' = None
  /\ UNCHANGED <<hubVars, drainEvents, broadcast, done, connVars, drainVars,
                 leaveVars>>

\* One client of the room: enqueue succeeds, or fails because the client is
\* closed or its queue is full and the client is disconnected.
RunDeliver(c) ==
  /\ run = "fanout"
  /\ c \in todo
  /\ todo' = todo \ {c}
  /\ \/ /\ c \notin closed
        /\ UNCHANGED <<clients, finished, closed, leaveVars>>
     \/ DisconnectClientLocked(c)
  /\ UNCHANGED <<draining, drainPending, drainEvents, broadcast, done, conn,
                 named, frames, run, runRoom, drainVars>>

RunUnlock ==
  /\ run = "fanout"
  /\ todo = {}
  /\ run' = "check"
  /\ UNCHANGED <<hubVars, drainEvents, broadcast, done, connVars, runRoom, todo,
                 drainVars, leaveVars>>

-----------------------------------------------------------------------------
(* Shutdown and drain *)

\* Mutant: clients whose read loop already ended are collected as well.
DrainStartCollectsAll ==
  /\ drain = "idle"
  /\ Unlocked
  /\ drain' = "closing"
  /\ draining' = TRUE
  /\ collected' = clients
  /\ drainPending' = clients
  /\ clients' = {}
  /\ UNCHANGED <<finished, drainEvents, broadcast, done, connVars, runVars,
                 pending, ctxDone, leaveErr, leaveVars>>

\* Mutant: the clients stay registered.
DrainStartKeepsClients ==
  /\ drain = "idle"
  /\ Unlocked
  /\ drain' = "closing"
  /\ draining' = TRUE
  /\ collected' = clients \ finished
  /\ finished' = finished \ clients
  /\ drainPending' = clients \ finished
  /\ UNCHANGED <<clients, drainEvents, broadcast, done, connVars, runVars,
                 pending, ctxDone, leaveErr, leaveVars>>

\* The locked part of drain.
DrainStart ==
  /\ drain = "idle"
  /\ Unlocked
  /\ drain' = "closing"
  /\ draining' = TRUE
  /\ collected' = clients \ finished
  /\ finished' = finished \ clients
  /\ drainPending' = clients \ finished
  /\ clients' = {}
  /\ UNCHANGED <<drainEvents, broadcast, done, connVars, runVars, pending,
                 ctxDone, leaveErr, leaveVars>>

\* closeForShutdown, run for all collected clients in parallel.
DrainClose(c) ==
  /\ drain = "closing"
  /\ c \in collected \ closed
  /\ closed' = closed \cup {c}
  /\ UNCHANGED <<hubVars, drainEvents, broadcast, done, conn, named, frames,
                 runVars, drainVars, leaveVars>>

\* Mutant: the wait begins without the connections being closed.
DrainWithoutClosing ==
  /\ drain = "closing"
  /\ drain' = "waiting"
  /\ pending' = collected
  /\ UNCHANGED <<hubVars, drainEvents, broadcast, done, connVars, runVars,
                 collected, ctxDone, leaveErr, leaveVars>>

\* closeGroup.Wait() returns; the wait for the read loops begins.
DrainClosed ==
  /\ drain = "closing"
  /\ collected \subseteq closed
  /\ drain' = "waiting"
  /\ pending' = collected
  /\ UNCHANGED <<hubVars, drainEvents, broadcast, done, connVars, runVars,
                 collected, ctxDone, leaveErr, leaveVars>>

DrainReceive ==
  /\ drain = "waiting"
  /\ pending # {}
  /\ drainEvents # <<>>
  /\ pending' = pending \ {Head(drainEvents)}
  /\ drainEvents' = Tail(drainEvents)
  /\ UNCHANGED <<hubVars, broadcast, done, connVars, runVars, drain, collected,
                 ctxDone, leaveErr, leaveVars>>

\* The loop ends because nothing remains, or the context expired; what is
\* still pending then are the forced closes.
DrainWaitOver ==
  /\ drain = "waiting"
  /\ pending = {} \/ ctxDone
  /\ drain' = "stop"
  /\ UNCHANGED <<hubVars, drainEvents, broadcast, done, connVars, runVars,
                 collected, pending, ctxDone, leaveErr, leaveVars>>

\* h.stop()
DrainStop ==
  /\ drain = "stop"
  /\ done' = TRUE
  /\ drain' = "stopLeave"
  /\ UNCHANGED <<hubVars, drainEvents, broadcast, connVars, runVars, collected,
                 pending, ctxDone, leaveErr, leaveVars>>

\* stopLeaveNotifications up to its select.
StopLeave ==
  /\ drain = "stopLeave"
  /\ IF worker = "off"
       THEN drain' = "awaitRun" /\ UNCHANGED leaveStop
       ELSE drain' = "leaveWait" /\ leaveStop' = TRUE
  /\ UNCHANGED <<hubVars, drainEvents, broadcast, done, connVars, runVars,
                 collected, pending, ctxDone, leaveErr, worker, workerLoop,
                 workerClient, leaveQueue, leaveCancelled, leave>>

\* context.AfterFunc(ctx, h.leaveCancel) while stopLeaveNotifications waits.
LeaveDeadline ==
  /\ drain = "leaveWait"
  /\ ctxDone /\ ~leaveCancelled
  /\ leaveCancelled' = TRUE
  /\ UNCHANGED <<hubVars, drainEvents, broadcast, done, connVars, runVars,
                 drainVars, worker, workerLoop, workerClient, leaveQueue,
                 leaveStop, leave>>

\* Mutant: the expired context is not reported.
LeaveStoppedQuietly ==
  /\ drain = "leaveWait"
  /\ worker = "done" \/ ctxDone
  /\ leaveErr' = FALSE
  /\ leaveCancelled' = TRUE
  /\ drain' = "awaitRun"
  /\ UNCHANGED <<hubVars, drainEvents, broadcast, done, connVars, runVars,
                 collected, pending, ctxDone, worker, workerLoop, workerClient,
                 leaveQueue, leaveStop, leave>>

\* stopLeaveNotifications returns.
LeaveStopped ==
  /\ drain = "leaveWait"
  /\ worker = "done" \/ ctxDone
  /\ leaveErr' = ctxDone
  /\ leaveCancelled' = TRUE
  /\ drain' = "awaitRun"
  /\ UNCHANGED <<hubVars, drainEvents, broadcast, done, connVars, runVars,
                 collected, pending, ctxDone, worker, workerLoop, workerClient,
                 leaveQueue, leaveStop, leave>>

\* <-h.runDone, skipped when run has not started.
DrainReturn ==
  /\ drain = "awaitRun"
  /\ run \in {"new", "exited"}
  /\ drain' = "returned"
  /\ UNCHANGED <<hubVars, drainEvents, broadcast, done, connVars, runVars,
                 collected, pending, ctxDone, leaveErr, leaveVars>>

\* The 30-second shutdown context of main expires.
Deadline ==
  /\ drain \notin {"idle", "returned"}
  /\ ~ctxDone
  /\ ctxDone' = TRUE
  /\ UNCHANGED <<hubVars, drainEvents, broadcast, done, connVars, runVars,
                 drain, collected, pending, leaveErr, leaveVars>>

-----------------------------------------------------------------------------
(* runLeaveNotifications *)

\* Takes the next notification from the queue.
WorkerTake ==
  /\ workerClient' = Head(leaveQueue)
  /\ leaveQueue' = Tail(leaveQueue)
  /\ worker' = "save"

\* Mutant: leaveStop ends the worker at once.
WorkerStopsAtOnce ==
  /\ worker = "select"
  /\ \/ /\ leaveQueue # <<>>
        /\ WorkerTake
     \/ /\ leaveStop
        /\ worker' = "done"
        /\ UNCHANGED <<workerClient, leaveQueue>>
  /\ UNCHANGED <<hubVars, drainEvents, broadcast, done, connVars, runVars,
                 drainVars, workerLoop, leaveStop, leaveCancelled, leave>>

\* The outer select: next notification, or leaveStop.
WorkerSelect ==
  /\ worker = "select"
  /\ \/ /\ leaveQueue # <<>>
        /\ WorkerTake
        /\ UNCHANGED workerLoop
     \/ /\ leaveStop
        /\ worker' = "drain"
        /\ workerLoop' = "drain"
        /\ UNCHANGED <<workerClient, leaveQueue>>
  /\ UNCHANGED <<hubVars, drainEvents, broadcast, done, connVars, runVars,
                 drainVars, leaveStop, leaveCancelled, leave>>

\* The inner loop after leaveStop: stop when cancelled or empty.
WorkerDrain ==
  /\ worker = "drain"
  /\ IF leaveCancelled \/ leaveQueue = <<>>
       THEN worker' = "done" /\ UNCHANGED <<workerClient, leaveQueue>>
       ELSE WorkerTake
  /\ UNCHANGED <<hubVars, drainEvents, broadcast, done, connVars, runVars,
                 drainVars, workerLoop, leaveStop, leaveCancelled, leave>>

\* saveMessageObservedInRoomContext: storage accepted or refused it ("stored"
\* stands for both, what follows is the same), or, only when leaveCtx was
\* cancelled, the call was abandoned.
WorkerSave ==
  /\ worker = "save"
  /\ \/ leave' = [leave EXCEPT ![workerClient] = "stored"]
     \/ /\ leaveCancelled
        /\ leave' = [leave EXCEPT ![workerClient] = "cancelled"]
  /\ worker' = "publish"
  /\ UNCHANGED <<hubVars, drainEvents, broadcast, done, connVars, runVars,
                 drainVars, workerLoop, workerClient, leaveQueue, leaveStop,
                 leaveCancelled>>

\* publishContext of the notification, whether or not it was saved.
WorkerPublishCheck ==
  /\ worker = "publish"
  /\ IF done THEN worker' = workerLoop /\ workerClient' = None
             ELSE worker' = "publishSelect" /\ UNCHANGED workerClient
  /\ UNCHANGED <<hubVars, drainEvents, broadcast, done, connVars, runVars,
                 drainVars, workerLoop, leaveQueue, leaveStop, leaveCancelled,
                 leave>>

WorkerPublish ==
  /\ worker = "publishSelect"
  /\ \/ CanPublish /\ Enqueue(RoomOf[workerClient])
     \/ done /\ UNCHANGED broadcast
  /\ worker' = workerLoop
  /\ workerClient' = None
  /\ UNCHANGED <<hubVars, drainEvents, done, connVars, runVars, drainVars,
                 workerLoop, leaveQueue, leaveStop, leaveCancelled, leave>>

-----------------------------------------------------------------------------
(* The specification *)

\* Every goroutine has ended.
Quiescent ==
  /\ drain = "returned"
  /\ run = "exited"
  /\ worker \in {"off", "done"}
  /\ \A c \in Clients : conn[c] \in {"absent", "rejected", "exited"}

\* The process ends once every goroutine has.
Terminated == Quiescent /\ UNCHANGED vars

\* Steps of the goroutine that serves a client, the peer's choices left out.
ConnStep(c) ==
  \/ RegisterClient(c)
  \/ PublishCheck(c)
  \/ PublishQueued(c)
  \/ PublishStopped(c)
  \/ UnregisterCheck(c)
  \/ UnregisterStopped(c)
  \/ NotifyClientFinished(c)
  \/ SendDrainEvent(c)
  \/ CloseAndExit(c)

\* What the peer or the network does.
PeerStep(c) ==
  \/ ServeWs(c)
  \/ ReadUsername(c)
  \/ ReadMessage(c)
  \/ ReadError(c)
  \/ WriteError(c)

RunStep ==
  \/ RunStart
  \/ RunCheck
  \/ RunStopped
  \/ RunReceive
  \/ RunLock
  \/ RunUnlock
  \/ \E c \in Clients : RunUnregister(c) \/ RunDisconnect(c) \/ RunDeliver(c)

DrainStep ==
  \/ DrainClosed
  \/ DrainReceive
  \/ DrainWaitOver
  \/ DrainStop
  \/ StopLeave
  \/ LeaveStopped
  \/ DrainReturn
  \/ \E c \in Clients : DrainClose(c)

WorkerStep ==
  \/ WorkerSelect
  \/ WorkerDrain
  \/ WorkerSave
  \/ WorkerPublishCheck
  \/ WorkerPublish

Next ==
  \/ \E c \in Clients : ConnStep(c) \/ PeerStep(c)
  \/ RunStep
  \/ DrainStart
  \/ DrainStep
  \/ Deadline
  \/ LeaveDeadline
  \/ WorkerStep
  \/ Terminated

Spec == Init /\ [][Next]_vars

\* Goroutines that can run do run; a read on a closed socket returns an error
\* once the frames already buffered are consumed; storage calls end, because
\* storageOperationTimeout bounds them.  Nothing is assumed of the peers, of
\* the arrival of the shutdown signal, or of the deadline.
Fairness ==
  /\ \A c \in Clients :
       WF_vars(ConnStep(c) \/ (c \in closed /\ ReadError(c)))
  /\ WF_vars(RunStep)
  /\ WF_vars(DrainStep)
  /\ WF_vars(WorkerStep)

FairSpec == Spec /\ Fairness

-----------------------------------------------------------------------------
(* Correctness properties *)

\* States of a goroutine that serves a registered client and has not yet given
\* the client up.
Serving == {"join", "joinSelect", "reading", "publish", "publishSelect",
            "unregister", "unregisterSelect"}

\* Clients whose completion is on its way to the drain: marked as pending and
\* with notifyClientFinished still ahead, about to send on drainEvents, or sent
\* and not received.
Awaited ==
  {c \in drainPending : conn[c] \in Serving \cup {"notify"}}
    \cup {c \in Clients : conn[c] = "sendEvent"}
    \cup Range(drainEvents)

\* No completion is lost between drain and notifyClientFinished: from the moment
\* the drain has collected the clients, those it waits for are exactly those
\* whose completion is still on its way, so the wait can neither miss a read
\* loop nor hang on one that already ended.
NoLostWakeup ==
  Awaited = IF drain = "closing" THEN collected ELSE pending

\* The send on drainEvents at the end of notifyClientFinished never blocks: the
\* channel made by drain has a slot for every collected client and each of them
\* sends at most once, even after the drain stopped receiving at the deadline.
DrainSendNeverBlocks ==
  \A c \in Clients :
    conn[c] = "sendEvent" => Len(drainEvents) < Cardinality(collected)

\* A read loop that has left the hub does not stay registered: when it is past
\* unregisterClient and its client is still in Hub.clients, the event loop has
\* received exactly that client and is about to disconnect it.
NoGhostClient ==
  \A c \in clients :
    conn[c] \in {"notify", "sendEvent", "close", "exited"} =>
      run = "disconnect" /\ todo = {c}

\* No connection escapes the hub: a client that is being served is registered,
\* or collected by the drain, or already closed.  Registration races with the
\* start of the drain, and slow-client removal with both.
NoForgottenClient ==
  \A c \in Clients :
    conn[c] \in Serving => c \in clients \cup collected \cup closed

\* A client is never announced as having left while it is registered, and one
\* that the shutdown itself disconnects is not announced at all, although its
\* read loop goes through unregisterClient like any other.
NoEarlyLeave == \A c \in clients \cup collected : leave[c] = "none"

\* A client is announced as having left at most once, whether the fan-out, its own
\* read loop or both disconnect it: a notification is queued or dropped once and
\* a queued one is handled once.
LeaveAnnouncedOnce ==
  [][\A c \in Clients :
       leave'[c] # leave[c] =>
         \/ leave[c] = "none" /\ leave'[c] \in {"queued", "dropped"}
         \/ leave[c] = "queued" /\ leave'[c] \in {"stored", "cancelled"}]_vars

\* Shutdown returned nil.
CleanShutdown == drain = "returned" /\ pending = {} /\ ~leaveErr

\* What a nil error of Shutdown promises: every collected client's read loop has
\* reported its end, every leave notification accepted into the queue was
\* handed to storage and none was abandoned, and neither the event loop nor the
\* leave worker is still at work.
CleanShutdownIsComplete ==
  CleanShutdown =>
    /\ \A c \in collected : conn[c] \in {"close", "exited"}
    /\ \A c \in Clients : leave[c] \notin {"queued", "cancelled"}
    /\ run \in {"new", "check", "exited"}
    /\ worker \in {"off", "done"}

\* Once a shutdown starts, Shutdown returns and every goroutine of the hub ends,
\* whether or not the context ever expires.  The drain waits for read loops that
\* wait for the event loop, which contends for the mutex they need; publishers
\* wait on a full broadcast channel and the worker on a cancelled storage call.
AllGoroutinesExit == draining ~> Quiescent

\* Accepted leave notifications are all handed to storage unless the shutdown
\* deadline passes first: the worker never stops with work in its queue.
LeavesAreHandled ==
  (\E c \in Clients : leave[c] = "queued") ~>
    ((\A c \in Clients : leave[c] # "queued") \/ ctxDone)

\* ARCHITECTURE.md and ADR 7 say that the hub waits for each client's read loop
\* before the shutdown context expires: after a nil Shutdown no read loop is
\* reading or handling a message.
DrainWaitsForReadLoops ==
  CleanShutdown => \A c \in Clients : conn[c] \notin Serving
=============================================================================
