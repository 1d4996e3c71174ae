----------------------------- MODULE HubProofs -----------------------------
(***************************************************************************)
(* Proofs about Hub, for any finite set of clients, any rooms and any      *)
(* channel capacities.  The invariants are layered: each uses the ones     *)
(* before it.                                                              *)
(***************************************************************************)
EXTENDS Hub, QueueLemmas

\* The types of the variables that are not flags; the provers handle Boolean
\* variables and arithmetic separately.
DataTypes ==
  /\ HubTypes
  /\ ChannelTypes
  /\ ConnTypes
  /\ RunTypes
  /\ DrainTypes
  /\ LeaveTypes

\* The hub that newHub builds is well typed.
LEMMA InitTypes == Init => TypeOK
<1> SUFFICES ASSUME Init
             PROVE  TypeOK
  OBVIOUS
<1> USE ConstantsAssumption DEF Init
<1>1. HubTypes
  BY DEF HubTypes
<1>2. ChannelTypes
  BY DEF ChannelTypes
<1>3. ConnTypes
  BY DEF ConnTypes, ConnStates
<1>4. RunTypes
  BY DEF RunTypes, RunStates
<1>5. DrainTypes
  BY DEF DrainTypes, DrainStates
<1>6. LeaveTypes
  BY DEF LeaveTypes, LeaveStates, WorkerStates
<1>7. FlagTypes
  BY DEF FlagTypes
<1>8. QED
  BY <1>1, <1>2, <1>3, <1>4, <1>5, <1>6, <1>7 DEF TypeOK

\* A step of a client goroutine (registerClient, publishContext, the deferred
\* end of readMessages) keeps the data types.
LEMMA ConnStepTypes ==
  ASSUME DataTypes, NEW c \in Clients, ConnStep(c)
  PROVE  DataTypes'
<1> USE ConstantsAssumption
    DEF DataTypes, HubTypes, ChannelTypes, ConnTypes, RunTypes, DrainTypes,
        LeaveTypes, ConnStates, hubVars, connVars, runVars, drainVars,
        leaveVars
<1>1. CASE RegisterClient(c)
  BY <1>1 DEF RegisterClient
<1>2. CASE PublishCheck(c)
  BY <1>2 DEF PublishCheck, NotPublished
<1>3. CASE PublishQueued(c)
  BY <1>3 DEF PublishQueued, Enqueue, CanPublish
<1>4. CASE PublishStopped(c)
  BY <1>4 DEF PublishStopped, NotPublished
<1>5. CASE UnregisterCheck(c)
  BY <1>5 DEF UnregisterCheck
<1>6. CASE UnregisterStopped(c)
  BY <1>6 DEF UnregisterStopped
<1>7. CASE NotifyClientFinished(c)
  BY <1>7 DEF NotifyClientFinished
<1>8. CASE SendDrainEvent(c)
  BY <1>8 DEF SendDrainEvent
<1>9. CASE CloseAndExit(c)
  BY <1>9 DEF CloseAndExit
<1>10. QED
  BY <1>1, <1>2, <1>3, <1>4, <1>5, <1>6, <1>7, <1>8, <1>9 DEF ConnStep

\* What a peer does (connect, send a frame, go away) keeps the data types.
LEMMA PeerStepTypes ==
  ASSUME DataTypes, NEW c \in Clients, PeerStep(c)
  PROVE  DataTypes'
<1> USE ConstantsAssumption
    DEF DataTypes, HubTypes, ChannelTypes, ConnTypes, RunTypes, DrainTypes,
        LeaveTypes, ConnStates, hubVars, connVars, runVars, drainVars,
        leaveVars
<1>1. CASE ServeWs(c)
  BY <1>1 DEF ServeWs
<1>2. CASE ReadUsername(c)
  BY <1>2 DEF ReadUsername
<1>3. CASE ReadMessage(c)
  BY <1>3 DEF ReadMessage
<1>4. CASE ReadError(c)
  BY <1>4 DEF ReadError
<1>5. CASE WriteError(c)
  BY <1>5 DEF WriteError
<1>6. QED
  BY <1>1, <1>2, <1>3, <1>4, <1>5 DEF PeerStep

\* disconnectClientLocked keeps the types of what it writes: the leave queue
\* stays within leaveNotificationQueueSize.
LEMMA DisconnectTypes ==
  ASSUME HubTypes, ConnTypes, LeaveTypes, NEW c \in Clients,
         DisconnectClientLocked(c)
  PROVE  /\ clients' \subseteq Clients
         /\ finished' \subseteq Clients
         /\ closed' \subseteq Clients
         /\ LeaveTypes'
<1> USE ConstantsAssumption DEF DisconnectClientLocked, HubTypes, ConnTypes
<1>1. clients' \subseteq Clients /\ finished' \subseteq Clients
      /\ closed' \subseteq Clients
  OBVIOUS
<1>2. CASE UNCHANGED leaveVars
  BY <1>1, <1>2 DEF leaveVars, LeaveTypes
<1>3. CASE QueueLeaveNotification(c)
  BY <1>1, <1>3 DEF QueueLeaveNotification, LeaveTypes, WorkerStates,
                    LeaveStates
<1>4. QED
  BY <1>2, <1>3 DEF leaveVars

\* A step of the event loop keeps the data types.
LEMMA RunStepTypes ==
  ASSUME DataTypes, RunStep
  PROVE  DataTypes'
<1> USE ConstantsAssumption DEF DataTypes
<1>1. CASE RunStart \/ RunCheck \/ RunStopped \/ RunLock \/ RunUnlock
  BY <1>1 DEF RunStart, RunCheck, RunStopped, RunLock, RunUnlock, RunTypes,
     RunStates, HubTypes, ChannelTypes, ConnTypes, DrainTypes, LeaveTypes,
     hubVars, connVars, drainVars, leaveVars
<1>2. CASE RunReceive
  BY <1>2 DEF RunReceive, RunTypes, RunStates, HubTypes, ChannelTypes,
     ConnTypes, DrainTypes, LeaveTypes, hubVars, connVars, drainVars,
     leaveVars
<1>3. ASSUME NEW c \in Clients, RunUnregister(c)
      PROVE  DataTypes'
  BY <1>3 DEF RunUnregister, RunTypes, RunStates, HubTypes, ChannelTypes,
     ConnTypes, ConnStates, DrainTypes, LeaveTypes, hubVars, connVars,
     drainVars, leaveVars
<1>4. ASSUME NEW c \in Clients, RunDisconnect(c)
      PROVE  DataTypes'
  <2>1. DisconnectClientLocked(c)
    BY <1>4 DEF RunDisconnect
  <2>2. QED
    BY <1>4, <2>1, DisconnectTypes DEF RunDisconnect, RunTypes, RunStates,
       HubTypes, ChannelTypes, ConnTypes, DrainTypes, drainVars
<1>5. ASSUME NEW c \in Clients, RunDeliver(c)
      PROVE  DataTypes'
  <2>1. CASE DisconnectClientLocked(c)
    BY <1>5, <2>1, DisconnectTypes DEF RunDeliver, RunTypes, RunStates,
       HubTypes, ChannelTypes, ConnTypes, DrainTypes, drainVars
  <2>2. CASE UNCHANGED <<clients, finished, closed, leaveVars>>
    BY <1>5, <2>2 DEF RunDeliver, RunTypes, RunStates, HubTypes, ChannelTypes,
       ConnTypes, DrainTypes, LeaveTypes, drainVars, leaveVars
  <2>3. QED
    BY <1>5, <2>1, <2>2 DEF RunDeliver
<1>6. QED
  BY <1>1, <1>2, <1>3, <1>4, <1>5 DEF RunStep

\* A step of the drain, or a deadline, keeps the data types.
LEMMA DrainStepTypes ==
  ASSUME DataTypes, DrainStart \/ DrainStep \/ Deadline \/ LeaveDeadline
  PROVE  DataTypes'
<1> USE ConstantsAssumption
    DEF DataTypes, HubTypes, ChannelTypes, ConnTypes, RunTypes, DrainTypes,
        DrainStates, LeaveTypes, hubVars, connVars, runVars, drainVars,
        leaveVars
<1>1. CASE DrainStart
  BY <1>1 DEF DrainStart
<1>2. CASE DrainReceive
  BY <1>2 DEF DrainReceive
<1>3. CASE DrainClosed \/ DrainWaitOver \/ DrainStop \/ DrainReturn
  BY <1>3 DEF DrainClosed, DrainWaitOver, DrainStop, DrainReturn
<1>4. CASE StopLeave
  BY <1>4 DEF StopLeave
<1>5. CASE LeaveStopped
  BY <1>5 DEF LeaveStopped
<1>6. CASE \E c \in Clients : DrainClose(c)
  BY <1>6 DEF DrainClose
<1>7. CASE Deadline \/ LeaveDeadline
  BY <1>7 DEF Deadline, LeaveDeadline
<1>8. QED
  BY <1>1, <1>2, <1>3, <1>4, <1>5, <1>6, <1>7 DEF DrainStep

\* A step of the leave worker keeps the data types; it holds a client whenever
\* it saves or publishes.
LEMMA WorkerStepTypes ==
  ASSUME DataTypes, WorkerStep
  PROVE  DataTypes'
<1>1. HubTypes' /\ ConnTypes' /\ RunTypes' /\ DrainTypes'
  BY DEF DataTypes, WorkerStep, WorkerSelect, WorkerDrain, WorkerSave,
     WorkerPublishCheck, WorkerPublish, HubTypes, ConnTypes, RunTypes,
     DrainTypes, hubVars, connVars, runVars, drainVars
<1>2. ChannelTypes'
  <2>1. CASE UNCHANGED <<drainEvents, broadcast>>
    BY <2>1 DEF DataTypes, ChannelTypes
  <2>2. CASE WorkerPublish /\ CanPublish /\ Enqueue(RoomOf[workerClient])
    <3>1. RoomOf[workerClient] \in Rooms /\ drainEvents' = drainEvents
      BY <2>2, ConstantsAssumption DEF DataTypes, LeaveTypes, WorkerPublish
    <3>2. QED
      BY <2>2, <3>1, ConstantsAssumption
         DEF DataTypes, ChannelTypes, CanPublish, Enqueue
  <2>3. QED
    BY <2>1, <2>2 DEF WorkerStep, WorkerSelect, WorkerDrain, WorkerSave,
       WorkerPublishCheck, WorkerPublish
<1>3. LeaveTypes'
  <2> USE DEF DataTypes, LeaveTypes, WorkerStates, LeaveStates
  <2>1. CASE WorkerTake /\ leaveQueue # <<>> /\ UNCHANGED leave
             /\ workerLoop' \in {"select", "drain"}
    BY <2>1, ConstantsAssumption DEF WorkerTake
  <2>2. CASE WorkerSelect
    BY <2>1, <2>2 DEF WorkerSelect
  <2>3. CASE WorkerDrain
    BY <2>1, <2>3 DEF WorkerDrain
  <2>4. CASE WorkerSave
    BY <2>4 DEF WorkerSave
  <2>5. CASE WorkerPublishCheck
    BY <2>5 DEF WorkerPublishCheck
  <2>6. CASE WorkerPublish
    BY <2>6 DEF WorkerPublish
  <2>7. QED
    BY <2>2, <2>3, <2>4, <2>5, <2>6 DEF WorkerStep
<1>4. QED
  BY <1>1, <1>2, <1>3 DEF DataTypes

\* Every step keeps the flags Boolean.
LEMMA FlagStepTypes ==
  ASSUME FlagTypes, Next
  PROVE  FlagTypes'
<1> USE DEF FlagTypes, hubVars, connVars, runVars, drainVars, leaveVars
<1>1. ASSUME NEW c \in Clients, ConnStep(c)
      PROVE  FlagTypes'
  BY <1>1 DEF ConnStep, RegisterClient, PublishCheck, PublishQueued,
     PublishStopped, UnregisterCheck, UnregisterStopped, NotifyClientFinished,
     SendDrainEvent, CloseAndExit
<1>2. ASSUME NEW c \in Clients, PeerStep(c)
      PROVE  FlagTypes'
  BY <1>2 DEF PeerStep, ServeWs, ReadUsername, ReadMessage, ReadError,
     WriteError
<1>3. CASE RunStep
  <2>1. UNCHANGED <<draining, done, ctxDone, leaveErr>>
    BY <1>3 DEF RunStep, RunStart, RunCheck, RunStopped, RunReceive, RunLock,
       RunUnlock, RunUnregister, RunDisconnect, RunDeliver
  <2>2. ASSUME NEW c \in Clients, DisconnectClientLocked(c)
        PROVE  UNCHANGED <<leaveStop, leaveCancelled>>
    BY <2>2 DEF DisconnectClientLocked, QueueLeaveNotification
  <2>3. UNCHANGED <<leaveStop, leaveCancelled>>
    BY <1>3, <2>2 DEF RunStep, RunStart, RunCheck, RunStopped, RunReceive,
       RunLock, RunUnlock, RunUnregister, RunDisconnect, RunDeliver
  <2>4. QED
    BY <2>1, <2>3
<1>4. CASE DrainStart \/ DrainStep \/ Deadline \/ LeaveDeadline
  <2>1. CASE DrainStart \/ Deadline \/ LeaveDeadline
    BY <2>1 DEF DrainStart, Deadline, LeaveDeadline
  <2>2. CASE DrainClosed \/ DrainReceive \/ DrainWaitOver \/ DrainReturn
             \/ \E c \in Clients : DrainClose(c)
    BY <2>2 DEF DrainClosed, DrainReceive, DrainWaitOver, DrainReturn, DrainClose
  <2>3. CASE DrainStop \/ StopLeave \/ LeaveStopped
    BY <2>3 DEF DrainStop, StopLeave, LeaveStopped
  <2>4. QED
    BY <1>4, <2>1, <2>2, <2>3 DEF DrainStep
<1>5. CASE WorkerStep
  BY <1>5 DEF WorkerStep, WorkerSelect, WorkerDrain, WorkerSave,
     WorkerPublishCheck, WorkerPublish
<1>6. CASE Terminated
  BY <1>6 DEF Terminated, vars
<1>7. QED
  BY <1>1, <1>2, <1>3, <1>4, <1>5, <1>6 DEF Next

\* Every step keeps the type invariant.
LEMMA TypesStep ==
  ASSUME TypeOK, [Next]_vars
  PROVE  TypeOK'
<1>1. DataTypes /\ FlagTypes
  BY DEF TypeOK, DataTypes
<1>2. CASE UNCHANGED vars
  BY <1>2 DEF TypeOK, HubTypes, ChannelTypes, ConnTypes, RunTypes, DrainTypes,
     LeaveTypes, FlagTypes, vars, hubVars, connVars, runVars, drainVars,
     leaveVars
<1>3. CASE Next
  <2>1. DataTypes' \/ Terminated
    BY <1>1, <1>3, ConnStepTypes, PeerStepTypes, RunStepTypes, DrainStepTypes,
       WorkerStepTypes DEF Next
  <2>2. FlagTypes'
    BY <1>1, <1>3, FlagStepTypes
  <2>3. QED
    BY <1>2, <2>1, <2>2 DEF TypeOK, DataTypes, Terminated
<1>4. QED
  BY <1>2, <1>3

-----------------------------------------------------------------------------
(* The inductive invariants, each proved with the help of those above it.    *)

\* The phases of the drain and what they fix: who is registered, whether the
\* hub is stopped, and that nothing is pending before the drain.
LifecycleInv ==
  /\ draining <=> drain # "idle"
  /\ drain # "idle" => clients = {}
  /\ done <=> drain \in {"stopLeave", "leaveWait", "awaitRun", "returned"}
  /\ drain = "idle" =>
       /\ collected = {} /\ pending = {} /\ drainPending = {}
       /\ drainEvents = <<>>
       /\ \A c \in Clients : conn[c] # "sendEvent"
  /\ drain = "returned" => run \in {"new", "check", "exited"}

\* How registration relates to the progress of the read loops.
RegistrationInv ==
  /\ \A c \in finished : conn[c] \in {"sendEvent", "close", "exited"}
  /\ \A c \in clients : conn[c] \notin {"absent", "upgraded", "rejected"}
  /\ \A c \in clients :
       conn[c] \in {"sendEvent", "close", "exited"} => c \in finished
  /\ NoGhostClient
  /\ NoForgottenClient

\* The hand-over between the drain and the read loops it waits for.
DrainInv ==
  /\ NoLostWakeup
  /\ \A c \in drainPending : conn[c] \in Serving \cup {"notify"}
  /\ \A c \in Range(drainEvents) : conn[c] \in {"close", "exited"}
  /\ IsInjective(drainEvents)
  /\ Awaited \subseteq collected
  /\ \A c \in collected \ Awaited : conn[c] \in {"close", "exited"}

\* Where every leave notification is.
LeaveQueueInv ==
  /\ NoEarlyLeave
  /\ IsInjective(leaveQueue)
  /\ \A c \in Range(leaveQueue) : leave[c] = "queued"
  /\ \A c \in Clients : conn[c] \in {"absent", "upgraded"} => leave[c] = "none"
  /\ \A c \in Clients :
       leave[c] = "queued" =>
         c \in Range(leaveQueue) \/ (worker = "save" /\ workerClient = c)
  /\ worker = "save" => /\ workerClient \notin Range(leaveQueue)
                        /\ leave[workerClient] = "queued"

\* When the worker may stop, and what it leaves behind.
LeaveStopInv ==
  /\ worker = "off" => leaveQueue = <<>>
  /\ leaveStop => drain \in {"leaveWait", "awaitRun", "returned"}
  /\ worker \in {"drain", "done"} \/ workerLoop = "drain" => leaveStop
  /\ leaveCancelled =>
       /\ ctxDone \/ worker = "done"
       /\ drain \in {"leaveWait", "awaitRun", "returned"}
  /\ worker = "done" /\ ~ctxDone => leaveQueue = <<>>
  /\ drain \in {"awaitRun", "returned"} /\ ~leaveErr =>
       worker \in {"off", "done"} /\ leaveQueue = <<>>
  /\ \A c \in Clients :
       leave[c] = "cancelled" =>
         /\ ctxDone /\ leaveCancelled
         /\ drain \in {"awaitRun", "returned"} => leaveErr

LeaveInv == LeaveQueueInv /\ LeaveStopInv

\* A new hub has no connection, no drain and no leave worker.
LEMMA LifecycleInit == Init => LifecycleInv
  BY DEF Init, LifecycleInv

\* No step takes the drain, the event loop and the connections out of step
\* with the flags draining and done.
LEMMA LifecycleStep ==
  ASSUME TypeOK, LifecycleInv, [Next]_vars
  PROVE  LifecycleInv'
<1> USE DEF LifecycleInv
<1> conn \in [Clients -> ConnStates]
  BY DEF TypeOK, ConnTypes
<1>1. ASSUME NEW c \in Clients, ConnStep(c)
      PROVE  LifecycleInv'
  <2>1. CASE NotifyClientFinished(c)
    BY <2>1 DEF NotifyClientFinished, runVars, drainVars
  <2>2. CASE SendDrainEvent(c)
    BY <2>2 DEF SendDrainEvent, hubVars, runVars, drainVars
  <2>3. CASE RegisterClient(c)
    BY <2>3 DEF RegisterClient, runVars, drainVars
  <2>4. CASE \/ PublishCheck(c) \/ PublishQueued(c) \/ PublishStopped(c)
             \/ UnregisterCheck(c) \/ UnregisterStopped(c) \/ CloseAndExit(c)
    <3>1. conn' \in [Clients -> ConnStates] /\ conn'[c] # "sendEvent"
          /\ \A d \in Clients \ {c} : conn'[d] = conn[d]
      BY <2>4 DEF PublishCheck, PublishQueued, PublishStopped, NotPublished,
         UnregisterCheck, UnregisterStopped, CloseAndExit, ConnStates
    <3>2. UNCHANGED <<hubVars, drainEvents, done, runVars, drainVars>>
      BY <2>4 DEF PublishCheck, PublishQueued, PublishStopped,
         UnregisterCheck, UnregisterStopped, CloseAndExit
    <3>3. QED
      BY <3>1, <3>2 DEF hubVars, runVars, drainVars
  <2>5. QED
    BY <1>1, <2>1, <2>2, <2>3, <2>4 DEF ConnStep
<1>2. ASSUME NEW c \in Clients, PeerStep(c)
      PROVE  LifecycleInv'
  <2>1. conn' \in [Clients -> ConnStates]
        /\ \A d \in Clients : conn'[d] = conn[d] \/ conn'[d] # "sendEvent"
    BY <1>2 DEF PeerStep, ServeWs, ReadUsername, ReadMessage, ReadError,
       WriteError, ConnStates
  <2>2. UNCHANGED <<hubVars, drainEvents, done, runVars, drainVars>>
    BY <1>2 DEF PeerStep, ServeWs, ReadUsername, ReadMessage, ReadError,
       WriteError
  <2>3. QED
    BY <2>1, <2>2 DEF hubVars, runVars, drainVars
<1>3. CASE RunStep
  <2>1. /\ UNCHANGED <<draining, drainPending, drainEvents, done, drainVars>>
        /\ clients' \subseteq clients
    BY <1>3 DEF RunStep, RunStart, RunCheck, RunStopped, RunReceive, RunLock,
       RunUnlock, RunUnregister, RunDisconnect, RunDeliver, hubVars,
       DisconnectClientLocked
  <2>2. \A d \in Clients : conn'[d] = conn[d] \/ conn'[d] # "sendEvent"
    BY <1>3 DEF RunStep, RunStart, RunCheck, RunStopped, RunReceive, RunLock,
       RunUnlock, RunUnregister, RunDisconnect, RunDeliver, connVars
  <2>3. done /\ run \in {"new", "check", "exited"} =>
          run' \in {"new", "check", "exited"}
    BY <1>3 DEF RunStep, RunStart, RunCheck, RunStopped, RunReceive, RunLock,
       RunUnlock, RunUnregister, RunDisconnect, RunDeliver
  <2>4. QED
    BY <2>1, <2>2, <2>3 DEF drainVars
<1>4. CASE DrainStart
  BY <1>4 DEF DrainStart, connVars, runVars
<1>5. CASE DrainStep \/ Deadline \/ LeaveDeadline
  <2>1. CASE (\E c \in Clients : DrainClose(c)) \/ Deadline \/ LeaveDeadline
    BY <2>1 DEF DrainClose, Deadline, LeaveDeadline, hubVars, connVars, runVars,
       drainVars
  <2>2. CASE DrainClosed \/ DrainReceive \/ DrainWaitOver
    BY <2>2 DEF DrainClosed, DrainReceive, DrainWaitOver, hubVars, connVars,
       runVars
  <2>3. CASE DrainStop \/ DrainReturn
    BY <2>3 DEF DrainStop, DrainReturn, hubVars, connVars, runVars
  <2>4. CASE StopLeave \/ LeaveStopped
    BY <2>4 DEF StopLeave, LeaveStopped, hubVars, connVars, runVars
  <2>5. QED
    BY <1>5, <2>1, <2>2, <2>3, <2>4 DEF DrainStep
<1>6. CASE WorkerStep
  <2>1. UNCHANGED <<hubVars, drainEvents, done, connVars, runVars, drainVars>>
    BY <1>6 DEF WorkerStep, WorkerSelect, WorkerDrain, WorkerSave,
       WorkerPublishCheck, WorkerPublish
  <2>2. QED
    BY <2>1 DEF hubVars, connVars, runVars, drainVars
<1>7. CASE UNCHANGED vars
  BY <1>7 DEF vars, hubVars, connVars, runVars, drainVars
<1>8. QED
  BY <1>1, <1>2, <1>3, <1>4, <1>5, <1>6, <1>7 DEF Next, Terminated

\* A new hub has no registered client.
LEMMA RegistrationInit == Init => RegistrationInv
  BY DEF Init, RegistrationInv, NoGhostClient, NoForgottenClient, Serving

\* No step leaves a departed client registered or a served one forgotten.
LEMMA RegistrationStep ==
  ASSUME TypeOK, LifecycleInv, RegistrationInv, [Next]_vars
  PROVE  RegistrationInv'
<1> USE DEF RegistrationInv, NoGhostClient, NoForgottenClient, Serving
<1>0. /\ conn \in [Clients -> ConnStates]
      /\ clients \subseteq Clients /\ finished \subseteq Clients
      /\ done => clients = {}
      /\ draining => clients = {}
      /\ drain = "idle" => collected = {}
      /\ \A c \in Clients : conn[c] = "sendEvent" => clients = {}
  BY DEF TypeOK, ConnTypes, HubTypes, LifecycleInv
<1>1. ASSUME NEW c \in Clients, ConnStep(c)
      PROVE  RegistrationInv'
  <2>1. CASE RegisterClient(c)
    BY <1>0, <2>1 DEF RegisterClient, Unlocked, runVars, drainVars
  <2>2. CASE PublishCheck(c) \/ PublishQueued(c) \/ PublishStopped(c)
    <3>1. /\ conn[c] \in Serving /\ conn'[c] \in Serving
          /\ \A d \in Clients \ {c} : conn'[d] = conn[d]
      BY <1>0, <2>2 DEF PublishCheck, PublishQueued, PublishStopped,
         NotPublished
    <3>2. UNCHANGED <<hubVars, closed, runVars, drainVars>>
      BY <2>2 DEF PublishCheck, PublishQueued, PublishStopped
    <3>3. QED
      BY <1>0, <3>1, <3>2 DEF hubVars, runVars, drainVars
  <2>3. CASE UnregisterCheck(c)
    BY <1>0, <2>3 DEF UnregisterCheck, hubVars, runVars, drainVars
  <2>4. CASE UnregisterStopped(c)
    BY <1>0, <2>4 DEF UnregisterStopped, hubVars, runVars, drainVars
  <2>5. CASE NotifyClientFinished(c)
    BY <1>0, <2>5 DEF NotifyClientFinished, runVars, drainVars
  <2>6. CASE SendDrainEvent(c)
    BY <1>0, <2>6 DEF SendDrainEvent, hubVars, runVars, drainVars
  <2>7. CASE CloseAndExit(c)
    BY <1>0, <2>7 DEF CloseAndExit, hubVars, runVars, drainVars
  <2>8. QED
    BY <1>1, <2>1, <2>2, <2>3, <2>4, <2>5, <2>6, <2>7 DEF ConnStep
<1>2. ASSUME NEW c \in Clients, PeerStep(c)
      PROVE  RegistrationInv'
  <2>1. CASE ServeWs(c)
    BY <1>0, <2>1 DEF ServeWs, hubVars, runVars, drainVars
  <2>2. CASE ReadUsername(c) \/ WriteError(c)
    BY <1>0, <2>2 DEF ReadUsername, WriteError, hubVars, runVars, drainVars
  <2>3. CASE ReadMessage(c)
    BY <1>0, <2>3 DEF ReadMessage, hubVars, runVars, drainVars
  <2>4. CASE ReadError(c)
    BY <1>0, <2>4 DEF ReadError, hubVars, runVars, drainVars
  <2>5. QED
    BY <1>2, <2>1, <2>2, <2>3, <2>4 DEF PeerStep
<1>3. CASE RunStep
  <2>1. CASE RunStart \/ RunCheck \/ RunStopped \/ RunReceive \/ RunLock
             \/ RunUnlock
    <3>1. run # "disconnect" /\ UNCHANGED <<hubVars, connVars, drainVars>>
      BY <2>1 DEF RunStart, RunCheck, RunStopped, RunReceive, RunLock,
         RunUnlock
    <3>2. QED
      BY <1>0, <3>1 DEF hubVars, connVars, drainVars
  <2>2. ASSUME NEW c \in Clients, RunUnregister(c)
        PROVE  RegistrationInv'
    BY <1>0, <2>2 DEF RunUnregister, hubVars, drainVars
  <2>3. ASSUME NEW c \in Clients, RunDisconnect(c)
        PROVE  RegistrationInv'
    <3>1. /\ run = "disconnect" /\ c \in todo
          /\ DisconnectClientLocked(c)
          /\ UNCHANGED <<conn, collected>>
      BY <2>3 DEF RunDisconnect, drainVars
    <3>2. CASE c \in clients
      BY <1>0, <3>1, <3>2 DEF DisconnectClientLocked
    <3>3. CASE c \notin clients
      BY <1>0, <3>1, <3>3 DEF DisconnectClientLocked
    <3>4. QED
      BY <3>2, <3>3
  <2>4. ASSUME NEW c \in Clients, RunDeliver(c)
        PROVE  RegistrationInv'
    <3>1. /\ run = "fanout" /\ UNCHANGED <<run, conn, collected>>
          /\ \/ UNCHANGED <<clients, finished, closed>>
             \/ DisconnectClientLocked(c)
      BY <2>4 DEF RunDeliver, drainVars
    <3>2. CASE UNCHANGED <<clients, finished, closed>>
      BY <1>0, <3>1, <3>2
    <3>3. CASE c \in clients /\ DisconnectClientLocked(c)
      BY <1>0, <3>1, <3>3 DEF DisconnectClientLocked
    <3>4. QED
      BY <3>1, <3>2, <3>3 DEF DisconnectClientLocked
  <2>5. QED
    BY <1>3, <2>1, <2>2, <2>3, <2>4 DEF RunStep
<1>4. CASE DrainStart
  BY <1>0, <1>4 DEF DrainStart, connVars, runVars
<1>5. CASE DrainStep \/ Deadline \/ LeaveDeadline
  <2>1. UNCHANGED <<hubVars, conn, runVars, collected>> /\ closed \subseteq closed'
    BY <1>5 DEF DrainStep, Deadline, LeaveDeadline, DrainClosed, DrainReceive,
       DrainWaitOver, DrainStop, StopLeave, LeaveStopped, DrainReturn,
       DrainClose, connVars, drainVars
  <2>2. QED
    BY <1>0, <2>1 DEF hubVars, runVars
<1>6. CASE WorkerStep
  <2>1. UNCHANGED <<hubVars, connVars, runVars, drainVars>>
    BY <1>6 DEF WorkerStep, WorkerSelect, WorkerDrain, WorkerSave,
       WorkerPublishCheck, WorkerPublish
  <2>2. QED
    BY <1>0, <2>1 DEF hubVars, connVars, runVars, drainVars
<1>7. CASE UNCHANGED vars
  BY <1>7 DEF vars, hubVars, connVars, runVars, drainVars
<1>8. QED
  BY <1>1, <1>2, <1>3, <1>4, <1>5, <1>6, <1>7 DEF Next, Terminated

\* Before the drain there is nothing to wait for.
LEMMA DrainInit == Init => DrainInv
  BY EmptyFacts DEF Init, DrainInv, NoLostWakeup, Awaited, Serving

\* No step loses, repeats or invents the completion of a read loop.
LEMMA DrainStepInv ==
  ASSUME TypeOK, LifecycleInv, RegistrationInv, DrainInv, [Next]_vars
  PROVE  DrainInv'
<1> USE DEF DrainInv, NoLostWakeup, Awaited, Serving
<1>0. /\ conn \in [Clients -> ConnStates]
      /\ clients \subseteq Clients /\ drainPending \subseteq Clients
      /\ collected \subseteq Clients
      /\ drainEvents \in Seq(Clients)
  BY DEF TypeOK, ConnTypes, HubTypes, DrainTypes, ChannelTypes
\* A read loop moves on without touching the drain's bookkeeping.
<1>1. ASSUME NEW c \in Clients,
             UNCHANGED <<drainPending, drainEvents, drain, collected, pending>>,
             conn' \in [Clients -> ConnStates],
             \A d \in Clients \ {c} : conn'[d] = conn[d],
             conn[c] \notin {"sendEvent", "close", "exited"},
             conn'[c] \notin {"sendEvent", "close", "exited"},
             conn[c] \in Serving => conn'[c] \in Serving \cup {"notify"},
             conn[c] # "notify"
      PROVE  DrainInv'
  <2>1. c \notin Range(drainEvents)
    BY <1>1
  <2>2. Awaited' = Awaited
    BY <1>0, <1>1
  <2>3. \A d \in drainPending : conn'[d] \in Serving \cup {"notify"}
    BY <1>0, <1>1
  <2>4. \A d \in collected \ Awaited : d # c
    BY <1>1
  <2> HIDE DEF Awaited
  <2>5. \A d \in Range(drainEvents') : conn'[d] \in {"close", "exited"}
    BY <1>0, <1>1, <2>1, RangeFacts
  <2>6. \A d \in collected \ Awaited : conn'[d] \in {"close", "exited"}
    BY <1>0, <1>1, <2>4
  <2>7. QED
    BY <1>1, <2>2, <2>3, <2>5, <2>6
<1>2. ASSUME UNCHANGED <<drainPending, drainEvents, drain, collected, pending,
                         conn>>
      PROVE  DrainInv'
  BY <1>0, <1>2
<1>3. ASSUME NEW c \in Clients, ConnStep(c)
      PROVE  DrainInv'
  <2>1. CASE RegisterClient(c)
    <3>1. /\ conn[c] = "upgraded" /\ conn'[c] \in {"rejected", "join"}
          /\ conn' \in [Clients -> ConnStates]
          /\ \A d \in Clients \ {c} : conn'[d] = conn[d]
      BY <1>0, <2>1 DEF RegisterClient, ConnStates
    <3>2. UNCHANGED <<drainPending, drainEvents, drain, collected, pending>>
      BY <2>1 DEF RegisterClient, drainVars
    <3>3. QED
      BY <1>1, <3>1, <3>2
  <2>2. CASE PublishCheck(c) \/ PublishQueued(c) \/ PublishStopped(c)
             \/ UnregisterCheck(c) \/ UnregisterStopped(c)
    <3>1. /\ conn[c] \in Serving /\ conn'[c] \in Serving \cup {"notify"}
          /\ conn' \in [Clients -> ConnStates]
          /\ \A d \in Clients \ {c} : conn'[d] = conn[d]
      BY <1>0, <2>2 DEF PublishCheck, PublishQueued, PublishStopped,
         NotPublished, UnregisterCheck, UnregisterStopped, ConnStates
    <3>2. UNCHANGED <<drainPending, drainEvents, drain, collected, pending>>
      BY <2>2 DEF PublishCheck, PublishQueued, PublishStopped,
         UnregisterCheck, UnregisterStopped, hubVars, drainVars
    <3>3. /\ conn[c] \notin {"notify", "sendEvent", "close", "exited"}
          /\ conn'[c] \notin {"sendEvent", "close", "exited"}
      BY <3>1
    <3> HIDE DEF DrainInv, Serving
    <3>4. QED
      BY <1>1, <3>1, <3>2, <3>3
  <2>3. CASE NotifyClientFinished(c)
    <3>1. /\ UNCHANGED <<drainEvents, drain, collected, pending>>
          /\ conn[c] = "notify"
      BY <2>3 DEF NotifyClientFinished, drainVars
    <3>2. CASE draining /\ c \in drainPending
      <4>1. /\ drainPending' = drainPending \ {c}
            /\ conn' = [conn EXCEPT ![c] = "sendEvent"]
        BY <2>3, <3>2 DEF NotifyClientFinished
      <4>2. Awaited' = Awaited
        BY <1>0, <3>1, <3>2, <4>1
      <4>3. c \in Awaited /\ c \notin Range(drainEvents)
        BY <3>1, <3>2
      <4> HIDE DEF Awaited
      <4>4. QED
        BY <1>0, <3>1, <4>1, <4>2, <4>3
    <3>3. CASE ~(draining /\ c \in drainPending)
      <4>1. c \notin drainPending
        BY <3>3 DEF LifecycleInv
      <4>2. drainPending' = drainPending /\ conn' = [conn EXCEPT ![c] = "close"]
        BY <2>3, <3>3 DEF NotifyClientFinished
      <4>3. Awaited' = Awaited
        <5>1. \A d \in Clients : conn'[d] = "sendEvent" <=> conn[d] = "sendEvent"
          BY <1>0, <3>1, <4>2
        <5>2. \A d \in drainPending : conn'[d] = conn[d]
          BY <1>0, <4>1, <4>2
        <5>3. QED
          BY <3>1, <4>2, <5>1, <5>2, SMTT(20)
      <4> HIDE DEF Awaited
      <4>4. QED
        BY <1>0, <3>1, <4>1, <4>2, <4>3
    <3>4. QED
      BY <3>2, <3>3
  <2>4. CASE SendDrainEvent(c)
    <3>1. c \notin Range(drainEvents)
      BY <2>4 DEF SendDrainEvent
    <3>2. /\ Range(drainEvents') = Range(drainEvents) \cup {c}
          /\ IsInjective(drainEvents')
      <4>1. IsInjective(drainEvents) /\ drainEvents' = Append(drainEvents, c)
        BY <2>4 DEF SendDrainEvent
      <4> HIDE DEF DrainInv
      <4>2. QED
        BY <1>0, <3>1, <4>1, AppendFacts
    <3>3. /\ conn[c] = "sendEvent" /\ conn' = [conn EXCEPT ![c] = "close"]
          /\ UNCHANGED <<drainPending, drain, collected, pending>>
      BY <2>4 DEF SendDrainEvent, hubVars, drainVars
    <3>4. Awaited' = Awaited
      BY <1>0, <3>2, <3>3
    <3> HIDE DEF Awaited
    <3>5. QED
      BY <1>0, <3>2, <3>3, <3>4
  <2>5. CASE CloseAndExit(c)
    <3>1. /\ conn[c] = "close" /\ conn' = [conn EXCEPT ![c] = "exited"]
          /\ UNCHANGED <<drainPending, drainEvents, drain, collected, pending>>
      BY <2>5 DEF CloseAndExit, hubVars, drainVars
    <3>2. c \notin drainPending
      BY <3>1
    <3>3. Awaited' = Awaited
      BY <1>0, <3>1, <3>2
    <3> HIDE DEF Awaited
    <3>4. QED
      BY <1>0, <3>1, <3>2, <3>3
  <2>6. QED
    BY <1>3, <2>1, <2>2, <2>3, <2>4, <2>5 DEF ConnStep
<1>4. ASSUME NEW c \in Clients, PeerStep(c)
      PROVE  DrainInv'
  <2>1. CASE ReadUsername(c) \/ WriteError(c)
    BY <1>2, <2>1 DEF ReadUsername, WriteError, hubVars, drainVars
  <2>2. CASE ServeWs(c) \/ ReadMessage(c) \/ ReadError(c)
    <3>1. /\ \/ conn[c] = "absent" /\ conn'[c] = "upgraded"
             \/ conn[c] = "reading" /\ conn'[c] \in {"publish", "unregister"}
          /\ conn' \in [Clients -> ConnStates]
          /\ \A d \in Clients \ {c} : conn'[d] = conn[d]
      BY <1>0, <2>2 DEF ServeWs, ReadMessage, ReadError, ConnStates
    <3>2. UNCHANGED <<drainPending, drainEvents, drain, collected, pending>>
      BY <2>2 DEF ServeWs, ReadMessage, ReadError, hubVars, drainVars
    <3>3. QED
      BY <1>1, <3>1, <3>2
  <2>3. QED
    BY <1>4, <2>1, <2>2 DEF PeerStep
<1>5. CASE RunStep
  <2>1. ASSUME NEW c \in Clients, RunUnregister(c)
        PROVE  DrainInv'
    <3>1. /\ conn[c] = "unregisterSelect" /\ conn'[c] = "notify"
          /\ conn' \in [Clients -> ConnStates]
          /\ \A d \in Clients \ {c} : conn'[d] = conn[d]
      BY <1>0, <2>1 DEF RunUnregister, ConnStates
    <3>2. UNCHANGED <<drainPending, drainEvents, drain, collected, pending>>
      BY <2>1 DEF RunUnregister, hubVars, drainVars
    <3>3. QED
      BY <1>1, <3>1, <3>2
  <2>2. CASE UNCHANGED <<drainPending, drainEvents, drainVars, conn>>
    BY <1>2, <2>2 DEF drainVars
  <2>3. QED
    BY <1>5, <2>1, <2>2 DEF RunStep, RunStart, RunCheck, RunStopped,
       RunReceive, RunLock, RunUnlock, RunDisconnect, RunDeliver, hubVars,
       connVars
<1>6. CASE DrainStart
  <2>1. /\ drainPending' = clients \ finished /\ collected' = drainPending'
        /\ drain' = "closing" /\ conn' = conn /\ drainEvents' = <<>>
        /\ \A c \in Clients : conn[c] # "sendEvent"
    BY <1>6 DEF DrainStart, LifecycleInv, connVars
  <2>2. Range(drainEvents') = {} /\ IsInjective(drainEvents')
    BY <2>1, EmptyFacts
  <2>3. \A c \in clients \ finished : conn[c] \in Serving \cup {"notify"}
    BY <1>0 DEF RegistrationInv, ConnStates
  <2>4. QED
    BY <1>0, <2>1, <2>2, <2>3
<1>7. CASE DrainReceive
  <2>1. /\ drain = "waiting" /\ drain' = "waiting"
        /\ pending' = pending \ {Head(drainEvents)}
        /\ UNCHANGED <<drainPending, collected, conn>>
    BY <1>7 DEF DrainReceive, hubVars, connVars
  <2>2. /\ Head(drainEvents) \in Range(drainEvents)
        /\ Range(drainEvents') = Range(drainEvents) \ {Head(drainEvents)}
        /\ IsInjective(drainEvents')
    BY <1>0, <1>7, TailFacts DEF DrainReceive
  <2>3. QED
    BY <1>0, <2>1, <2>2
<1>8. CASE DrainClosed
  BY <1>0, <1>8 DEF DrainClosed, hubVars, connVars
<1>9. CASE DrainWaitOver \/ DrainStop \/ StopLeave \/ LeaveStopped
           \/ DrainReturn
  BY <1>0, <1>9 DEF DrainWaitOver, DrainStop, StopLeave, LeaveStopped,
     DrainReturn, hubVars, connVars
<1>10. CASE (\E c \in Clients : DrainClose(c)) \/ Deadline \/ LeaveDeadline
  BY <1>2, <1>10 DEF DrainClose, Deadline, LeaveDeadline, hubVars, connVars,
     drainVars
<1>11. CASE WorkerStep
  BY <1>2, <1>11 DEF WorkerStep, WorkerSelect, WorkerDrain, WorkerSave,
     WorkerPublishCheck, WorkerPublish, hubVars, connVars, drainVars
<1>12. CASE UNCHANGED vars
  BY <1>2, <1>12 DEF vars, hubVars, connVars, drainVars
<1>13. QED
  BY <1>3, <1>4, <1>5, <1>6, <1>7, <1>8, <1>9, <1>10, <1>11, <1>12
     DEF Next, DrainStep, Terminated

\* A new hub has announced no leave.
LEMMA LeaveInit == Init => LeaveInv
  BY EmptyFacts DEF Init, LeaveInv, LeaveQueueInv, LeaveStopInv, NoEarlyLeave

\* queueLeaveNotification for a client without an announcement keeps the queue
\* free of duplicates and in agreement with the announcements.
LEMMA QueueLeaveInv ==
  ASSUME TypeOK, LifecycleInv, LeaveInv, NEW c \in clients,
         QueueLeaveNotification(c),
         clients' = clients \ {c},
         UNCHANGED <<conn, drainVars>>,
         conn[c] \notin {"absent", "upgraded"}
  PROVE  LeaveInv'
<1>0. /\ c \in Clients /\ clients \subseteq Clients
      /\ conn \in [Clients -> ConnStates]
      /\ leave \in [Clients -> LeaveStates]
      /\ leaveQueue \in Seq(Clients)
      /\ worker = "save" => workerClient \in Clients
  BY DEF TypeOK, HubTypes, ConnTypes, LeaveTypes
<1>1. drain = "idle" /\ collected = {}
  BY DEF LifecycleInv
<1>2. /\ ~leaveStop /\ ~leaveCancelled /\ worker \notin {"drain", "done"}
      /\ workerLoop # "drain"
      /\ \A d \in Clients : leave[d] # "cancelled"
      /\ leave[c] = "none"
      /\ c \notin Range(leaveQueue)
      /\ worker = "save" => workerClient # c
  BY <1>0, <1>1 DEF LeaveInv, LeaveQueueInv, LeaveStopInv, NoEarlyLeave
<1>3. /\ worker' \notin {"off", "drain", "done"}
      /\ worker' = "save" <=> worker = "save"
      /\ UNCHANGED <<workerLoop, workerClient, leaveStop, leaveCancelled, drain,
                     collected>>
  BY <1>2 DEF QueueLeaveNotification, drainVars
<1>4. CASE Len(leaveQueue) < LeaveCap
  <2>1. /\ leaveQueue' = Append(leaveQueue, c)
        /\ leave' = [leave EXCEPT ![c] = "queued"]
    BY <1>4 DEF QueueLeaveNotification
  <2>2. /\ Range(leaveQueue') = Range(leaveQueue) \cup {c}
        /\ IsInjective(leaveQueue')
    BY <1>0, <1>2, <2>1, AppendFacts, SMTT(20)
       DEF LeaveInv, LeaveQueueInv
  <2>3. LeaveQueueInv'
    <3>1. Range(leaveQueue) \subseteq Clients
      BY <1>0, RangeFacts
    <3>2. /\ leave'[c] = "queued"
          /\ \A d \in Clients \ {c} : leave'[d] = leave[d]
      BY <1>0, <2>1
    <3>3. NoEarlyLeave'
      BY <1>0, <1>1, <1>3, <3>2 DEF LeaveInv, LeaveQueueInv, NoEarlyLeave
    <3>4. QED
      BY <1>0, <1>2, <1>3, <2>2, <3>1, <3>2, <3>3 DEF LeaveInv, LeaveQueueInv
  <2>4. LeaveStopInv'
    BY <1>0, <1>1, <1>2, <1>3, <2>1 DEF LeaveStopInv
  <2>5. QED
    BY <2>3, <2>4 DEF LeaveInv
<1>5. CASE ~(Len(leaveQueue) < LeaveCap)
  <2>1. leaveQueue' = leaveQueue /\ leave' = [leave EXCEPT ![c] = "dropped"]
    BY <1>5 DEF QueueLeaveNotification
  <2>2. LeaveQueueInv'
    <3>1. Range(leaveQueue) \subseteq Clients /\ Range(leaveQueue') = Range(leaveQueue)
      BY <1>0, <2>1, RangeFacts
    <3>2. /\ leave'[c] = "dropped"
          /\ \A d \in Clients \ {c} : leave'[d] = leave[d]
      BY <1>0, <2>1
    <3>3. NoEarlyLeave'
      BY <1>0, <1>1, <1>3, <3>2 DEF LeaveInv, LeaveQueueInv, NoEarlyLeave
    <3>4. IsInjective(leaveQueue')
      BY <2>1 DEF LeaveInv, LeaveQueueInv
    <3>5. QED
      BY <1>0, <1>2, <1>3, <3>1, <3>2, <3>3, <3>4 DEF LeaveInv, LeaveQueueInv
  <2>3. LeaveStopInv'
    BY <1>0, <1>1, <1>2, <1>3, <2>1 DEF LeaveStopInv
  <2>4. QED
    BY <2>2, <2>3 DEF LeaveInv
<1>6. QED
  BY <1>4, <1>5

\* No step announces a leave twice, or drops one the queue accepted.
LEMMA LeaveStepInv ==
  ASSUME TypeOK, LifecycleInv, RegistrationInv, LeaveInv, [Next]_vars
  PROVE  LeaveInv'
<1> USE DEF LeaveInv, LeaveQueueInv, LeaveStopInv, NoEarlyLeave
<1>0. /\ conn \in [Clients -> ConnStates]
      /\ clients \subseteq Clients /\ collected \subseteq Clients
      /\ leave \in [Clients -> LeaveStates]
      /\ leaveQueue \in Seq(Clients)
      /\ worker = "save" => workerClient \in Clients
      /\ worker \in WorkerStates /\ workerLoop \in {"select", "drain"}
  BY DEF TypeOK, ConnTypes, HubTypes, DrainTypes, LeaveTypes
\* Steps that leave the notifications alone.
<1>1. ASSUME UNCHANGED <<collected, drain, ctxDone, leaveErr, leaveVars>>,
             \A d \in Clients : conn'[d] \in {"absent", "upgraded"} =>
                                conn[d] \in {"absent", "upgraded"},
             \A d \in clients' : d \in clients \/
                                 (d \in Clients /\ conn[d] = "upgraded")
      PROVE  LeaveInv'
  BY <1>0, <1>1 DEF leaveVars
<1>2. ASSUME NEW c \in Clients, ConnStep(c)
      PROVE  LeaveInv'
  <2>1. UNCHANGED <<collected, drain, ctxDone, leaveErr, leaveVars>>
    BY <1>2 DEF ConnStep, RegisterClient, PublishCheck, PublishQueued,
       PublishStopped, UnregisterCheck, UnregisterStopped,
       NotifyClientFinished, SendDrainEvent, CloseAndExit, drainVars
  <2>2. \A d \in Clients : conn'[d] \in {"absent", "upgraded"} =>
                           conn[d] \in {"absent", "upgraded"}
    BY <1>0, <1>2 DEF ConnStep, RegisterClient, PublishCheck, PublishQueued,
       PublishStopped, NotPublished, UnregisterCheck, UnregisterStopped,
       NotifyClientFinished, SendDrainEvent, CloseAndExit
  <2>3. \A d \in clients' : d \in clients \/
                            (d \in Clients /\ conn[d] = "upgraded")
    BY <1>2 DEF ConnStep, RegisterClient, PublishCheck, PublishQueued,
       PublishStopped, UnregisterCheck, UnregisterStopped,
       NotifyClientFinished, SendDrainEvent, CloseAndExit, hubVars
  <2>4. QED
    BY <1>1, <2>1, <2>2, <2>3
<1>3. ASSUME NEW c \in Clients, PeerStep(c)
      PROVE  LeaveInv'
  BY <1>0, <1>1, <1>3 DEF PeerStep, ServeWs, ReadUsername, ReadMessage,
     ReadError, WriteError, hubVars, drainVars
<1>4. CASE RunStep
  <2>1. CASE RunStart \/ RunCheck \/ RunStopped \/ RunReceive \/ RunLock
             \/ RunUnlock
    BY <1>1, <2>1 DEF RunStart, RunCheck, RunStopped, RunReceive, RunLock,
       RunUnlock, hubVars, connVars, drainVars
  <2>2. ASSUME NEW c \in Clients, RunUnregister(c)
        PROVE  LeaveInv'
    BY <1>0, <1>1, <2>2 DEF RunUnregister, hubVars, drainVars
  <2>3. ASSUME NEW c \in Clients, UNCHANGED <<conn, drainVars>>,
               DisconnectClientLocked(c)
        PROVE  LeaveInv'
    <3>1. CASE UNCHANGED leaveVars /\ clients' \subseteq clients
      BY <1>1, <2>3, <3>1 DEF drainVars
    <3>2. CASE /\ c \in clients /\ QueueLeaveNotification(c)
               /\ clients' = clients \ {c}
      BY <2>3, <3>2, QueueLeaveInv DEF RegistrationInv
    <3>3. QED
      BY <2>3, <3>1, <3>2 DEF DisconnectClientLocked
  <2>4. ASSUME NEW c \in Clients, RunDisconnect(c)
        PROVE  LeaveInv'
    BY <2>3, <2>4 DEF RunDisconnect
  <2>5. ASSUME NEW c \in Clients, RunDeliver(c)
        PROVE  LeaveInv'
    BY <1>1, <2>3, <2>5 DEF RunDeliver, drainVars
  <2>6. QED
    BY <1>4, <2>1, <2>2, <2>4, <2>5 DEF RunStep
<1>5. CASE DrainStart
  BY <1>0, <1>5 DEF DrainStart, LifecycleInv, connVars, leaveVars
<1>6. CASE DrainStep \/ Deadline \/ LeaveDeadline
  <2>1. CASE (\E c \in Clients : DrainClose(c)) \/ DrainReceive
    BY <1>1, <2>1 DEF DrainClose, DrainReceive, hubVars, connVars, drainVars
  <2>2. CASE DrainClosed \/ DrainWaitOver \/ DrainStop
    <3>1. /\ UNCHANGED <<clients, collected, conn, ctxDone, leaveErr, leaveVars>>
          /\ drain \in {"closing", "waiting", "stop"}
          /\ drain' \in {"waiting", "stop", "stopLeave"}
      BY <2>2 DEF DrainClosed, DrainWaitOver, DrainStop, hubVars, connVars
    <3>2. LeaveQueueInv'
      BY <1>0, <3>1 DEF leaveVars
    <3>3. LeaveStopInv'
      BY <1>0, <3>1 DEF leaveVars
    <3>4. QED
      BY <3>2, <3>3
  <2>3. CASE StopLeave
    BY <1>0, <2>3 DEF StopLeave, hubVars, connVars
  <2>4. CASE LeaveStopped
    BY <1>0, <2>4 DEF LeaveStopped, hubVars, connVars
  <2>5. CASE DrainReturn
    BY <1>0, <2>5 DEF DrainReturn, hubVars, connVars, leaveVars
  <2>6. CASE Deadline
    <3>1. UNCHANGED <<clients, collected, conn, drain, leaveErr, leaveVars>>
      BY <2>6 DEF Deadline, hubVars, connVars
    <3>2. ctxDone'
      BY <2>6 DEF Deadline
    <3>3. LeaveQueueInv'
      BY <1>0, <3>1 DEF leaveVars
    <3>4. LeaveStopInv'
      BY <1>0, <3>1, <3>2 DEF leaveVars
    <3>5. QED
      BY <3>3, <3>4
  <2>7. CASE LeaveDeadline
    <3>1. /\ UNCHANGED <<clients, collected, conn, drain, ctxDone, leaveErr>>
          /\ UNCHANGED <<worker, workerLoop, workerClient, leaveQueue, leaveStop,
                         leave>>
      BY <2>7 DEF LeaveDeadline, hubVars, connVars, drainVars
    <3>2. drain = "leaveWait" /\ ctxDone /\ leaveCancelled'
      BY <2>7 DEF LeaveDeadline
    <3>3. LeaveQueueInv'
      BY <1>0, <3>1
    <3>4. LeaveStopInv'
      BY <1>0, <3>1, <3>2
    <3>5. QED
      BY <3>3, <3>4
  <2>8. QED
    BY <1>6, <2>1, <2>2, <2>3, <2>4, <2>5, <2>6, <2>7 DEF DrainStep
<1>7. CASE WorkerStep
  <2>0. UNCHANGED <<clients, collected, conn, drain, ctxDone, leaveErr, leaveStop,
                    leaveCancelled>>
    BY <1>7 DEF WorkerStep, WorkerSelect, WorkerDrain, WorkerSave,
       WorkerPublishCheck, WorkerPublish, hubVars, connVars, drainVars
  <2>1. ASSUME WorkerTake, leaveQueue # <<>>, worker \in {"select", "drain"},
               UNCHANGED <<leave, workerLoop>>
        PROVE  LeaveInv'
    <3>1. /\ Head(leaveQueue) \in Range(leaveQueue)
          /\ Range(leaveQueue') = Range(leaveQueue) \ {Head(leaveQueue)}
          /\ IsInjective(leaveQueue')
      BY <1>0, <2>1, TailFacts DEF WorkerTake
    <3>2. workerClient' = Head(leaveQueue) /\ worker' = "save"
      BY <2>1 DEF WorkerTake
    <3>3. drain \in {"awaitRun", "returned"} => leaveErr
      BY <2>1
    <3>4. leaveCancelled => ctxDone
      BY <2>1
    <3>5. QED
      BY <1>0, <2>0, <2>1, <3>1, <3>2, <3>3, <3>4
  <2>2. CASE WorkerSelect
    <3>1. CASE leaveQueue # <<>> /\ WorkerTake /\ UNCHANGED workerLoop
      <4>1. worker = "select" /\ UNCHANGED leave
        BY <2>2 DEF WorkerSelect
      <4> HIDE DEF LeaveInv
      <4>2. QED
        BY <2>1, <3>1, <4>1
    <3>2. CASE leaveStop /\ worker' = "drain" /\ workerLoop' = "drain"
               /\ UNCHANGED <<workerClient, leaveQueue>>
      <4>1. worker = "select" /\ UNCHANGED leave
        BY <2>2 DEF WorkerSelect
      <4>2. LeaveQueueInv'
        BY <1>0, <2>0, <3>2, <4>1
      <4>3. LeaveStopInv'
        BY <1>0, <2>0, <3>2, <4>1
      <4>4. QED
        BY <4>2, <4>3
    <3>3. QED
      BY <2>2, <3>1, <3>2 DEF WorkerSelect
  <2>3. CASE WorkerDrain
    <3>1. worker = "drain" /\ UNCHANGED <<leave, workerLoop>>
      BY <2>3 DEF WorkerDrain
    <3>2. CASE ~(leaveCancelled \/ leaveQueue = <<>>)
      <4>1. WorkerTake
        BY <2>3, <3>2 DEF WorkerDrain
      <4> HIDE DEF LeaveInv
      <4>2. QED
        BY <2>1, <3>1, <3>2, <4>1
    <3>3. CASE leaveCancelled \/ leaveQueue = <<>>
      <4>1. worker' = "done" /\ UNCHANGED <<workerClient, leaveQueue>>
        BY <2>3, <3>3 DEF WorkerDrain
      <4>2. LeaveQueueInv'
        BY <1>0, <2>0, <3>1, <4>1
      <4>3. LeaveStopInv'
        BY <1>0, <2>0, <3>1, <3>3, <4>1
      <4>4. QED
        BY <4>2, <4>3
    <3>4. QED
      BY <3>2, <3>3
  <2>4. CASE WorkerSave
    <3>1. /\ worker = "save" /\ worker' = "publish" /\ workerClient \in Clients
          /\ UNCHANGED <<workerLoop, leaveQueue>>
      BY <1>0, <2>4 DEF WorkerSave
    <3>2. /\ leave[workerClient] = "queued"
          /\ workerClient \notin Range(leaveQueue)
          /\ leaveCancelled => ctxDone
          /\ drain \in {"awaitRun", "returned"} => leaveErr
      BY <3>1
    <3>3. /\ \A d \in Clients \ {workerClient} : leave'[d] = leave[d]
          /\ \/ leave'[workerClient] = "stored"
             \/ leave'[workerClient] = "cancelled" /\ leaveCancelled
      BY <1>0, <2>4, <3>1 DEF WorkerSave
    <3>4. Range(leaveQueue) \subseteq Clients
      BY <1>0, RangeFacts
    <3>5. NoEarlyLeave' /\ \A c \in Range(leaveQueue') : leave'[c] = "queued"
      BY <1>0, <2>0, <3>1, <3>2, <3>3, <3>4
    <3>6. LeaveQueueInv'
      BY <1>0, <2>0, <3>1, <3>2, <3>3, <3>5
    <3>7. LeaveStopInv'
      BY <1>0, <2>0, <3>1, <3>2, <3>3
    <3>8. QED
      BY <3>6, <3>7
  <2>5. CASE WorkerPublishCheck \/ WorkerPublish
    BY <1>0, <2>0, <2>5 DEF WorkerPublishCheck, WorkerPublish
  <2>6. QED
    BY <1>7, <2>2, <2>3, <2>4, <2>5 DEF WorkerStep
<1>8. CASE UNCHANGED vars
  BY <1>1, <1>8 DEF vars, hubVars, connVars, drainVars, leaveVars
<1>9. QED
  BY <1>2, <1>3, <1>4, <1>5, <1>6, <1>7, <1>8 DEF Next, Terminated

-----------------------------------------------------------------------------
(* The theorems. *)

\* The inductive invariant of the hub.
HubInv == TypeOK /\ LifecycleInv /\ RegistrationInv /\ DrainInv /\ LeaveInv

\* Every reachable state of the hub satisfies the inductive invariant, for any
\* number of clients and any channel capacities.
THEOREM HubInvariant == Spec => []HubInv
<1>1. Init => HubInv
  BY InitTypes, LifecycleInit, RegistrationInit, DrainInit, LeaveInit
     DEF HubInv
<1>2. HubInv /\ [Next]_vars => HubInv'
  BY TypesStep, LifecycleStep, RegistrationStep, DrainStepInv, LeaveStepInv
     DEF HubInv
<1>3. QED
  BY <1>1, <1>2, PTL DEF Spec

\* The channels stay within their capacity and every program counter names a
\* state of its goroutine.
THEOREM TypeCorrect == Spec => []TypeOK
<1>1. HubInv => TypeOK
  BY DEF HubInv
<1>2. QED
  BY <1>1, HubInvariant, PTL

\* notifyClientFinished and drain never lose a completion, whatever the order in
\* which read loops end, clients are disconnected and the drain collects them.
THEOREM WakeupsAreKept == Spec => []NoLostWakeup
<1>1. HubInv => NoLostWakeup
  BY DEF HubInv, DrainInv
<1>2. QED
  BY <1>1, HubInvariant, PTL

\* The send at the end of notifyClientFinished finds room in drainEvents: the
\* channel holds no duplicates, only collected clients, and not the sender.
THEOREM DrainSendsDoNotBlock == Spec => []DrainSendNeverBlocks
<1>1. ASSUME HubInv, NEW c \in Clients, conn[c] = "sendEvent"
      PROVE  Len(drainEvents) < Cardinality(collected)
  <2>1. c \in collected /\ c \notin Range(drainEvents)
        /\ Range(drainEvents) \subseteq collected /\ IsInjective(drainEvents)
    BY <1>1 DEF HubInv, DrainInv, Awaited
  <2>2. IsFiniteSet(collected)
    BY <1>1, ConstantsAssumption, FS_Subset DEF HubInv, TypeOK, DrainTypes
  <2>3. drainEvents \in Seq(collected)
    BY <1>1, <2>1 DEF HubInv, TypeOK, ChannelTypes, Range
  <2>4. QED
    BY <2>1, <2>2, <2>3, InjectiveLength
<1>2. HubInv => DrainSendNeverBlocks
  BY <1>1 DEF DrainSendNeverBlocks
<1>3. QED
  BY <1>2, HubInvariant, PTL

\* Registration, slow-client removal and the drain never leave a finished read
\* loop registered.
THEOREM RegistrationIsExact == Spec => []NoGhostClient
<1>1. HubInv => NoGhostClient
  BY DEF HubInv, RegistrationInv
<1>2. QED
  BY <1>1, HubInvariant, PTL

\* A served connection never escapes: it is registered, closed or refused, also
\* when the drain begins while it registers.
THEOREM NoClientIsForgotten == Spec => []NoForgottenClient
<1>1. HubInv => NoForgottenClient
  BY DEF HubInv, RegistrationInv
<1>2. QED
  BY <1>1, HubInvariant, PTL

\* No client is announced as having left while it is registered or because the
\* shutdown disconnected it.
THEOREM LeavesAreNotEarly == Spec => []NoEarlyLeave
<1>1. HubInv => NoEarlyLeave
  BY DEF HubInv, LeaveInv, LeaveQueueInv
<1>2. QED
  BY <1>1, HubInvariant, PTL

\* A client is announced as having left at most once: only a registered client is
\* queued, and only the notification the worker holds is handled.
THEOREM LeavesAreNotRepeated == Spec => LeaveAnnouncedOnce
<1> DEFINE Once ==
      \A c \in Clients :
        leave'[c] # leave[c] =>
          \/ leave[c] = "none" /\ leave'[c] \in {"queued", "dropped"}
          \/ leave[c] = "queued" /\ leave'[c] \in {"stored", "cancelled"}
<1>1. ASSUME HubInv, [Next]_vars
      PROVE  Once \/ UNCHANGED vars
  <2>1. leave \in [Clients -> LeaveStates]
    BY <1>1 DEF HubInv, TypeOK, LeaveTypes
  <2>2. CASE UNCHANGED leave
    BY <2>2
  <2>3. ASSUME NEW c \in Clients, DisconnectClientLocked(c)
        PROVE  Once
    BY <1>1, <2>1, <2>3 DEF DisconnectClientLocked, QueueLeaveNotification,
       HubInv, LeaveInv, LeaveQueueInv, LeaveStopInv, NoEarlyLeave, leaveVars
  <2>4. CASE WorkerSave
    BY <1>1, <2>1, <2>4 DEF WorkerSave, HubInv, LeaveInv, LeaveQueueInv
  <2>5. CASE RunStep
    BY <2>2, <2>3, <2>5 DEF RunStep, RunStart, RunCheck, RunStopped, RunReceive,
       RunLock, RunUnlock, RunUnregister, RunDisconnect, RunDeliver, leaveVars
  <2>6. CASE WorkerStep
    BY <2>2, <2>4, <2>6 DEF WorkerStep, WorkerSelect, WorkerDrain,
       WorkerPublishCheck, WorkerPublish
  <2>7. CASE \E c \in Clients : ConnStep(c) \/ PeerStep(c)
    BY <2>2, <2>7 DEF ConnStep, RegisterClient, PublishCheck, PublishQueued,
       PublishStopped, UnregisterCheck, UnregisterStopped,
       NotifyClientFinished, SendDrainEvent, CloseAndExit, PeerStep, ServeWs,
       ReadUsername, ReadMessage, ReadError, WriteError, leaveVars
  <2>8. CASE DrainStart \/ DrainStep \/ Deadline \/ LeaveDeadline
    BY <2>2, <2>8 DEF DrainStart, DrainStep, Deadline, LeaveDeadline,
       DrainClosed, DrainReceive, DrainWaitOver, DrainStop, StopLeave,
       LeaveStopped, DrainReturn, DrainClose, leaveVars
  <2>9. QED
    BY <1>1, <2>5, <2>6, <2>7, <2>8 DEF Next, Terminated
<1>2. QED
  BY <1>1, HubInvariant, PTL DEF Spec, LeaveAnnouncedOnce

\* A nil error of Shutdown means that the collected read loops have ended, that
\* no accepted leave notification was left or abandoned, and that the event loop
\* and the worker have stopped.
THEOREM CleanShutdownHolds == Spec => []CleanShutdownIsComplete
<1>1. ASSUME HubInv, CleanShutdown
      PROVE  /\ \A c \in collected : conn[c] \in {"close", "exited"}
             /\ \A c \in Clients : leave[c] \notin {"queued", "cancelled"}
             /\ run \in {"new", "check", "exited"}
             /\ worker \in {"off", "done"}
  <2>1. drain = "returned" /\ pending = {} /\ ~leaveErr
    BY <1>1 DEF CleanShutdown
  <2>2. \A c \in collected : conn[c] \in {"close", "exited"}
    BY <1>1, <2>1 DEF HubInv, DrainInv, NoLostWakeup
  <2>3. worker \in {"off", "done"} /\ leaveQueue = <<>>
    BY <1>1, <2>1 DEF HubInv, LeaveInv, LeaveStopInv
  <2>4. Range(leaveQueue) = {}
    BY <2>3, EmptyFacts
  <2>5. \A c \in Clients : leave[c] \notin {"queued", "cancelled"}
    BY <1>1, <2>1, <2>3, <2>4
       DEF HubInv, LeaveInv, LeaveQueueInv, LeaveStopInv
  <2>6. QED
    BY <1>1, <2>1, <2>2, <2>3, <2>5 DEF HubInv, LifecycleInv
<1>2. HubInv => CleanShutdownIsComplete
  BY <1>1 DEF CleanShutdownIsComplete
<1>3. QED
  BY <1>2, HubInvariant, PTL
=============================================================================
