--------------------------- MODULE DeliveryProofs ---------------------------
(***************************************************************************)
(* Proofs about Delivery, for any finite set of clients, any rooms, any    *)
(* capacities, any limit of the replay and any number of frames and of     *)
(* storage failures.                                                       *)
(*                                                                         *)
(* The argument follows a message on its way: the saver that holds it, the *)
(* channel Hub.broadcast, the log of run.  No message is in two of these   *)
(* places, and a saver holds nothing that is older than what its client    *)
(* already has on the way.  A message is stamped before it is saved, saved *)
(* before it is queued and queued before run takes it; so what run had     *)
(* taken when a client registered was saved by then, or never will be.     *)
(***************************************************************************)
EXTENDS Delivery, QueueLemmas

\* What has been queued on Hub.broadcast, in order.
Given == log \o broadcast

\* Saver p holds a message that is not queued yet.
Busy(p) == pc[p] \in {"stamp", "insert", "publish"}

-----------------------------------------------------------------------------
(* The inductive invariant *)

\* What savers hold: a client its own last message, the worker a leave.
JobInv ==
  /\ \A c \in Clients : Busy(c) => job[c] = <<c, sent[c]>>
  /\ Busy(Worker) => job[Worker] \in Clients \X {LeaveNo}
  /\ \A p \in Savers : pc[p] \in {"insert", "publish"} => job[p] \in Range(stamps)
  /\ \A c \in Clients : sent[c] + frames <= MaxFrames

\* A client that has not registered has done nothing.
FreshInv ==
  \A c \in Clients : hist[c] = "none" =>
    /\ c \notin clients /\ pc[c] = "idle" /\ sent[c] = 0 /\ live[c] = <<>>
    /\ rows[c] = {} /\ replayed[c] = {}

\* The messages of a client that are queued are those it has sent.
ChatInv ==
  \A m \in Range(Given) : m[2] # LeaveNo =>
    /\ hist[m[1]] # "none" /\ m[2] <= sent[m[1]]
    /\ Busy(m[1]) => m[2] < sent[m[1]]

\* The leave of c waits, is being saved or is queued.
Waits(c)  == c \in Range(leaveQueue)
Worked(c) == Busy(Worker) /\ job[Worker] = <<c, LeaveNo>>
Posted(c) == <<c, LeaveNo>> \in Range(Given)

\* There is at most one leave of a client, and none of a registered client.  A
\* client that the fan-out did not evict has stopped reading by then.
LeaveInv ==
  /\ IsInjective(leaveQueue)
  /\ \A c \in Clients :
       /\ Waits(c) => ~Worked(c) /\ ~Posted(c)
       /\ Worked(c) => ~Posted(c)
       /\ Waits(c) \/ Worked(c) \/ Posted(c) =>
            /\ c \notin clients /\ hist[c] # "none"
            /\ c \notin evicted => pc[c] = "gone"

\* Nothing is queued twice, and the messages of a client in order.
InOrder(q) ==
  \A i, j \in DOMAIN q :
    i < j /\ q[i][1] = q[j][1] =>
      q[i][2] < q[j][2] \/ (q[i][2] = LeaveNo /\ q[i][1] \in evicted)

GivenInv == IsInjective(Given) /\ InOrder(Given)

SaveInv == TypeOK /\ JobInv /\ FreshInv
OrderInv == ChatInv /\ LeaveInv /\ GivenInv

-----------------------------------------------------------------------------
(* Types *)

\* A step that leaves a group of variables alone keeps their types.
LEMMA Frame ==
  ASSUME TypeOK
  PROVE  /\ UNCHANGED hubVars => HubTypes'
         /\ UNCHANGED saveVars => SaveTypes'
         /\ UNCHANGED liveVars => LiveTypes'
         /\ UNCHANGED histVars => HistTypes'
         /\ UNCHANGED send => (send \in [Clients -> 0..SendCap])'
<1>1. UNCHANGED hubVars => HubTypes'
  BY DEF TypeOK, HubTypes, hubVars
<1>2. UNCHANGED saveVars => SaveTypes'
  BY DEF TypeOK, SaveTypes, saveVars
<1>3. UNCHANGED liveVars => LiveTypes'
  BY DEF TypeOK, LiveTypes, liveVars
<1>4. UNCHANGED histVars => HistTypes'
  BY DEF TypeOK, HistTypes, histVars
<1> QED BY <1>1, <1>2, <1>3, <1>4 DEF TypeOK

\* Limits of the constants, and the savers.
LEMMA Bounds ==
  /\ SendCap \in Nat \ {0} /\ BroadcastCap \in Nat /\ LeaveCap \in Nat /\ HistoryLimit \in Nat
  /\ MaxFrames \in Nat /\ MaxFailures \in Nat /\ LeaveNo \in Nat /\ LeaveNo > MaxFrames
  /\ Clients \subseteq Savers /\ Worker \in Savers /\ Worker \notin Clients
  /\ \A c \in Clients, n \in 0..MaxFrames : <<c, n>> \in Messages
  /\ \A c \in Clients : <<c, LeaveNo>> \in Messages
<1>1. MaxFrames \in Nat /\ LeaveNo = MaxFrames + 1
  BY DeliveryAssumption DEF LeaveNo
<1>2. \A n \in 0..MaxFrames : n \in 0..LeaveNo
  BY <1>1
<1>3. LeaveNo \in 0..LeaveNo
  BY <1>1
<1> QED BY <1>1, <1>2, <1>3, DeliveryAssumption DEF Savers, Messages

\* A message that a busy saver holds.
LEMMA HeldType ==
  ASSUME SaveInv, NEW p \in Savers, Busy(p)
  PROVE  job[p] \in Messages
<1>1. CASE p \in Clients
  <2>1. job[p] = <<p, sent[p]>> /\ sent[p] \in 0..MaxFrames
    BY <1>1 DEF SaveInv, JobInv, TypeOK, SaveTypes
  <2> QED BY <1>1, <2>1, Bounds
<1>2. CASE p = Worker
  <2>1. job[p] \in Clients \X {LeaveNo}
    BY <1>2 DEF SaveInv, JobInv
  <2>2. \A m \in Clients \X {LeaveNo} : \E c \in Clients : m = <<c, LeaveNo>>
    OBVIOUS
  <2> QED BY <2>1, <2>2, Bounds
<1> QED BY <1>1, <1>2 DEF Savers

\* disconnectClientLocked appends some leave notifications of clients that are
\* disconnected, each once, and keeps the limit of the queue.
LEMMA DisconnectQueue ==
  ASSUME HubTypes, NEW gone \in SUBSET Clients, Disconnect(gone)
  PROVE  \E t \in Seq(gone) :
           /\ IsInjective(t) /\ leaveQueue' = leaveQueue \o t
           /\ leaveQueue' \in Seq(Clients) /\ Len(leaveQueue') <= LeaveCap
<1> DEFINE G == gone \cap Named
<1>1. IsFiniteSet(G) /\ Cardinality(G) \in Nat
  BY FS_Subset, FS_CardinalityType, DeliveryAssumption
<1>2. PICK q \in Bijection(1..Cardinality(G), G) :
        LET free == LeaveCap - Len(leaveQueue)
        IN  leaveQueue' = leaveQueue \o SubSeq(q, 1, IF Len(q) < free THEN Len(q) ELSE free)
  BY Zenon DEF Disconnect
<1>3. /\ q \in Seq(G) /\ \A i, j \in 1..Len(q) : i # j => q[i] # q[j]
  <2>1. q \in [1..Cardinality(G) -> G] /\ \A i, j \in 1..Cardinality(G) : i # j => q[i] # q[j]
    BY Zenon DEF Bijection, Injection, IsInjective
  <2> HIDE DEF G
  <2> QED BY <2>1, <1>1
<1> DEFINE free == LeaveCap - Len(leaveQueue)
           n    == IF Len(q) < free THEN Len(q) ELSE free
           t    == SubSeq(q, 1, n)
<1>4. free \in Nat /\ n \in Nat /\ n <= Len(q) /\ n <= free /\ Len(q) \in Nat
  BY <1>3, Bounds DEF HubTypes
<1>5. t \in Seq(G) /\ Len(t) = n /\ DOMAIN t = 1..n /\ \A i \in 1..n : t[i] = q[i]
  <2> HIDE DEF G, n
  <2> QED BY <1>3, <1>4
<1>6. IsInjective(t)
  <2>1. \A i \in 1..n : i \in 1..Len(q)
    BY <1>4
  <2> HIDE DEF t, n
  <2> QED BY <2>1, <1>3, <1>5 DEF IsInjective
<1>7. t \in Seq(gone) /\ t \in Seq(Clients)
  <2> HIDE DEF t, n
  <2> QED BY <1>5
<1>8. leaveQueue' = leaveQueue \o t
  BY <1>2
<1> HIDE DEF t
<1>9. leaveQueue' \in Seq(Clients) /\ Len(leaveQueue') = Len(leaveQueue) + Len(t)
  BY <1>7, <1>8 DEF HubTypes
<1>10. Len(leaveQueue') <= LeaveCap
  BY <1>9, <1>5, <1>4, Bounds DEF HubTypes
<1> QED BY <1>6, <1>7, <1>8, <1>9, <1>10

\* The initial state.
LEMMA InitSave == Init => SaveInv
<1> SUFFICES ASSUME Init PROVE SaveInv
  OBVIOUS
<1>1. HubTypes /\ LiveTypes /\ HistTypes
  BY Bounds DEF Init, HubTypes, LiveTypes, HistTypes
<1>2. SaveTypes /\ send \in [Clients -> 0..SendCap]
  BY Bounds DEF Init, SaveTypes, Range
<1>3. JobInv /\ FreshInv
  BY Bounds DEF Init, JobInv, FreshInv, Busy
<1> QED BY <1>1, <1>2, <1>3 DEF SaveInv, TypeOK

\* The steps of saving a message.
LEMMA SaverSave ==
  ASSUME SaveInv, NEW p \in Savers, Stamp(p) \/ Insert(p) \/ Publish(p)
  PROVE  SaveInv'
<1>1. TypeOK
  BY DEF SaveInv
<1>2. pc \in [Savers -> {"idle", "stamp", "insert", "publish", "gone"}] /\ Busy(p)
  BY DEF TypeOK, SaveTypes, SaveInv, Stamp, Insert, Publish, Busy
<1>3. job[p] \in Messages
  BY <1>2, HeldType
<1>4. CASE Stamp(p)
  <2>1. stamps' \in Seq(Messages) /\ stored' \subseteq Range(stamps')
    BY <1>4, <1>1, <1>3, RangeOfAppend DEF Stamp, TypeOK, SaveTypes
  <2>2. SaveTypes'
    BY <1>4, <1>1, <2>1 DEF Stamp, TypeOK, SaveTypes
  <2>3. Range(stamps') = Range(stamps) \cup {job[p]}
    BY <1>4, <1>1, <1>3, RangeOfAppend DEF Stamp, TypeOK, SaveTypes
  <2>4. \A q \in Savers : pc'[q] \in {"insert", "publish"} => job'[q] \in Range(stamps')
    BY <1>4, <1>2, <2>3 DEF Stamp, SaveInv, JobInv
  <2>5. JobInv' /\ FreshInv'
    BY <1>4, <1>2, <2>4, Bounds DEF Stamp, SaveInv, JobInv, FreshInv, Busy, liveVars, histVars, hubVars
  <2> QED BY <1>1, <1>4, <2>2, <2>5, Frame DEF Stamp, SaveInv, TypeOK
<1>5. CASE Insert(p)
  <2>1. job[p] \in Range(stamps)
    BY <1>5 DEF Insert, SaveInv, JobInv
  <2>2. SaveTypes'
    BY <1>5, <1>1, <2>1, Bounds DEF Insert, TypeOK, SaveTypes
  <2>3. JobInv' /\ FreshInv'
    BY <1>5, <1>2, Bounds DEF Insert, SaveInv, JobInv, FreshInv, Busy, liveVars, histVars, hubVars
  <2> QED BY <1>1, <1>5, <2>2, <2>3, Frame DEF Insert, SaveInv, TypeOK
<1>6. CASE Publish(p)
  <2>1. broadcast' \in Seq(Messages) /\ Len(broadcast') <= BroadcastCap
    BY <1>6, <1>1, <1>3, RangeOfAppend, Bounds DEF Publish, TypeOK, LiveTypes
  <2>2. SaveTypes'
    BY <1>6, <1>1 DEF Publish, TypeOK, SaveTypes
  <2>3. LiveTypes'
    BY <1>6, <1>1, <2>1 DEF Publish, TypeOK, LiveTypes
  <2>4. JobInv' /\ FreshInv'
    BY <1>6, <1>2, Bounds DEF Publish, SaveInv, JobInv, FreshInv, Busy, histVars, hubVars
  <2> QED BY <1>1, <1>6, <2>2, <2>3, <2>4, Frame DEF Publish, SaveInv, TypeOK
<1> QED BY <1>4, <1>5, <1>6

\* registerClient and the read loop.
LEMMA ClientSave ==
  ASSUME SaveInv, NEW c \in Clients,
         RegisterClient(c) \/ ReadMessage(c) \/ ReadLimited(c) \/ Unregister(c)
  PROVE  SaveInv'
<1>1. TypeOK
  BY DEF SaveInv
<1>2. c \in Savers /\ c # Worker /\ Worker \in Savers
  BY Bounds
<1>3. CASE RegisterClient(c)
  <2>1. HubTypes' /\ LiveTypes' /\ HistTypes'
    BY <1>3, <1>1 DEF RegisterClient, TypeOK, HubTypes, LiveTypes, HistTypes
  <2>2. SaveTypes'
    BY <1>3, <1>1, <1>2, Bounds DEF RegisterClient, TypeOK, SaveTypes
  <2>3. sent[c] = 0
    BY <1>3 DEF RegisterClient, SaveInv, FreshInv
  <2>4. JobInv'
    BY <1>3, <1>1, <1>2, <2>3 DEF RegisterClient, SaveInv, JobInv, Busy, TypeOK, SaveTypes
  <2>5. FreshInv'
    BY <1>3, <1>1, <1>2 DEF RegisterClient, SaveInv, FreshInv, TypeOK, SaveTypes, HistTypes
  <2> QED BY <1>1, <1>3, <2>1, <2>2, <2>4, <2>5, Frame DEF RegisterClient, SaveInv, TypeOK
<1>4. CASE ReadMessage(c)
  <2>1. /\ sent[c] \in Nat /\ frames \in Nat /\ frames > 0 /\ sent[c] + frames <= MaxFrames
        /\ sent[c] + 1 \in 0..MaxFrames /\ frames - 1 \in 0..MaxFrames
    BY <1>4, <1>1, Bounds DEF ReadMessage, TypeOK, SaveTypes, SaveInv, JobInv
  <2>2. <<c, sent[c] + 1>> \in Messages
    BY <2>1, Bounds
  <2>3. SaveTypes'
    BY <1>4, <1>1, <1>2, <2>1, <2>2 DEF ReadMessage, TypeOK, SaveTypes
  <2>4. /\ pc[c] = "idle" /\ hist[c] # "none" /\ pc' = [pc EXCEPT ![c] = "stamp"]
        /\ job' = [job EXCEPT ![c] = <<c, sent[c] + 1>>]
        /\ sent' = [sent EXCEPT ![c] = sent[c] + 1] /\ frames' = frames - 1
        /\ UNCHANGED <<clients, hist, live, rows, replayed, stamps>>
    BY <1>4 DEF ReadMessage, Reading, liveVars, histVars, hubVars
  <2>5. /\ pc \in [Savers -> {"idle", "stamp", "insert", "publish", "gone"}]
        /\ job \in [Savers -> Messages \cup {None}] /\ sent \in [Clients -> 0..MaxFrames]
    BY <1>1 DEF TypeOK, SaveTypes
  <2>6. /\ pc'[c] = "stamp" /\ job'[c] = <<c, sent'[c]>> /\ sent'[c] = sent[c] + 1
        /\ \A p \in Savers : p # c => pc'[p] = pc[p] /\ job'[p] = job[p]
        /\ \A d \in Clients : d # c => sent'[d] = sent[d]
    BY <1>2, <2>4, <2>5
  <2>7. \A d \in Clients : sent'[d] + frames' <= MaxFrames
    <3> SUFFICES ASSUME NEW d \in Clients PROVE sent'[d] + frames' <= MaxFrames
      OBVIOUS
    <3>1. sent[d] + frames <= MaxFrames /\ sent[d] \in Nat
      BY <2>5, Bounds DEF SaveInv, JobInv
    <3> QED BY <2>1, <2>4, <2>6, <3>1, Bounds
  <2>8. JobInv'
    <3>1. JobInv
      BY DEF SaveInv
    <3>2. \A p \in Savers : p # c => (Busy(p)' <=> Busy(p))
      BY <2>6 DEF Busy
    <3> QED BY <1>2, <2>7, <2>4, <2>6, <3>1, <3>2, Bounds DEF JobInv
  <2>9. FreshInv'
    <3>1. \A d \in Clients : hist'[d] = "none" => hist[d] = "none" /\ d # c
      BY <2>4
    <3> QED BY <2>4, <2>6, <3>1, Bounds DEF SaveInv, FreshInv
  <2> QED BY <1>1, <1>4, <2>3, <2>8, <2>9, Frame DEF ReadMessage, SaveInv, TypeOK
<1>5. CASE ReadLimited(c)
  <2>1. frames' \in 0..MaxFrames /\ frames' <= frames
    BY <1>5, <1>1, Bounds DEF ReadLimited, TypeOK, SaveTypes
  <2>2. send' \in [Clients -> 0..SendCap]
    BY <1>5, <1>1, Bounds DEF ReadLimited, TypeOK, CanEnqueue
  <2>3. SaveTypes'
    BY <1>5, <1>1, <2>1 DEF ReadLimited, TypeOK, SaveTypes
  <2>4. \A d \in Clients : sent[d] + frames' <= MaxFrames
    BY <1>1, <2>1, Bounds DEF TypeOK, SaveTypes, SaveInv, JobInv
  <2>5. JobInv' /\ FreshInv'
    BY <1>5, <2>4 DEF ReadLimited, SaveInv, JobInv, FreshInv, Busy, liveVars, histVars, hubVars
  <2> QED BY <1>1, <1>5, <2>2, <2>3, <2>5, Frame DEF ReadLimited, SaveInv, TypeOK
<1>6. CASE Unregister(c)
  <2>1. leaveQueue' \in Seq(Clients) /\ Len(leaveQueue') <= LeaveCap
    BY <1>6, <1>1, DisconnectQueue DEF Unregister, TypeOK, HubTypes
  <2>2. HubTypes' /\ clients' \subseteq clients
    BY <1>6, <1>1, <2>1 DEF Unregister, Disconnect, TypeOK, HubTypes
  <2>3. SaveTypes'
    BY <1>6, <1>1, <1>2 DEF Unregister, TypeOK, SaveTypes
  <2>4. send' \in [Clients -> 0..SendCap]
    BY <1>6, <1>1, Bounds DEF Unregister, TypeOK
  <2>5. JobInv'
    <3>1. /\ UNCHANGED <<job, sent, frames, stamps>> /\ pc[c] = "idle"
          /\ pc' = [pc EXCEPT ![c] = "gone"]
          /\ pc \in [Savers -> {"idle", "stamp", "insert", "publish", "gone"}]
      BY <1>6, <1>1 DEF Unregister, Reading, TypeOK, SaveTypes
    <3>2. \A p \in Savers : (Busy(p)' <=> Busy(p)) /\ (pc'[p] \in {"insert", "publish"} => pc'[p] = pc[p])
      BY <1>2, <3>1 DEF Busy
    <3> QED BY <3>1, <3>2, Bounds DEF SaveInv, JobInv
  <2>6. FreshInv'
    BY <1>6, <1>1, <1>2, <2>2 DEF Unregister, Reading, TypeOK, SaveTypes, SaveInv, FreshInv, liveVars, histVars
  <2> QED BY <1>1, <1>6, <2>2, <2>3, <2>4, <2>5, <2>6, Frame DEF Unregister, SaveInv, TypeOK
<1> QED BY <1>3, <1>4, <1>5, <1>6

\* The event loop and the leave worker.
LEMMA RunSave == ASSUME SaveInv, Fanout \/ LeaveTake PROVE SaveInv'
<1>1. TypeOK
  BY DEF SaveInv
<1>2. CASE Fanout
  <2> DEFINE m    == Head(broadcast)
             in   == {c \in clients : RoomOf[c] = RoomFor(m)}
             slow == {c \in in : ~CanEnqueue(c)}
  <2>1. m \in Messages /\ Tail(broadcast) \in Seq(Messages) /\ Len(Tail(broadcast)) <= BroadcastCap
    BY <1>2, <1>1, Bounds DEF Fanout, TypeOK, LiveTypes
  <2>2. Append(log, m) \in Seq(Messages) /\ \A c \in Clients : Append(live[c], m) \in Seq(Messages)
    BY <1>1, <2>1 DEF TypeOK, LiveTypes
  <2>3. in \subseteq Clients /\ slow \in SUBSET Clients
    BY <1>1 DEF TypeOK, HubTypes
  <2>4. /\ Disconnect(slow) /\ evicted' = evicted \cup slow
        /\ log' = Append(log, m) /\ broadcast' = Tail(broadcast)
        /\ live' = [c \in Clients |-> IF c \in in \ slow THEN Append(live[c], m) ELSE live[c]]
        /\ send' = [c \in Clients |-> IF c \in slow THEN 0 ELSE IF c \in in THEN send[c] + 1
                                                              ELSE send[c]]
        /\ UNCHANGED <<saveVars, joinedAt, histVars>>
    BY <1>2 DEF Fanout
  <2>5. \A c \in in \ slow : send[c] < SendCap
    BY DEF CanEnqueue
  <2> HIDE DEF m, in, slow
  <2>6. leaveQueue' \in Seq(Clients) /\ Len(leaveQueue') <= LeaveCap
    BY <1>1, <2>3, <2>4, DisconnectQueue DEF TypeOK
  <2>7. HubTypes' /\ clients' \subseteq clients
    BY <1>1, <2>3, <2>4, <2>6 DEF Disconnect, TypeOK, HubTypes
  <2>8. LiveTypes'
    BY <1>1, <2>1, <2>2, <2>4 DEF TypeOK, LiveTypes
  <2>9. send' \in [Clients -> 0..SendCap]
    BY <1>1, <2>4, <2>5, Bounds DEF TypeOK
  <2>10. JobInv'
    BY <2>4 DEF SaveInv, JobInv, Busy, saveVars
  <2>11. \A c \in Clients : c \notin clients => live'[c] = live[c]
    BY <2>4 DEF in
  <2>12. FreshInv'
    BY <2>4, <2>7, <2>11, Zenon DEF SaveInv, FreshInv, saveVars, histVars
  <2> QED BY <1>1, <2>4, <2>7, <2>8, <2>9, <2>10, <2>12, Frame DEF SaveInv, TypeOK
<1>3. CASE LeaveTake
  <2>1. /\ Head(leaveQueue) \in Clients /\ Tail(leaveQueue) \in Seq(Clients)
        /\ Len(Tail(leaveQueue)) <= LeaveCap
    BY <1>3, <1>1, Bounds DEF LeaveTake, TypeOK, HubTypes
  <2>2. HubTypes'
    BY <1>3, <1>1, <2>1 DEF LeaveTake, TypeOK, HubTypes
  <2>3. SaveTypes'
    BY <1>3, <1>1, <2>1, Bounds DEF LeaveTake, TypeOK, SaveTypes
  <2>4. JobInv'
    BY <1>3, <1>1, <2>1, Bounds, Zenon DEF LeaveTake, SaveInv, JobInv, Busy, TypeOK, SaveTypes
  <2>5. FreshInv'
    BY <1>3, <1>1, Bounds DEF LeaveTake, SaveInv, FreshInv, TypeOK, SaveTypes, liveVars, histVars
  <2> QED BY <1>1, <1>3, <2>2, <2>3, <2>4, <2>5, Frame DEF LeaveTake, SaveInv, TypeOK
<1> QED BY <1>2, <1>3

\* The replay to a new client, and its writer.
LEMMA ReplaySave ==
  ASSUME SaveInv, NEW c \in Clients,
         HistoryQuery(c) \/ HistorySend(c) \/ WriteMessage(c) \/ WriteError(c)
  PROVE  SaveInv'
<1>1. TypeOK
  BY DEF SaveInv
<1>2. CASE HistoryQuery(c)
  <2>1. RecentRows(RoomOf[c]) \subseteq Messages
    <3>1. RecentRows(RoomOf[c]) \subseteq stored
      BY DEF RecentRows, RoomRows
    <3> QED BY <1>1, <3>1, RangeFacts DEF TypeOK, SaveTypes
  <2>2. HistTypes'
    BY <1>2, <1>1, <2>1 DEF HistoryQuery, TypeOK, HistTypes
  <2>3. failures' \in 0..MaxFailures
    <3>1. failures \in 0..MaxFailures
      BY <1>1 DEF TypeOK, SaveTypes
    <3>2. failures' = failures \/ (failures > 0 /\ failures' = failures - 1)
      BY <1>2 DEF HistoryQuery
    <3> QED BY <3>1, <3>2, Bounds
  <2>4. SaveTypes'
    BY <1>2, <1>1, <2>3 DEF HistoryQuery, TypeOK, SaveTypes
  <2>5. JobInv' /\ FreshInv'
    <3>1. /\ UNCHANGED <<pc, job, sent, frames, stamps, clients, live, replayed>>
          /\ hist[c] = "query"
          /\ \E h \in {"send", "failed"} : hist' = [hist EXCEPT ![c] = h]
          /\ rows' = rows \/ \E r : rows' = [rows EXCEPT ![c] = r]
      BY <1>2 DEF HistoryQuery, hubVars, liveVars
    <3>2. JobInv'
      BY <3>1 DEF SaveInv, JobInv, Busy
    <3>3. \A d \in Clients : hist'[d] = "none" => hist[d] = "none" /\ rows'[d] = rows[d]
      BY <1>1, <3>1 DEF TypeOK, HistTypes
    <3> QED BY <3>1, <3>2, <3>3 DEF SaveInv, FreshInv
  <2> QED BY <1>1, <1>2, <2>2, <2>4, <2>5, Frame DEF HistoryQuery, SaveInv, TypeOK
<1>3. CASE HistorySend(c)
  <2>1. HistTypes'
    BY <1>3, <1>1 DEF HistorySend, TypeOK, HistTypes
  <2>2. send' \in [Clients -> 0..SendCap]
    BY <1>3, <1>1, Bounds DEF HistorySend, TypeOK, CanEnqueue
  <2>3. JobInv'
    BY <1>3 DEF HistorySend, SaveInv, JobInv, Busy, saveVars
  <2>4. FreshInv'
    BY <1>3, <1>1 DEF HistorySend, SaveInv, FreshInv, saveVars, hubVars, liveVars, TypeOK, HistTypes
  <2> QED BY <1>1, <1>3, <2>1, <2>2, <2>3, <2>4, Frame DEF HistorySend, SaveInv, TypeOK
<1>4. CASE WriteMessage(c) \/ WriteError(c)
  <2>1. send' \in [Clients -> 0..SendCap]
    BY <1>4, <1>1, Bounds DEF WriteMessage, WriteError, TypeOK
  <2>2. HubTypes'
    BY <1>4, <1>1, Frame DEF WriteMessage, WriteError, TypeOK, HubTypes
  <2>3. clients' = clients /\ UNCHANGED <<saveVars, liveVars, histVars>>
    BY <1>4 DEF WriteMessage, WriteError, hubVars
  <2>4. JobInv' /\ FreshInv'
    BY <2>3 DEF SaveInv, JobInv, FreshInv, Busy, saveVars, liveVars, histVars
  <2> QED BY <1>1, <2>1, <2>2, <2>3, <2>4, Frame DEF SaveInv, TypeOK
<1> QED BY <1>2, <1>3, <1>4

LEMMA SaveStep == ASSUME SaveInv, [Next]_vars PROVE SaveInv'
<1>1. CASE UNCHANGED vars
  <2>1. UNCHANGED <<hubVars, saveVars, liveVars, histVars, send>>
    BY <1>1 DEF vars
  <2>2. JobInv' /\ FreshInv'
    BY <2>1 DEF SaveInv, JobInv, FreshInv, Busy, hubVars, saveVars, liveVars, histVars
  <2> QED BY <2>1, <2>2, Frame DEF SaveInv, TypeOK
<1> QED BY <1>1, SaverSave, ClientSave, RunSave, ReplaySave DEF Next

\* The variables of live delivery and replay keep their types, and the queues
\* their bounds (Client.enqueue, publishContext, queueLeaveNotification).
THEOREM DeliveryTypes == Spec => []TypeOK
<1>1. SaveInv => TypeOK
  BY DEF SaveInv
<1> QED BY <1>1, InitSave, SaveStep, PTL DEF Spec

-----------------------------------------------------------------------------
(* Order *)

LEMMA GivenType ==
  ASSUME TypeOK
  PROVE  Given \in Seq(Messages) /\ Range(Given) \subseteq Messages
<1>1. Given \in Seq(Messages)
  BY ConcatFacts DEF TypeOK, LiveTypes, Given
<1> QED BY <1>1, RangeFacts

\* Every message has a client and a number; that of a leave is out of reach of
\* the others.
LEMMA MessageFacts ==
  /\ \A m \in Messages : m[1] \in Clients /\ m[2] \in Nat /\ m = <<m[1], m[2]>>
  /\ \A m \in Messages : m[2] = LeaveNo => m = <<m[1], LeaveNo>>
BY Bounds DEF Messages

\* A step in which nothing moves that the order depends on.
Still ==
  /\ Given' = Given /\ sent' = sent /\ job' = job /\ leaveQueue' = leaveQueue
  /\ clients' = clients /\ evicted' = evicted
  /\ \A p \in Savers : Busy(p)' <=> Busy(p)
  /\ \A c \in Clients : pc[c] = "gone" => pc'[c] = "gone"
  /\ \A c \in Clients : hist[c] # "none" => hist'[c] # "none"

LEMMA StillOrder == ASSUME SaveInv, OrderInv, Still PROVE OrderInv'
<1>1. \A m \in Range(Given) : m[1] \in Clients /\ m[1] \in Savers
  BY GivenType, MessageFacts, Bounds DEF SaveInv
<1>2. ChatInv'
  BY <1>1 DEF OrderInv, ChatInv, Still
<1>3. \A c \in Clients : /\ Waits(c)' <=> Waits(c)
                         /\ Worked(c)' <=> Worked(c)
                         /\ Posted(c)' <=> Posted(c)
  BY Bounds DEF Still, Waits, Worked, Posted
<1>4. LeaveInv'
  BY <1>3 DEF OrderInv, LeaveInv, Still
<1>5. GivenInv'
  BY DEF OrderInv, GivenInv, InOrder, Still
<1> QED BY <1>2, <1>4, <1>5 DEF OrderInv

LEMMA StillSteps ==
  ASSUME SaveInv,
         \/ UNCHANGED vars
         \/ \E p \in Savers : Stamp(p) \/ Insert(p)
         \/ \E c \in Clients : \/ ReadLimited(c) \/ HistoryQuery(c) \/ HistorySend(c)
                               \/ WriteMessage(c) \/ WriteError(c)
  PROVE  Still
<1>1. /\ pc \in [Savers -> {"idle", "stamp", "insert", "publish", "gone"}]
      /\ hist \in [Clients -> {"none", "query", "send", "done", "cut", "failed"}]
  BY DEF SaveInv, TypeOK, SaveTypes, HistTypes
<1>2. CASE UNCHANGED vars
  BY <1>2 DEF vars, hubVars, saveVars, liveVars, histVars, Still, Given, Busy
<1>3. ASSUME NEW p \in Savers, Stamp(p) \/ Insert(p) PROVE Still
  <2>1. /\ UNCHANGED <<log, broadcast, sent, job, leaveQueue, clients, evicted, hist>>
        /\ pc[p] \in {"stamp", "insert"}
        /\ \E x \in {"insert", "publish"} : pc' = [pc EXCEPT ![p] = x]
    BY <1>3 DEF Stamp, Insert, hubVars, liveVars, histVars
  <2>2. /\ \A q \in Savers : Busy(q)' <=> Busy(q)
        /\ \A c \in Clients : pc[c] = "gone" => pc'[c] = "gone"
    BY <2>1, <1>1, Bounds DEF Busy
  <2> QED BY <2>1, <2>2 DEF Still, Given
<1>4. ASSUME NEW c \in Clients, ReadLimited(c) \/ WriteMessage(c) \/ WriteError(c) PROVE Still
  BY <1>4 DEF ReadLimited, WriteMessage, WriteError, hubVars, saveVars, liveVars, histVars, Still,
              Given, Busy
<1>5. ASSUME NEW c \in Clients, HistoryQuery(c) \/ HistorySend(c) PROVE Still
  <2>1. /\ UNCHANGED <<clients, evicted, leaveQueue, pc, job, sent, log, broadcast>>
        /\ hist[c] # "none"
        /\ \/ hist' = hist
           \/ \E x \in {"send", "failed", "done", "cut"} : hist' = [hist EXCEPT ![c] = x]
    BY <1>5 DEF HistoryQuery, HistorySend, hubVars, saveVars, liveVars
  <2>2. \A d \in Clients : hist[d] # "none" => hist'[d] # "none"
    BY <2>1, <1>1
  <2> QED BY <2>1, <2>2 DEF Still, Given, Busy
<1> QED BY <1>2, <1>3, <1>4, <1>5

\* A message that comes after those of its client may follow.
LEMMA InOrderAppend ==
  ASSUME NEW q \in Seq(Messages), NEW m \in Messages, InOrder(q),
         \A n \in Range(q) : n[1] = m[1] =>
           n[2] < m[2] \/ (n[2] = LeaveNo /\ n[1] \in evicted)
  PROVE  InOrder(Append(q, m))
<1> DEFINE r == Append(q, m)
<1>1. /\ DOMAIN r = 1..(Len(q) + 1) /\ DOMAIN q = 1..Len(q) /\ Len(q) \in Nat
      /\ \A k \in 1..Len(q) : r[k] = q[k]
      /\ r[Len(q) + 1] = m
  BY AppendAt
<1> HIDE DEF r
<1> SUFFICES ASSUME NEW i \in 1..(Len(q) + 1), NEW j \in 1..(Len(q) + 1), i < j, r[i][1] = r[j][1]
             PROVE  r[i][2] < r[j][2] \/ (r[i][2] = LeaveNo /\ r[i][1] \in evicted)
  BY <1>1 DEF InOrder, r
<1>2. i \in 1..Len(q) /\ r[i] = q[i] /\ q[i] \in Range(q)
  BY <1>1 DEF Range
<1>3. CASE j \in 1..Len(q)
  <2>1. r[j] = q[j] /\ j \in DOMAIN q /\ i \in DOMAIN q
    BY <1>1, <1>2, <1>3
  <2> QED BY <1>2, <2>1 DEF InOrder
<1>4. CASE j = Len(q) + 1
  <2>1. r[j] = m /\ q[i][1] = m[1]
    BY <1>1, <1>2, <1>4
  <2>2. q[i][2] < m[2] \/ (q[i][2] = LeaveNo /\ q[i][1] \in evicted)
    BY <1>2, <2>1
  <2> QED BY <1>2, <2>1, <2>2
<1>5. j \in 1..Len(q) \/ j = Len(q) + 1
  BY <1>1
<1> QED BY <1>3, <1>4, <1>5

\* publishContext: the message a saver queues is new, and the last of its client.
LEMMA PublishNew ==
  ASSUME SaveInv, OrderInv, NEW p \in Savers, Busy(p)
  PROVE  /\ job[p] \in Messages /\ job[p] \notin Range(Given)
         /\ \A n \in Range(Given) : n[1] = job[p][1] =>
              n[2] < job[p][2] \/ (n[2] = LeaveNo /\ n[1] \in evicted)
<1>1. job[p] \in Messages
  BY HeldType
<1>2. CASE p \in Clients
  <2>1. /\ job[p] = <<p, sent[p]>> /\ sent[p] \in 0..MaxFrames
        /\ sent[p] # LeaveNo /\ pc[p] # "gone"
    BY <1>2, Bounds DEF SaveInv, JobInv, TypeOK, SaveTypes, Busy
  <2>2. ASSUME NEW n \in Range(Given), n[1] = p
        PROVE  n[2] < sent[p] \/ (n[2] = LeaveNo /\ n[1] \in evicted)
    <3>1. CASE n[2] # LeaveNo
      BY <2>2, <3>1 DEF OrderInv, ChatInv
    <3>2. CASE n[2] = LeaveNo
      <4>1. Posted(p)
        BY <2>2, <3>2, GivenType, MessageFacts DEF Posted, SaveInv
      <4>2. p \in evicted
        BY <4>1, <2>1, <1>2 DEF OrderInv, LeaveInv
      <4> QED BY <4>2, <3>2, <2>2
    <3> QED BY <3>1, <3>2
  <2>3. job[p] \notin Range(Given)
    <3> SUFFICES ASSUME job[p] \in Range(Given) PROVE FALSE
      OBVIOUS
    <3>1. sent[p] < sent[p] \/ sent[p] = LeaveNo
      BY <2>1, <2>2
    <3> QED BY <3>1, <2>1
  <2> QED BY <1>1, <2>1, <2>2, <2>3
<1>3. CASE p = Worker
  <2>1. PICK c \in Clients : job[p] = <<c, LeaveNo>>
    BY <1>3 DEF SaveInv, JobInv
  <2>2. Worked(c) /\ ~Posted(c)
    BY <1>3, <2>1 DEF Worked, OrderInv, LeaveInv
  <2>3. job[p] \notin Range(Given)
    BY <2>1, <2>2 DEF Posted
  <2>4. ASSUME NEW n \in Range(Given), n[1] = c
        PROVE  n[2] < LeaveNo
    <3>1. n \in Messages /\ n[2] # LeaveNo
      BY <2>2, <2>4, GivenType, MessageFacts, Zenon DEF Posted, SaveInv
    <3>2. n[2] <= sent[c] /\ sent[c] \in 0..MaxFrames
      BY <3>1, <2>4 DEF OrderInv, ChatInv, SaveInv, TypeOK, SaveTypes
    <3> QED BY <3>1, <3>2, Bounds, MessageFacts
  <2> QED BY <1>1, <2>1, <2>3, <2>4
<1> QED BY <1>2, <1>3 DEF Savers

LEMMA PublishOrder ==
  ASSUME SaveInv, OrderInv, NEW p \in Savers, Publish(p)
  PROVE  OrderInv'
<1> DEFINE m == job[p]
<1>1. Busy(p) /\ pc \in [Savers -> {"idle", "stamp", "insert", "publish", "gone"}]
  BY DEF Publish, Busy, SaveInv, TypeOK, SaveTypes
<1>2. /\ m \in Messages /\ m \notin Range(Given)
      /\ \A n \in Range(Given) : n[1] = m[1] =>
           n[2] < m[2] \/ (n[2] = LeaveNo /\ n[1] \in evicted)
  BY <1>1, PublishNew
<1>3. Given' = Append(Given, m)
  BY <1>2, ConcatAppend DEF Publish, Given, SaveInv, TypeOK, LiveTypes
<1>4. Given \in Seq(Messages) /\ Range(Given) \subseteq Messages
  BY GivenType DEF SaveInv
<1>5. /\ Range(Given') = Range(Given) \cup {m}
      /\ IsInjective(Given')
  <2>1. IsInjective(Given)
    BY DEF OrderInv, GivenInv
  <2> HIDE DEF m
  <2> QED BY <2>1, <1>2, <1>3, <1>4, AppendFacts
<1>6. /\ UNCHANGED <<sent, hist, leaveQueue, clients, evicted>>
      /\ job' = [job EXCEPT ![p] = None] /\ pc' = [pc EXCEPT ![p] = "idle"]
      /\ pc[p] = "publish"
  BY DEF Publish, hubVars, histVars
<1>7. ~Busy(p)' /\ \A q \in Savers \ {p} : /\ Busy(q)' <=> Busy(q)
                                          /\ pc'[q] = pc[q] /\ job'[q] = job[q]
  BY <1>1, <1>6 DEF Busy, SaveInv, TypeOK, SaveTypes
<1>8. \A q \in Savers : Busy(q)' => Busy(q)
  BY <1>1, <1>7
<1>9. \A c \in Clients : pc[c] = "gone" => pc'[c] = "gone"
  BY <1>6, <1>7, Bounds
<1>10. GivenInv'
  <2>1. InOrder(Append(Given, m))
    BY <1>2, <1>4, InOrderAppend DEF OrderInv, GivenInv
  <2>2. InOrder(Given)'
    BY <2>1, <1>3, <1>6 DEF InOrder
  <2> QED BY <2>2, <1>5 DEF OrderInv, GivenInv
<1>11. ASSUME p \in Clients PROVE ChatInv' /\ LeaveInv'
  <2>1. m = <<p, sent[p]>> /\ sent[p] \in 0..MaxFrames /\ sent[p] # LeaveNo /\ p # Worker
    BY <1>1, <1>11, Bounds DEF SaveInv, JobInv, TypeOK, SaveTypes
  <2>2. hist[p] # "none"
    BY <1>1, <1>11 DEF SaveInv, FreshInv, Busy
  <2>3. ChatInv'
    <3> SUFFICES ASSUME NEW n \in Range(Given'), n[2] # LeaveNo
                 PROVE  /\ hist[n[1]] # "none" /\ n[2] <= sent[n[1]]
                        /\ Busy(n[1])' => n[2] < sent[n[1]]
      BY <1>6 DEF ChatInv
    <3>1. CASE n \in Range(Given)
      <4>1. n[1] \in Savers
        BY <3>1, <1>4, MessageFacts, Bounds
      <4> QED BY <3>1, <4>1, <1>8 DEF OrderInv, ChatInv
    <3>2. CASE n = m
      BY <3>2, <2>1, <2>2, <1>7
    <3> QED BY <3>1, <3>2, <1>5
  <2>4. \A c \in Clients : /\ Waits(c)' <=> Waits(c)
                           /\ Worked(c)' <=> Worked(c)
                           /\ Posted(c)' <=> Posted(c)
    <3>1. \A c \in Clients : <<c, LeaveNo>> # m
      BY <2>1
    <3> QED BY <3>1, <2>1, <1>5, <1>6, <1>7, Bounds DEF Waits, Worked, Posted
  <2>5. LeaveInv'
    BY <2>4, <1>6, <1>9 DEF OrderInv, LeaveInv
  <2> QED BY <2>3, <2>5
<1>12. ASSUME p = Worker PROVE ChatInv' /\ LeaveInv'
  <2>1. PICK d \in Clients : m = <<d, LeaveNo>>
    <3>1. job[Worker] \in Clients \X {LeaveNo}
      BY <1>1, <1>12 DEF SaveInv, JobInv
    <3>2. \A x \in Clients \X {LeaveNo} : \E d \in Clients : x = <<d, LeaveNo>>
      OBVIOUS
    <3> QED BY <1>12, <3>1, <3>2
  <2>2. ChatInv'
    <3> SUFFICES ASSUME NEW n \in Range(Given'), n[2] # LeaveNo
                 PROVE  /\ hist[n[1]] # "none" /\ n[2] <= sent[n[1]]
                        /\ Busy(n[1])' => n[2] < sent[n[1]]
      BY <1>6 DEF ChatInv
    <3>1. n \in Range(Given) /\ n[1] \in Savers
      BY <2>1, <1>4, <1>5, MessageFacts, Bounds
    <3> QED BY <3>1, <1>8 DEF OrderInv, ChatInv
  <2>3. Worked(d)
    BY <1>1, <1>12, <2>1 DEF Worked
  <2>4. \A c \in Clients : /\ Waits(c)' <=> Waits(c)
                           /\ ~Worked(c)'
                           /\ Posted(c)' <=> Posted(c) \/ c = d
    BY <1>5, <1>6, <1>7, <1>12, <2>1 DEF Waits, Worked, Posted
  <2>5. LeaveInv'
    BY <2>3, <2>4, <1>6, <1>9 DEF OrderInv, LeaveInv
  <2> QED BY <2>2, <2>5
<1> QED BY <1>10, <1>11, <1>12 DEF OrderInv, Savers

\* registerClient and readMessages: a client begins its next message.
LEMMA BeginOrder ==
  ASSUME SaveInv, OrderInv, NEW c \in Clients, RegisterClient(c) \/ ReadMessage(c)
  PROVE  OrderInv'
<1>1. /\ pc \in [Savers -> {"idle", "stamp", "insert", "publish", "gone"}]
      /\ job \in [Savers -> Messages \cup {None}]
      /\ hist \in [Clients -> {"none", "query", "send", "done", "cut", "failed"}]
      /\ sent \in [Clients -> 0..MaxFrames] /\ MaxFrames \in Nat
      /\ c \in Savers /\ c # Worker /\ Worker \in Savers
  BY Bounds DEF SaveInv, TypeOK, SaveTypes, HistTypes
<1>2. /\ UNCHANGED <<log, broadcast, leaveQueue, evicted>>
      /\ pc[c] = "idle" /\ pc' = [pc EXCEPT ![c] = "stamp"]
      /\ \E x : job' = [job EXCEPT ![c] = x]
  BY DEF RegisterClient, ReadMessage, Reading, hubVars, liveVars, SaveInv, FreshInv
<1>3. /\ \A p \in Savers : p # c => (Busy(p)' <=> Busy(p)) /\ pc'[p] = pc[p] /\ job'[p] = job[p]
      /\ pc'[c] = "stamp"
  BY <1>1, <1>2 DEF Busy
<1>4. Given' = Given
  BY <1>2 DEF Given
<1>5. GivenInv'
  BY <1>2, <1>4 DEF OrderInv, GivenInv, InOrder
<1>6. \A d \in Clients : /\ Waits(d)' <=> Waits(d)
                         /\ Worked(d)' <=> Worked(d)
                         /\ Posted(d)' <=> Posted(d)
  BY <1>1, <1>2, <1>3, <1>4 DEF Waits, Worked, Posted
<1>7. \A n \in Range(Given) : n \in Messages /\ n[1] \in Clients /\ n[1] \in Savers /\ n[2] \in Nat
  BY GivenType, MessageFacts, Bounds DEF SaveInv
<1>8. CASE RegisterClient(c)
  <2>1. /\ hist[c] = "none" /\ hist' = [hist EXCEPT ![c] = "query"]
        /\ clients' = clients \cup {c} /\ sent' = sent
    BY <1>8 DEF RegisterClient
  <2>2. ~Waits(c) /\ ~Worked(c) /\ ~Posted(c)
    BY <2>1 DEF OrderInv, LeaveInv
  <2>3. \A d \in Clients : d # c => hist'[d] = hist[d] /\ pc'[d] = pc[d]
    BY <1>1, <1>3, <2>1, Bounds
  <2>4. LeaveInv'
    <3>1. IsInjective(leaveQueue')
      BY <1>2 DEF OrderInv, LeaveInv
    <3>2. ASSUME NEW d \in Clients
          PROVE  /\ Waits(d) => ~Worked(d) /\ ~Posted(d)
                 /\ Worked(d) => ~Posted(d)
                 /\ Waits(d) \/ Worked(d) \/ Posted(d) =>
                      /\ d \notin clients' /\ hist'[d] # "none"
                      /\ d \notin evicted' => pc'[d] = "gone"
      BY <1>2, <2>1, <2>2, <2>3 DEF OrderInv, LeaveInv
    <3> QED BY <3>1, <3>2, <1>6 DEF LeaveInv
  <2>5. ChatInv'
    <3> SUFFICES ASSUME NEW n \in Range(Given), n[2] # LeaveNo
                 PROVE  /\ hist'[n[1]] # "none" /\ n[2] <= sent[n[1]]
                        /\ Busy(n[1])' => n[2] < sent[n[1]]
      BY <1>4, <2>1 DEF ChatInv
    <3>1. hist[n[1]] # "none"
      BY DEF OrderInv, ChatInv
    <3>2. n[1] # c
      BY <3>1, <2>1
    <3> QED BY <3>1, <3>2, <1>3, <1>7, <2>3 DEF OrderInv, ChatInv
  <2> QED BY <1>5, <2>4, <2>5 DEF OrderInv
<1>9. CASE ReadMessage(c)
  <2>1. /\ sent' = [sent EXCEPT ![c] = sent[c] + 1] /\ hist' = hist /\ clients' = clients
    BY <1>9 DEF ReadMessage, hubVars, histVars
  <2>2. LeaveInv'
    <3>1. IsInjective(leaveQueue')
      BY <1>2 DEF OrderInv, LeaveInv
    <3>2. ASSUME NEW d \in Clients
          PROVE  /\ Waits(d) => ~Worked(d) /\ ~Posted(d)
                 /\ Worked(d) => ~Posted(d)
                 /\ Waits(d) \/ Worked(d) \/ Posted(d) =>
                      /\ d \notin clients' /\ hist'[d] # "none"
                      /\ d \notin evicted' => pc'[d] = "gone"
      BY <1>2, <1>3, <2>1, Bounds DEF OrderInv, LeaveInv
    <3> QED BY <3>1, <3>2, <1>6 DEF LeaveInv
  <2>3. ChatInv'
    <3> SUFFICES ASSUME NEW n \in Range(Given), n[2] # LeaveNo
                 PROVE  /\ hist'[n[1]] # "none" /\ n[2] <= sent'[n[1]]
                        /\ Busy(n[1])' => n[2] < sent'[n[1]]
      BY <1>4 DEF ChatInv
    <3>1. hist[n[1]] # "none" /\ n[2] <= sent[n[1]] /\ (Busy(n[1]) => n[2] < sent[n[1]])
      BY DEF OrderInv, ChatInv
    <3>2. CASE n[1] = c
      BY <3>1, <3>2, <1>1, <1>7, <2>1
    <3>3. CASE n[1] # c
      <4>1. sent'[n[1]] = sent[n[1]] /\ (Busy(n[1])' <=> Busy(n[1]))
        BY <3>3, <1>1, <1>3, <1>7, <2>1
      <4> QED BY <3>1, <4>1, <2>1
    <3> QED BY <3>2, <3>3
  <2> QED BY <1>5, <2>2, <2>3 DEF OrderInv
<1> QED BY <1>8, <1>9

\* Disconnecting clients: their leaves are new.
LEMMA DisconnectOrder ==
  ASSUME SaveInv, OrderInv, NEW gone \in SUBSET clients, Disconnect(gone),
         Given' = Given, UNCHANGED <<job, sent, hist>>,
         \A p \in Savers : Busy(p)' <=> Busy(p),
         \A c \in Clients : pc[c] = "gone" => pc'[c] = "gone",
         \A c \in gone : c \notin evicted' => pc'[c] = "gone",
         evicted \subseteq evicted'
  PROVE  OrderInv'
<1>1. gone \in SUBSET Clients /\ HubTypes /\ clients' = clients \ gone
  BY DEF SaveInv, TypeOK, HubTypes, Disconnect
<1>2. PICK t \in Seq(gone) : IsInjective(t) /\ leaveQueue' = leaveQueue \o t
  BY <1>1, DisconnectQueue
<1>3. Range(t) \subseteq gone
  BY RangeFacts
<1>4. \A c \in gone : ~Waits(c) /\ ~Worked(c) /\ ~Posted(c) /\ hist[c] # "none"
  BY <1>1 DEF OrderInv, LeaveInv, SaveInv, FreshInv
<1>5. leaveQueue \in Seq(Clients) /\ t \in Seq(Clients) /\ IsInjective(leaveQueue)
  <2>1. leaveQueue \in Seq(Clients) /\ IsInjective(leaveQueue)
    BY <1>1 DEF HubTypes, OrderInv, LeaveInv
  <2>2. t \in Seq(Clients)
    BY ONLY <1>1, t \in Seq(gone)
  <2> QED BY <2>1, <2>2
<1>6. Range(leaveQueue') = Range(leaveQueue) \cup Range(t) /\ IsInjective(leaveQueue')
  <2>1. Range(leaveQueue) \cap Range(t) = {}
    <3>1. \A c \in Range(t) : c \notin Range(leaveQueue)
      BY <1>3, <1>4 DEF Waits
    <3> QED BY <3>1
  <2> QED BY <2>1, <1>2, <1>5, ConcatFacts
<1>7. \A c \in Clients : /\ Waits(c)' => Waits(c) \/ c \in gone
                         /\ Worked(c)' <=> Worked(c)
                         /\ Posted(c)' <=> Posted(c)
  BY <1>3, <1>6, Bounds DEF Waits, Worked, Posted
<1>8. ASSUME NEW c \in Clients
      PROVE  /\ Waits(c)' => ~Worked(c)' /\ ~Posted(c)'
             /\ Worked(c)' => ~Posted(c)'
             /\ Waits(c)' \/ Worked(c)' \/ Posted(c)' =>
                  /\ c \notin clients' /\ hist'[c] # "none"
                  /\ c \notin evicted' => pc'[c] = "gone"
  <2>1. CASE c \in gone
    BY <2>1, <1>1, <1>4, <1>7
  <2>2. CASE c \notin gone
    BY <2>2, <1>1, <1>7 DEF OrderInv, LeaveInv
  <2> QED BY <2>1, <2>2
<1>9. LeaveInv'
  BY <1>6, <1>8 DEF LeaveInv
<1>10. ChatInv'
  <2>1. \A m \in Range(Given) : m[1] \in Savers
    BY GivenType, MessageFacts, Bounds DEF SaveInv
  <2> QED BY <2>1 DEF OrderInv, ChatInv
<1>11. GivenInv'
  BY DEF OrderInv, GivenInv, InOrder
<1> QED BY <1>9, <1>10, <1>11 DEF OrderInv

LEMMA LeavingOrder ==
  ASSUME SaveInv, OrderInv, Fanout \/ \E c \in Clients : Unregister(c)
  PROVE  OrderInv'
<1>1. CASE Fanout
  <2> DEFINE m    == Head(broadcast)
             in   == {c \in clients : RoomOf[c] = RoomFor(m)}
             slow == {c \in in : ~CanEnqueue(c)}
  <2>1. /\ Disconnect(slow) /\ evicted' = evicted \cup slow
        /\ log' = Append(log, m) /\ broadcast' = Tail(broadcast) /\ broadcast # <<>>
        /\ UNCHANGED <<saveVars, joinedAt, histVars>>
    BY <1>1 DEF Fanout
  <2>2. slow \in SUBSET clients
    OBVIOUS
  <2> HIDE DEF slow
  <2>3. Given' = Given
    BY <2>1, MoveHead DEF Given, SaveInv, TypeOK, LiveTypes
  <2>4. UNCHANGED <<pc, job, sent, hist>>
    BY <2>1 DEF saveVars, histVars
  <2>5. \A p \in Savers : Busy(p)' <=> Busy(p)
    BY <2>4 DEF Busy
  <2>6. (\A c \in slow : c \in evicted') /\ evicted \subseteq evicted'
    BY <2>1
  <2> QED BY <2>1, <2>2, <2>3, <2>4, <2>5, <2>6, DisconnectOrder
<1>2. ASSUME NEW c \in Clients, Unregister(c) PROVE OrderInv'
  <2>1. /\ pc[c] = "idle" /\ hist[c] # "none" /\ pc' = [pc EXCEPT ![c] = "gone"]
        /\ UNCHANGED <<log, broadcast, job, sent, hist, evicted>>
    BY <1>2 DEF Unregister, Reading, liveVars, histVars
  <2>2. pc \in [Savers -> {"idle", "stamp", "insert", "publish", "gone"}] /\ c \in Savers
    BY Bounds DEF SaveInv, TypeOK, SaveTypes
  <2>3. /\ \A p \in Savers : Busy(p)' <=> Busy(p)
        /\ \A d \in Clients : pc[d] = "gone" => pc'[d] = "gone"
        /\ pc'[c] = "gone"
    BY <2>1, <2>2, Bounds DEF Busy
  <2>4. Given' = Given
    BY <2>1 DEF Given
  <2>5. CASE c \in clients
    <3>1. Disconnect({c}) /\ {c} \in SUBSET clients
      BY <1>2, <2>5 DEF Unregister
    <3> QED BY <3>1, <2>1, <2>3, <2>4, DisconnectOrder
  <2>6. CASE c \notin clients
    <3>1. Still
      BY <1>2, <2>1, <2>3, <2>4, <2>6 DEF Unregister, Still
    <3> QED BY <3>1, StillOrder
  <2> QED BY <2>5, <2>6
<1> QED BY <1>1, <1>2

\* runLeaveNotifications takes a leave from the queue.
LEMMA TakeOrder == ASSUME SaveInv, OrderInv, LeaveTake PROVE OrderInv'
<1> DEFINE d == Head(leaveQueue)
<1>1. leaveQueue \in Seq(Clients) /\ leaveQueue # <<>> /\ IsInjective(leaveQueue)
  BY DEF LeaveTake, SaveInv, TypeOK, HubTypes, OrderInv, LeaveInv
<1>2. /\ d \in Range(leaveQueue) /\ Range(leaveQueue') = Range(leaveQueue) \ {d}
      /\ IsInjective(leaveQueue') /\ d \in Clients
  BY <1>1, TailFacts, RangeFacts DEF LeaveTake
<1>3. /\ pc[Worker] = "idle" /\ pc' = [pc EXCEPT ![Worker] = "stamp"]
      /\ job' = [job EXCEPT ![Worker] = <<d, LeaveNo>>]
      /\ UNCHANGED <<clients, evicted, sent, hist, log, broadcast>>
  BY DEF LeaveTake, liveVars, histVars
<1>4. /\ pc \in [Savers -> {"idle", "stamp", "insert", "publish", "gone"}]
      /\ job \in [Savers -> Messages \cup {None}]
      /\ Worker \in Savers /\ Clients \subseteq Savers /\ Worker \notin Clients
  BY Bounds DEF SaveInv, TypeOK, SaveTypes
<1>5. /\ ~Busy(Worker) /\ Busy(Worker)' /\ job'[Worker] = <<d, LeaveNo>>
      /\ \A c \in Clients : pc'[c] = pc[c] /\ (Busy(c)' <=> Busy(c))
  BY <1>3, <1>4 DEF Busy
<1>6. Given' = Given
  BY <1>3 DEF Given
<1> HIDE DEF d
<1>7. \A c \in Clients : /\ Waits(c)' <=> Waits(c) /\ c # d
                         /\ Worked(c)' <=> c = d
                         /\ ~Worked(c)
                         /\ Posted(c)' <=> Posted(c)
  BY <1>2, <1>5, <1>6 DEF Waits, Worked, Posted
<1>8. Waits(d)
  BY <1>2 DEF Waits
<1>9. LeaveInv'
  <2>1. ASSUME NEW c \in Clients
        PROVE  /\ Waits(c)' => ~Worked(c)' /\ ~Posted(c)'
               /\ Worked(c)' => ~Posted(c)'
               /\ Waits(c)' \/ Worked(c)' \/ Posted(c)' =>
                    /\ c \notin clients' /\ hist'[c] # "none"
                    /\ c \notin evicted' => pc'[c] = "gone"
    BY <1>3, <1>5, <1>7, <1>8 DEF OrderInv, LeaveInv
  <2> QED BY <2>1, <1>2 DEF LeaveInv
<1>10. ChatInv'
  <2>1. \A m \in Range(Given) : m[1] \in Clients
    BY GivenType, MessageFacts DEF SaveInv
  <2> QED BY <2>1, <1>3, <1>5, <1>6 DEF OrderInv, ChatInv
<1>11. GivenInv'
  BY <1>3, <1>6 DEF OrderInv, GivenInv, InOrder
<1> QED BY <1>9, <1>10, <1>11 DEF OrderInv

LEMMA OrderStep == ASSUME SaveInv, OrderInv, [Next]_vars PROVE OrderInv'
BY StillSteps, StillOrder, PublishOrder, BeginOrder, LeavingOrder, TakeOrder DEF Next

LEMMA InitOrder == Init => OrderInv
<1> SUFFICES ASSUME Init PROVE OrderInv
  OBVIOUS
<1>1. Given = <<>> /\ leaveQueue = <<>> /\ pc[Worker] = "idle"
  BY Bounds DEF Init, Given
<1>2. Range(<<>>) = {} /\ IsInjective(<<>>)
  BY EmptyFacts
<1>3. \A c \in Clients : ~Waits(c) /\ ~Worked(c) /\ ~Posted(c)
  BY <1>1, <1>2 DEF Waits, Worked, Posted, Busy
<1>4. InOrder(<<>>)
  BY DEF InOrder
<1> QED BY <1>1, <1>2, <1>3, <1>4 DEF OrderInv, ChatInv, LeaveInv, GivenInv

\* What run has taken is the beginning of what was queued.
LEMMA LogPrefix ==
  ASSUME TypeOK
  PROVE  /\ DOMAIN log \subseteq DOMAIN Given /\ \A i \in DOMAIN log : Given[i] = log[i]
         /\ Range(log) \subseteq Range(Given)
<1>1. log \in Seq(Messages) /\ broadcast \in Seq(Messages)
  BY DEF TypeOK, LiveTypes
<1>2. DOMAIN log \subseteq DOMAIN Given /\ \A i \in DOMAIN log : Given[i] = log[i]
  BY <1>1 DEF Given
<1> QED BY <1>2 DEF Range

\* The messages of a client reach the room in the order it sent them (readMessages,
\* the leave worker, publishContext and run), for any number of clients and frames.
THEOREM DeliveryOrder == Spec => []SenderOrder
<1>1. SaveInv /\ OrderInv => SenderOrder
  <2> SUFFICES ASSUME SaveInv, OrderInv PROVE SenderOrder
    OBVIOUS
  <2>1. InOrder(log)
    BY LogPrefix DEF SaveInv, OrderInv, GivenInv, InOrder
  <2> QED BY <2>1 DEF InOrder, SenderOrder
<1> QED BY <1>1, InitSave, SaveStep, InitOrder, OrderStep, PTL DEF Spec

-----------------------------------------------------------------------------
(* Live delivery implements RoomFeed *)

LEMMA FeedStep == ASSUME SaveInv, OrderInv, [Next]_vars PROVE [Feed!FeedNext]_(Feed!feedVars)
<1> USE DEF Feed!feedVars
<1>1. ASSUME NEW c \in Clients, RegisterClient(c) PROVE Feed!Subscribe(c)
  BY <1>1 DEF RegisterClient, Feed!Subscribe, SaveInv, FreshInv
<1>2. ASSUME NEW c \in Clients, Unregister(c)
      PROVE  Feed!Unsubscribe(c) \/ UNCHANGED Feed!feedVars
  <2>1. CASE c \in clients
    BY <1>2, <2>1 DEF Unregister, Disconnect, Feed!Unsubscribe, liveVars
  <2>2. CASE c \notin clients
    BY <1>2, <2>2 DEF Unregister, liveVars
  <2> QED BY <2>1, <2>2
<1>3. ASSUME Fanout PROVE \E m \in Messages : Feed!Post(m)
  <2> DEFINE m    == Head(broadcast)
             in   == {c \in clients : RoomOf[c] = RoomFor(m)}
             slow == {c \in in : ~CanEnqueue(c)}
  <2>1. /\ broadcast # <<>> /\ clients' = clients \ slow /\ log' = Append(log, m)
        /\ live' = [c \in Clients |-> IF c \in in \ slow THEN Append(live[c], m) ELSE live[c]]
    BY <1>3 DEF Fanout, Disconnect
  <2>2. /\ log \in Seq(Messages) /\ broadcast \in Seq(Messages)
        /\ clients \subseteq Clients
    BY DEF SaveInv, TypeOK, LiveTypes, HubTypes
  <2>3. m = broadcast[1] /\ 1 \in DOMAIN broadcast /\ Len(broadcast) >= 1 /\ m \in Messages
    <3>1. broadcast # <<>>
      BY <2>1
    <3> QED BY <2>2, <3>1
  <2>4. m \notin Range(log)
    <3>1. Len(log) + 1 \in DOMAIN Given /\ Given[Len(log) + 1] = m
      <4> HIDE DEF m
      <4> QED BY <2>2, <2>3 DEF Given
    <3>2. \A i \in DOMAIN log : i \in DOMAIN Given /\ Given[i] = log[i] /\ i # Len(log) + 1
      BY <2>2, LogPrefix DEF SaveInv
    <3>3. \A i \in DOMAIN log : log[i] # m
      BY <3>1, <3>2 DEF OrderInv, GivenInv, IsInjective
    <3> QED BY <3>3 DEF Range
  <2>5. slow \in SUBSET {c \in clients : RoomOf[c] = RoomFor(m)}
    OBVIOUS
  <2>6. \A c \in Clients : c \in in \ slow <=> c \in clients' /\ RoomOf[c] = RoomFor(m)
    BY <2>1
  <2> HIDE DEF m, slow, in
  <2>7. live' = [c \in Clients |-> IF c \in clients' /\ RoomOf[c] = RoomFor(m)
                                     THEN Append(live[c], m) ELSE live[c]]
    BY <2>1, <2>6
  <2>8. Feed!Post(m)
    <3>1. Feed!Range(log) = Range(log)
      BY DEF Feed!Range, Range
    <3> QED BY <3>1, <2>1, <2>4, <2>5, <2>7, Zenon DEF Feed!Post
  <2> QED BY <2>3, <2>8
<1>4. ASSUME \/ UNCHANGED vars \/ LeaveTake
             \/ \E p \in Savers : Stamp(p) \/ Insert(p) \/ Publish(p)
      PROVE  UNCHANGED Feed!feedVars
  BY <1>4 DEF vars, hubVars, liveVars, LeaveTake, Stamp, Insert, Publish
<1>5. ASSUME NEW c \in Clients,
             \/ ReadMessage(c) \/ ReadLimited(c) \/ HistoryQuery(c) \/ HistorySend(c)
             \/ WriteMessage(c) \/ WriteError(c)
      PROVE  UNCHANGED Feed!feedVars
  BY <1>5 DEF hubVars, liveVars, ReadMessage, ReadLimited, HistoryQuery, HistorySend, WriteMessage,
              WriteError
<1> QED BY <1>1, <1>2, <1>3, <1>4, <1>5 DEF Next, Feed!FeedNext

\* Every step of registerClient, run and the unregister path is a step that
\* RoomFeed allows: nobody is skipped, nothing comes twice.
THEOREM DeliverySteps == Spec => LiveSteps
BY InitSave, SaveStep, InitOrder, OrderStep, FeedStep, PTL DEF Spec, LiveSteps

\* The fan-out of the hub implements RoomFeed.
THEOREM DeliveryFeed == Spec => LiveDelivery
<1>1. Init => Feed!FeedInit
  BY DEF Init, Feed!FeedInit
<1> QED BY <1>1, InitSave, SaveStep, InitOrder, OrderStep, FeedStep, PTL
        DEF Spec, LiveDelivery, Feed!FeedSpec

-----------------------------------------------------------------------------
(* The inductive invariant of the replay *)

\* The messages that have their timestamp and are not queued yet.
Stamped == {job[p] : p \in {q \in Savers : pc[q] \in {"insert", "publish"}}}

\* Timestamps belong to what is queued or about to be, one to each message.
StampInv ==
  /\ IsInjective(stamps)
  /\ Range(stamps) = Range(Given) \cup Stamped

\* The replay R of c misses a message that was handled before c registered only
\* for newer ones that fill the limit.
Covers(R, c) ==
  \A i \in 1..joinedAt[c] :
    log[i] \in stored /\ RoomFor(log[i]) = RoomOf[c] /\ log[i] \notin R =>
      Cardinality(R) = HistoryLimit /\ \A n \in R : Newer(n, log[i])

ReplayInv ==
  \A c \in Clients :
    /\ joinedAt[c] <= Len(log)
    /\ hist[c] = "query" => replayed[c] = {}
    /\ hist[c] = "done" => rows[c] = {}
    /\ hist[c] \in {"send", "done"} => Covers(rows[c] \cup replayed[c], c)

-----------------------------------------------------------------------------
(* Timestamps *)

\* What a saver is about to stamp has no timestamp yet.
LEMMA StampNew ==
  ASSUME SaveInv, OrderInv, StampInv, NEW p \in Savers, pc[p] = "stamp"
  PROVE  job[p] \in Messages /\ job[p] \notin Range(stamps)
<1>1. Busy(p)
  BY DEF Busy
<1>2. job[p] \in Messages /\ job[p] \notin Range(Given)
  BY <1>1, PublishNew
<1>3. ASSUME NEW q \in Savers, pc[q] \in {"insert", "publish"} PROVE job[q] # job[p]
  <2>1. Busy(q) /\ q # p
    BY <1>3 DEF Busy
  <2>2. /\ \A c \in Clients : Busy(c) => /\ job[c] = <<c, sent[c]>>
                                         /\ sent[c] \in 0..MaxFrames /\ sent[c] # LeaveNo
        /\ Busy(Worker) => job[Worker] \in Clients \X {LeaveNo}
    BY Bounds DEF SaveInv, JobInv, TypeOK, SaveTypes
  <2>3. ASSUME NEW c \in Clients, Busy(c) PROVE job[c][1] = c /\ job[c][2] # LeaveNo
    <3>1. job[c] = <<c, sent[c]>> /\ sent[c] # LeaveNo
      BY <2>3, <2>2
    <3> QED BY <3>1
  <2>4. Busy(Worker) => job[Worker][2] = LeaveNo
    BY <2>2
  <2>5. CASE p \in Clients /\ q \in Clients
    <3>1. job[p][1] = p /\ job[q][1] = q
      BY <1>1, <2>1, <2>3, <2>5
    <3> QED BY <3>1, <2>1
  <2>6. CASE p \in Clients /\ q = Worker
    BY <1>1, <2>1, <2>3, <2>4, <2>6
  <2>7. CASE p = Worker /\ q \in Clients
    BY <1>1, <2>1, <2>3, <2>4, <2>7
  <2> QED BY <2>1, <2>5, <2>6, <2>7 DEF Savers
<1> QED BY <1>2, <1>3 DEF StampInv, Stamped

LEMMA StampStep == ASSUME SaveInv, OrderInv, StampInv, [Next]_vars PROVE StampInv'
<1> DEFINE Has(p) == pc[p] \in {"insert", "publish"}
<1>1. /\ pc \in [Savers -> {"idle", "stamp", "insert", "publish", "gone"}]
      /\ job \in [Savers -> Messages \cup {None}]
      /\ stamps \in Seq(Messages) /\ log \in Seq(Messages) /\ broadcast \in Seq(Messages)
  BY DEF SaveInv, TypeOK, SaveTypes, LiveTypes
<1>2. ASSUME NEW p \in Savers, Stamp(p) PROVE StampInv'
  <2>1. /\ pc[p] = "stamp" /\ stamps' = Append(stamps, job[p]) /\ Given' = Given
        /\ pc' = [pc EXCEPT ![p] = "insert"] /\ job' = job
    BY <1>2 DEF Stamp, Given, liveVars
  <2>2. job[p] \in Messages /\ job[p] \notin Range(stamps)
    BY <2>1, StampNew
  <2>3. Range(stamps') = Range(stamps) \cup {job[p]} /\ IsInjective(stamps')
    BY <1>1, <2>1, <2>2, AppendFacts DEF StampInv
  <2>4. \A q \in Savers : Has(q)' <=> Has(q) \/ q = p
    BY <1>1, <2>1
  <2>5. Stamped' = Stamped \cup {job[p]}
    BY <2>1, <2>4 DEF Stamped
  <2> QED BY <2>1, <2>3, <2>5 DEF StampInv
<1>3. ASSUME NEW p \in Savers, Publish(p) PROVE StampInv'
  <2>1. /\ pc[p] = "publish" /\ stamps' = stamps /\ broadcast' = Append(broadcast, job[p])
        /\ log' = log /\ pc' = [pc EXCEPT ![p] = "idle"] /\ job' = [job EXCEPT ![p] = None]
    BY <1>3 DEF Publish
  <2>2. job[p] \in Messages
    BY <2>1, PublishNew DEF Busy
  <2>3. Given' = Append(Given, job[p])
    BY <1>1, <2>1, <2>2, ConcatAppend DEF Given
  <2>4. Range(Given') = Range(Given) \cup {job[p]}
    BY <2>2, <2>3, GivenType, RangeOfAppend DEF SaveInv
  <2>5. \A q \in Savers : /\ Has(q)' <=> Has(q) /\ q # p
                          /\ q # p => job'[q] = job[q]
    BY <1>1, <2>1
  <2>6. Stamped = Stamped' \cup {job[p]}
    BY <2>1, <2>5 DEF Stamped
  <2> QED BY <2>1, <2>4, <2>6 DEF StampInv
<1>4. ASSUME stamps' = stamps, Given' = Given,
             \A q \in Savers : (Has(q)' <=> Has(q)) /\ (Has(q) => job'[q] = job[q])
      PROVE  StampInv'
  <2>1. Stamped' = Stamped
    BY <1>4 DEF Stamped
  <2> QED BY <1>4, <2>1 DEF StampInv
<1>5. ASSUME NEW p \in Savers, Insert(p) PROVE StampInv'
  <2>1. /\ stamps' = stamps /\ Given' = Given /\ job' = job
        /\ pc[p] = "insert" /\ pc' = [pc EXCEPT ![p] = "publish"]
    BY <1>5 DEF Insert, Given, liveVars
  <2> QED BY <1>1, <1>4, <2>1
<1>6. ASSUME NEW c \in Clients, RegisterClient(c) \/ ReadMessage(c) PROVE StampInv'
  <2>1. /\ stamps' = stamps /\ Given' = Given
        /\ pc[c] = "idle" /\ pc' = [pc EXCEPT ![c] = "stamp"]
        /\ \E x : job' = [job EXCEPT ![c] = x]
    BY <1>6 DEF RegisterClient, ReadMessage, Reading, Given, liveVars, SaveInv, FreshInv
  <2> QED BY <1>1, <1>4, <2>1, Bounds
<1>7. ASSUME NEW c \in Clients, Unregister(c) PROVE StampInv'
  <2>1. /\ stamps' = stamps /\ Given' = Given /\ job' = job
        /\ pc[c] = "idle" /\ pc' = [pc EXCEPT ![c] = "gone"]
    BY <1>7 DEF Unregister, Reading, Given, liveVars
  <2> QED BY <1>1, <1>4, <2>1, Bounds
<1>8. CASE LeaveTake
  <2>1. /\ stamps' = stamps /\ Given' = Given
        /\ pc[Worker] = "idle" /\ pc' = [pc EXCEPT ![Worker] = "stamp"]
        /\ \E x : job' = [job EXCEPT ![Worker] = x]
    BY <1>8, Zenon DEF LeaveTake, Given, liveVars
  <2> QED BY <1>1, <1>4, <2>1, Bounds
<1>9. CASE Fanout
  <2>1. Given' = Given
    BY <1>1, <1>9, MoveHead DEF Fanout, Given
  <2> QED BY <1>4, <1>9, <2>1 DEF Fanout, saveVars
<1>10. CASE \/ UNCHANGED vars
            \/ \E c \in Clients : \/ ReadLimited(c) \/ HistoryQuery(c) \/ HistorySend(c)
                                  \/ WriteMessage(c) \/ WriteError(c)
  <2>1. UNCHANGED <<stamps, log, broadcast, pc, job>>
    BY <1>10 DEF vars, ReadLimited, HistoryQuery, HistorySend, WriteMessage, WriteError, saveVars,
                 liveVars
  <2> QED BY <1>4, <2>1 DEF Given
<1> QED BY <1>2, <1>3, <1>5, <1>6, <1>7, <1>8, <1>9, <1>10 DEF Next

-----------------------------------------------------------------------------
(* The replay *)

\* The timestamps order the rows of a room, the newest first.
NewestFirst(S) == {pair \in S \X S : Newer(pair[1], pair[2])}

\* GetRecentMessagesInRoomContext leaves a row out only for HistoryLimit newer rows.
LEMMA RecentFacts ==
  ASSUME TypeOK, IsInjective(stamps), NEW room, NEW m \in RoomRows(room), m \notin RecentRows(room)
  PROVE  /\ Cardinality(RecentRows(room)) = HistoryLimit
         /\ \A n \in RecentRows(room) : Newer(n, m)
<1> DEFINE S == RoomRows(room)
           R == NewestFirst(S)
<1>1. stamps \in Seq(Messages) /\ S \subseteq Range(stamps)
  BY DEF TypeOK, SaveTypes, RoomRows
<1>2. DOMAIN stamps = 1..Len(stamps) /\ Len(stamps) \in Nat
  BY <1>1
<1>3. IsFiniteSet(S)
  <2>1. stamps \in Surjection(1..Len(stamps), Range(stamps))
    BY <1>1, <1>2 DEF Surjection, Range
  <2>2. IsFiniteSet(Range(stamps))
    BY <2>1, <1>2, FS_Interval, FS_Surjection
  <2> QED BY <2>2, <1>1, FS_Subset
<1>4. \A a, b \in S : <<a, b>> \in R <=> Newer(a, b)
  BY DEF NewestFirst
<1> HIDE DEF S, R
<1>5. \A a \in S : \E i \in 1..Len(stamps) : stamps[i] = a
  BY <1>1, <1>2 DEF Range
<1>6. \A i, j \in 1..Len(stamps) : stamps[i] = stamps[j] => i = j
  BY <1>2 DEF IsInjective
<1>7. \A a \in S : ~Newer(a, a)
  BY <1>2, <1>6 DEF Newer
<1>8. ASSUME NEW a \in S, NEW b \in S, NEW c \in S, Newer(a, b), Newer(b, c) PROVE Newer(a, c)
  <2>1. PICK i, j \in 1..Len(stamps) : i < j /\ stamps[i] = b /\ stamps[j] = a
    BY <1>2, <1>8 DEF Newer
  <2>2. PICK k, l \in 1..Len(stamps) : k < l /\ stamps[k] = c /\ stamps[l] = b
    BY <1>2, <1>8 DEF Newer
  <2>3. l = i /\ k < j
    BY <1>2, <1>6, <2>1, <2>2
  <2> QED BY <1>2, <2>1, <2>2, <2>3 DEF Newer
<1>9. ASSUME NEW a \in S, NEW b \in S, a # b PROVE Newer(a, b) \/ Newer(b, a)
  <2>1. PICK i \in 1..Len(stamps) : stamps[i] = a
    BY <1>5
  <2>2. PICK j \in 1..Len(stamps) : stamps[j] = b
    BY <1>5
  <2>3. i < j \/ j < i
    BY <1>2, <1>9, <2>1, <2>2
  <2> QED BY <1>2, <2>1, <2>2, <2>3 DEF Newer
<1>10. IsOrder(R, S)
  BY <1>4, <1>7, <1>8, <1>9 DEF IsOrder
<1>11. \A a \in S : Rank(R, S)[a] = Cardinality({n \in S : Newer(n, a)})
  <2> SUFFICES ASSUME NEW a \in S PROVE Rank(R, S)[a] = Cardinality({n \in S : Newer(n, a)})
    OBVIOUS
  <2>1. SetLessThan(a, R, S) = {n \in S : Newer(n, a)}
    BY <1>4 DEF SetLessThan
  <2> QED BY <2>1 DEF Rank
<1>12. RecentRows(room) = {a \in S : Rank(R, S)[a] < HistoryLimit}
  BY <1>11 DEF RecentRows, S
<1>13. m \in S /\ ~(Rank(R, S)[m] < HistoryLimit)
  BY <1>12 DEF S
<1> DEFINE first == {a \in S : Rank(R, S)[a] < HistoryLimit}
<1>14. Cardinality(first) = HistoryLimit /\ \A a \in first : <<a, m>> \in R
  BY <1>3, <1>10, <1>13, Bounds, FirstFacts
<1>15. \A a \in first : a \in S
  OBVIOUS
<1> HIDE DEF first
<1> QED BY <1>4, <1>12, <1>13, <1>14, <1>15, Zenon DEF first

\* What a step leaves as it is: when a client registered, what run had taken by
\* then, which of the messages that are queued are saved, and the timestamps.
Onward ==
  /\ \A c \in Clients : hist[c] # "none" => joinedAt'[c] = joinedAt[c]
  /\ Len(log) <= Len(log') /\ \A i \in 1..Len(log) : log'[i] = log[i]
  /\ \A m \in Range(Given) : m \in stored' => m \in stored
  /\ \A n, m : Newer(n, m) => Newer(n, m)'

LEMMA OnwardSteps == ASSUME SaveInv, OrderInv, StampInv, [Next]_vars PROVE Onward
<1>1. /\ stamps \in Seq(Messages) /\ log \in Seq(Messages) /\ broadcast \in Seq(Messages)
      /\ joinedAt \in [Clients -> Nat]
  BY DEF SaveInv, TypeOK, SaveTypes, LiveTypes
<1>2. stamps' = stamps => \A n, m : Newer(n, m) => Newer(n, m)'
  BY DEF Newer
<1>3. log' = log => Len(log) <= Len(log') /\ \A i \in 1..Len(log) : log'[i] = log[i]
  BY <1>1
<1>4. ASSUME NEW p \in Savers, Stamp(p) PROVE Onward
  <2>1. /\ stamps' = Append(stamps, job[p]) /\ UNCHANGED <<log, joinedAt, stored>>
        /\ pc[p] = "stamp"
    BY <1>4 DEF Stamp, liveVars
  <2>2. job[p] \in Messages
    BY <2>1, StampNew
  <2>3. /\ DOMAIN stamps \subseteq DOMAIN stamps'
        /\ \A i \in DOMAIN stamps : stamps'[i] = stamps[i]
    <3>1. /\ DOMAIN stamps' = 1..(Len(stamps) + 1) /\ DOMAIN stamps = 1..Len(stamps)
          /\ Len(stamps) \in Nat /\ \A i \in 1..Len(stamps) : stamps'[i] = stamps[i]
      BY <1>1, <2>1, <2>2, AppendAt
    <3> QED BY <3>1
  <2>4. \A n, m : Newer(n, m) => Newer(n, m)'
    BY <2>3 DEF Newer
  <2> QED BY <1>3, <2>1, <2>4 DEF Onward
<1>5. ASSUME NEW p \in Savers, Insert(p) PROVE Onward
  <2>1. /\ UNCHANGED <<stamps, log, joinedAt>> /\ pc[p] = "insert"
        /\ stored' = stored \/ stored' = stored \cup {job[p]}
    BY <1>5 DEF Insert, liveVars
  <2>2. job[p] \notin Range(Given)
    BY <2>1, PublishNew DEF Busy
  <2> QED BY <1>2, <1>3, <2>1, <2>2 DEF Onward
<1>6. ASSUME NEW c \in Clients, RegisterClient(c) PROVE Onward
  <2>1. /\ UNCHANGED <<stamps, log, stored>> /\ hist[c] = "none"
        /\ joinedAt' = [joinedAt EXCEPT ![c] = Len(log)]
    BY <1>6 DEF RegisterClient
  <2>2. \A d \in Clients : hist[d] # "none" => joinedAt'[d] = joinedAt[d]
    BY <1>1, <2>1
  <2> QED BY <1>2, <1>3, <2>1, <2>2 DEF Onward
<1>7. CASE Fanout
  <2>1. UNCHANGED <<stamps, stored, joinedAt>> /\ log' = Append(log, Head(broadcast))
        /\ broadcast # <<>>
    BY <1>7 DEF Fanout, saveVars
  <2>2. Len(log) <= Len(log') /\ \A i \in 1..Len(log) : log'[i] = log[i]
    BY <1>1, <2>1
  <2> QED BY <1>2, <2>1, <2>2 DEF Onward
<1>8. CASE UNCHANGED <<stamps, log, stored, joinedAt>>
  BY <1>2, <1>3, <1>8 DEF Onward
<1>9. ASSUME \/ UNCHANGED vars \/ LeaveTake \/ \E p \in Savers : Publish(p)
      PROVE  UNCHANGED <<stamps, log, stored, joinedAt>>
  BY <1>9 DEF vars, saveVars, liveVars, LeaveTake, Publish
<1>10. ASSUME NEW c \in Clients,
              \/ ReadMessage(c) \/ ReadLimited(c) \/ Unregister(c) \/ HistoryQuery(c)
              \/ HistorySend(c) \/ WriteMessage(c) \/ WriteError(c)
       PROVE  UNCHANGED <<stamps, log, stored, joinedAt>>
  BY <1>10 DEF saveVars, liveVars, ReadMessage, ReadLimited, Unregister, HistoryQuery, HistorySend,
               WriteMessage, WriteError
<1> QED BY <1>4, <1>5, <1>6, <1>7, <1>8, <1>9, <1>10 DEF Next

\* A replay that covers what came before a client goes on doing so.
LEMMA CoversOn ==
  ASSUME SaveInv, Onward, NEW c \in Clients, hist[c] # "none", joinedAt[c] <= Len(log),
         NEW R, Covers(R, c)
  PROVE  Covers(R, c)'
<1>1. joinedAt'[c] = joinedAt[c] /\ joinedAt[c] \in Nat /\ log \in Seq(Messages)
  BY DEF Onward, SaveInv, TypeOK, LiveTypes
<1>2. ASSUME NEW i \in 1..joinedAt[c]
      PROVE  log'[i] = log[i] /\ (log[i] \in stored' => log[i] \in stored)
  <2>1. i \in 1..Len(log) /\ i \in DOMAIN log
    BY <1>1
  <2>2. log[i] \in Range(Given)
    BY <2>1, LogPrefix DEF SaveInv, Range
  <2> QED BY <2>1, <2>2 DEF Onward
<1>3. \A n, m : Newer(n, m) => Newer(n, m)'
  BY DEF Onward
<1> QED BY <1>1, <1>2, <1>3 DEF Covers

LEMMA ReplayStep == ASSUME SaveInv, OrderInv, StampInv, ReplayInv, [Next]_vars PROVE ReplayInv'
<1>1. /\ hist \in [Clients -> {"none", "query", "send", "done", "cut", "failed"}]
      /\ rows \in [Clients -> SUBSET Messages] /\ replayed \in [Clients -> SUBSET Messages]
      /\ joinedAt \in [Clients -> Nat] /\ log \in Seq(Messages)
  BY DEF SaveInv, TypeOK, HistTypes, LiveTypes
<1>2. Onward
  BY OnwardSteps
<1>3. Len(log) \in Nat /\ Len(log') \in Nat
  <2>1. SaveInv'
    BY SaveStep
  <2> QED BY <2>1, <1>1 DEF SaveInv, TypeOK, LiveTypes
<1> DEFINE Fine(c) == /\ joinedAt[c] <= Len(log)
                      /\ hist[c] = "query" => replayed[c] = {}
                      /\ hist[c] = "done" => rows[c] = {}
                      /\ hist[c] \in {"send", "done"} => Covers(rows[c] \cup replayed[c], c)
<1>4. ASSUME NEW c \in Clients, hist'[c] = hist[c], rows'[c] = rows[c], replayed'[c] = replayed[c],
             hist[c] = "none" => joinedAt'[c] = joinedAt[c]
      PROVE  Fine(c)'
  <2>1. joinedAt'[c] <= Len(log')
    <3>1. joinedAt'[c] = joinedAt[c] /\ Len(log) <= Len(log')
      BY <1>2, <1>4 DEF Onward
    <3>2. joinedAt[c] <= Len(log) /\ joinedAt[c] \in Nat
      BY <1>1, Zenon DEF ReplayInv
    <3> QED BY <1>3, <3>1, <3>2
  <2>2. hist[c] \in {"send", "done"} => Covers(rows[c] \cup replayed[c], c)'
    <3> DEFINE R == rows[c] \cup replayed[c]
    <3> SUFFICES ASSUME hist[c] \in {"send", "done"} PROVE Covers(R, c)'
      BY <1>4
    <3>1. Covers(R, c) /\ hist[c] # "none" /\ joinedAt[c] <= Len(log)
      BY DEF ReplayInv
    <3>2. R' = R
      BY <1>4
    <3> QED BY <1>2, <3>1, <3>2, CoversOn, Zenon DEF Covers
  <2> QED BY <1>4, <2>1, <2>2, Zenon DEF ReplayInv
<1>5. ASSUME NEW c \in Clients, RegisterClient(c) PROVE ReplayInv'
  <2>1. /\ UNCHANGED <<rows, replayed, log>> /\ hist[c] = "none"
        /\ hist' = [hist EXCEPT ![c] = "query"]
        /\ joinedAt' = [joinedAt EXCEPT ![c] = Len(log)]
    BY <1>5 DEF RegisterClient
  <2>2. Fine(c)'
    <3>1. hist'[c] = "query" /\ joinedAt'[c] = Len(log) /\ log' = log
      BY <1>1, <2>1
    <3>2. replayed'[c] = {}
      BY <2>1 DEF SaveInv, FreshInv
    <3>3. joinedAt'[c] <= Len(log')
      BY <1>3, <3>1
    <3> QED BY <3>1, <3>2, <3>3
  <2>3. \A d \in Clients : d # c => Fine(d)'
    BY <1>1, <1>4, <2>1, Zenon
  <2> QED BY <2>2, <2>3, Zenon DEF ReplayInv
<1>6. ASSUME NEW c \in Clients, HistoryQuery(c) \/ HistorySend(c),
             Fine(c)',
             \E h, r, q : /\ hist' = [hist EXCEPT ![c] = h]
                          /\ rows' = [rows EXCEPT ![c] = r]
                          /\ replayed' = [replayed EXCEPT ![c] = q]
      PROVE  ReplayInv'
  <2>1. joinedAt' = joinedAt
    BY <1>6 DEF HistoryQuery, HistorySend, liveVars
  <2>2. \A d \in Clients : d # c => Fine(d)'
    BY <1>1, <1>4, <1>6, <2>1, Zenon
  <2> QED BY <1>6, <2>2, Zenon DEF ReplayInv
<1>7. ASSUME NEW c \in Clients, HistoryQuery(c) PROVE ReplayInv'
  <2>1. /\ UNCHANGED <<log, joinedAt, stored, stamps, replayed>> /\ hist[c] = "query"
        /\ replayed = [replayed EXCEPT ![c] = replayed[c]]
        /\ rows = [rows EXCEPT ![c] = rows[c]]
    BY <1>1, <1>7 DEF HistoryQuery, liveVars
  <2>2. joinedAt[c] <= Len(log) /\ replayed[c] = {}
    BY <2>1, Zenon DEF ReplayInv
  <2>3. CASE /\ rows' = [rows EXCEPT ![c] = RecentRows(RoomOf[c])]
             /\ hist' = [hist EXCEPT ![c] = "send"]
    <3> DEFINE R == RecentRows(RoomOf[c])
    <3>1. hist'[c] = "send" /\ rows'[c] \cup replayed'[c] = R
      BY <1>1, <2>1, <2>2, <2>3
    <3>2. Covers(R, c)
      <4> SUFFICES ASSUME NEW i \in 1..joinedAt[c], log[i] \in stored,
                          RoomFor(log[i]) = RoomOf[c], log[i] \notin R
                   PROVE  Cardinality(R) = HistoryLimit /\ \A n \in R : Newer(n, log[i])
        BY DEF Covers
      <4>1. log[i] \in RoomRows(RoomOf[c])
        BY DEF RoomRows
      <4> QED BY <4>1, RecentFacts DEF SaveInv, StampInv
    <3>3. Covers(rows[c] \cup replayed[c], c)'
      <4> HIDE DEF R
      <4>1. \A n, m : Newer(n, m)' <=> Newer(n, m)
        BY <2>1 DEF Newer
      <4> QED BY <3>1, <3>2, <2>1, <4>1 DEF Covers
    <3>4. Fine(c)'
      BY <2>1, <2>2, <3>1, <3>3
    <3> QED BY <1>6, <1>7, <2>1, <2>3, <3>4, Zenon
  <2>4. CASE hist' = [hist EXCEPT ![c] = "failed"] /\ rows' = rows
    <3>1. Fine(c)'
      BY <1>1, <2>1, <2>2, <2>4
    <3> QED BY <1>6, <1>7, <2>1, <2>4, <3>1, Zenon
  <2> QED BY <1>7, <2>3, <2>4 DEF HistoryQuery
<1>8. ASSUME NEW c \in Clients, HistorySend(c) PROVE ReplayInv'
  <2> DEFINE R == rows[c] \cup replayed[c]
  <2>1. /\ UNCHANGED <<log, joinedAt, stored, stamps>> /\ hist[c] = "send"
        /\ hist = [hist EXCEPT ![c] = hist[c]]
        /\ replayed = [replayed EXCEPT ![c] = replayed[c]]
        /\ rows = [rows EXCEPT ![c] = rows[c]]
    BY <1>1, <1>8 DEF HistorySend, liveVars, saveVars
  <2>2. joinedAt[c] <= Len(log) /\ Covers(R, c)
    BY <2>1 DEF ReplayInv
  <2>3. ASSUME rows'[c] \cup replayed'[c] = R PROVE Covers(rows[c] \cup replayed[c], c)'
    <3> HIDE DEF R
    <3> QED BY <2>1, <2>2, <2>3 DEF Covers, Newer
  <2>4. ASSUME NEW m \in rows[c], rows' = [rows EXCEPT ![c] = rows[c] \ {m}],
               replayed' = [replayed EXCEPT ![c] = replayed[c] \cup {m}], hist' = hist
        PROVE  ReplayInv'
    <3>1. rows'[c] \cup replayed'[c] = R
      BY <1>1, <2>4
    <3>2. Fine(c)'
      BY <2>1, <2>2, <2>3, <2>4, <3>1
    <3> HIDE DEF Fine
    <3> QED BY <1>6, <1>8, <2>1, <2>4, <3>2, Zenon
  <2>5. ASSUME rows[c] = {}, hist' = [hist EXCEPT ![c] = "done"], rows' = [rows EXCEPT ![c] = {}],
               replayed' = replayed
        PROVE  ReplayInv'
    <3>1. rows'[c] = {} /\ rows'[c] \cup replayed'[c] = R /\ hist'[c] = "done"
      BY <1>1, <2>5
    <3>2. Fine(c)'
      BY <2>1, <2>2, <2>3, <3>1
    <3> HIDE DEF Fine
    <3> QED BY <1>6, <1>8, <2>1, <2>5, <3>2, Zenon
  <2>6. ASSUME hist' = [hist EXCEPT ![c] = "cut"], rows' = [rows EXCEPT ![c] = {}],
               replayed' = replayed
        PROVE  ReplayInv'
    <3>1. Fine(c)'
      BY <1>1, <2>1, <2>2, <2>6
    <3> HIDE DEF Fine
    <3> QED BY <1>6, <1>8, <2>1, <2>6, <3>1, Zenon
  <2>7. rows[c] = {} => rows = [rows EXCEPT ![c] = {}]
    BY <1>1
  <2> QED BY <1>8, <2>4, <2>5, <2>6, <2>7 DEF HistorySend
<1>9. ASSUME UNCHANGED <<hist, rows, replayed, joinedAt>> PROVE ReplayInv'
  BY <1>4, <1>9, Zenon DEF ReplayInv
<1>10. ASSUME \/ UNCHANGED vars \/ LeaveTake \/ Fanout
              \/ \E p \in Savers : Stamp(p) \/ Insert(p) \/ Publish(p)
       PROVE  UNCHANGED <<hist, rows, replayed, joinedAt>>
  BY <1>10 DEF vars, liveVars, histVars, LeaveTake, Fanout, Stamp, Insert, Publish
<1>11. ASSUME NEW c \in Clients,
              \/ ReadMessage(c) \/ ReadLimited(c) \/ Unregister(c) \/ WriteMessage(c)
              \/ WriteError(c)
       PROVE  UNCHANGED <<hist, rows, replayed, joinedAt>>
  BY <1>11 DEF liveVars, histVars, ReadMessage, ReadLimited, Unregister, WriteMessage, WriteError
<1> QED BY <1>5, <1>7, <1>8, <1>9, <1>10, <1>11 DEF Next

LEMMA InitReplay == Init => StampInv /\ ReplayInv
<1> SUFFICES ASSUME Init PROVE StampInv /\ ReplayInv
  OBVIOUS
<1>1. Given = <<>> /\ stamps = <<>>
  BY DEF Init, Given
<1>2. Stamped = {}
  BY DEF Init, Stamped
<1>3. StampInv
  BY <1>1, <1>2, EmptyFacts DEF StampInv
<1>4. ReplayInv
  BY DEF Init, ReplayInv
<1> QED BY <1>3, <1>4

\* No gap between the history and the live messages: what run handled before a
\* client registered and is saved is in its completed replay, or the replay has
\* HistoryLimit newer rows (registerClient, SaveMessageForUserInRoomContext and
\* sendMessageHistory, in any interleaving with the other clients).
THEOREM DeliveryNoGap == Spec => []NoGap
<1>1. ReplayInv => NoGap
  <2> SUFFICES ASSUME ReplayInv, NEW c \in Clients, hist[c] = "done", NEW i \in 1..joinedAt[c],
                      log[i] \in stored, RoomFor(log[i]) = RoomOf[c], log[i] \notin replayed[c]
               PROVE  /\ Cardinality(replayed[c]) = HistoryLimit
                      /\ \A n \in replayed[c] : Newer(n, log[i])
    BY DEF NoGap
  <2>1. rows[c] \cup replayed[c] = replayed[c] /\ Covers(rows[c] \cup replayed[c], c)
    BY DEF ReplayInv
  <2>2. Covers(replayed[c], c)
    BY <2>1
  <2> QED BY <2>2 DEF Covers
<1> QED BY <1>1, InitSave, SaveStep, InitOrder, OrderStep, InitReplay, StampStep, ReplayStep, PTL
        DEF Spec
=============================================================================
