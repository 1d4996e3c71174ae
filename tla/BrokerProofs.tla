---------------------------- MODULE BrokerProofs ----------------------------
(***************************************************************************)
(* Proofs about Broker: for any number of servers and senders, any         *)
(* capacities, any number of tries and any number of faults.               *)
(***************************************************************************)
EXTENDS Broker, TLAPS

\* A goroutine in publishContext has a message, and no sender has sent more than
\* the bound allows.
SenderInv ==
  \A s \in Senders : /\ sent[s] + messages <= MaxMessages
                     /\ sender[s] # "idle" => sent[s] >= 1

\* handleRemoteEvent has an event exactly while it handles one.
HandlerInv ==
  \A i \in Instances :
    handled[i] # None <=> subscriber[i] \in {"remembered", "enqueue"}

StateInv == TypeOK /\ SenderInv /\ HandlerInv

\* seenEventIDs is the end of the events accepted so far, and is only shorter
\* than the window as long as there were fewer.
EndOf(ids, all) ==
  LET skipped == Len(all) - Len(ids)
  IN  /\ skipped >= 0
      /\ skipped > 0 => Len(ids) = Window
      /\ \A k \in 1..Len(ids) : ids[k] = all[skipped + k]

WindowInv == \A i \in Instances : EndOf(seenEvents[i], accepted[i])

\* The places on the way of a message, from its sender to another server.
Queued     == UNION {Range(brokerPublish[j]) : j \in Instances}
Sending    == {publishing[j] : j \in Instances} \ {None}
Wire(i)    == Range(wire[i])
Pending(i) == {handled[i]} \ {None}
Remote(i)  == {m \in Range(Delivered(i)) : Origin(m) # i}

\* Only saved messages are on their way.
SavedInv ==
  /\ Queued \subseteq saved /\ Sending \subseteq saved
  /\ \A i \in Instances :
       Wire(i) \subseteq saved /\ Pending(i) \subseteq saved /\ Remote(i) \subseteq saved

\* A server publishes its own messages, and handles those of others.
OriginInv ==
  \A i \in Instances :
    /\ \A m \in Range(brokerPublish[i]) : Origin(m) = i
    /\ publishing[i] # None => Origin(publishing[i]) = i
    /\ handled[i] # None => Origin(handled[i]) # i

\* No message has a number that its sender has not reached.  What the sender
\* has not yet queued for its own server is not there.
NumberInv ==
  /\ \A m \in saved : m[2] <= sent[m[1]]
  /\ \A i \in Instances : \A m \in Range(Delivered(i)) :
       /\ m[2] <= sent[m[1]]
       /\ Origin(m) = i /\ sender[m[1]] \in {"check", "broadcast"}
            => m[2] < sent[m[1]]

\* Messages of one sender are in the order of their numbers, repetitions aside.
Ordered(q) ==
  \A j, k \in DOMAIN q : j < k /\ q[j][1] = q[k][1] => q[j][2] <= q[k][2]

NotAfter(S, T) == \A m \in S, n \in T : m[1] = n[1] => m[2] <= n[2]

\* Each place is in order, and holds nothing newer than the places before it.
FlowInv ==
  /\ \A i \in Instances : Ordered(brokerPublish[i]) /\ Ordered(wire[i])
  /\ NotAfter(Sending, Queued)
  /\ \A i \in Instances :
       /\ NotAfter(Wire(i), Sending \cup Queued)
       /\ NotAfter(Pending(i), Wire(i) \cup Sending \cup Queued)
       /\ NotAfter(Remote(i), Pending(i) \cup Wire(i) \cup Sending \cup Queued)

\* OrderKept for the sequence d of messages given to the clients of server i.
InOrder(d, i) ==
  \A j, k \in DOMAIN d :
    LET m == d[j]  n == d[k]
    IN  j < k /\ m[1] = n[1] => m[2] < n[2] \/ (m = n /\ Origin(m) # i)

GivenInv == \A i \in Instances : InOrder(Delivered(i), i)

PathInv == SavedInv /\ OriginInv /\ NumberInv /\ FlowInv /\ GivenInv

-----------------------------------------------------------------------------
(* Types *)

\* What a bounded queue of messages is after a send and after a receive.
LEMMA AppendQueue ==
  ASSUME NEW q \in Seq(Messages), NEW m \in Messages
  PROVE  Append(q, m) \in Seq(Messages) /\ Len(Append(q, m)) = Len(q) + 1
OBVIOUS

LEMMA TailQueue ==
  ASSUME NEW q \in Seq(Messages), q # <<>>
  PROVE  /\ Head(q) \in Messages
         /\ Tail(q) \in Seq(Messages) /\ Len(Tail(q)) = Len(q) - 1
OBVIOUS

\* The memory of events keeps its type and its limit.
LEMMA RememberType ==
  ASSUME NEW q \in Seq(Messages), NEW m \in Messages, Len(q) <= Window
  PROVE  Remember(q, m) \in Seq(Messages) /\ Len(Remember(q, m)) <= Window
<1> DEFINE more == Append(q, m)
<1>1. more \in Seq(Messages) /\ Len(more) = Len(q) + 1 /\ more # <<>>
  BY AppendQueue
<1>2. Tail(more) \in Seq(Messages) /\ Len(Tail(more)) = Len(more) - 1
  BY <1>1, TailQueue
<1> HIDE DEF more
<1>3. Remember(q, m) = IF Len(more) > Window THEN Tail(more) ELSE more
  BY DEF Remember, more
<1> QED BY <1>1, <1>2, <1>3, BrokerAssumption

\* The message a goroutine is publishing.
LEMMA CurrentType ==
  ASSUME StateInv, NEW s \in Senders, sender[s] # "idle"
  PROVE  Current(s) \in Messages /\ Home[s] \in Instances /\ Origin(Current(s)) = Home[s]
BY BrokerAssumption DEF StateInv, TypeOK, SendTypes, SenderInv, Current, Messages, Origin

LEMMA NoneIsNoMessage == None \notin Messages
BY BrokerAssumption DEF Messages

\* A step that leaves a group of variables alone keeps their types.
LEMMA Frame ==
  ASSUME StateInv
  PROVE  /\ UNCHANGED sendVars => SendTypes' /\ SenderInv'
         /\ UNCHANGED hubVars => HubTypes'
         /\ UNCHANGED pubVars => PubTypes'
         /\ UNCHANGED subVars => SubTypes' /\ HandlerInv'
         /\ UNCHANGED <<faults, brokerWG, shutdown>> => StopTypes'
BY DEF StateInv, TypeOK, SendTypes, HubTypes, PubTypes, SubTypes, StopTypes, SenderInv,
   HandlerInv, sendVars, hubVars, pubVars, subVars

\* A fault keeps the bound on faults.
LEMMA FaultType == ASSUME StateInv, Fault PROVE faults' \in 0..MaxFaults
BY BrokerAssumption DEF StateInv, TypeOK, StopTypes, Fault

\* The initial state.
LEMMA InitState == Init => StateInv
BY BrokerAssumption DEF Init, StateInv, TypeOK, SendTypes, HubTypes, PubTypes, SubTypes,
   StopTypes, SenderInv, HandlerInv, Goroutines

\* A message is accepted.
LEMMA AcceptState ==
  ASSUME StateInv, NEW s \in Senders, Accept(s)
  PROVE  StateInv'
<1>1. /\ sent[s] + 1 \in 1..MaxMessages /\ <<s, sent[s] + 1>> \in Messages
      /\ messages - 1 \in 0..MaxMessages /\ messages \in Nat
      /\ messages' = messages - 1 /\ sent' = [sent EXCEPT ![s] = sent[s] + 1]
      /\ sender' = [sender EXCEPT ![s] = "check"]
      /\ saved' = saved \cup {<<s, sent[s] + 1>>} \/ saved' = saved
  BY BrokerAssumption DEF StateInv, TypeOK, SendTypes, SenderInv, Accept, Messages
<1>2. SendTypes'
  BY <1>1 DEF StateInv, TypeOK, SendTypes
<1>3. SenderInv'
  <2> SUFFICES ASSUME NEW x \in Senders
               PROVE  (sent'[x] + messages' <= MaxMessages) /\ (sender'[x] # "idle" => sent'[x] >= 1)
    BY DEF SenderInv
  <2>1. sent[x] \in Nat /\ sent[x] + messages <= MaxMessages /\ (sender[x] # "idle" => sent[x] >= 1)
    BY BrokerAssumption DEF StateInv, TypeOK, SendTypes, SenderInv
  <2>2. CASE x = s
    BY <2>1, <2>2, <1>1, BrokerAssumption DEF StateInv, TypeOK, SendTypes
  <2>3. CASE x # s
    BY <2>1, <2>3, <1>1, BrokerAssumption DEF StateInv, TypeOK, SendTypes
  <2> QED BY <2>2, <2>3
<1>4. StopTypes'
  BY FaultType DEF Accept, StateInv, TypeOK, StopTypes
<1> QED BY <1>2, <1>3, <1>4, Frame DEF Accept, StateInv, TypeOK

\* The other steps of publishContext and queueBrokerMessage.
LEMMA SenderState ==
  ASSUME StateInv, NEW s \in Senders, SenderStep(s)
  PROVE  StateInv'
<1>1. CASE PublishCheck(s)
  <2>1. SendTypes' /\ SenderInv'
    BY <1>1 DEF StateInv, TypeOK, SendTypes, SenderInv, PublishCheck
  <2> QED BY <1>1, <2>1, Frame DEF PublishCheck, StateInv, TypeOK
<1>2. CASE PublishContext(s)
  <2>1. SendTypes' /\ SenderInv'
    BY <1>2 DEF StateInv, TypeOK, SendTypes, SenderInv, PublishContext
  <2>2. Append(broadcast[Home[s]], Current(s)) \in Seq(Messages)
        /\ Len(Append(broadcast[Home[s]], Current(s))) = Len(broadcast[Home[s]]) + 1
    BY <1>2, CurrentType, AppendQueue DEF PublishContext, StateInv, TypeOK, HubTypes
  <2>3. HubTypes'
    <3> DEFINE h == Home[s]
               q == Append(broadcast[h], Current(s))
    <3>1. h \in Instances
      BY BrokerAssumption
    <3>2. \/ broadcast' = [broadcast EXCEPT ![h] = q] /\ Len(broadcast[h]) < BroadcastCap
          \/ broadcast' = broadcast
      BY <1>2 DEF PublishContext
    <3>3. Len(broadcast[h]) < BroadcastCap => Len(q) <= BroadcastCap
      BY <2>2, <3>1, BrokerAssumption DEF StateInv, TypeOK, HubTypes
    <3>4. log' = log /\ done' = done
      BY <1>2 DEF PublishContext
    <3>5. q \in Seq(Messages)
      BY <2>2
    <3> HIDE DEF h, q
    <3> QED BY <3>1, <3>2, <3>3, <3>4, <3>5 DEF StateInv, TypeOK, HubTypes
  <2> QED BY <1>2, <2>1, <2>3, Frame DEF PublishContext, StateInv, TypeOK
<1>3. CASE QueueBrokerMessage(s)
  <2>1. SendTypes' /\ SenderInv'
    BY <1>3 DEF StateInv, TypeOK, SendTypes, SenderInv, QueueBrokerMessage
  <2>2. Append(brokerPublish[Home[s]], Current(s)) \in Seq(Messages)
        /\ Len(Append(brokerPublish[Home[s]], Current(s))) = Len(brokerPublish[Home[s]]) + 1
    BY <1>3, CurrentType, AppendQueue DEF QueueBrokerMessage, StateInv, TypeOK, PubTypes
  <2>3. PubTypes'
    BY <1>3, <2>2, CurrentType, BrokerAssumption
       DEF StateInv, TypeOK, PubTypes, QueueBrokerMessage
  <2> QED BY <1>3, <2>1, <2>3, Frame DEF QueueBrokerMessage, StateInv, TypeOK
<1> QED BY <1>1, <1>2, <1>3 DEF SenderStep

\* The event loop.
LEMMA RunState == ASSUME StateInv, NEW i \in Instances, Run(i) PROVE StateInv'
<1>1. /\ Head(broadcast[i]) \in Messages /\ Tail(broadcast[i]) \in Seq(Messages)
      /\ Len(Tail(broadcast[i])) = Len(broadcast[i]) - 1
  BY TailQueue DEF Run, StateInv, TypeOK, HubTypes
<1>2. Append(log[i], Head(broadcast[i])) \in Seq(Messages)
  BY <1>1, AppendQueue DEF StateInv, TypeOK, HubTypes
<1>3. HubTypes'
  BY <1>1, <1>2, BrokerAssumption DEF Run, StateInv, TypeOK, HubTypes
<1> QED BY <1>3, Frame DEF Run, StateInv, TypeOK

\* What Redis sends along with a published message.
LEMMA ExecuteType ==
  ASSUME StateInv, NEW i \in Instances, publishing[i] # None, Execute(i)
  PROVE  wire' \in [Instances -> Seq(Messages)]
<1>1. \A j \in Instances : Append(wire[j], publishing[i]) \in Seq(Messages)
  BY AppendQueue DEF StateInv, TypeOK, PubTypes, SubTypes
<1> QED BY <1>1 DEF Execute, StateInv, TypeOK, SubTypes

\* The publisher.
LEMMA PublisherState ==
  ASSUME StateInv, NEW i \in Instances, PublisherStep(i) \/ PublishFault(i)
  PROVE  StateInv'
<1>1. CASE PublisherTake(i)
  <2>1. /\ Head(brokerPublish[i]) \in Messages /\ Tail(brokerPublish[i]) \in Seq(Messages)
        /\ Len(Tail(brokerPublish[i])) = Len(brokerPublish[i]) - 1
    BY <1>1, TailQueue DEF PublisherTake, StateInv, TypeOK, PubTypes
  <2>2. PubTypes'
    BY <1>1, <2>1, BrokerAssumption DEF StateInv, TypeOK, PubTypes, PublisherTake
  <2> QED BY <1>1, <2>2, Frame DEF PublisherTake, StateInv, TypeOK
<1>2. CASE PublisherExit(i)
  <2>1. StopTypes'
    BY <1>2 DEF StateInv, TypeOK, StopTypes, PublisherExit
  <2> QED BY <1>2, <2>1, Frame DEF PublisherExit, StateInv, TypeOK
<1>3. CASE PublishOk(i)
  <2>1. SubTypes' /\ HandlerInv'
    BY <1>3, ExecuteType DEF PublishOk, StateInv, TypeOK, SubTypes, HandlerInv
  <2>2. PubTypes'
    BY <1>3, BrokerAssumption DEF PublishOk, StateInv, TypeOK, PubTypes
  <2> QED BY <1>3, <2>1, <2>2, Frame DEF PublishOk, StateInv, TypeOK
<1>4. CASE PublishCancelled(i)
  <2>1. PubTypes'
    BY <1>4, BrokerAssumption DEF PublishCancelled, StateInv, TypeOK, PubTypes
  <2> QED BY <1>4, <2>1, Frame DEF PublishCancelled, StateInv, TypeOK
<1>5. CASE PublishFault(i)
  <2>1. SubTypes' /\ HandlerInv'
    BY <1>5, ExecuteType DEF PublishFault, StateInv, TypeOK, SubTypes, HandlerInv
  <2>2. PubTypes'
    <3>1. CASE tries[i] + 1 < MaxTries
      <4>1. tries[i] + 1 \in 0..MaxTries
        BY <3>1, BrokerAssumption DEF StateInv, TypeOK, PubTypes
      <4>2. tries' = [tries EXCEPT ![i] = tries[i] + 1] /\ UNCHANGED <<publishing, brokerPublish>>
        BY <1>5, <3>1 DEF PublishFault, RetryOrGiveUp
      <4> QED BY <4>1, <4>2 DEF StateInv, TypeOK, PubTypes
    <3>2. CASE ~(tries[i] + 1 < MaxTries)
      <4>1. 0 \in 0..MaxTries
        BY BrokerAssumption
      <4>2. /\ publishing' = [publishing EXCEPT ![i] = None]
            /\ tries' = [tries EXCEPT ![i] = 0] /\ UNCHANGED brokerPublish
        BY <1>5, <3>2 DEF PublishFault, RetryOrGiveUp
      <4> QED BY <4>1, <4>2 DEF StateInv, TypeOK, PubTypes
    <3> QED BY <3>1, <3>2
  <2>3. StopTypes'
    BY <1>5, FaultType DEF PublishFault, StateInv, TypeOK, StopTypes
  <2> QED BY <1>5, <2>1, <2>2, <2>3, Frame DEF PublishFault, StateInv, TypeOK
<1> QED BY <1>1, <1>2, <1>3, <1>4, <1>5 DEF PublisherStep

\* The subscriber.
LEMMA SubscriberState ==
  ASSUME StateInv, NEW i \in Instances, SubscriberStep(i) \/ SubscriptionLost(i)
  PROVE  StateInv'
<1> USE NoneIsNoMessage
<1>1. CASE Subscribe(i) \/ BackoffOver(i)
  <2>1. SubTypes' /\ HandlerInv'
    BY <1>1 DEF Subscribe, BackoffOver, StateInv, TypeOK, SubTypes, HandlerInv
  <2> QED BY <1>1, <2>1, Frame DEF Subscribe, BackoffOver, StateInv, TypeOK
<1>2. CASE SubscriberExit(i)
  <2>1. SubTypes' /\ HandlerInv'
    BY <1>2 DEF SubscriberExit, StateInv, TypeOK, SubTypes, HandlerInv
  <2>2. StopTypes'
    BY <1>2 DEF SubscriberExit, StateInv, TypeOK, StopTypes
  <2> QED BY <1>2, <2>1, <2>2, Frame DEF SubscriberExit, StateInv, TypeOK
<1>3. CASE HandleRemoteEvent(i)
  <2> DEFINE e == Head(wire[i])
  <2>1. e \in Messages /\ Tail(wire[i]) \in Seq(Messages)
    BY <1>3, TailQueue DEF HandleRemoteEvent, StateInv, TypeOK, SubTypes
  <2>2. Append(accepted[i], e) \in Seq(Messages)
    BY <2>1, AppendQueue DEF StateInv, TypeOK, SubTypes
  <2>3. Remember(seenEvents[i], e) \in Seq(Messages) /\ Len(Remember(seenEvents[i], e)) <= Window
    BY <2>1, RememberType DEF StateInv, TypeOK, SubTypes
  <2>4. /\ wire' = [wire EXCEPT ![i] = Tail(wire[i])]
        /\ \/ UNCHANGED <<subscriber, handled, seenEvents, accepted>>
           \/ /\ subscriber' = [subscriber EXCEPT ![i] = "remembered"]
              /\ handled' = [handled EXCEPT ![i] = e]
              /\ seenEvents' = [seenEvents EXCEPT ![i] = Remember(seenEvents[i], e)]
              /\ accepted' = [accepted EXCEPT ![i] = Append(accepted[i], e)]
    BY <1>3 DEF HandleRemoteEvent
  <2> HIDE DEF e
  <2>5. SubTypes'
    <3>1. wire' \in [Instances -> Seq(Messages)]
      BY <2>1, <2>4 DEF StateInv, TypeOK, SubTypes
    <3>2. CASE UNCHANGED <<subscriber, handled, seenEvents, accepted>>
      BY <3>1, <3>2 DEF StateInv, TypeOK, SubTypes
    <3>3. CASE /\ subscriber' = [subscriber EXCEPT ![i] = "remembered"]
               /\ handled' = [handled EXCEPT ![i] = e]
               /\ seenEvents' = [seenEvents EXCEPT ![i] = Remember(seenEvents[i], e)]
               /\ accepted' = [accepted EXCEPT ![i] = Append(accepted[i], e)]
      <4> DEFINE r == Remember(seenEvents[i], e)
                 a == Append(accepted[i], e)
      <4>1. /\ seenEvents \in [Instances -> Seq(Messages)]
            /\ \A k \in Instances : Len(seenEvents[k]) <= Window
            /\ seenEvents' = [seenEvents EXCEPT ![i] = r]
            /\ r \in Seq(Messages) /\ Len(r) <= Window
        BY <2>3, <3>3 DEF StateInv, TypeOK, SubTypes
      <4>2. /\ accepted \in [Instances -> Seq(Messages)]
            /\ accepted' = [accepted EXCEPT ![i] = a]
            /\ a \in Seq(Messages)
        BY <2>2, <3>3 DEF StateInv, TypeOK, SubTypes
      <4> HIDE DEF r, a
      <4>3. seenEvents' \in [Instances -> Seq(Messages)]
        BY <4>1
      <4>4. \A k \in Instances : Len(seenEvents'[k]) <= Window
        BY <4>1
      <4>5. accepted' \in [Instances -> Seq(Messages)]
        BY <4>2
      <4>6. handled' \in [Instances -> Messages \cup {None}]
        BY <2>1, <3>3 DEF StateInv, TypeOK, SubTypes
      <4>7. subscriber' \in [Instances -> {"subscribe", "receive", "backoff",
                                           "remembered", "enqueue"}]
        BY <3>3 DEF StateInv, TypeOK, SubTypes
      <4> QED BY <3>1, <4>3, <4>4, <4>5, <4>6, <4>7 DEF SubTypes
    <3> QED BY <2>4, <3>2, <3>3
  <2>6. HandlerInv'
    BY <2>1, <2>4 DEF StateInv, TypeOK, SubTypes, HandlerInv
  <2> QED BY <1>3, <2>5, <2>6, Frame DEF HandleRemoteEvent, StateInv, TypeOK
<1>4. CASE CheckDraining(i)
  <2>1. SubTypes' /\ HandlerInv'
    BY <1>4 DEF CheckDraining, StateInv, TypeOK, SubTypes, HandlerInv
  <2> QED BY <1>4, <2>1, Frame DEF CheckDraining, StateInv, TypeOK
<1>5. CASE EnqueueRemote(i)
  <2>1. SubTypes' /\ HandlerInv'
    BY <1>5 DEF EnqueueRemote, StateInv, TypeOK, SubTypes, HandlerInv
  <2>2. handled[i] \in Messages
    BY <1>5 DEF EnqueueRemote, StateInv, TypeOK, SubTypes, HandlerInv
  <2> DEFINE q == Append(broadcast[i], handled[i])
  <2>3. q \in Seq(Messages) /\ Len(q) = Len(broadcast[i]) + 1
    BY <2>2, AppendQueue DEF StateInv, TypeOK, HubTypes
  <2>4. /\ \/ broadcast' = [broadcast EXCEPT ![i] = q] /\ Len(broadcast[i]) < BroadcastCap
           \/ broadcast' = broadcast
        /\ log' = log /\ done' = done
    BY <1>5 DEF EnqueueRemote
  <2>5. Len(broadcast[i]) < BroadcastCap => Len(q) <= BroadcastCap
    BY <2>3, BrokerAssumption DEF StateInv, TypeOK, HubTypes
  <2> HIDE DEF q
  <2>6. HubTypes'
    BY <2>3, <2>4, <2>5 DEF StateInv, TypeOK, HubTypes
  <2> QED BY <1>5, <2>1, <2>6, Frame DEF EnqueueRemote, StateInv, TypeOK
<1>6. CASE SubscriptionLost(i)
  <2>1. SubTypes' /\ HandlerInv'
    BY <1>6 DEF SubscriptionLost, StateInv, TypeOK, SubTypes, HandlerInv
  <2>2. StopTypes'
    BY <1>6, FaultType DEF SubscriptionLost, StateInv, TypeOK, StopTypes
  <2> QED BY <1>6, <2>1, <2>2, Frame DEF SubscriptionLost, StateInv, TypeOK
<1> QED BY <1>1, <1>2, <1>3, <1>4, <1>5, <1>6 DEF SubscriberStep

\* The shutdown of a server.
LEMMA ShutdownState ==
  ASSUME StateInv, NEW i \in Instances, DrainStart(i) \/ ShutdownStep(i)
  PROVE  StateInv'
<1>1. StopTypes'
  BY FaultType DEF DrainStart, ShutdownStep, StopBroker, BrokerStopped, HubStop, Shutdown,
     StateInv, TypeOK, StopTypes
<1>2. HubTypes'
  BY DEF DrainStart, ShutdownStep, StopBroker, BrokerStopped, HubStop, hubVars,
     StateInv, TypeOK, HubTypes
<1> QED BY <1>1, <1>2, Frame DEF DrainStart, ShutdownStep, StopBroker, BrokerStopped,
           HubStop, StateInv, TypeOK

\* Every step keeps the types.
LEMMA StateStep == ASSUME StateInv, [Next]_vars PROVE StateInv'
<1>1. CASE UNCHANGED vars
  BY <1>1, Frame DEF vars, StateInv, TypeOK
<1> QED BY <1>1, AcceptState, SenderState, RunState, PublisherState, SubscriberState,
           ShutdownState DEF Next

\* Every variable keeps its type, and no channel, memory of events or number of
\* tries exceeds its limit.
THEOREM BrokerTypes == Spec => []TypeOK
<1>1. Spec => []StateInv
  BY InitState, StateStep, PTL DEF Spec
<1>2. StateInv => TypeOK
  BY DEF StateInv
<1> QED BY <1>1, <1>2, PTL

-----------------------------------------------------------------------------
(* Duplicates *)

\* No event occurs twice within the window.
FarApart(all) ==
  \A j, k \in DOMAIN all : j < k /\ all[j] = all[k] => k - j > Window

\* What is remembered stays the end of what was accepted.
LEMMA RememberEnd ==
  ASSUME NEW ids \in Seq(Messages), NEW all \in Seq(Messages), NEW e \in Messages,
         Len(ids) <= Window, EndOf(ids, all)
  PROVE  EndOf(Remember(ids, e), Append(all, e))
<1> DEFINE more == Append(ids, e)
           now == Append(all, e)
           skipped == Len(all) - Len(ids)
<1>1. /\ more \in Seq(Messages) /\ Len(more) = Len(ids) + 1 /\ more # <<>>
      /\ now \in Seq(Messages) /\ Len(now) = Len(all) + 1
      /\ Len(ids) \in Nat /\ Len(all) \in Nat /\ Window \in Nat \ {0}
  BY AppendQueue, BrokerAssumption
<1>2. /\ \A k \in 1..Len(ids) : more[k] = ids[k]
      /\ \A k \in 1..Len(all) : now[k] = all[k]
      /\ more[Len(ids) + 1] = e /\ now[Len(all) + 1] = e
  OBVIOUS
<1>3. /\ skipped \in Nat /\ (skipped > 0 => Len(ids) = Window)
      /\ \A k \in 1..Len(ids) : ids[k] = all[skipped + k]
  BY <1>1 DEF EndOf
<1>4. Remember(ids, e) = IF Len(more) > Window THEN Tail(more) ELSE more
  BY DEF Remember
<1>5. now = Append(all, e)
  OBVIOUS
<1>6. Len(all) = skipped + Len(ids)
  BY <1>1
<1> HIDE DEF more, now, skipped
<1>7. \A k \in 1..(Len(ids) + 1) : more[k] = now[skipped + k]
  <2> SUFFICES ASSUME NEW k \in 1..(Len(ids) + 1) PROVE more[k] = now[skipped + k]
    OBVIOUS
  <2>1. CASE k \in 1..Len(ids)
    <3>1. skipped + k \in 1..Len(all)
      BY <2>1, <1>1, <1>3, <1>6
    <3> QED BY <2>1, <3>1, <1>2, <1>3
  <2>2. CASE k = Len(ids) + 1
    <3>1. skipped + k = Len(all) + 1
      BY <2>2, <1>1, <1>3, <1>6
    <3> QED BY <2>2, <3>1, <1>2
  <2> QED BY <2>1, <2>2, <1>1
<1>8. CASE Len(more) > Window
  <2> DEFINE t == Tail(more)
  <2>1. Len(t) = Len(ids) /\ \A k \in 1..Len(ids) : t[k] = more[k + 1]
    BY <1>1
  <2>2. Len(ids) = Window
    BY <1>1, <1>8
  <2>3. Remember(ids, e) = t
    BY <1>4, <1>8
  <2> HIDE DEF t
  <2>4. \A k \in 1..Len(ids) : t[k] = now[(skipped + 1) + k]
    <3> SUFFICES ASSUME NEW k \in 1..Len(ids) PROVE t[k] = now[(skipped + 1) + k]
      OBVIOUS
    <3>1. k + 1 \in 1..(Len(ids) + 1) /\ skipped + (k + 1) = (skipped + 1) + k
      BY <1>1, <1>3
    <3> QED BY <3>1, <2>1, <1>7
  <2>5. Len(now) - Len(t) = skipped + 1
    <3>1. Len(now) = (skipped + Len(ids)) + 1
      BY <1>1, <1>6
    <3> QED BY <3>1, <2>1, <1>1, <1>3
  <2>6. EndOf(t, now)
    <3>1. Len(now) - Len(t) >= 0
      BY <2>5, <1>3
    <3>2. Len(t) = Window
      BY <2>1, <2>2
    <3>3. \A k \in 1..Len(t) : t[k] = now[(Len(now) - Len(t)) + k]
      BY <2>1, <2>4, <2>5
    <3> QED BY <3>1, <3>2, <3>3 DEF EndOf
  <2> QED BY <2>3, <2>6, <1>5
<1>9. CASE ~(Len(more) > Window)
  <2>1. Remember(ids, e) = more
    BY <1>4, <1>9
  <2>2. skipped = 0 /\ Len(now) - Len(more) = 0
    BY <1>1, <1>3, <1>6, <1>9
  <2>3. EndOf(more, now)
    BY <2>2, <1>1, <1>7 DEF EndOf
  <2> QED BY <2>1, <2>3, <1>5
<1> QED BY <1>8, <1>9

\* An event that is not remembered was accepted long ago, if ever.
LEMMA AcceptFar ==
  ASSUME NEW ids \in Seq(Messages), NEW all \in Seq(Messages), NEW e \in Messages,
         EndOf(ids, all), FarApart(all), e \notin Range(ids)
  PROVE  FarApart(Append(all, e))
<1> DEFINE now == Append(all, e)
           n == Len(all)
           skipped == n - Len(ids)
<1>1. /\ now \in Seq(Messages) /\ DOMAIN now = 1..(n + 1) /\ now[n + 1] = e
      /\ \A k \in 1..n : now[k] = all[k]
      /\ n \in Nat /\ Len(ids) \in Nat /\ Window \in Nat /\ DOMAIN all = 1..n
  BY BrokerAssumption
<1>2. /\ skipped \in Nat /\ (skipped > 0 => Len(ids) = Window)
      /\ \A k \in 1..Len(ids) : ids[k] = all[skipped + k] /\ ids[k] # e
  BY <1>1 DEF EndOf, Range
<1> SUFFICES ASSUME NEW j \in 1..(n + 1), NEW k \in 1..(n + 1), j < k, now[j] = now[k]
             PROVE  k - j > Window
  BY <1>1 DEF FarApart
<1>3. j \in 1..n
  BY <1>1
<1>4. CASE k \in 1..n
  BY <1>1, <1>3, <1>4 DEF FarApart
<1>5. CASE k = n + 1
  <2>1. all[j] = e
    BY <1>1, <1>3, <1>5
  <2>2. j <= skipped
    <3> SUFFICES ASSUME j > skipped PROVE FALSE
      BY <1>1, <1>2
    <3>1. j - skipped \in 1..Len(ids) /\ skipped + (j - skipped) = j
      BY <1>1, <1>2, <1>3
    <3> QED BY <3>1, <2>1, <1>2
  <2> QED BY <2>2, <1>1, <1>2, <1>3, <1>5
<1> QED BY <1>4, <1>5, <1>1

WindowState == WindowInv /\ DuplicatesAreFarApart

\* Only handleRemoteEvent touches the memory of events.
LEMMA MemoryFrame ==
  ASSUME [Next]_vars
  PROVE  UNCHANGED <<seenEvents, accepted>> \/ \E i \in Instances : HandleRemoteEvent(i)
BY DEF Next, vars, Accept, SenderStep, PublishCheck, PublishContext, QueueBrokerMessage, Run,
   PublisherStep, PublisherTake, PublisherExit, PublishOk, PublishCancelled, PublishFault,
   SubscriberStep, Subscribe, BackoffOver, SubscriberExit, CheckDraining, EnqueueRemote,
   SubscriptionLost, DrainStart, ShutdownStep, StopBroker, BrokerStopped, HubStop, subVars

LEMMA WindowStep == ASSUME StateInv, WindowState, [Next]_vars PROVE WindowState'
<1>1. CASE UNCHANGED <<seenEvents, accepted>>
  BY <1>1 DEF WindowState, WindowInv, DuplicatesAreFarApart
<1>2. ASSUME NEW i \in Instances, HandleRemoteEvent(i) PROVE WindowState'
  <2> DEFINE e == Head(wire[i])
  <2>1. CASE UNCHANGED <<seenEvents, accepted>>
    BY <2>1 DEF WindowState, WindowInv, DuplicatesAreFarApart
  <2>2. CASE ~UNCHANGED <<seenEvents, accepted>>
    <3>1. /\ e \in Messages /\ e \notin Range(seenEvents[i])
          /\ seenEvents' = [seenEvents EXCEPT ![i] = Remember(seenEvents[i], e)]
          /\ accepted' = [accepted EXCEPT ![i] = Append(accepted[i], e)]
      BY <1>2, <2>2, TailQueue DEF HandleRemoteEvent, StateInv, TypeOK, SubTypes
    <3>2. /\ seenEvents \in [Instances -> Seq(Messages)]
          /\ accepted \in [Instances -> Seq(Messages)]
          /\ Len(seenEvents[i]) <= Window
      BY DEF StateInv, TypeOK, SubTypes
    <3>3. \A k \in Instances : EndOf(seenEvents[k], accepted[k]) /\ FarApart(accepted[k])
      BY DEF WindowState, WindowInv, DuplicatesAreFarApart, FarApart
    <3> HIDE DEF e
    <3>4. EndOf(seenEvents'[i], accepted'[i])
      BY <3>1, <3>2, <3>3, RememberEnd
    <3>5. FarApart(accepted'[i])
      BY <3>1, <3>2, <3>3, AcceptFar
    <3>6. \A k \in Instances : EndOf(seenEvents'[k], accepted'[k]) /\ FarApart(accepted'[k])
      BY <3>1, <3>2, <3>3, <3>4, <3>5
    <3> QED BY <3>6 DEF WindowState, WindowInv, DuplicatesAreFarApart, FarApart
  <2> QED BY <2>1, <2>2
<1> QED BY <1>1, <1>2, MemoryFrame

\* An event is never taken for new again while it is among the last Window events
\* that a server took for new (rememberBrokerEvent), for every window and however
\* often Redis delivers it.
THEOREM BrokerDuplicates == Spec => []DuplicatesAreFarApart
<1>1. Init => WindowState
  BY DEF Init, WindowState, WindowInv, EndOf, DuplicatesAreFarApart
<1>2. Spec => [](StateInv /\ WindowState)
  BY <1>1, InitState, StateStep, WindowStep, PTL DEF Spec
<1>3. WindowState => DuplicatesAreFarApart
  BY DEF WindowState
<1> QED BY <1>2, <1>3, PTL

-----------------------------------------------------------------------------
(* Sequences of messages *)

LEMMA RangeAppend ==
  ASSUME NEW q \in Seq(Messages), NEW m \in Messages
  PROVE  Range(Append(q, m)) = Range(q) \cup {m}
<1> DEFINE r == Append(q, m)
<1>1. /\ DOMAIN r = 1..(Len(q) + 1) /\ DOMAIN q = 1..Len(q) /\ Len(q) \in Nat
      /\ \A k \in 1..Len(q) : r[k] = q[k]
      /\ r[Len(q) + 1] = m
  OBVIOUS
<1> HIDE DEF r
<1>2. Range(r) \subseteq Range(q) \cup {m}
  BY <1>1 DEF Range
<1>3. Range(q) \cup {m} \subseteq Range(r)
  BY <1>1 DEF Range
<1> QED BY <1>2, <1>3 DEF r

LEMMA RangeTail ==
  ASSUME NEW q \in Seq(Messages), q # <<>>
  PROVE  Head(q) \in Range(q) /\ Range(Tail(q)) \subseteq Range(q)
BY DEF Range

\* A message that is not before any other may follow.
LEMMA OrderedAppend ==
  ASSUME NEW q \in Seq(Messages), NEW m \in Messages, Ordered(q), NotAfter(Range(q), {m})
  PROVE  Ordered(Append(q, m))
<1>1. /\ DOMAIN Append(q, m) = 1..(Len(q) + 1) /\ DOMAIN q = 1..Len(q) /\ Len(q) \in Nat
      /\ \A k \in 1..Len(q) : Append(q, m)[k] = q[k]
      /\ Append(q, m)[Len(q) + 1] = m
  OBVIOUS
<1>2. \A k \in 1..Len(q) : q[k][1] = m[1] => q[k][2] <= m[2]
  BY <1>1 DEF NotAfter, Range
<1> DEFINE r == Append(q, m)
<1> HIDE DEF r
<1> SUFFICES ASSUME NEW j \in 1..(Len(q) + 1), NEW k \in 1..(Len(q) + 1), j < k, r[j][1] = r[k][1]
             PROVE  r[j][2] <= r[k][2]
  BY <1>1 DEF Ordered, r
<1>3. j \in 1..Len(q) /\ r[j] = q[j]
  BY <1>1 DEF r
<1>4. CASE k \in 1..Len(q)
  BY <1>1, <1>3, <1>4 DEF Ordered, r
<1>5. CASE k = Len(q) + 1
  BY <1>1, <1>2, <1>3, <1>5 DEF r
<1> QED BY <1>4, <1>5, <1>1

\* The first message of a queue is not after the others.
LEMMA OrderedTail ==
  ASSUME NEW q \in Seq(Messages), q # <<>>, Ordered(q)
  PROVE  Ordered(Tail(q)) /\ NotAfter({Head(q)}, Range(Tail(q)))
<1> DEFINE t == Tail(q)
<1>1. /\ DOMAIN t = 1..(Len(q) - 1) /\ DOMAIN q = 1..Len(q) /\ Len(q) \in Nat \ {0}
      /\ \A k \in 1..(Len(q) - 1) : t[k] = q[k + 1]
      /\ Head(q) = q[1]
  OBVIOUS
<1> HIDE DEF t
<1>2. Ordered(t)
  <2> SUFFICES ASSUME NEW j \in 1..(Len(q) - 1), NEW k \in 1..(Len(q) - 1), j < k, t[j][1] = t[k][1]
               PROVE  t[j][2] <= t[k][2]
    BY <1>1 DEF Ordered
  <2>1. j + 1 \in DOMAIN q /\ k + 1 \in DOMAIN q /\ j + 1 < k + 1
    BY <1>1
  <2>2. t[j] = q[j + 1] /\ t[k] = q[k + 1]
    BY <1>1
  <2> QED BY <2>1, <2>2 DEF Ordered
<1>3. \A k \in DOMAIN t : q[1][1] = t[k][1] => q[1][2] <= t[k][2]
  <2> SUFFICES ASSUME NEW k \in 1..(Len(q) - 1) PROVE q[1][1] = t[k][1] => q[1][2] <= t[k][2]
    BY <1>1
  <2>1. 1 \in DOMAIN q /\ k + 1 \in DOMAIN q /\ 1 < k + 1 /\ t[k] = q[k + 1]
    BY <1>1
  <2> QED BY <2>1 DEF Ordered
<1>4. NotAfter({Head(q)}, Range(t))
  BY <1>1, <1>3 DEF NotAfter, Range
<1> QED BY <1>2, <1>4 DEF t

LEMMA InOrderAppend ==
  ASSUME NEW i, NEW d \in Seq(Messages), NEW m \in Messages, InOrder(d, i),
         \A n \in Range(d) : n[1] = m[1] => n[2] < m[2] \/ (n[2] <= m[2] /\ Origin(m) # i)
  PROVE  InOrder(Append(d, m), i)
<1> DEFINE r == Append(d, m)
           L == Len(d)
<1>1. /\ DOMAIN r = 1..(L + 1) /\ DOMAIN d = 1..L /\ L \in Nat
      /\ \A k \in 1..L : r[k] = d[k] /\ d[k] \in Messages
      /\ r[L + 1] = m
  OBVIOUS
<1> HIDE DEF r, L
<1> SUFFICES ASSUME NEW j \in 1..(L + 1), NEW k \in 1..(L + 1), j < k, r[j][1] = r[k][1]
             PROVE  r[j][2] < r[k][2] \/ (r[j] = r[k] /\ Origin(r[j]) # i)
  BY <1>1 DEF InOrder, r
<1>2. j \in 1..L /\ r[j] = d[j] /\ d[j] \in Range(d)
  BY <1>1 DEF Range
<1>3. CASE k \in 1..L
  BY <1>1, <1>2, <1>3 DEF InOrder
<1>4. CASE k = L + 1
  <2>1. d[j][1] = m[1] /\ r[k] = m
    BY <1>1, <1>2, <1>4
  <2>2. d[j][2] < m[2] \/ (d[j][2] <= m[2] /\ Origin(m) # i)
    BY <1>2, <2>1
  <2>3. d[j] \in Messages /\ d[j][2] \in Nat /\ m[2] \in Nat
    BY <1>1, <1>2, BrokerAssumption DEF Messages
  <2>4. d[j][2] = m[2] => d[j] = m
    BY <2>1, <2>3 DEF Messages
  <2> QED BY <2>1, <2>2, <2>3, <2>4, <1>2
<1> QED BY <1>3, <1>4, <1>1

\* What clients are given grows with broadcast, and run changes nothing in it.
LEMMA GivenAppend ==
  ASSUME NEW l \in Seq(Messages), NEW b \in Seq(Messages), NEW m \in Messages
  PROVE  l \o Append(b, m) = Append(l \o b, m)
OBVIOUS

LEMMA GivenRun ==
  ASSUME NEW l \in Seq(Messages), NEW b \in Seq(Messages), b # <<>>
  PROVE  Append(l, Head(b)) \o Tail(b) = l \o b
OBVIOUS

-----------------------------------------------------------------------------
(* The way of a message *)

\* The messages of every place are messages.
LEMMA Places ==
  ASSUME StateInv
  PROVE  /\ Queued \subseteq Messages /\ Sending \subseteq Messages
         /\ \A i \in Instances :
              /\ Wire(i) \subseteq Messages /\ Pending(i) \subseteq Messages
              /\ Delivered(i) \in Seq(Messages) /\ Range(Delivered(i)) \subseteq Messages
<1>1. \A q \in Seq(Messages) : Range(q) \subseteq Messages
  BY DEF Range
<1>2. \A i \in Instances : Delivered(i) \in Seq(Messages)
  BY DEF StateInv, TypeOK, HubTypes, Delivered
<1> QED BY <1>1, <1>2 DEF StateInv, TypeOK, PubTypes, SubTypes, Queued, Sending, Wire, Pending

\* OrderKept, server by server.
LEMMA OrderByServer == GivenInv => OrderKept
BY DEF GivenInv, OrderKept, InOrder

\* A step in which messages only leave the places on the way.
Shrinks ==
  /\ sent' = sent /\ saved' = saved /\ brokerPublish' = brokerPublish
  /\ \A s \in Senders :
       sender'[s] \in {"check", "broadcast"} => sender[s] \in {"check", "broadcast"}
  /\ \A i \in Instances :
       /\ Delivered(i)' = Delivered(i)
       /\ publishing'[i] \in {publishing[i], None}
       /\ handled'[i] \in {handled[i], None}
       /\ \/ wire'[i] \in {wire[i], <<>>}
          \/ wire[i] # <<>> /\ wire'[i] = Tail(wire[i])

LEMMA ShrinksPath == ASSUME StateInv, PathInv, Shrinks PROVE PathInv'
<1>1. \A i \in Instances : Wire(i)' \subseteq Wire(i) /\ Ordered(wire'[i])
  <2> SUFFICES ASSUME NEW i \in Instances PROVE Wire(i)' \subseteq Wire(i) /\ Ordered(wire'[i])
    OBVIOUS
  <2>1. wire[i] \in Seq(Messages) /\ Ordered(wire[i])
    BY DEF StateInv, TypeOK, SubTypes, PathInv, FlowInv
  <2>2. CASE wire'[i] = wire[i]
    BY <2>1, <2>2 DEF Wire
  <2>3. CASE wire'[i] = <<>>
    BY <2>3 DEF Wire, Range, Ordered
  <2>4. CASE wire[i] # <<>> /\ wire'[i] = Tail(wire[i])
    BY <2>1, <2>4, RangeTail, OrderedTail DEF Wire
  <2> QED BY <2>2, <2>3, <2>4 DEF Shrinks
<1>2. Queued' = Queued /\ Sending' \subseteq Sending
  BY DEF Shrinks, Queued, Sending
<1>3. \A i \in Instances : Pending(i)' \subseteq Pending(i) /\ Remote(i)' = Remote(i)
  BY DEF Shrinks, Pending, Remote
<1>4. SavedInv' /\ OriginInv'
  <2>1. SavedInv'
    BY <1>1, <1>2, <1>3 DEF Shrinks, PathInv, SavedInv
  <2>2. OriginInv'
    BY DEF Shrinks, PathInv, OriginInv
  <2> QED BY <2>1, <2>2
<1>5. NumberInv'
  <2>1. \A i \in Instances : \A m \in Range(Delivered(i)) : m[1] \in Senders
    BY Places DEF Messages
  <2> QED BY <2>1 DEF Shrinks, PathInv, NumberInv
<1>6. FlowInv'
  BY <1>1, <1>2, <1>3 DEF Shrinks, PathInv, FlowInv, NotAfter
<1>7. GivenInv'
  BY DEF Shrinks, PathInv, GivenInv
<1> QED BY <1>4, <1>5, <1>6, <1>7 DEF PathInv

\* Steps that only lose messages or touch none.
LEMMA ServerPath ==
  ASSUME StateInv, NEW i \in Instances,
         \/ PublisherExit(i) \/ PublishCancelled(i) \/ Subscribe(i) \/ BackoffOver(i)
         \/ SubscriberExit(i) \/ SubscriptionLost(i) \/ CheckDraining(i)
         \/ DrainStart(i) \/ ShutdownStep(i)
  PROVE  Shrinks
<1>1. UNCHANGED <<sendVars, broadcast, log, brokerPublish>>
  BY DEF PublisherExit, PublishCancelled, Subscribe, BackoffOver, SubscriberExit,
     SubscriptionLost, CheckDraining, DrainStart, ShutdownStep, StopBroker, BrokerStopped,
     HubStop, hubVars, pubVars
<1>2. \A k \in Instances : publishing'[k] \in {publishing[k], None}
  BY DEF StateInv, TypeOK, PubTypes, PublisherExit, PublishCancelled, Subscribe, BackoffOver,
     SubscriberExit, SubscriptionLost, CheckDraining, DrainStart, ShutdownStep, StopBroker,
     BrokerStopped, HubStop, pubVars
<1>3. \A k \in Instances : handled'[k] \in {handled[k], None} /\ wire'[k] \in {wire[k], <<>>}
  BY DEF StateInv, TypeOK, SubTypes, PublisherExit, PublishCancelled, Subscribe, BackoffOver,
     SubscriberExit, SubscriptionLost, CheckDraining, DrainStart, ShutdownStep, StopBroker,
     BrokerStopped, HubStop, subVars
<1> QED BY <1>1, <1>2, <1>3 DEF Shrinks, sendVars, Delivered

\* run moves a message within what the clients are given.
LEMMA RunPath == ASSUME StateInv, NEW i \in Instances, Run(i) PROVE Shrinks
<1>1. \A k \in Instances : Delivered(k)' = Delivered(k)
  <2> SUFFICES ASSUME NEW k \in Instances PROVE log'[k] \o broadcast'[k] = log[k] \o broadcast[k]
    BY DEF Delivered
  <2>1. CASE k = i
    BY <2>1, GivenRun DEF Run, StateInv, TypeOK, HubTypes
  <2>2. CASE k # i
    BY <2>2 DEF Run, StateInv, TypeOK, HubTypes
  <2> QED BY <2>1, <2>2
<1> QED BY <1>1 DEF Run, Shrinks, sendVars, pubVars, subVars

\* A new message has a number above all others of its sender.
LEMMA AcceptPath == ASSUME StateInv, PathInv, NEW s \in Senders, Accept(s) PROVE PathInv'
<1>1. /\ sent \in [Senders -> Nat] /\ saved \subseteq Messages
      /\ sent' = [sent EXCEPT ![s] = sent[s] + 1]
      /\ sender \in [Senders -> {"idle", "check", "broadcast", "queue"}]
      /\ sender' = [sender EXCEPT ![s] = "check"]
      /\ saved' = saved \cup {<<s, sent[s] + 1>>} \/ saved' = saved
      /\ UNCHANGED <<broadcast, log, brokerPublish, publishing, wire, handled>>
  <2>1. 0..MaxMessages \subseteq Nat
    BY BrokerAssumption
  <2>2. /\ sent \in [Senders -> Nat] /\ saved \subseteq Messages
        /\ sender \in [Senders -> {"idle", "check", "broadcast", "queue"}]
    BY <2>1 DEF StateInv, TypeOK, SendTypes
  <2> QED BY <2>2 DEF Accept, hubVars, pubVars, subVars
<1>2. /\ Queued' = Queued /\ Sending' = Sending
      /\ \A i \in Instances : /\ Wire(i)' = Wire(i) /\ Pending(i)' = Pending(i)
                              /\ Delivered(i)' = Delivered(i) /\ Remote(i)' = Remote(i)
  BY <1>1 DEF Queued, Sending, Wire, Pending, Delivered, Remote
<1>3. SavedInv' /\ OriginInv'
  <2>1. saved \subseteq saved'
    BY <1>1
  <2>2. SavedInv'
    BY <2>1, <1>2 DEF PathInv, SavedInv
  <2>3. OriginInv'
    BY <1>1 DEF PathInv, OriginInv
  <2> QED BY <2>2, <2>3
<1>4. NumberInv'
  <2>1. \A m \in Messages : m[1] \in Senders /\ m[2] \in Nat
    BY BrokerAssumption DEF Messages
  <2>2. \A m \in saved' : m[2] <= sent'[m[1]]
    BY <1>1, <2>1 DEF PathInv, NumberInv
  <2>3. ASSUME NEW i \in Instances, NEW m \in Range(Delivered(i))
        PROVE  /\ m[2] <= sent'[m[1]]
               /\ Origin(m) = i /\ sender'[m[1]] \in {"check", "broadcast"} => m[2] < sent'[m[1]]
    <3>1. m[1] \in Senders /\ m[2] \in Nat /\ m[2] <= sent[m[1]]
      BY <2>1, Places DEF PathInv, NumberInv
    <3>2. CASE m[1] = s
      BY <3>1, <3>2, <1>1
    <3>3. CASE m[1] # s
      BY <3>1, <3>3, <1>1 DEF PathInv, NumberInv
    <3> QED BY <3>2, <3>3
  <2> QED BY <2>2, <2>3, <1>2 DEF NumberInv
<1>5. FlowInv'
  BY <1>1, <1>2 DEF PathInv, FlowInv
<1>6. GivenInv'
  BY <1>2 DEF PathInv, GivenInv
<1> QED BY <1>3, <1>4, <1>5, <1>6 DEF PathInv

\* Another message m is given to the clients of server i: one that was handled there,
\* or one of its own that has just been broadcast.
LEMMA GivenPath ==
  ASSUME StateInv, PathInv, NEW i \in Instances, NEW m \in Messages,
         Len(broadcast[i]) < BroadcastCap,
         broadcast' = [broadcast EXCEPT ![i] = Append(broadcast[i], m)],
         UNCHANGED <<sent, saved, log, brokerPublish, publishing, wire>>,
         \/ /\ Origin(m) = i /\ sender[m[1]] = "broadcast" /\ m[2] = sent[m[1]]
            /\ sender' = [sender EXCEPT ![m[1]] = "queue"]
            /\ handled' = handled
         \/ /\ m = handled[i] /\ m # None
            /\ sender' = sender
            /\ handled' = [handled EXCEPT ![i] = None]
  PROVE  PathInv'
<1>1. /\ Delivered(i)' = Append(Delivered(i), m)
      /\ \A k \in Instances \ {i} : Delivered(k)' = Delivered(k)
  <2>1. log[i] \in Seq(Messages) /\ broadcast[i] \in Seq(Messages)
    BY DEF StateInv, TypeOK, HubTypes
  <2>2. log[i] \o Append(broadcast[i], m) = Append(log[i] \o broadcast[i], m)
    BY <2>1, GivenAppend
  <2> QED BY <2>2 DEF StateInv, TypeOK, HubTypes, Delivered
<1>2. Range(Delivered(i)') = Range(Delivered(i)) \cup {m}
  BY <1>1, Places, RangeAppend
<1>3. /\ Queued' = Queued /\ Sending' = Sending
      /\ \A k \in Instances : Wire(k)' = Wire(k) /\ Pending(k)' \subseteq Pending(k)
      /\ handled' = [handled EXCEPT ![i] = None] => Pending(i)' = {}
      /\ \A k \in Instances \ {i} : Remote(k)' = Remote(k)
      /\ Remote(i)' \subseteq Remote(i) \cup {m}
      /\ m \in Remote(i)' => m \in Pending(i) /\ Pending(i)' = {}
  <2>1. handled \in [Instances -> Messages \cup {None}]
    BY DEF StateInv, TypeOK, SubTypes
  <2>2. Queued' = Queued /\ Sending' = Sending /\ \A k \in Instances : Wire(k)' = Wire(k)
    BY DEF Queued, Sending, Wire
  <2>3. /\ \A k \in Instances : Pending(k)' \subseteq Pending(k)
        /\ handled' = [handled EXCEPT ![i] = None] => Pending(i)' = {}
    BY <2>1 DEF Pending
  <2>4. /\ \A k \in Instances \ {i} : Remote(k)' = Remote(k)
        /\ Remote(i)' \subseteq Remote(i) \cup {m}
    BY <1>1, <1>2 DEF Remote
  <2>5. m \in Remote(i)' => Origin(m) # i
    BY DEF Remote
  <2>6. m \in Remote(i)' => m = handled[i] /\ m # None /\ handled' = [handled EXCEPT ![i] = None]
    BY <2>5
  <2> QED BY <2>2, <2>3, <2>4, <2>6 DEF Pending
<1>4. SavedInv' /\ OriginInv'
  <2>1. ASSUME NEW k \in Instances
        PROVE  Remote(k)' \subseteq saved
    <3>1. Remote(k) \subseteq saved /\ Pending(k) \subseteq saved
      BY DEF PathInv, SavedInv
    <3>2. CASE k # i
      BY <3>1, <3>2, <1>3
    <3>3. CASE k = i
      <4>1. /\ Remote(i)' \subseteq Remote(i) \cup {m}
            /\ m \in Remote(i)' => m \in Pending(i)
        BY <1>3
      <4> QED BY ONLY <4>1, <3>1, <3>3
    <3> QED BY <3>2, <3>3
  <2>2. SavedInv'
    BY <2>1, <1>3 DEF PathInv, SavedInv
  <2>3. \A k \in Instances : handled'[k] # None => handled'[k] = handled[k]
    BY DEF StateInv, TypeOK, SubTypes
  <2>4. OriginInv'
    BY <2>3 DEF PathInv, OriginInv
  <2> QED BY <2>2, <2>4
<1>5. NumberInv'
  <2>1. m[1] \in Senders /\ m[2] \in Nat /\ sender \in [Senders -> {"idle", "check", "broadcast", "queue"}]
    BY BrokerAssumption DEF Messages, StateInv, TypeOK, SendTypes
  <2>2. \A x \in Senders : sender'[x] \in {"check", "broadcast"} => sender[x] \in {"check", "broadcast"}
    BY <2>1
  <2>3. /\ m[2] <= sent[m[1]]
        /\ Origin(m) = i /\ sender'[m[1]] \in {"check", "broadcast"} => FALSE
    <3>1. CASE Origin(m) = i /\ m[2] = sent[m[1]] /\ sender' = [sender EXCEPT ![m[1]] = "queue"]
      BY <3>1, <2>1 DEF StateInv, TypeOK, SendTypes
    <3>2. CASE m = handled[i] /\ m # None
      <4>1. m \in saved /\ Origin(m) # i
        BY <3>2 DEF PathInv, SavedInv, OriginInv, Pending
      <4> QED BY <4>1 DEF PathInv, NumberInv
    <3> QED BY <3>1, <3>2
  <2>4. \A k \in Instances : \A n \in Range(Delivered(k)) : n[1] \in Senders
    BY Places DEF Messages
  <2>5. \A k \in Instances : Range(Delivered(k)') \subseteq Range(Delivered(k)) \cup (IF k = i THEN {m} ELSE {})
    BY <1>1, <1>2
  <2>6. ASSUME NEW k \in Instances, NEW n \in Range(Delivered(k)')
        PROVE  /\ n[2] <= sent[n[1]]
               /\ Origin(n) = k /\ sender'[n[1]] \in {"check", "broadcast"} => n[2] < sent[n[1]]
    <3>1. CASE n \in Range(Delivered(k))
      BY <3>1, <2>2, <2>4 DEF PathInv, NumberInv
    <3>2. CASE k = i /\ n = m
      BY <3>2, <2>3
    <3> QED BY <3>1, <3>2, <2>5
  <2> QED BY <2>6 DEF PathInv, NumberInv
<1>6. FlowInv'
  <2>1. \A k \in Instances : Ordered(brokerPublish'[k]) /\ Ordered(wire'[k])
    BY DEF PathInv, FlowInv
  <2>2. NotAfter(Sending', Queued')
    BY <1>3 DEF PathInv, FlowInv
  <2>3. ASSUME NEW k \in Instances
        PROVE  /\ NotAfter(Wire(k)', Sending' \cup Queued')
               /\ NotAfter(Pending(k)', Wire(k)' \cup Sending' \cup Queued')
    BY <1>3 DEF PathInv, FlowInv, NotAfter
  <2>4. ASSUME NEW k \in Instances
        PROVE  NotAfter(Remote(k)', Pending(k)' \cup Wire(k)' \cup Sending' \cup Queued')
    <3>1. CASE k # i
      BY <3>1, <1>3 DEF PathInv, FlowInv, NotAfter
    <3>2. CASE k = i
      <4>1. NotAfter(Remote(i), Pending(i)' \cup Wire(i)' \cup Sending' \cup Queued')
        BY <1>3 DEF PathInv, FlowInv, NotAfter
      <4>2. ASSUME m \in Remote(i)'
            PROVE  NotAfter({m}, Pending(i)' \cup Wire(i)' \cup Sending' \cup Queued')
        <5>1. m \in Pending(i) /\ Pending(i)' = {}
          BY <4>2, <1>3
        <5>2. Pending(i)' \cup Wire(i)' \cup Sending' \cup Queued' \subseteq Wire(i) \cup Sending \cup Queued
          BY <5>1, <1>3
        <5>3. NotAfter(Pending(i), Wire(i) \cup Sending \cup Queued)
          BY DEF PathInv, FlowInv
        <5> QED BY <5>1, <5>2, <5>3 DEF NotAfter
      <4> QED BY <3>2, <4>1, <4>2, <1>3 DEF NotAfter
    <3> QED BY <3>1, <3>2
  <2> QED BY <2>1, <2>2, <2>3, <2>4 DEF FlowInv
<1>7. GivenInv'
  <2>1. \A k \in Instances : InOrder(Delivered(k), k)
    BY DEF PathInv, GivenInv
  <2>2. ASSUME NEW n \in Range(Delivered(i)), n[1] = m[1]
        PROVE  n[2] < m[2] \/ (n[2] <= m[2] /\ Origin(m) # i)
    <3>1. CASE Origin(m) = i
      <4>1. Origin(n) = i
        BY <3>1, <2>2 DEF Origin
      <4>2. m # handled[i] \/ m = None
        BY <3>1 DEF PathInv, OriginInv
      <4>3. sender[n[1]] = "broadcast" /\ m[2] = sent[n[1]]
        BY <4>2, <2>2
      <4> QED BY <4>1, <4>3 DEF PathInv, NumberInv
    <3>2. CASE Origin(m) # i
      <4>1. Origin(n) # i
        BY <3>2, <2>2 DEF Origin
      <4>2. n \in Remote(i) /\ m \in Pending(i)
        BY <4>1, <3>2 DEF Remote, Pending
      <4> QED BY <4>2, <2>2, <3>2 DEF PathInv, FlowInv, NotAfter
    <3> QED BY <3>1, <3>2
  <2>3. InOrder(Append(Delivered(i), m), i)
    BY <2>1, <2>2, Places, InOrderAppend
  <2>4. \A k \in Instances : InOrder(Delivered(k)', k)
    BY <2>1, <2>3, <1>1
  <2> QED BY <2>4 DEF GivenInv
<1> QED BY <1>4, <1>5, <1>6, <1>7 DEF PathInv

\* publishContext and queueBrokerMessage.
LEMMA SenderPath == ASSUME StateInv, PathInv, NEW s \in Senders, SenderStep(s) PROVE PathInv'
<1> DEFINE h == Home[s]
           c == Current(s)
<1>1. CASE PublishCheck(s)
  <2>1. Shrinks
    BY <1>1 DEF PublishCheck, Shrinks, StateInv, TypeOK, SendTypes, hubVars, pubVars, subVars, Delivered
  <2> QED BY <2>1, ShrinksPath
<1>2. CASE PublishContext(s)
  <2>1. CASE Len(broadcast[h]) < BroadcastCap /\ broadcast' = [broadcast EXCEPT ![h] = Append(@, c)]
             /\ sender' = [sender EXCEPT ![s] = "queue"]
    <3>1. /\ c \in Messages /\ h \in Instances /\ Origin(c) = h
          /\ sender[c[1]] = "broadcast" /\ c[1] = s /\ c[2] = sent[s]
      BY <1>2, CurrentType DEF PublishContext, Current
    <3>2. UNCHANGED <<sent, saved, log, brokerPublish, publishing, wire, handled>>
      BY <1>2 DEF PublishContext, pubVars, subVars
    <3> HIDE DEF h, c
    <3> QED BY <2>1, <3>1, <3>2, GivenPath
  <2>2. CASE sender' = [sender EXCEPT ![s] = "idle"] /\ UNCHANGED broadcast
    <3>1. Shrinks
      BY <1>2, <2>2 DEF PublishContext, Shrinks, StateInv, TypeOK, SendTypes, pubVars, subVars,
         Delivered
    <3> QED BY <3>1, ShrinksPath
  <2> QED BY <1>2, <2>1, <2>2 DEF PublishContext
<1>3. CASE QueueBrokerMessage(s)
  <2>1. CASE brokerPublish' = brokerPublish
    <3>1. Shrinks
      BY <1>3, <2>1 DEF QueueBrokerMessage, Shrinks, StateInv, TypeOK, SendTypes, hubVars, subVars,
         Delivered
    <3> QED BY <3>1, ShrinksPath
  <2>2. CASE c \in saved /\ brokerPublish' = [brokerPublish EXCEPT ![h] = Append(brokerPublish[h], c)]
    <3>1. c \in Messages /\ h \in Instances /\ Origin(c) = h /\ c[2] = sent[c[1]]
      BY <1>3, CurrentType DEF QueueBrokerMessage, Current
    <3>2. /\ UNCHANGED <<sent, saved, broadcast, log, publishing, wire, handled>>
          /\ sender' = [sender EXCEPT ![s] = "idle"]
      BY <1>3 DEF QueueBrokerMessage, hubVars, subVars
    <3> HIDE DEF h, c
    <3>3. brokerPublish \in [Instances -> Seq(Messages)]
      BY DEF StateInv, TypeOK, PubTypes
    <3>4. Range(brokerPublish'[h]) = Range(brokerPublish[h]) \cup {c}
      BY <2>2, <3>1, <3>3, RangeAppend
    <3>5. /\ Queued' = Queued \cup {c} /\ Sending' = Sending
          /\ \A i \in Instances : /\ Wire(i)' = Wire(i) /\ Pending(i)' = Pending(i)
                                  /\ Delivered(i)' = Delivered(i) /\ Remote(i)' = Remote(i)
      <4>1. Queued' = Queued \cup {c}
        <5>1. \A k \in Instances \ {h} : brokerPublish'[k] = brokerPublish[k]
          BY <2>2, <3>3
        <5>2. Queued' \subseteq Queued \cup {c}
          BY <5>1, <3>1, <3>4 DEF Queued
        <5>3. Queued \cup {c} \subseteq Queued'
          BY <5>1, <3>1, <3>4 DEF Queued
        <5> QED BY <5>2, <5>3
      <4> QED BY <4>1, <3>2 DEF Sending, Wire, Pending, Delivered, Remote
    <3>6. \A m \in saved : m[1] = c[1] => m[2] <= c[2]
      BY <3>1 DEF PathInv, NumberInv
    <3>7. SavedInv' /\ OriginInv'
      <4>1. \A k \in Instances : \A m \in Range(brokerPublish'[k]) : Origin(m) = k
        BY <2>2, <3>1, <3>3, <3>4 DEF PathInv, OriginInv
      <4>2. OriginInv'
        BY <4>1, <3>2 DEF PathInv, OriginInv
      <4>3. SavedInv'
        BY <2>2, <3>2, <3>5 DEF PathInv, SavedInv
      <4> QED BY <4>2, <4>3
    <3>8. NumberInv'
      <4>1. \A k \in Instances : \A m \in Range(Delivered(k)) : m[1] \in Senders
        BY Places DEF Messages
      <4>2. \A x \in Senders :
              sender'[x] \in {"check", "broadcast"} => sender[x] \in {"check", "broadcast"}
        BY <3>2 DEF StateInv, TypeOK, SendTypes
      <4> QED BY <4>1, <4>2, <3>2, <3>5 DEF PathInv, NumberInv
    <3>9. FlowInv'
      <4>1. NotAfter(Range(brokerPublish[h]), {c})
        BY <3>1, <3>6 DEF PathInv, SavedInv, NotAfter, Queued
      <4>2. Ordered(brokerPublish'[h])
        BY <4>1, <2>2, <3>1, <3>3, OrderedAppend DEF PathInv, FlowInv
      <4>3. \A k \in Instances : Ordered(brokerPublish'[k]) /\ Ordered(wire'[k])
        BY <4>2, <2>2, <3>2, <3>3 DEF PathInv, FlowInv
      <4>4. /\ NotAfter(Sending, {c})
            /\ \A k \in Instances : /\ NotAfter(Wire(k), {c}) /\ NotAfter(Pending(k), {c})
                                    /\ NotAfter(Remote(k), {c})
        BY <3>6 DEF PathInv, SavedInv, NotAfter
      <4>5. NotAfter(Sending', Queued')
        BY <4>4, <3>5 DEF PathInv, FlowInv, NotAfter
      <4>6. ASSUME NEW k \in Instances
            PROVE  NotAfter(Wire(k)', Sending' \cup Queued')
        BY <4>4, <3>5 DEF PathInv, FlowInv, NotAfter
      <4>7. ASSUME NEW k \in Instances
            PROVE  NotAfter(Pending(k)', Wire(k)' \cup Sending' \cup Queued')
        BY <4>4, <3>5 DEF PathInv, FlowInv, NotAfter
      <4>8. ASSUME NEW k \in Instances
            PROVE  NotAfter(Remote(k)', Pending(k)' \cup Wire(k)' \cup Sending' \cup Queued')
        BY <4>4, <3>5 DEF PathInv, FlowInv, NotAfter
      <4> QED BY <4>3, <4>5, <4>6, <4>7, <4>8 DEF FlowInv
    <3>10. GivenInv'
      BY <3>5 DEF PathInv, GivenInv
    <3> QED BY <3>7, <3>8, <3>9, <3>10 DEF PathInv
  <2> QED BY <1>3, <2>1, <2>2 DEF QueueBrokerMessage
<1> QED BY <1>1, <1>2, <1>3 DEF SenderStep

\* The publisher takes the first message of the queue.
LEMMA TakePath == ASSUME StateInv, PathInv, NEW i \in Instances, PublisherTake(i) PROVE PathInv'
<1> DEFINE q == brokerPublish[i]
           e == Head(q)
<1>1. /\ q \in Seq(Messages) /\ q # <<>> /\ e \in Messages /\ publishing[i] = None
      /\ publishing' = [publishing EXCEPT ![i] = e]
      /\ brokerPublish' = [brokerPublish EXCEPT ![i] = Tail(q)]
      /\ UNCHANGED <<sender, sent, saved, broadcast, log, wire, handled>>
  BY TailQueue DEF PublisherTake, StateInv, TypeOK, PubTypes, sendVars, hubVars, subVars
<1>2. /\ brokerPublish \in [Instances -> Seq(Messages)]
      /\ publishing \in [Instances -> Messages \cup {None}]
  BY DEF StateInv, TypeOK, PubTypes
<1>3. /\ e \in Range(q) /\ Range(Tail(q)) \subseteq Range(q)
      /\ Ordered(Tail(q)) /\ NotAfter({e}, Range(Tail(q)))
  BY <1>1, RangeTail, OrderedTail DEF PathInv, FlowInv
<1>4. \A k \in Instances : \A m \in Range(brokerPublish[k]) : Origin(m) = k
  BY DEF PathInv, OriginInv
<1>5. Range(q) \subseteq Queued
  BY DEF Queued
<1> DEFINE t == Tail(q)
<1>6. /\ brokerPublish'[i] = t /\ publishing'[i] = e
      /\ \A k \in Instances \ {i} : brokerPublish'[k] = brokerPublish[k] /\ publishing'[k] = publishing[k]
  BY <1>1, <1>2
<1> HIDE DEF q, e, t
<1>7. Queued' \subseteq Queued
  <2>1. \A k \in Instances : Range(brokerPublish'[k]) \subseteq Range(brokerPublish[k])
    BY <1>3, <1>6 DEF q, t
  <2> QED BY <2>1 DEF Queued
<1>8. Sending' \subseteq Sending \cup {e}
  BY <1>6 DEF Sending
<1>9. \A k \in Instances : /\ Wire(k)' = Wire(k) /\ Pending(k)' = Pending(k)
                           /\ Delivered(k)' = Delivered(k) /\ Remote(k)' = Remote(k)
  BY <1>1 DEF Wire, Pending, Delivered, Remote
<1>10. SavedInv' /\ OriginInv'
  <2>1. \A k \in Instances : /\ \A m \in Range(brokerPublish'[k]) : Origin(m) = k
                             /\ publishing'[k] # None => Origin(publishing'[k]) = k
    BY <1>3, <1>4, <1>6 DEF PathInv, OriginInv, q, t
  <2>2. OriginInv'
    <3>1. handled' = handled
      BY <1>1
    <3>2. \A k \in Instances : handled'[k] # None => Origin(handled'[k]) # k
      BY <3>1 DEF PathInv, OriginInv
    <3> QED BY ONLY <2>1, <3>2 DEF OriginInv
  <2>3. Queued' \subseteq saved /\ Sending' \subseteq saved
    BY <1>3, <1>5, <1>7, <1>8 DEF PathInv, SavedInv
  <2>4. saved' = saved
    BY <1>1
  <2>5. SavedInv'
    BY <2>3, <2>4, <1>9 DEF PathInv, SavedInv
  <2> QED BY <2>2, <2>5
<1>11. NumberInv'
  BY <1>1, <1>9 DEF PathInv, NumberInv
<1>12. FlowInv'
  <2>1. \A k \in Instances : Ordered(brokerPublish'[k]) /\ Ordered(wire'[k])
    BY <1>1, <1>3, <1>6 DEF PathInv, FlowInv, t
  <2>2. NotAfter({e}, Queued')
    <3> SUFFICES ASSUME NEW n \in Queued', e[1] = n[1] PROVE e[2] <= n[2]
      BY DEF NotAfter
    <3>1. PICK k \in Instances : n \in Range(brokerPublish'[k])
      BY DEF Queued
    <3>2. Origin(e) = i /\ Origin(n) = k
      BY <3>1, <1>3, <1>4, <1>6 DEF q, t
    <3>3. k = i
      BY <3>2 DEF Origin
    <3> QED BY <3>1, <3>3, <1>3, <1>6 DEF NotAfter, t
  <2>3. NotAfter(Sending', Queued')
    BY <2>2, <1>7, <1>8 DEF PathInv, FlowInv, NotAfter
  <2>4. Sending' \cup Queued' \subseteq Sending \cup Queued
    BY <1>3, <1>5, <1>7, <1>8
  <2>5. ASSUME NEW k \in Instances
        PROVE  /\ NotAfter(Wire(k)', Sending' \cup Queued')
               /\ NotAfter(Pending(k)', Wire(k)' \cup Sending' \cup Queued')
               /\ NotAfter(Remote(k)', Pending(k)' \cup Wire(k)' \cup Sending' \cup Queued')
    BY <2>4, <1>9 DEF PathInv, FlowInv, NotAfter
  <2> QED BY <2>1, <2>3, <2>5 DEF FlowInv
<1>13. GivenInv'
  BY <1>9 DEF PathInv, GivenInv
<1> QED BY <1>10, <1>11, <1>12, <1>13 DEF PathInv

\* Redis executes a command, whether or not the publisher hears of it.
LEMMA ExecutePath ==
  ASSUME StateInv, PathInv, NEW i \in Instances, publishing[i] # None, Execute(i),
         publishing' = publishing \/ publishing' = [publishing EXCEPT ![i] = None],
         UNCHANGED <<sender, sent, saved, broadcast, log, brokerPublish, handled>>
  PROVE  PathInv'
<1> DEFINE e == publishing[i]
<1>1. /\ e \in Messages /\ e \in Sending
      /\ wire \in [Instances -> Seq(Messages)]
      /\ publishing \in [Instances -> Messages \cup {None}]
  BY DEF StateInv, TypeOK, PubTypes, SubTypes, Sending
<1>2. \A k \in Instances : wire'[k] = wire[k] \/ wire'[k] = Append(wire[k], e)
  BY DEF Execute
<1>3. /\ Queued' = Queued /\ Sending' \subseteq Sending
      /\ \A k \in Instances : /\ publishing'[k] \in {publishing[k], None}
                              /\ Pending(k)' = Pending(k)
                               /\ Delivered(k)' = Delivered(k) /\ Remote(k)' = Remote(k)
  <2>1. \A k \in Instances : publishing'[k] \in {publishing[k], None}
    BY <1>1
  <2> QED BY <2>1 DEF Queued, Sending, Pending, Delivered, Remote
<1>4. Origin(e) = i /\ \A k \in Instances : publishing[k] # None => Origin(publishing[k]) = k
  BY DEF PathInv, OriginInv
<1> HIDE DEF e
<1>5. \A k \in Instances : Wire(k)' \subseteq Wire(k) \cup {e} /\ Ordered(wire'[k])
  <2> SUFFICES ASSUME NEW k \in Instances PROVE Wire(k)' \subseteq Wire(k) \cup {e} /\ Ordered(wire'[k])
    OBVIOUS
  <2>1. wire[k] \in Seq(Messages) /\ Ordered(wire[k]) /\ NotAfter(Range(wire[k]), {e})
    BY <1>1 DEF PathInv, FlowInv, NotAfter, Wire
  <2>2. CASE wire'[k] = wire[k]
    BY <2>1, <2>2 DEF Wire
  <2>3. CASE wire'[k] = Append(wire[k], e)
    BY <2>1, <2>3, <1>1, RangeAppend, OrderedAppend DEF Wire
  <2> QED BY <2>2, <2>3, <1>2
<1>6. SavedInv' /\ OriginInv'
  <2>1. e \in saved
    BY <1>1 DEF PathInv, SavedInv
  <2>2. SavedInv'
    BY <2>1, <1>3, <1>5 DEF PathInv, SavedInv
  <2>3. OriginInv'
    BY <1>3, <1>4 DEF PathInv, OriginInv
  <2> QED BY <2>2, <2>3
<1>7. NumberInv'
  BY <1>3 DEF PathInv, NumberInv
<1>8. FlowInv'
  <2>1. NotAfter({e}, Sending')
    <3> SUFFICES ASSUME NEW n \in Sending, e[1] = n[1] PROVE e[2] <= n[2]
      BY <1>3 DEF NotAfter
    <3>1. PICK k \in Instances : n = publishing[k] /\ n # None
      BY DEF Sending
    <3>2. k = i
      BY <3>1, <1>4 DEF Origin
    <3>3. n = e /\ e[2] \in Nat
      BY <3>1, <3>2, <1>1, BrokerAssumption DEF e, Messages
    <3> QED BY <3>3
  <2>2. NotAfter({e}, Queued')
    BY <1>1, <1>3 DEF PathInv, FlowInv, NotAfter
  <2>3. NotAfter(Sending', Queued')
    BY <1>3 DEF PathInv, FlowInv, NotAfter
  <2>4. ASSUME NEW k \in Instances
        PROVE  NotAfter(Wire(k)', Sending' \cup Queued')
    <3>1. NotAfter(Wire(k), Sending' \cup Queued')
      BY <1>3 DEF PathInv, FlowInv, NotAfter
    <3> QED BY <3>1, <2>1, <2>2, <1>5 DEF NotAfter
  <2>5. ASSUME NEW k \in Instances
        PROVE  /\ NotAfter(Pending(k)', Wire(k)' \cup Sending' \cup Queued')
               /\ NotAfter(Remote(k)', Pending(k)' \cup Wire(k)' \cup Sending' \cup Queued')
    <3>1. Wire(k)' \cup Sending' \cup Queued' \subseteq Wire(k) \cup Sending \cup Queued
      BY <1>1, <1>3, <1>5
    <3>2. /\ NotAfter(Pending(k), Wire(k) \cup Sending \cup Queued)
          /\ NotAfter(Remote(k), Pending(k) \cup Wire(k) \cup Sending \cup Queued)
      BY DEF PathInv, FlowInv
    <3>3. Pending(k)' = Pending(k) /\ Remote(k)' = Remote(k)
      BY <1>3
    <3> QED BY <3>1, <3>2, <3>3 DEF NotAfter
  <2> QED BY <2>3, <2>4, <2>5, <1>5 DEF PathInv, FlowInv
<1>9. GivenInv'
  BY <1>3 DEF PathInv, GivenInv
<1> QED BY <1>6, <1>7, <1>8, <1>9 DEF PathInv

\* The publisher.
LEMMA PublisherPath ==
  ASSUME StateInv, PathInv, NEW i \in Instances, PublisherStep(i) \/ PublishFault(i)
  PROVE  PathInv'
<1>1. CASE PublishOk(i)
  <2>1. /\ publishing[i] # None /\ Execute(i) /\ publishing' = [publishing EXCEPT ![i] = None]
        /\ UNCHANGED <<sender, sent, saved, broadcast, log, brokerPublish, handled>>
    BY <1>1 DEF PublishOk, sendVars, hubVars
  <2> QED BY <2>1, ExecutePath
<1>2. CASE PublishFault(i)
  <2>1. /\ publishing[i] # None
        /\ publishing' = publishing \/ publishing' = [publishing EXCEPT ![i] = None]
        /\ UNCHANGED <<sender, sent, saved, broadcast, log, brokerPublish, handled>>
    BY <1>2 DEF PublishFault, RetryOrGiveUp, sendVars, hubVars
  <2>2. CASE Execute(i)
    BY <2>1, <2>2, ExecutePath
  <2>3. CASE UNCHANGED wire
    <3>1. \A k \in Instances : publishing'[k] \in {publishing[k], None}
      BY <2>1 DEF StateInv, TypeOK, PubTypes
    <3>2. Shrinks
      BY <2>1, <2>3, <3>1 DEF Shrinks, Delivered
    <3> QED BY <3>2, ShrinksPath
  <2> QED BY <1>2, <2>2, <2>3 DEF PublishFault
<1> QED BY <1>1, <1>2, TakePath, ServerPath, ShrinksPath DEF PublisherStep

\* handleRemoteEvent: the first event of the subscription is handled or dropped.
LEMMA HandlePath == ASSUME StateInv, PathInv, NEW i \in Instances, HandleRemoteEvent(i) PROVE PathInv'
<1> DEFINE e == Head(wire[i])
<1>1. /\ wire \in [Instances -> Seq(Messages)] /\ wire[i] # <<>> /\ e \in Messages
      /\ handled \in [Instances -> Messages \cup {None}] /\ handled[i] = None
      /\ wire' = [wire EXCEPT ![i] = Tail(wire[i])]
      /\ UNCHANGED <<sender, sent, saved, broadcast, log, brokerPublish, publishing>>
  BY TailQueue DEF HandleRemoteEvent, StateInv, TypeOK, SubTypes, HandlerInv, sendVars, hubVars, pubVars
<1>2. CASE handled' = handled
  <2>1. Shrinks
    BY <1>1, <1>2 DEF Shrinks, Delivered
  <2> QED BY <2>1, ShrinksPath
<1>3. CASE handled' = [handled EXCEPT ![i] = e] /\ Origin(e) # i
  <2>1. /\ e \in Wire(i) /\ Range(Tail(wire[i])) \subseteq Wire(i)
        /\ Ordered(Tail(wire[i])) /\ NotAfter({e}, Range(Tail(wire[i])))
    BY <1>1, RangeTail, OrderedTail DEF PathInv, FlowInv, Wire
  <2> DEFINE t == Tail(wire[i])
  <2>2. /\ wire'[i] = t /\ handled'[i] = e
        /\ \A k \in Instances \ {i} : wire'[k] = wire[k] /\ handled'[k] = handled[k]
    BY <1>1, <1>3
  <2> HIDE DEF e, t
  <2>3. /\ Queued' = Queued /\ Sending' = Sending
        /\ \A k \in Instances : /\ Wire(k)' \subseteq Wire(k) /\ Ordered(wire'[k])
                                /\ Delivered(k)' = Delivered(k) /\ Remote(k)' = Remote(k)
    <3>1. \A k \in Instances : Wire(k)' \subseteq Wire(k) /\ Ordered(wire'[k])
      BY <2>1, <2>2 DEF PathInv, FlowInv, Wire, t
    <3> QED BY <3>1, <1>1 DEF Queued, Sending, Delivered, Remote
  <2>4. Pending(i)' \subseteq {e} /\ \A k \in Instances \ {i} : Pending(k)' = Pending(k)
    BY <2>2 DEF Pending
  <2>5. SavedInv' /\ OriginInv'
    <3>1. \A k \in Instances : handled'[k] # None => Origin(handled'[k]) # k
      BY <1>3, <2>2 DEF PathInv, OriginInv
    <3>2. OriginInv'
      BY <3>1, <1>1 DEF PathInv, OriginInv
    <3>3. e \in saved
      BY <2>1 DEF PathInv, SavedInv
    <3>4. \A k \in Instances : Pending(k)' \subseteq saved
      BY <3>3, <2>4 DEF PathInv, SavedInv
    <3>5. saved' = saved
      BY <1>1
    <3>6. SavedInv'
      BY <3>4, <3>5, <2>3 DEF PathInv, SavedInv
    <3> QED BY <3>2, <3>6
  <2>6. NumberInv'
    BY <1>1, <2>3 DEF PathInv, NumberInv
  <2>7. FlowInv'
    <3>1. ASSUME NEW k \in Instances
          PROVE  NotAfter(Wire(k)', Sending' \cup Queued')
      BY <2>3 DEF PathInv, FlowInv, NotAfter
    <3>2. ASSUME NEW k \in Instances
          PROVE  /\ NotAfter(Pending(k)', Wire(k)' \cup Sending' \cup Queued')
                 /\ NotAfter(Remote(k)', Pending(k)' \cup Wire(k)' \cup Sending' \cup Queued')
      <4>1. CASE k # i
        BY <4>1, <2>3, <2>4 DEF PathInv, FlowInv, NotAfter
      <4>2. CASE k = i
        <5>1. NotAfter({e}, Wire(i)')
          BY <2>1, <2>2 DEF Wire, t
        <5>2. NotAfter({e}, Sending' \cup Queued')
          BY <2>1, <2>3 DEF PathInv, FlowInv, NotAfter
        <5>3. Pending(i)' \cup Wire(i)' \cup Sending' \cup Queued' \subseteq Wire(i) \cup Sending \cup Queued
          BY <2>1, <2>3, <2>4
        <5>4. NotAfter(Remote(i)', Pending(i)' \cup Wire(i)' \cup Sending' \cup Queued')
          BY <5>3, <2>3 DEF PathInv, FlowInv, NotAfter
        <5> QED BY <4>2, <5>1, <5>2, <5>4, <2>4 DEF NotAfter
      <4> QED BY <4>1, <4>2
    <3> QED BY <3>1, <3>2, <2>3, <1>1 DEF PathInv, FlowInv
  <2>8. GivenInv'
    BY <2>3 DEF PathInv, GivenInv
  <2> QED BY <2>5, <2>6, <2>7, <2>8 DEF PathInv
<1> QED BY <1>2, <1>3 DEF HandleRemoteEvent

\* The subscriber.
LEMMA SubscriberPath ==
  ASSUME StateInv, PathInv, NEW i \in Instances, SubscriberStep(i) \/ SubscriptionLost(i)
  PROVE  PathInv'
<1>1. CASE EnqueueRemote(i)
  <2>1. /\ handled[i] \in Messages /\ handled[i] # None
        /\ handled \in [Instances -> Messages \cup {None}]
    BY <1>1 DEF EnqueueRemote, StateInv, TypeOK, SubTypes, HandlerInv
  <2>2. /\ handled' = [handled EXCEPT ![i] = None]
        /\ UNCHANGED <<sender, sent, saved, log, brokerPublish, publishing, wire>>
    BY <1>1 DEF EnqueueRemote, sendVars, pubVars
  <2>3. CASE Len(broadcast[i]) < BroadcastCap
             /\ broadcast' = [broadcast EXCEPT ![i] = Append(broadcast[i], handled[i])]
    BY <2>1, <2>2, <2>3, GivenPath
  <2>4. CASE UNCHANGED broadcast
    <3>1. Shrinks
      BY <2>1, <2>2, <2>4 DEF Shrinks, Delivered
    <3> QED BY <3>1, ShrinksPath
  <2> QED BY <1>1, <2>3, <2>4 DEF EnqueueRemote
<1> QED BY <1>1, HandlePath, ServerPath, ShrinksPath DEF SubscriberStep

LEMMA PathStep == ASSUME StateInv, PathInv, [Next]_vars PROVE PathInv'
<1>1. CASE UNCHANGED vars
  <2>1. Shrinks
    BY <1>1 DEF vars, sendVars, hubVars, pubVars, subVars, Shrinks, Delivered
  <2> QED BY <2>1, ShrinksPath
<1>2. ASSUME NEW i \in Instances, Run(i) \/ DrainStart(i) \/ ShutdownStep(i) PROVE PathInv'
  BY <1>2, RunPath, ServerPath, ShrinksPath
<1> QED BY <1>1, <1>2, AcceptPath, SenderPath, PublisherPath, SubscriberPath DEF Next

\* At the start nothing is on its way.
LEMMA InitPath == Init => PathInv
<1> SUFFICES ASSUME Init PROVE PathInv
  OBVIOUS
<1>1. \A i \in Instances : /\ Delivered(i) = <<>> /\ brokerPublish[i] = <<>> /\ wire[i] = <<>>
                           /\ publishing[i] = None /\ handled[i] = None
  BY DEF Init, Delivered
<1>2. Range(<<>>) = {}
  BY DEF Range
<1>3. /\ Queued = {} /\ Sending = {}
      /\ \A i \in Instances : Wire(i) = {} /\ Pending(i) = {} /\ Remote(i) = {}
  BY <1>1, <1>2 DEF Queued, Sending, Wire, Pending, Remote
<1>4. SavedInv /\ OriginInv /\ NumberInv
  BY <1>1, <1>2, <1>3 DEF SavedInv, OriginInv, NumberInv, Init
<1>5. FlowInv
  <2>1. Ordered(<<>>)
    BY DEF Ordered
  <2>2. \A T : NotAfter({}, T)
    BY DEF NotAfter
  <2> QED BY <1>1, <1>3, <2>1, <2>2 DEF FlowInv
<1>6. GivenInv
  <2>1. \A i \in Instances : InOrder(<<>>, i)
    BY DEF InOrder
  <2> QED BY ONLY <1>1, <2>1 DEF GivenInv
<1> QED BY <1>4, <1>5, <1>6 DEF PathInv

\* Every reachable state satisfies the invariant about the way of a message.
LEMMA PathInvariant == Spec => [](StateInv /\ PathInv)
BY InitState, InitPath, StateStep, PathStep, PTL DEF Spec

\* On every server the messages of a sender are delivered in the order it sent them,
\* and on its own server once (publishContext, runBrokerPublisher, Publish and
\* handleRemoteEvent), for any number of retries, losses and reconnections.
THEOREM BrokerOrder == Spec => []OrderKept
<1>1. PathInv => OrderKept
  BY OrderByServer DEF PathInv
<1> QED BY <1>1, PathInvariant, PTL

\* Whatever a client sees of another server is in the shared storage
\* (queueBrokerMessage drops messages without a row).
THEOREM BrokerSaved == Spec => []OnlySavedCrosses
<1>1. PathInv => OnlySavedCrosses
  BY DEF PathInv, SavedInv, Remote, OnlySavedCrosses, Range
<1> QED BY <1>1, PathInvariant, PTL
=============================================================================
