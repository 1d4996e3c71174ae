------------------------------- MODULE Broker -------------------------------
(***************************************************************************)
(* Several Chatster servers joined by Redis Pub/Sub (backend/hub.go and    *)
(* internal/broker).  A message accepted by one server goes to its own     *)
(* broadcast channel and, once saved, through brokerPublish and Redis to   *)
(* the other servers, which drop copies of events they have seen lately.   *)
(* Redis may be unreachable, lose a command or its reply, in which case    *)
(* the client library sends the command again, and forgets what it was     *)
(* sending to a subscriber whose connection breaks.                        *)
(*                                                                         *)
(* A message is <<sender, n>>, the n-th one of a goroutine that calls      *)
(* publishContext.  The envelope of a message is made once, so the message *)
(* also stands for its event ID.  Envelopes built by queueBrokerMessage    *)
(* are valid and of the right channel; what other programs may publish in  *)
(* the namespace is rejected by subscribeOnce and left out.                *)
(***************************************************************************)
EXTENDS Naturals, FiniteSets, Sequences, Functions

CONSTANTS
  Instances,      \* the servers, one origin instance ID each
  Senders,        \* goroutines that publish: read loops, joins, leave workers
  Home,           \* the server of each sender
  BroadcastCap,   \* capacity of Hub.broadcast (1024)
  PublishCap,     \* capacity of Hub.brokerPublish (outboundQueueSize * 4)
  Window,         \* maxSeenBrokerEvents (4096)
  MaxTries,       \* how often the Redis client sends a command
  MaxMessages,    \* bound: messages the senders send, together
  MaxFaults,      \* bound: faults of Redis and of the connections to it
  Stopping,       \* bound: the servers that may be shut down
  None

ASSUME BrokerAssumption ==
  /\ Home \in [Senders -> Instances]
  /\ BroadcastCap \in Nat \ {0} /\ PublishCap \in Nat \ {0}
  /\ Window \in Nat \ {0} /\ MaxTries \in Nat \ {0}
  /\ MaxMessages \in Nat /\ MaxFaults \in Nat
  /\ Stopping \subseteq Instances
  /\ None \notin Senders \X Nat

VARIABLES
  sender,         \* where each sender is in publishContext
  sent,           \* how many messages each sender has sent
  saved,          \* messages that are in storage
  messages,       \* messages that may still be sent (a bound)
  faults,         \* faults that may still happen (a bound)
  broadcast,      \* Hub.broadcast
  log,            \* history: messages the event loop has taken
  brokerPublish,  \* Hub.brokerPublish
  publishing,     \* the event in Publish, or None
  tries,          \* how often its command was sent
  wire,           \* what Redis has sent to a subscription
  subscriber,     \* where Run and its handler are
  handled,        \* the event in handleRemoteEvent, or None
  seenEvents,     \* seenEventIDs; seenEvents is the set of its elements
  accepted,       \* history: events that were not taken for duplicates
  brokerWG,       \* broker goroutines that have not ended
  shutdown,       \* where drain is
  done            \* servers whose Hub.done is closed

sendVars  == <<sender, sent, saved, messages>>
hubVars   == <<broadcast, log, done>>
pubVars   == <<brokerPublish, publishing, tries>>
subVars   == <<wire, subscriber, handled, seenEvents, accepted>>
vars      == <<sendVars, faults, hubVars, pubVars, subVars, brokerWG, shutdown>>

Messages   == Senders \X (1..MaxMessages)
Goroutines == {"publisher", "subscriber"}
Current(s) == <<s, sent[s]>>
Origin(m)  == Home[m[1]]

SendTypes ==
  /\ sender \in [Senders -> {"idle", "check", "broadcast", "queue"}]
  /\ sent \in [Senders -> 0..MaxMessages]
  /\ saved \subseteq Messages
  /\ messages \in 0..MaxMessages

HubTypes ==
  /\ broadcast \in [Instances -> Seq(Messages)]
  /\ \A i \in Instances : Len(broadcast[i]) <= BroadcastCap
  /\ log \in [Instances -> Seq(Messages)]
  /\ done \subseteq Instances

PubTypes ==
  /\ brokerPublish \in [Instances -> Seq(Messages)]
  /\ \A i \in Instances : Len(brokerPublish[i]) <= PublishCap
  /\ publishing \in [Instances -> Messages \cup {None}]
  /\ tries \in [Instances -> 0..MaxTries]

SubTypes ==
  /\ wire \in [Instances -> Seq(Messages)]
  /\ subscriber \in [Instances -> {"subscribe", "receive", "backoff",
                                   "remembered", "enqueue"}]
  /\ handled \in [Instances -> Messages \cup {None}]
  /\ seenEvents \in [Instances -> Seq(Messages)]
  /\ \A i \in Instances : Len(seenEvents[i]) <= Window
  /\ accepted \in [Instances -> Seq(Messages)]

StopTypes ==
  /\ faults \in 0..MaxFaults
  /\ brokerWG \in [Instances -> SUBSET Goroutines]
  /\ shutdown \in [Instances -> {"up", "stopBroker", "wait", "stop", "stopped"}]

\* Every variable has its type; channels and the memory of events stay within
\* their capacity.
TypeOK == SendTypes /\ HubTypes /\ PubTypes /\ SubTypes /\ StopTypes

\* Every server is up: newHub and startBroker have run.
Init ==
  /\ sender = [s \in Senders |-> "idle"]
  /\ sent = [s \in Senders |-> 0]
  /\ saved = {} /\ messages = MaxMessages /\ faults = MaxFaults
  /\ broadcast = [i \in Instances |-> <<>>]
  /\ log = [i \in Instances |-> <<>>]
  /\ brokerPublish = [i \in Instances |-> <<>>]
  /\ publishing = [i \in Instances |-> None]
  /\ tries = [i \in Instances |-> 0]
  /\ wire = [i \in Instances |-> <<>>]
  /\ subscriber = [i \in Instances |-> "subscribe"]
  /\ handled = [i \in Instances |-> None]
  /\ seenEvents = [i \in Instances |-> <<>>]
  /\ accepted = [i \in Instances |-> <<>>]
  /\ brokerWG = [i \in Instances |-> Goroutines]
  /\ shutdown = [i \in Instances |-> "up"]
  /\ done = {}

Draining(i)  == shutdown[i] # "up"
Cancelled(i) == shutdown[i] \notin {"up", "stopBroker"}

\* One of the faults that the bound allows.
Fault == faults > 0 /\ faults' = faults - 1

-----------------------------------------------------------------------------
(* publishContext and queueBrokerMessage *)

\* A message is accepted; saving it succeeds or fails.
Accept(s) ==
  /\ sender[s] = "idle"
  /\ messages > 0
  /\ messages' = messages - 1
  /\ sent' = [sent EXCEPT ![s] = @ + 1]
  /\ \/ saved' = saved \cup {<<s, sent[s] + 1>>} /\ UNCHANGED faults
     \/ Fault /\ UNCHANGED saved
  /\ sender' = [sender EXCEPT ![s] = "check"]
  /\ UNCHANGED <<hubVars, pubVars, subVars, brokerWG, shutdown>>

\* publishContext, first select.
PublishCheck(s) ==
  /\ sender[s] = "check"
  /\ sender' = [sender EXCEPT ![s] = IF Home[s] \in done THEN "idle"
                                                        ELSE "broadcast"]
  /\ UNCHANGED <<sent, saved, messages, faults, hubVars, pubVars, subVars,
                 brokerWG, shutdown>>

\* Mutant: the message is queued for the clients of this server only.
PublishOnlyLocally(s) ==
  /\ sender[s] = "broadcast"
  /\ \/ /\ Len(broadcast[Home[s]]) < BroadcastCap
        /\ broadcast' = [broadcast EXCEPT ![Home[s]] = Append(@, Current(s))]
     \/ /\ Home[s] \in done
        /\ UNCHANGED broadcast
  /\ sender' = [sender EXCEPT ![s] = "idle"]
  /\ UNCHANGED <<sent, saved, messages, faults, log, done, pubVars, subVars,
                 brokerWG, shutdown>>

\* publishContext, second select: the message is queued for the clients of this
\* server, or the hub has stopped.
PublishContext(s) ==
  /\ sender[s] = "broadcast"
  /\ \/ /\ Len(broadcast[Home[s]]) < BroadcastCap
        /\ broadcast' = [broadcast EXCEPT ![Home[s]] = Append(@, Current(s))]
        /\ sender' = [sender EXCEPT ![s] = "queue"]
     \/ /\ Home[s] \in done
        /\ sender' = [sender EXCEPT ![s] = "idle"]
        /\ UNCHANGED broadcast
  /\ UNCHANGED <<sent, saved, messages, faults, log, done, pubVars, subVars,
                 brokerWG, shutdown>>

\* Mutant: messages without a row are published as well.
QueueUnsaved(s) ==
  /\ sender[s] = "queue"
  /\ brokerPublish' =
       IF Len(brokerPublish[Home[s]]) < PublishCap
         THEN [brokerPublish EXCEPT ![Home[s]] = Append(@, Current(s))]
         ELSE brokerPublish
  /\ sender' = [sender EXCEPT ![s] = "idle"]
  /\ UNCHANGED <<sent, saved, messages, faults, hubVars, publishing, tries,
                 subVars, brokerWG, shutdown>>

\* queueBrokerMessage: dropped when it was not saved or the channel is full.
QueueBrokerMessage(s) ==
  /\ sender[s] = "queue"
  /\ brokerPublish' =
       IF Current(s) \in saved /\ Len(brokerPublish[Home[s]]) < PublishCap
         THEN [brokerPublish EXCEPT ![Home[s]] = Append(@, Current(s))]
         ELSE brokerPublish
  /\ sender' = [sender EXCEPT ![s] = "idle"]
  /\ UNCHANGED <<sent, saved, messages, faults, hubVars, publishing, tries,
                 subVars, brokerWG, shutdown>>

\* run takes a message and fans it out to the clients of this server.  How run
\* ends is the subject of module Hub; what is in broadcast counts as delivered
\* here.
Run(i) ==
  /\ i \notin done
  /\ broadcast[i] # <<>>
  /\ log' = [log EXCEPT ![i] = Append(@, Head(broadcast[i]))]
  /\ broadcast' = [broadcast EXCEPT ![i] = Tail(@)]
  /\ UNCHANGED <<sendVars, faults, done, pubVars, subVars, brokerWG, shutdown>>

-----------------------------------------------------------------------------
(* runBrokerPublisher and Publish *)

PublisherTake(i) ==
  /\ "publisher" \in brokerWG[i]
  /\ publishing[i] = None
  /\ brokerPublish[i] # <<>>
  /\ publishing' = [publishing EXCEPT ![i] = Head(brokerPublish[i])]
  /\ tries' = [tries EXCEPT ![i] = 0]
  /\ brokerPublish' = [brokerPublish EXCEPT ![i] = Tail(@)]
  /\ UNCHANGED <<sendVars, faults, hubVars, subVars, brokerWG, shutdown>>

PublisherExit(i) ==
  /\ "publisher" \in brokerWG[i]
  /\ publishing[i] = None
  /\ Cancelled(i)
  /\ brokerWG' = [brokerWG EXCEPT ![i] = @ \ {"publisher"}]
  /\ UNCHANGED <<sendVars, faults, hubVars, pubVars, subVars, shutdown>>

Subscribed(i) == subscriber[i] \in {"receive", "remembered", "enqueue"}

\* Redis executes the command: every subscription gets a copy, the publisher's
\* own included.
Execute(i) ==
  wire' = [j \in Instances |->
             IF Subscribed(j) /\ "subscriber" \in brokerWG[j]
               THEN Append(wire[j], publishing[i]) ELSE wire[j]]

\* The command is sent again unless it was sent MaxTries times.
RetryOrGiveUp(i) ==
  IF tries[i] + 1 < MaxTries
    THEN tries' = [tries EXCEPT ![i] = @ + 1] /\ UNCHANGED publishing
    ELSE /\ publishing' = [publishing EXCEPT ![i] = None]
         /\ tries' = [tries EXCEPT ![i] = 0]

\* Publish succeeds.
PublishOk(i) ==
  /\ publishing[i] # None
  /\ Execute(i)
  /\ publishing' = [publishing EXCEPT ![i] = None]
  /\ tries' = [tries EXCEPT ![i] = 0]
  /\ UNCHANGED <<sendVars, faults, hubVars, brokerPublish, subscriber, handled,
                 seenEvents, accepted, brokerWG, shutdown>>

\* The command or its reply is lost.
PublishFault(i) ==
  /\ publishing[i] # None
  /\ Fault
  /\ Execute(i) \/ UNCHANGED wire
  /\ RetryOrGiveUp(i)
  /\ UNCHANGED <<sendVars, hubVars, brokerPublish, subscriber, handled,
                 seenEvents, accepted, brokerWG, shutdown>>

\* brokerCtx is cancelled while Publish waits.
PublishCancelled(i) ==
  /\ publishing[i] # None
  /\ Cancelled(i)
  /\ publishing' = [publishing EXCEPT ![i] = None]
  /\ tries' = [tries EXCEPT ![i] = 0]
  /\ UNCHANGED <<sendVars, faults, hubVars, brokerPublish, subVars, brokerWG,
                 shutdown>>

-----------------------------------------------------------------------------
(* Run, subscribeOnce and handleRemoteEvent *)

Up(i) == "subscriber" \in brokerWG[i]

Subscribe(i) ==
  /\ Up(i) /\ ~Cancelled(i)
  /\ subscriber[i] = "subscribe"
  /\ subscriber' = [subscriber EXCEPT ![i] = "receive"]
  /\ UNCHANGED <<sendVars, faults, hubVars, pubVars, wire, handled, seenEvents,
                 accepted, brokerWG, shutdown>>

\* The subscription fails, or its connection breaks; what Redis had sent and
\* was not received is lost.
SubscriptionLost(i) ==
  /\ Up(i)
  /\ subscriber[i] \in {"subscribe", "receive"}
  /\ Fault
  /\ subscriber' = [subscriber EXCEPT ![i] = "backoff"]
  /\ wire' = [wire EXCEPT ![i] = <<>>]
  /\ UNCHANGED <<sendVars, hubVars, pubVars, handled, seenEvents, accepted,
                 brokerWG, shutdown>>

\* waitForBackoff returns true.
BackoffOver(i) ==
  /\ Up(i)
  /\ subscriber[i] = "backoff"
  /\ subscriber' = [subscriber EXCEPT ![i] = "subscribe"]
  /\ UNCHANGED <<sendVars, faults, hubVars, pubVars, wire, handled, seenEvents,
                 accepted, brokerWG, shutdown>>

\* Subscribing, receiving or waiting ends because brokerCtx is cancelled.
SubscriberExit(i) ==
  /\ Up(i) /\ Cancelled(i)
  /\ subscriber[i] \in {"subscribe", "receive", "backoff"}
  /\ brokerWG' = [brokerWG EXCEPT ![i] = @ \ {"subscriber"}]
  /\ wire' = [wire EXCEPT ![i] = <<>>]
  /\ UNCHANGED <<sendVars, faults, hubVars, pubVars, subscriber, handled,
                 seenEvents, accepted, shutdown>>

\* Mutant: the oldest event is forgotten one event too early.
RememberOneLess(ids, e) ==
  LET more == Append(ids, e)
  IN  IF Len(more) >= Window THEN Tail(more) ELSE more

\* Mutant: nothing is forgotten.
RememberForever(ids, e) == Append(ids, e)

\* rememberBrokerEvent for an event that is not remembered.
Remember(ids, e) ==
  LET more == Append(ids, e)
  IN  IF Len(more) > Window THEN Tail(more) ELSE more

\* Mutant: the server's own events are not dropped.
HandleOwnEvent(i) ==
  /\ Up(i) /\ subscriber[i] = "receive"
  /\ wire[i] # <<>>
  /\ LET e == Head(wire[i])
     IN  IF e \in Range(seenEvents[i])
           THEN UNCHANGED <<subscriber, handled, seenEvents, accepted>>
           ELSE /\ subscriber' = [subscriber EXCEPT ![i] = "remembered"]
                /\ handled' = [handled EXCEPT ![i] = e]
                /\ seenEvents' = [seenEvents EXCEPT ![i] = Remember(@, e)]
                /\ accepted' = [accepted EXCEPT ![i] = Append(@, e)]
  /\ wire' = [wire EXCEPT ![i] = Tail(@)]
  /\ UNCHANGED <<sendVars, faults, hubVars, pubVars, brokerWG, shutdown>>

\* handleRemoteEvent up to the end of rememberBrokerEvent: the server's own events
\* and duplicates are dropped.
HandleRemoteEvent(i) ==
  /\ Up(i) /\ subscriber[i] = "receive"
  /\ wire[i] # <<>>
  /\ LET e == Head(wire[i])
     IN  IF Origin(e) = i \/ e \in Range(seenEvents[i])
           THEN UNCHANGED <<subscriber, handled, seenEvents, accepted>>
           ELSE /\ subscriber' = [subscriber EXCEPT ![i] = "remembered"]
                /\ handled' = [handled EXCEPT ![i] = e]
                /\ seenEvents' = [seenEvents EXCEPT ![i] = Remember(@, e)]
                /\ accepted' = [accepted EXCEPT ![i] = Append(@, e)]
  /\ wire' = [wire EXCEPT ![i] = Tail(@)]
  /\ UNCHANGED <<sendVars, faults, hubVars, pubVars, brokerWG, shutdown>>

\* isDraining: the event is dropped, though it is remembered.
CheckDraining(i) ==
  /\ subscriber[i] = "remembered"
  /\ IF Draining(i)
       THEN /\ subscriber' = [subscriber EXCEPT ![i] = "receive"]
            /\ handled' = [handled EXCEPT ![i] = None]
       ELSE /\ subscriber' = [subscriber EXCEPT ![i] = "enqueue"]
            /\ UNCHANGED handled
  /\ UNCHANGED <<sendVars, faults, hubVars, pubVars, wire, seenEvents, accepted,
                 brokerWG, shutdown>>

\* The select at the end of handleRemoteEvent never waits: the event is queued,
\* or dropped because the hub has stopped or the channel is full.
EnqueueRemote(i) ==
  /\ subscriber[i] = "enqueue"
  /\ \/ /\ Len(broadcast[i]) < BroadcastCap
        /\ broadcast' = [broadcast EXCEPT ![i] = Append(@, handled[i])]
     \/ /\ i \in done \/ Len(broadcast[i]) = BroadcastCap
        /\ UNCHANGED broadcast
  /\ subscriber' = [subscriber EXCEPT ![i] = "receive"]
  /\ handled' = [handled EXCEPT ![i] = None]
  /\ UNCHANGED <<sendVars, faults, log, done, pubVars, wire, seenEvents,
                 accepted, brokerWG, shutdown>>

-----------------------------------------------------------------------------
(* drain and stopBroker *)

Shutdown(i, from, to) ==
  /\ shutdown[i] = from
  /\ shutdown' = [shutdown EXCEPT ![i] = to]

\* The locked part of drain.
DrainStart(i) ==
  /\ i \in Stopping
  /\ Shutdown(i, "up", "stopBroker")
  /\ UNCHANGED <<sendVars, faults, hubVars, pubVars, subVars, brokerWG>>

\* Mutant: the broker context is never cancelled.
StopWithoutCancel(i) ==
  /\ Shutdown(i, "stopBroker", "stopBroker")
  /\ UNCHANGED <<sendVars, faults, hubVars, pubVars, subVars, brokerWG>>

\* stopBroker: brokerCancel and Close.
StopBroker(i) ==
  /\ Shutdown(i, "stopBroker", "wait")
  /\ UNCHANGED <<sendVars, faults, hubVars, pubVars, subVars, brokerWG>>

\* stopBroker returns when the broker goroutines have ended or the shutdown
\* context has expired.
BrokerStopped(i) ==
  /\ Shutdown(i, "wait", "stop")
  /\ IF brokerWG[i] = {} THEN UNCHANGED faults ELSE Fault
  /\ UNCHANGED <<sendVars, hubVars, pubVars, subVars, brokerWG>>

\* h.stop(), after the drain has waited for its clients.
HubStop(i) ==
  /\ Shutdown(i, "stop", "stopped")
  /\ done' = done \cup {i}
  /\ UNCHANGED <<sendVars, faults, broadcast, log, pubVars, subVars, brokerWG>>

-----------------------------------------------------------------------------
SenderStep(s)     == PublishCheck(s) \/ PublishContext(s) \/ QueueBrokerMessage(s)
PublisherStep(i)  == \/ PublisherTake(i) \/ PublisherExit(i)
                     \/ PublishOk(i) \/ PublishCancelled(i)
SubscriberStep(i) == \/ Subscribe(i) \/ BackoffOver(i) \/ SubscriberExit(i)
                     \/ HandleRemoteEvent(i) \/ CheckDraining(i)
                     \/ EnqueueRemote(i)
ShutdownStep(i)   == StopBroker(i) \/ BrokerStopped(i) \/ HubStop(i)

Next ==
  \/ \E s \in Senders : Accept(s) \/ SenderStep(s)
  \/ \E i \in Instances :
       \/ Run(i)
       \/ PublisherStep(i) \/ PublishFault(i)
       \/ SubscriberStep(i) \/ SubscriptionLost(i)
       \/ DrainStart(i) \/ ShutdownStep(i)

Spec == Init /\ [][Next]_vars

\* Goroutines that can run do run and Redis answers in the end; nothing is
\* assumed of the arrival of messages, faults or the shutdown signal.
Fairness ==
  /\ \A s \in Senders : WF_vars(SenderStep(s))
  /\ \A i \in Instances :
       /\ WF_vars(Run(i))
       /\ WF_vars(PublisherStep(i))
       /\ WF_vars(SubscriberStep(i))
       /\ WF_vars(ShutdownStep(i))

FairSpec == Spec /\ Fairness

-----------------------------------------------------------------------------
(* Correctness properties *)

\* An event is never taken for new again while it is among the last Window events
\* that a server took for new, however often Redis delivers it: the memory of
\* rememberBrokerEvent has exactly that reach.
DuplicatesAreFarApart ==
  \A i \in Instances : \A j, k \in DOMAIN accepted[i] :
    j < k /\ accepted[i][j] = accepted[i][k] => k - j > Window

\* What the clients of a server are given, in order.
Delivered(i) == log[i] \o broadcast[i]

\* On every server the messages of a sender are delivered in the order it sent
\* them, across channels, retries and reconnections, and on the sender's own
\* server each of them once: the copy that comes back from Redis is dropped.
OrderKept ==
  \A i \in Instances : \A j, k \in DOMAIN Delivered(i) :
    LET m == Delivered(i)[j]  n == Delivered(i)[k]
    IN  j < k /\ m[1] = n[1] => m[2] < n[2] \/ (m = n /\ Origin(m) # i)

\* Whatever a client sees of another server is in the shared storage: the history
\* API can be the catch-up path for every live message that crosses servers.
OnlySavedCrosses ==
  \A i \in Instances : \A k \in DOMAIN Delivered(i) :
    Delivered(i)[k] \in saved \/ Origin(Delivered(i)[k]) = i

\* Both broker goroutines end once a shutdown has started, whatever is queued.
BrokerEnds == \A i \in Instances : Draining(i) ~> brokerWG[i] = {}

\* When the transport has no faults and no channel overflows, a saved message
\* reaches every server, unless that server or the message's own shuts down.
ReachesEveryServer ==
  \A m \in Messages, i \in Instances :
    m \in saved ~> \/ m \in Range(log[i])
                   \/ Draining(i) \/ Draining(Origin(m))
=============================================================================
