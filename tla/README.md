# Chatster in TLA+

This directory models the parts of Chatster in which goroutines, servers and
connections interact, checks the models with TLC on small instances and proves
the most important properties with TLAPS for every instance. All line numbers
and the correspondence of definitions and code are in `PROJECT.json`.

## 1. The system

Chatster is a Go server (`backend/`) with a React client (`frontend/`).

| Part | State | Operations | What is hard |
|---|---|---|---|
| Hub (`hub.go`) | `clients`, `finished`, `draining`, `drainPending` under one mutex; channels `broadcast`, `unregister`, `drainEvents`, `done` | `registerClient`, `publishContext`, `unregisterClient`, `notifyClientFinished`, `run`, `Shutdown`/`drain` | a drain that starts at any moment; three ways to lose a client (read error, slow client, shutdown) that meet each other |
| Leave worker (`hub.go`) | `leaveQueue`, `leaveStop`, `leaveCtx` | `queueLeaveNotification`, `runLeaveNotifications`, `stopLeaveNotifications` | bounded queue, stop against queued work, deadline against a storage call |
| Client (`client.go`) | outbound queue `send`, `done`, user name | `readMessages`, `enqueue`, `writeMessages`, `startHeartbeat`, `closeForShutdown` | full queue, write errors, frames read from a closed socket |
| History replay (`hub.go`) | rows still to send | `sendMessageHistory` | runs concurrently with saving and with live messages |
| Storage (`db/`) | table of messages, migrations, audit rows | save, recent rows, page by cursor, prune, migrate | timestamp taken before the insert; concurrent starts |
| Broker (`hub.go`, `internal/broker`) | `brokerPublish`, `seenEvents`, the subscription | `queueBrokerMessage`, `Publish`, `Run`, `handleRemoteEvent`, `stopBroker` | retried commands, lost subscriptions, a bounded memory of event IDs |
| HTTP (`server.go`) | none of its own | `serveWs`, history, login, moderation | upgrade against drain; cursors against new rows |
| Sessions, limits (`internal/auth`, `internal/ratelimit`) | signed expiry; token buckets | login, grant check, allow | expiry of an open socket |
| Process (`main.go`) | the open repository, the 30-second context | configure, migrate, serve, signal, shut down | starts that race; deaths between steps; hub first, HTTP server second |
| Web client (`frontend/src`) | socket, history cursor, room, pending requests | connect, reconnect, fetch a page, change room | late answers, reconnection gaps |

A message is read by a client's read loop, saved, queued on `broadcast` and, when
it was saved, on `brokerPublish`. `run` copies it to the outbound queue of each
client of the room and disconnects clients whose queue is full. The broker
publisher sends it to Redis; the other servers' subscribers put it on their own
`broadcast`. A new client is registered first and then given the last rows of its
room by a goroutine of its own. A shutdown refuses new clients, stops the broker,
closes every registered client, waits for their read loops, stops `run`, and lets
the leave worker finish.

## 2. Modules

| Module | Models |
|---|---|
| `Hub` | the hub's goroutines, the leave worker and the drain of one server |
| `HubProofs` | the inductive invariant of `Hub` and its theorems |
| `RoomFeed` | abstract: what the members of a room are promised |
| `Delivery`, `DeliveryProofs` | a message on one server: saving, fan-out, outbound queues, history replay; proofs of order, and of the refinement of `RoomFeed` and the replay |
| `Broker`, `BrokerProofs` | several servers joined by Redis; proofs |
| `Startup`, `StartupProofs` | server processes from `main()` to their exit: configuration, opening the store, migrations, shutdown; proofs |
| `Schema` | the two lists of migrations, as constants for `Startup` |
| `RateLimit` | the token buckets |
| `Session`, `SessionProofs` | login, cookies, room grants, read deadlines and frames over `RateLimit`; proofs |
| `History` | the table of messages, its pages and cursors |
| `WebClient`, `WebClientProofs`, `ClientViewProofs` | the browser's socket, requests and list of messages over `History`; proofs about both |
| `QueueLemmas` | what the proofs share: facts about sequences, ranks in a finite order, enumerations |
| `MCHub`, `MCDelivery`, `MCBroker`, `MCStartup`, `MCSession`, `MCWebClient` | instances for TLC |

### Hub

One action is one step of a goroutine between two points where another can run:
taking the mutex, a channel operation, a storage call. Sections under the mutex
that do not wait are one action; the fan-out is the exception (`RunLock`,
`RunDeliver`, `RunUnlock`), because write errors happen meanwhile; the lock is then
visible as `Unlocked`. `conn[c]` is where the goroutine that serves a client is,
`run`, `drain` and `worker` are the program counters of the other goroutines. The
two `select` statements of `publishContext` and `unregisterClient` are separate
actions, because `done` may be closed in between. The unbuffered `unregister` is a
rendezvous (`RunUnregister`), after which the read loop goes on while `run` still
has to take the mutex. A broadcast is reduced to its room and any outbound queue
may be found full. `leave` is a history variable.

The hub in this module has no Redis broker, so `stopBroker` returns at once. The
ordinary case in which a client never connects, or a peer never leaves, is covered:
no step of a peer is fair.

### Delivery

The same server without the shutdown, with what `Hub` leaves out. A message is
`<<client, n>>`: the join notification, then the chat messages, then the leave
notification. Every goroutine that saves a message goes through `Stamp`, `Insert`
and `Publish`; `stamps` is the order of timestamps and `stored` the rows, so a row
may appear after a newer one. A failed insert is broadcast all the same, as in the
code. The fan-out is one action: nothing in it waits, and the clients' queues do
not depend on one another. An outbound queue is its length, since nothing depends on
what a queued message says; `live` and `replayed` record what the queue accepted. The
rows of a replay are a set, from which `HistorySend` takes the oldest.
A closed queue counts as empty because its writer stops.

Timestamps of different messages are taken to differ. SQLite orders by
`julianday(timestamp)` and then by ID; ties are in `History`.

### Broker

A sender is any goroutine that calls `publishContext`. The envelope is made once, so
a message stands for its event ID. Redis and the client library are external: a
command or its reply may be lost and the library sends the command up to `MaxTries`
times; a subscription may break and loses what was under way. `seenEvents` is the
slice `seenEventIDs`, whose elements are the keys of the map `seenEvents`.
`handleRemoteEvent` is three actions, since it takes and releases the mutex twice
before its `select`.

### Startup and Schema

A process is at one step of `main()` (`pc`), and another process may run, or this one
fail or die (`Abort`), between any two steps. `Start` reads the environment, builds the
authentication service and sets up telemetry; `OpenRepository` selects and opens the
store; the migrations follow one statement at a time; `Initialize` stands for the steps
between the migrations and the listener, pruning and Redis among them. An environment
variable is unset, garbage or a value, and `FromEnv` does with it what the code does.

SQLite and Postgres share the actions and differ where the code does: SQLite looks in
the ledger before its transaction begins, Postgres after taking the advisory lock
inside it. The locks are external: a process that writes in SQLite holds the file's
write lock until it commits or dies, and a statement that would add an existing object
fails unless it says `IF NOT EXISTS`. `Schema` lists the statements of both
migration lists by the object each adds. `requests` counts ordinary HTTP handlers;
WebSocket connections are the hub's to wait for (`Hub`, and `hub_read_loops` for the one it
does not wait for).

### Session and RateLimit

A cookie is its payload and the secret it was signed with; `login` is a ghost, the true
time of the login, because the code rounds to seconds. `serveWs` has the checks in the
order of the code: room, limiter, origin, grant. `Receive` puts frames into the
buffer of the connection if the read deadline has not passed, `HandleFrame` handles one and
renews the deadline after a pong. `Restart` starts another configuration: the secret, the
lifetime, the users or the mode differ, limiters are new and connections gone, but
cookies are still in the browsers. `outcome` is a ghost: what the last step
allowed, for whom and when the frame or request was read.

A bucket counts credits, `Unit` of them a token, so that rates below one token per tick
are integers; `allowed` is a ghost with the times of all events let through.

### History and WebClient

A save is three steps: the timestamp, the insert (which gives the ID) and the commit.
Timestamps and IDs therefore disagree, and rows appear behind a cursor. `Grain` is the
precision with which the order compares timestamps. The newest rows of a query are those
with fewer than the limit after them, listed by rank (`Sorted`). `messagesHandler`
fetches one row more than a page.

`WebClient` is one browser. `status` is the React state as last set and `rendered` the
one of the last render, whose effects have run, so an effect may see a status that is
already old. A request is answered (`Answer`, the server's snapshot) and applied
(`ApplyRecent`, `ApplyOlder`) in separate steps, or fails. The cleanup of an effect
removes the pending request for the recent page; a request for an older page stays and
is compared with the current version and room when its answer comes. The server's side of
the socket is the answer to the handshake (`Upgrade`, after which `onopen` may run), the
registration (`Register`), the replay and the broadcasts: a row committed is broadcast at
any later time, to a registered client only. The replay is `sendMessageHistory`: its query
may fail (`HistoryQuery`), and it queues row after row until the queue has no room for one
(`HistorySend`). A live message that finds the queue full closes the socket (`Drop`).

The fetch of the recent page begins at `onopen`, so the page may be read before or after
the registration. `base` (the rows of the room when its first page was read), `caughtUp` and
`fresh` (a page was read after the registration) are ghosts. If the page was read before it
and the replay failed or was cut, rows saved in between are in neither and the client shows
them only after its next reconnection; the model contains this case, and `NewestIsShown`
names the two conditions of which either is enough.

## 3. What is checked

| Run | Instance | Shows |
|---|---|---|
| `hub_safety` | 2 clients, capacities 1, 1 chat frame, shutdown and deadline at any time; 3.2 million states | types and bounds; no lost completion; the drain's channel never blocks; registration is exact; leaves are announced once and not early; a nil `Shutdown` is complete; no deadlock |
| `hub_liveness` | 2 clients, one already connected; 400 thousand states | all goroutines end after a shutdown starts; accepted leaves are handled |
| `delivery` | 2 settled clients in 2 rooms, a newcomer, capacities 1, 1 frame, 1 storage failure; 1.4 million states | steps of `RoomFeed`, no gap in the replay, senders' order |
| `delivery_feed` | 2 clients from an empty server, queue of 2; 600 thousand states | live delivery implements `RoomFeed` |
| `broker` | 3 servers, 2 messages, 1 fault, a server that may stop; 900 thousand states | duplicates, order, only saved messages cross |
| `startup` | 2 processes, 7 environments, the migrations of the code, stores with 0, 4 or 6 of them, 1 fault or crash; 240 thousand states | ledger and schema agree; no server on an incomplete schema; a start that fails in a race has lost to a finished migration; Postgres servers start together; nothing closed under a handler; valid configurations come up |
| `session` | 1 browser, 4 configurations, 1 restart, 7 ticks; 370 thousand states | expiry, lifetime, signature, rates; expired connections end |
| `web_client` | 2 rooms, pages of 1, 2 room changes, 2 lost connections, 1 older page, a replay that may fail or be cut; 2.2 million states | no duplicates, no foreign rows, no holes behind the cursor, newest page shown |
| `broker_liveness` | 2 servers, no faults, one that may stop; 10 thousand states | broker goroutines end; messages reach every server |

`hub_read_loops`, `delivery_full_queue` and `web_client_gap` state what a document
or a comment says and the code does not do:

* The drain waits for the clients that are registered when it begins. The read loop of
  a client evicted before is not waited for, so `Shutdown` may return nil while it
  still handles a message (`DrainWaitsForReadLoops`).
* A queue that is full during the replay ends the replay and the client stays connected
  with a truncated history (`FullQueueDisconnects`). For live messages the
  disconnection does hold; it is part of `RoomFeed`.
* A client that reconnects after more than a page of messages was saved appends the newest
  page and keeps its cursor; the messages in between are not shown and loading older
  messages does not reach them (`CatchUpIsComplete`). `NewestIsShown` and
  `LoadedIsComplete` are what does hold.

### Bounds

Capacities of 1 make every channel full and empty within a few steps, which is where
its users behave differently. Two clients suffice for the races of the hub: one client
against the drain, and a second that keeps `run`, the mutex or the leave queue busy;
the proofs cover any number. In `Delivery` the third client is there for the other
room. `HistoryLimit` 1 makes rows fall out of the replay. `Window` 1 in `Broker` lets
an event be forgotten, and `MaxTries` 2 lets it be repeated; two messages of two senders
separate the copies.

`startup` needs two processes for a race; the proofs cover any number. Its stores are
new, of the release before the last migrations, or up to date, and its environments
include each way to be refused. In `session`, a second of 2 ticks separates true and
rounded times, `PongWait` 2 lets a pong renew a deadline before a session expires, a rate of
half a token per tick with a burst of 1 makes refusals and refills happen, and one restart
suffices for two configurations to meet. In `web_client`, a page of 1 puts every border
between two rows; of four initial rows two share a grain while their timestamps and IDs
disagree, one belongs to the other room, and a fifth may be committed late. Two room
changes are a change there and back, and with the two lost connections they make up to
five handshakes. One older page is one request that a room change may leave behind or a late
commit may run into; the proofs cover any number of each.

The runs whose initial state is not `Init` start from a state that
`Init` reaches, given in the MC module, to keep the graph small.

### Fairness

Weak fairness of every goroutine: the Go scheduler runs what can run. A read on a
closed socket returns an error in the end (`ReadError` of a closed client). Storage
calls end because `storageOperationTimeout` bounds them; Redis calls, because the client
library bounds them. Nothing is assumed of peers, new connections, faults, the shutdown
signal or the deadline. `StartSucceeds` assumes that a process that exited is started again
(`restart: unless-stopped` in `docker-compose.yml`), and strong fairness of the advisory
lock, which Postgres grants in the order of the requests. `ExpiredClientsLeave` assumes that
read loops run, that storage calls end and that a read past its deadline returns;
nothing of the browser or the clock. `ReachesEveryServer` is checked without faults and with channels
large enough not to drop; live fan-out is otherwise at most once.

`hub_safety` checks for deadlock. The other modules bound messages, faults or the clock and
stop when the bound is used up, so their runs do not.

## 4. What is proved

`HubProofs` proves for any finite set of clients, any rooms and any capacities
(`ConstantsAssumption`), with the number of chat frames bounded by an arbitrary
`MaxFrames`:

| Theorem | Property |
|---|---|
| `TypeCorrect` | `TypeOK` |
| `WakeupsAreKept` | `NoLostWakeup` |
| `DrainSendsDoNotBlock` | `DrainSendNeverBlocks` |
| `RegistrationIsExact` | `NoGhostClient` |
| `NoClientIsForgotten` | `NoForgottenClient` |
| `LeavesAreNotEarly` | `NoEarlyLeave` |
| `LeavesAreNotRepeated` | `LeaveAnnouncedOnce` |
| `CleanShutdownHolds` | `CleanShutdownIsComplete` |

All follow from `HubInvariant`, the invariance of `HubInv`, in four layers above the
type invariant. `LifecycleInv` ties the drain's phase to `draining`, `done` and
`clients`. `RegistrationInv` says how far the read loop of a registered or finished
client is; it is what makes the drain skip exactly the finished ones. `DrainInv` adds to
`NoLostWakeup` that `drainEvents` has no duplicates and holds only collected clients,
from which the free slot follows by counting (`InjectiveLength`). `LeaveInv` says
where every announced leave is (queue, worker or storage) and when the worker may stop;
its parts are `LeaveQueueInv` and `LeaveStopInv`. `NoEarlyLeave` is in it because an
announcement happens once only if a registered client has none. `TypeOK` is inductive by itself; the other properties need their layer and
those below it. `HubInv` as a whole is what is proved inductive.

`StartupProofs` proves for any number of processes, any environments and any lists of
migrations in which two statements of a backend add different objects and the
statements of Postgres say `IF NOT EXISTS` (`MigrationsAssumption`, which TLC evaluates on
the lists of the code), with any bound on faults:

| Theorem | Property |
|---|---|
| `StartupTypes` | `TypeOK` |
| `StartupLedger` | `LedgerMatchesSchema` |
| `StartupSchema` | `ServingHasFullSchema` |
| `StartupTogether` | `PostgresStartsTogether` |
| `StartupRace` | `RaceIsLost` |
| `StartupRequests` | `RepositoryOutlivesRequests` |

The inductive invariant `Inv` adds to the types and to `LedgerMatchesSchema` what holds of
each process. `LockInv`: whoever has written to the schema or the ledger holds the lock.
`VersionInv`: the migrations before the current one are in the ledger. `WorkInv`, the heart
of it: either what the transaction has written and what is left to do make up exactly the
current migration, which is not in the ledger, or somebody else has applied it and the
transaction has written nothing of it (`Overtaken`). The second case is the SQLite race,
in which the process then fails at the insert into the ledger at the latest. A step
of one process leaves the others alone and adds to the ledger only under the lock
(`Undisturbed`), which carries their part of the invariant through.
`RaceIsLost` needs one thing more (`TodoInv`): the statements left to do add objects that
differ from each other and from what the transaction has added, so a statement that finds its
object finds it committed, and `WorkInv` leaves only `Overtaken`.

`SessionProofs` proves for any browsers, addresses, users, rooms, configurations,
batches of frames, rates and bursts:

| Theorem | Property |
|---|---|
| `SessionTypes` | `TypeOK` |
| `SessionExpiry` | `AcceptedBeforeExpiry` |
| `SessionLifetime` | `SessionsAreShort` |
| `SessionSignature` | `OnlyWhatWasSigned` |
| `SessionRates` | `RatesAreKept` |

The inductive invariant `Inv` says of a client (`ClientInv`) that its cookie passes the
checks of the running server, that name and room are signed, that its deadline is not
after the expiry and that everything in its buffer was read before it; of a cookie, that it is not
dated after the login; and of a bucket (`BucketInv`), that for every event let through, the events
since then and the credits left are paid for by a full bucket and what was added since.
The last is what makes the bound on every interval inductive.

`BrokerProofs` proves for any servers and senders, any capacities, any window of
remembered events and any number of tries, messages and faults (`BrokerAssumption`):

| Theorem | Property |
|---|---|
| `BrokerTypes` | `TypeOK` |
| `BrokerDuplicates` | `DuplicatesAreFarApart` |
| `BrokerOrder` | `OrderKept` |
| `BrokerSaved` | `OnlySavedCrosses` |

`WindowInv` says that `seenEventIDs` is the end of the events taken for new, and is
shorter than the window only while there were fewer; duplicates within the window are
then impossible. `PathInv` follows a message from `brokerPublish` over the publisher, the
wire and `handleRemoteEvent` to the clients: only saved messages are under way, a server
publishes its own and handles others', and each place is in order and holds nothing newer
than the places before it (`FlowInv`). Order on the receiving side alone is not inductive:
a retried `PUBLISH` puts a message on the wire a second time, and only `FlowInv` says that
nothing newer of its sender was published in between.

`DeliveryProofs` proves for any finite set of clients, any rooms,
capacities and limit of the replay, any number of frames and storage failures
(`DeliveryAssumption`):

| Theorem | Property |
|---|---|
| `DeliveryTypes` | `TypeOK` |
| `DeliveryOrder` | `SenderOrder` |
| `DeliverySteps` | `LiveSteps` |
| `DeliveryFeed` | `LiveDelivery`: `Delivery` implements `RoomFeed` |
| `DeliveryNoGap` | `NoGap` |

`SaveInv` says what the savers hold and that a client that is not registered has done
nothing; `OrderInv` that what was queued on `Hub.broadcast` is in order and without
repetition, that a saver holds nothing older than what its client has queued, and that
there is one leave of a client at most, in the leave queue, with the worker or queued. The
steps of `RoomFeed` follow: a message that `run` takes is new to the log. `StampInv` adds
that the timestamps belong to the messages queued or about to be, and `ReplayInv` that the
rows still to send and those sent already cover the log up to the registration, unless
`HistoryLimit` newer rows take their place. A row saved later does not break this,
because a message in the log is past its save, successful or not (`Onward`).

`WebClientProofs` (the first two theorems below, and the operators) and `ClientViewProofs`
(the others) prove for any rooms and writers, any page size, any grain of the clock and any tables to start from whose ids are 1 to their number (`HistoryAssumption`):

| Theorem | Property |
|---|---|
| `ClientTypes` | `TypeOK` |
| `ClientNoDuplicates` | `NoDuplicateRows` |
| `ClientRoom` | `RoomIsolation` |
| `ClientLoaded` | `LoadedIsComplete` |
| `ClientNewest` | `NewestIsShown` |

Two theorems about operators carry them. `PageFacts`: an answer of `messagesHandler` has at
most a page of rows of the room, and every row between the cursor asked for and the one
returned. `AppendUnique`: `appendUniqueMessages` keeps what is shown, adds no id twice and
leaves a row out only when its id is there. `StateInv` contains what makes ids
identities (`IdInv`): rows kept anywhere, from the table to an answer under way, are equal
when their ids are, and an id given to a row that is not committed is nobody else's.
`AppendUnique` is then a union of rows (`AppendKept`). `RoomInv` gives each pending answer its room.
`PagedInv` says that an answered page is complete for its snapshot, that at most one
request for an older page is current, that it continues at the cursor, and that its
snapshot has the rows of `base` that are left: a row committed since is not in `base`.
`ConnInv` ties the states of the socket, the events under way and the requests together:
a page counts as fresh on a registered socket only if it was read after that registration.
`LiveInv` says that on such a socket the newest page is shown, in the socket or not yet
broadcast, if a fresh page was applied; that what is left of the replay completes it while
the replay is being sent; and that a fresh answer not yet applied completes it too. A commit
adds at most the committed row to the newest page (`CommitRecent`).

`SelectSeq` and sorting by recursion are out of the provers' reach, so the queries and
`appendUniqueMessages` are written with ranks: the k-th element is the one with k - 1
before it. `QueueLemmas` (`RankFacts`, `EnumFacts`) shows that this lists every element once and in
order.

Model-checked only: liveness, which the prover does not support (`AllGoroutinesExit`,
`LeavesAreHandled`, `BrokerEnds`, `ReachesEveryServer`, `StartSucceeds`,
`ExpiredClientsLeave`). Every invariant and every action property that a passing run checks
is also proved.

## 5. Not modelled

* Static files, health, metrics and tracing: no state that the behaviour of the system
  depends on.
* Contents of messages and their validation; the envelope's encoding.
* The columns of audit rows and their pruning: nothing reads them. When one is written is in
  `Session`.
* The parsing of rates, bursts, addresses and directories from the environment; the rates
  are constants of `RateLimit`.
* The map of limiters per address is never pruned in the code; the model has one limiter per
  address and no bound on addresses.
* Sign-in and presentation in the web client; its `error` status, which the following close
  replaces.
* Load generator, deployment scripts.

## 6. Plan

1. Composition of `Hub` with the broker's shutdown.
2. The safety part of the liveness arguments of `Hub` and `Broker` (which goroutine can
   move in which phase) as invariants, since the temporal part is out of the prover's reach.

None of the modules that are proved about uses a `RECURSIVE` operator.
