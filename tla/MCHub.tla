------------------------------- MODULE MCHub -------------------------------
(* Finite instances of Hub for TLC. *)
EXTENDS Hub

CONSTANTS c1, c2, r1

\* Everyone in one room, so that every broadcast meets every client.
OneRoom == [c \in Clients |-> r1]

\* The liveness instance starts later: the event loop runs, c1 has joined and
\* its join was delivered.  Init reaches this state; starting there keeps the
\* graph small enough for the temporal check with two clients.
LiveInit ==
  /\ clients = {c1} /\ finished = {} /\ draining = FALSE /\ drainPending = {}
  /\ drainEvents = <<>> /\ broadcast = <<>> /\ done = FALSE
  /\ conn = [c \in Clients |-> IF c = c1 THEN "reading" ELSE "absent"]
  /\ closed = {}
  /\ named = Authenticated
  /\ frames = MaxFrames
  /\ run = "select" /\ runRoom = None /\ todo = {}
  /\ drain = "idle" /\ collected = {} /\ pending = {}
  /\ ctxDone = FALSE /\ leaveErr = FALSE
  /\ worker = "off" /\ workerLoop = "select" /\ workerClient = None
  /\ leaveQueue = <<>> /\ leaveStop = FALSE /\ leaveCancelled = FALSE
  /\ leave = [c \in Clients |-> "none"]

LiveSpec == LiveInit /\ [][Next]_vars /\ Fairness
=============================================================================
