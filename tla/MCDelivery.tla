---------------------------- MODULE MCDelivery ----------------------------
(* Finite instances of Delivery for TLC. *)
EXTENDS Delivery

CONSTANTS c1, c2, c3, r1, r2

\* c3 is alone in the second room.
TwoRooms == [c \in Clients |-> IF c = c3 THEN r2 ELSE r1]

\* Both clients in one room.
OneRoom == [c \in Clients |-> r1]

\* Everyone but c2 has joined, their join notifications were saved and delivered
\* and their replays are complete: a state Init reaches, from which the instance
\* explores what they and the newcomer c2 do.
Old     == Clients \ {c2}
JoinsOf(room) == SelectSeq(<<<<c1, 0>>, <<c3, 0>>>>,
                   LAMBDA m : m[1] \in Old /\ RoomFor(m) = room)
Settled ==
  /\ clients = Old /\ closed = {} /\ evicted = {} /\ leaveQueue = <<>>
  /\ pc = [p \in Savers |-> "idle"]
  /\ job = [p \in Savers |-> None]
  /\ sent = [c \in Clients |-> 0]
  /\ frames = MaxFrames /\ failures = MaxFailures
  /\ stamps = JoinsOf(r1) \o JoinsOf(r2)
  /\ stored = Range(stamps)
  /\ broadcast = <<>> /\ log = stamps
  /\ send = [c \in Clients |-> 0]
  /\ live = [c \in Clients |-> IF c \in Old THEN <<<<c, 0>>>> ELSE <<>>]
  /\ joinedAt = [c \in Clients |-> 0]
  /\ hist = [c \in Clients |-> IF c \in Old THEN "done" ELSE "none"]
  /\ rows = [c \in Clients |-> {}]
  /\ replayed = [c \in Clients |-> {}]

SettledSpec == Settled /\ [][Next]_vars
=============================================================================
