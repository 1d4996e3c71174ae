------------------------------ MODULE RoomFeed ------------------------------
(***************************************************************************)
(* What live delivery promises to the members of a room: there is one      *)
(* order of posts, and a member is given every post of its room from the   *)
(* moment it subscribes until it is removed, in that order, without gap or *)
(* repetition.  A member that cannot keep up is removed, never skipped.    *)
(***************************************************************************)
EXTENDS Naturals, Sequences, Functions

CONSTANTS Clients, Rooms, RoomOf, Messages, RoomFor(_)

VARIABLES
  log,       \* the posts, in the order everyone sees them
  members,   \* current members
  seen       \* the live posts each client was given

feedVars == <<log, members, seen>>

FeedInit ==
  /\ log = <<>>
  /\ members = {}
  /\ seen = [c \in Clients |-> <<>>]

Subscribe(c) ==
  /\ c \notin members
  /\ seen[c] = <<>>
  /\ members' = members \cup {c}
  /\ UNCHANGED <<log, seen>>

\* One post: the members of the room get it, or are removed.
Post(m) ==
  /\ m \notin Range(log)
  /\ log' = Append(log, m)
  /\ \E slow \in SUBSET {c \in members : RoomOf[c] = RoomFor(m)} :
       /\ members' = members \ slow
       /\ seen' = [c \in Clients |->
                     IF c \in members' /\ RoomOf[c] = RoomFor(m)
                       THEN Append(seen[c], m) ELSE seen[c]]

Unsubscribe(c) ==
  /\ c \in members
  /\ members' = members \ {c}
  /\ UNCHANGED <<log, seen>>

FeedNext ==
  \/ \E c \in Clients : Subscribe(c) \/ Unsubscribe(c)
  \/ \E m \in Messages : Post(m)

FeedSpec == FeedInit /\ [][FeedNext]_feedVars
=============================================================================
