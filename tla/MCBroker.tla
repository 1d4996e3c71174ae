------------------------------ MODULE MCBroker ------------------------------
(* Finite instances of Broker for TLC. *)
EXTENDS Broker

CONSTANTS i1, i2, i3, s1, s2

\* One sender on each of the first two servers; a third server only listens.
TwoHomes == [s \in Senders |-> IF s = s1 THEN i1 ELSE i2]

\* Every server has subscribed, as it will have some time after its start.
Subscribers ==
  [i \in Instances |-> "receive"]

ConnectedInit ==
  /\ sender = [s \in Senders |-> "idle"]
  /\ sent = [s \in Senders |-> 0]
  /\ saved = {} /\ messages = MaxMessages /\ faults = MaxFaults
  /\ broadcast = [i \in Instances |-> <<>>]
  /\ log = [i \in Instances |-> <<>>]
  /\ brokerPublish = [i \in Instances |-> <<>>]
  /\ publishing = [i \in Instances |-> None]
  /\ tries = [i \in Instances |-> 0]
  /\ wire = [i \in Instances |-> <<>>]
  /\ subscriber = Subscribers
  /\ handled = [i \in Instances |-> None]
  /\ seenEvents = [i \in Instances |-> <<>>]
  /\ accepted = [i \in Instances |-> <<>>]
  /\ brokerWG = [i \in Instances |-> Goroutines]
  /\ shutdown = [i \in Instances |-> "up"]
  /\ done = {}

ConnectedSpec     == ConnectedInit /\ [][Next]_vars
ConnectedFairSpec == ConnectedSpec /\ Fairness
=============================================================================
