SPECIFICATION ConnectedFairSpec
CONSTANTS
  i1 = i1
  i2 = i2
  i3 = i3
  s1 = s1
  s2 = s2
  None = None
  Instances = {i1, i2}
  Senders = {s1, s2}
  Home <- TwoHomes
  BroadcastCap = 2
  PublishCap = 2
  Window = 2
  MaxTries = 2
  MaxMessages = 2
  MaxFaults = 0
  Stopping = {i2}
PROPERTIES
  BrokerEnds
  ReachesEveryServer
CHECK_DEADLOCK FALSE
