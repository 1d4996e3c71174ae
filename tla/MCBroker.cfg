SPECIFICATION ConnectedSpec
CONSTANTS
  i1 = i1
  i2 = i2
  i3 = i3
  s1 = s1
  s2 = s2
  None = None
  Instances = {i1, i2, i3}
  Senders = {s1, s2}
  Home <- TwoHomes
  BroadcastCap = 1
  PublishCap = 1
  Window = 1
  MaxTries = 2
  MaxMessages = 2
  MaxFaults = 1
  Stopping = {i1}
INVARIANTS
  TypeOK
  DuplicatesAreFarApart
  OrderKept
  OnlySavedCrosses
CHECK_DEADLOCK FALSE
