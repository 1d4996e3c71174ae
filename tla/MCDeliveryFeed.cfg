SPECIFICATION Spec
CONSTANTS
  c1 = c1
  c2 = c2
  c3 = c3
  r1 = r1
  r2 = r2
  None = None
  Worker = Worker
  Clients = {c1, c2}
  Named = {c1}
  Rooms = {r1}
  RoomOf <- OneRoom
  SendCap = 2
  BroadcastCap = 1
  LeaveCap = 1
  HistoryLimit = 1
  MaxFrames = 0
  MaxFailures = 0
PROPERTY LiveDelivery
CHECK_DEADLOCK FALSE
