SPECIFICATION SettledSpec
CONSTANTS
  c1 = c1
  c2 = c2
  c3 = c3
  r1 = r1
  r2 = r2
  None = None
  Worker = Worker
  Clients = {c1, c2, c3}
  Named = {c1}
  Rooms = {r1, r2}
  RoomOf <- TwoRooms
  SendCap = 1
  BroadcastCap = 1
  LeaveCap = 1
  HistoryLimit = 1
  MaxFrames = 1
  MaxFailures = 1
INVARIANTS
  TypeOK
  NoGap
  SenderOrder
PROPERTY LiveSteps
CHECK_DEADLOCK FALSE
