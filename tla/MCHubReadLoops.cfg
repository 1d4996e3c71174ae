SPECIFICATION Spec
CONSTANTS
  c1 = c1
  c2 = c2
  r1 = r1
  None = None
  Clients = {c1, c2}
  Authenticated = {c1}
  Rooms = {r1}
  RoomOf <- OneRoom
  BroadcastCap = 1
  LeaveCap = 1
  MaxFrames = 1
INVARIANT
  DrainWaitsForReadLoops
