SPECIFICATION Spec
CONSTANTS
    Rooms = {"general", "engineering"}
    w1 = w1
    Writers = {w1}
    PageSize = 1
    Grain = 2
    Histories <- MCTwoPages
    LateRows = {}
    MaxRows = 4
    MaxTime = 0
    None = None
    MaxChanges = 0
    MaxDrops = 1
    MaxOlder = 0
INVARIANT CatchUpIsComplete
CHECK_DEADLOCK FALSE
