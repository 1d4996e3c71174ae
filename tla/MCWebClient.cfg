SPECIFICATION Spec
CONSTANTS
    Rooms = {"general", "engineering"}
    w1 = w1
    Writers = {w1}
    PageSize = 1
    Grain = 2
    Histories <- MCHistories
    LateRows <- MCLateRows
    MaxRows = 5
    MaxTime = 3
    None = None
    MaxChanges = 2
    MaxDrops = 2
    MaxOlder = 1
INVARIANTS
    TypeOK
    NoDuplicateRows
    RoomIsolation
    LoadedIsComplete
    NewestIsShown
CHECK_DEADLOCK FALSE
