SPECIFICATION FairSpec
CONSTANTS
    Browsers = {"b1"}
    Configs <- MCConfigs
    RoomNames <- MCRoomNames
    Origins <- MCOrigins
    Batches <- MCBatches
    Addresses = {"ip1"}
    Users = {"alice"}
    Rooms = {"general", "private"}
    Secrets = {"s1", "s2"}
    Contents = {"carol", "text", ""}
    DefaultRoom = "general"
    Invalid = Invalid
    None = None
    Second = 2
    Minute = 2
    PongWait = 2
    MaxTime = 7
    MaxRestarts = 1
    Unit = 2
    Rate = 1
    Burst = 1
INVARIANTS
    TypeOK
    AcceptedBeforeExpiry
    SessionsAreShort
    OnlyWhatWasSigned
    RatesAreKept
PROPERTIES
    ExpiredClientsLeave
CHECK_DEADLOCK FALSE
