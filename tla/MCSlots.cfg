CONSTANTS
    address = address
    q1 = q1
    q2 = q2
    user = user
    MaxClients = 2
    Clients <- MCClients
    NoClient = NoClient
    Older <- MCOlder
    User <- MCUser
    NoUser = NoUser
    MaxPerIP = 2
    ReconnectLimit = 1
    ZombieTime = 0
    ConnectTime = 1
    AuthTime = 0
    Timeout = 1
    MaxRoom = 2
SPECIFICATION LiveSpec
INVARIANTS
    TypeOK
    OneSlotPerClient
    GameInStep
    SessionsHeld
PROPERTIES
    ReconnectLimitKept
    SlotReclaimed
CHECK_DEADLOCK FALSE
