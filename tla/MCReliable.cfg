CONSTANTS
    MaxReliableCommands = 2
    MessageCapacity = 1
    MaxServerCommands = 4
    MaxClientCommands = 3
    MaxInFlight = 2
    UserinfoCommands = {2}
SPECIFICATION Spec
INVARIANTS
    TypeOK
    CommandsHandledInOrder
    CgameExecutesInOrder
    SnapshotAfterCommands
    KeysAgree
CHECK_DEADLOCK FALSE
