CONSTANTS
    PacketBackup = 4
    DeltaMargin = 1
    SnapshotFrames = 3
    StorageEntities = 5
    LinkedCounts = {0, 2}
    SnapshotEntities = 1
    MaxLevels = 2
    MaxFrames = 5
    MaxMessages = 6
    MaxInFlight = 1
SPECIFICATION Spec
INVARIANTS
    TypeOK
    StorageAccounted
    ValidSnapshotsRight
    NeverDumped
    HandedOutIntact
CHECK_DEADLOCK FALSE
