CONSTANTS
    DownloadWindow = 2
    BlockModulus = 3
    FileCount = 2
    Blocks <- MCBlocks
    MaxInFlight = 3
    MaxCommands = 12
SPECIFICATION Spec
INVARIANTS
    TypeOK
    RingHoldsWindow
    StoredPrefix
    InStep
PROPERTIES
    DownloadEnds
CHECK_DEADLOCK FALSE
