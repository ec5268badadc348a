CONSTANTS
    MaxLevels = 2
    MaxChanges = 3
    MaxMessages = 5
    MaxInFlight = 2
SPECIFICATION Spec
INVARIANTS
    TypeOK
    ConfigCurrent
    EnteredForGood
PROPERTIES
    ConfigNeverBackwards
CHECK_DEADLOCK FALSE
