CONSTANTS
    MaxLevels = 2
    MaxChanges = 3
    MaxMessages = 5
    MaxInFlight = 2
SPECIFICATION Spec
INVARIANT
    ConfigAlwaysCurrent
CHECK_DEADLOCK FALSE
