CONSTANTS
    MaxReliableCommands = 2
    MessageCapacity = 1
    MaxServerCommands = 4
    MaxClientCommands = 3
    MaxInFlight = 1
    UserinfoCommands = {1, 2, 3}
SPECIFICATION Spec
PROPERTIES
    CommandsArrive
CHECK_DEADLOCK FALSE
