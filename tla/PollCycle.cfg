SPECIFICATION Spec
CONSTANTS
    MaxLimit = 2
    OnValue = 2
    MaxCommands = 2
    MaxConnects = 1
    MaxFaults = 1
    None = None
PROPERTIES Restores Mirrors
CHECK_DEADLOCK FALSE
