SPECIFICATION Spec
CONSTANTS
    Observer = {p1, p2}
    MaxFlips = 2
    MaxConnects = 1
    MaxFaults = 1
INVARIANTS OfflineUnlessReconnecting
PROPERTIES NoFlicker Truthful
CHECK_DEADLOCK FALSE
