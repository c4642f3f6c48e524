SPECIFICATION DiscoverySpec
CONSTANTS
    MaxConnects = 2
    MaxBirths = 1
    MaxFaults = 1
INVARIANTS Announced
PROPERTIES Delivered
CHECK_DEADLOCK FALSE
