SPECIFICATION Spec
CONSTANTS
    Writer = {p1, p2}
    Client = {c1, c2}
    Key = {k1, k2}
    MaxVersion = 2
INVARIANTS TypeOK NoLostWakeup OpenChannels
PROPERTIES NothingVanishes EventuallySeen
CHECK_DEADLOCK FALSE
