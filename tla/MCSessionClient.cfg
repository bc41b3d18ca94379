CONSTANTS
    c1 = c1
    c2 = c2
    d1 = d1
    n1 = n1
    Connects = {c1, c2}
    Disconnects = {d1}
    Drops = {n1}
    MaxLosses = 2
    MaxOld = 1
    MaxGeneration = 10
SPECIFICATION MCSpec
CHECK_DEADLOCK FALSE
INVARIANTS
    ConsistentAtRest
    ConnectedMatchesHost
PROPERTIES
    Settles
