SPECIFICATION MCSpec
CONSTANTS
    Users = {u1, u2}
    Tasks = {c1, c2}
    Keys = {k1, k2}
    u1 = u1
    u2 = u2
    c1 = c1
    c2 = c2
    k1 = k1
    k2 = k2
    MaxStarts = 2
    MaxRotations = 1
CHECK_DEADLOCK FALSE
INVARIANTS
    StoreStaysClosed
    GrantIsDurable
    UnknownKeyIsExcused
PROPERTIES
    EveryCheckEnds
