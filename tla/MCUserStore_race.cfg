CONSTANTS
    c1 = c1
    c2 = c2
    u1 = u1
    u2 = u2
    Users <- TwoUsers
    Tasks <- TwoTasks
    MaxStarts = 1
SYMMETRY Symmetry
SPECIFICATION Spec
CHECK_DEADLOCK FALSE
INVARIANTS
    OnlyFirstUserRegistered
