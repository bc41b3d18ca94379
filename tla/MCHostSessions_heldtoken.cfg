CONSTANTS
    t1 = t1
    t2 = t2
    s1 = s1
    s2 = s2
    n1 = n1
    n2 = n2
    n3 = n3
    Tasks <- MCTasks
    SessionIds <- MCSessionIds
    Nonces <- MCNonces
    Ttl = 2
    SecretConfigured = TRUE
    ClockJumps <- Forward
    MaxTime = 3
    MaxRestarts = 1
SYMMETRY Symmetry
SPECIFICATION Spec
INVARIANTS
    HeldSessionHasToken
