CONSTANTS
    UnitSizes <- Sizes
    Limits <- PayloadLimits
    MaxFragments = 2
    MaxId = 3
    MaxInFlight = 2
    Timeout = 1
    MaxUnits = 4
    MaxTime = 1
SPECIFICATION Spec
INVARIANTS
    AssembledIsSent
    SentUnitsAreTiled
    DeliveredOnce
    DroppedIsLost
