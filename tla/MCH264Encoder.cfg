SPECIFICATION Spec
CONSTANTS
    Sizes = {small, large}
    small = small
    large = large
    Headers <- MCHeaders
    Samples <- MCSamples
    Capacity = 2
    MaxEncoders = 2
INVARIANTS
    OutputOnlyWhenAnnounced
    WaitsForSomething
    UnitIsSample
PROPERTIES
    EncodeEnds
    ImplementsVideoEncoder
