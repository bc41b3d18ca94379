SPECIFICATION MCSpec
CONSTANTS
    Sizes = {small, large}
    DisplaySizes = {small, large}
    small = small
    large = large
    OpenAttempts = 2
    MaxEncoders = 2
    MaxChanges = 2
INVARIANTS
    OneFrameOut
    NoSilentEnd
    BoundsFollowCapture
    EncoderFitsFrame
    OldEncoderFlushed
PROPERTIES
    WedgedStreamIsClosed
    TeardownEnds
