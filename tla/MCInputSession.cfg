CONSTANTS
    Buttons <- TwoButtons
    Keys <- AllKeys
    SupportedKeys <- KnownKeys
    Coordinates <- Positions
    Displays <- Screens
    BackendMayFail = TRUE
    MaxSequence = 3
SPECIFICATION Spec
INVARIANTS
    NothingPressedWithoutFocus
    MotionIsNewest
    NothingStuckUnlessRefused
PROPERTIES
    PointerLandsOnDisplay
