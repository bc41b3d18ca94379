CONSTANTS
    Buttons <- TwoButtons
    Keys <- AllKeys
    SupportedKeys <- KnownKeys
    Coordinates <- OnePosition
    Displays <- OneScreen
    BackendMayFail = FALSE
    MaxSequence = 3
SPECIFICATION Spec
INVARIANTS
    NothingStuck
