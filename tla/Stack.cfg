SPECIFICATION Spec
CONSTANTS
    Scenes <- AllScenes
    MaxMoves = 2
    MaxFaults = 1
INVARIANTS
    TypeOK
    NothingStray
PROPERTIES
    Settles
    Drains
    ImplementsLifecycle
CHECK_DEADLOCK FALSE
