SPECIFICATION Spec
CONSTANTS
    Scenes <- CertificateScenes
    MaxMoves = 0
    MaxFaults = 0
PROPERTIES
    WakesDependents
CHECK_DEADLOCK FALSE
