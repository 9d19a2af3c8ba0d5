CONSTANTS
    PerFat = 4
    Slots = 2
    Handle = {f, g}
    Configs <- Media
    Prepared <- Volumes
    Positions = {0, 2, 3, 5}
    Contents <- Pieces
    MaxSize = 5
    Paths <- ThreePaths
    MaxCalls = 4
    MaxFaults = 1
    MaxAccess = 5
SPECIFICATION Spec
INVARIANTS VolumeSound HandleTruth FlushedSurvives StaleNeedsSharing
CHECK_DEADLOCK FALSE
SYMMETRY Symmetry
VIEW View
