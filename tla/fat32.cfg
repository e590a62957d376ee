SPECIFICATION Spec
CONSTANTS
    N = 4
    PerSector = 2
    Slots = 2
    Dirs = {"D"}
    Paths <- MCPaths
    Sfn <- MCSfn
    Handle = {1, 2}
    MaxSize = 2
    MaxFaults = 1
    MaxOps = 8
INVARIANTS
    TypeOK
    VolumeSound
    FilesKept
    CleanIsHonest
PROPERTY
    PoolRefined
CHECK_DEADLOCK FALSE
