SPECIFICATION Spec
VIEW View
CHECK_DEADLOCK FALSE
CONSTANTS
    MaxEntries = 4
    TotalClusters = 5
    Names <- MCNames
    TmpName <- MCTmpName
    Chunks = {1}
    MaxChunks = 2
    Handles = {h1}
    MaxPending = 2
    MaxCalls = 3
INVARIANTS
    VolumeIsSound
PROPERTIES
    ImplementsFileTree
