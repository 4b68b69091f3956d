SPECIFICATION Spec
CONSTANTS
    SchedTasks = {idle, a, b, c}
    SchedIdle = idle
    Ordinary = {b, c}
    AgeCap = 3
    UserCap = 1
    BasePriority = 1
    AskedPriorities = {0, 3, 4}
    Sleepers = {a, b}
    SleepIdle = idle
    Hz = 100
    Requests = {0, 11}
    TickMod = 6
    MaxLag = 1
    MaxTicks = 3
    PageUnits = 8
    Frames = 3
    KSizes = {1, 3, 4, 9}
    UPageUnits = 4
    UMapMin = 9
    BrkLimit = 16
    MaxMaps = 2
    USizes = {1, 5, 8, 9}
    LogRecords = 3
    Readers = {a, b}
    LogLevels = {1, 4}
    UserBurst = 2
    MaxSeq = 7
    RingSize = 2
    Samples = {1, 2}
    Threshold = 3
    Cap <- MCCap
    Budget <- MCBudget
    RekeyBytes = 2
    RekeyTicks = 2
    ReadSizes = {1}
    FirstDate <- MCFirstDate
    FirstDays = 0
    LastDays = 49709
    Offsets <- MCOffsets
    Callers = {"root", "u"}
    Uid <- MCUid
    Gid <- MCGid
    Slots = {1, 2}
    FileNames = {"t", "a"}
    PathNames <- MCPathNames
    Modes <- MCModes
    FirstTable <- MCFirstTable
    MaxDepth = 3
CHECK_DEADLOCK FALSE
INVARIANTS
    NobodyStarves
    KHeapIsSound
    BreakHeapIsTiled
    
    EntropyIsKept
    DatesAreRight
    

    
    
    
