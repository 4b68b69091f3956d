SPECIFICATION Spec
SYMMETRY Symmetry
CONSTANTS
    NCtl = 2
    Ports = {1, 2}
    Buses <- MCBuses
    Wanted = {0, 2}
    MaxDevices = 2
    PollMax = 2
    MaxLate = 1
    MaxFaults = 1
    MaxKeys = 1
    Lbas = {1, 2}
    Values = {"x", "y"}
    MaxCommands = 3
    MaxSlow = 4
    MaxRefused = 1
    Segment = 3
    Records = {"a", "b"}
    Sectors = {1, 2}
    SectorData = {"x", "y"}
    Seconds = 3
    MaxInterrupts = 1
    Keys = {"shiftL", "altgr", "c", "pgup"}
    ReportKeys = 1
    BufferSize = 6
    DrainMax = 2
    PipeMax = 4
    NumDevs = 2
    Passes = {p1, p2}
    Empty = Empty
    Faults = {"none", "early"}
    MaxBoots = 2
CHECK_DEADLOCK FALSE
INVARIANTS
    BringUpIsSound
    RingsAreQueues
    ClockCallsAreRight
    TypingIsFaithful
    BootDiskOpensWithTheRunningKey
    SystemIsInOrderBeforeUsers
PROPERTIES
    
    DiskSuccessIsReal
    
