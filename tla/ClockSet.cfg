SPECIFICATION RtcSpec
CONSTANTS
    Seconds = 3
    MaxInterrupts = 1
CHECK_DEADLOCK FALSE
INVARIANT SetIsKept
