SPECIFICATION Spec
CONSTANTS
    MaxPids = 4
    MaxStages = 2
    MaxJobs = 2
    Cols = 2
    TermRows = 3
    MaxScroll = 4
    Typed = {"a", " "}
    Prompt <- MCPrompt
    MaxLine = 4
    MaxKept = 1
    MaxHistory = 1
    Commands <- MCCommands
    Listing <- MCListing
    Chars = {"a"}
    Cap = 3
    NameWidth = 0
    RecCap = 2
    ArenaCap = 2
    Patterns <- MCPatterns
CHECK_DEADLOCK FALSE
INVARIANTS
    StoppedChildrenAreJobs
    WaitCanEnd
    ScreenShowsTheLine
    LogRewinds
    
