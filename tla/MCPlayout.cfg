SPECIFICATION Spec
CONSTANTS
    TsMod = 20
    StartTs = 17
    MaxFrames = 3
    MaxClock = 4
    MaxCmds = 3
    Lead = 1
    Formats <- MCFormats
    DefaultFormat = "stereo"
    FormatOf <- MCFormatOf
    Anchors <- MCAnchors
    FlushRanges <- MCFlushRanges
    IdleSince <- MCIdleSince
INVARIANTS
    TypeOK
    FlushedFramesAreCancelled
PROPERTIES
    
    FlushReachesSession
    DueFramesLeave
    StopEndsDelivery
CHECK_DEADLOCK FALSE
