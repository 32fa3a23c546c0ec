SPECIFICATION RecSpec
CONSTANTS
    BufLen = 2
    SeqMod = 8
    Payloads <- MCPayloads
    Silence = 0
    FrameSizes <- MCFrameSizes
    Capacity = 1
    DefaultSilence = 1
    Codec = "pcm"
    MaxPos = 4
    StartSeq = 5
    Reorder = 1
    Undecodable <- MCNone
    MaxStarts = 1
    MaxFlushes = 2
INVARIANT SilenceOnlyForMissing
CHECK_DEADLOCK FALSE
