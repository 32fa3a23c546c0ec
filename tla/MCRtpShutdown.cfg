SPECIFICATION Spec
CONSTANTS
    BufLen = 2
    SeqMod = 8
    Payloads <- MCPayloads
    Silence = 0
    FrameSizes <- MCFrameSizes
    Capacity = 1
    DefaultSilence = 1
    Codec = "pcm"
    MaxPos = 1
    StartSeq = 5
    Reorder = 1
    Undecodable <- MCNone
    MaxStarts = 2
    MaxFlushes = 1
PROPERTY SignalledTaskEnds
CHECK_DEADLOCK FALSE
