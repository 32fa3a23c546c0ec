SPECIFICATION Spec
CONSTANTS
    BufLen = 2
    SeqMod = 8
    Payloads <- MCPayloads
    Silence = 0
    FrameSizes <- MCFrameSizes
    Capacity = 1
    DefaultSilence = 1
    Codec = "pcm"
    MaxPos = 4
    StartSeq = 5
    Reorder = 1
    Undecodable <- MCUndecodable
    MaxStarts = 2
    MaxFlushes = 1
INVARIANTS
    TypeOK
    UdpPlaysForward
    TcpPlaysForward
    PlaysOnce
    NothingHeldBack
CHECK_DEADLOCK FALSE
