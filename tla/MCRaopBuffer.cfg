SPECIFICATION Spec
CONSTANTS
    BufLen = 3
    SeqMod = 12
    Payloads = {p1, p2}
    Silence = silence
    FrameSizes <- MCFrameSizes
    Capacity = 3
    DefaultSilence = 5
    FlushArgs <- MCFlushArgs
INVARIANTS
    TypeOK
    WindowFits
    SlotsInWindow
    WindowEndsInAudio
    SilenceIsAFrameLong
PROPERTY ImplementsOrderedPlayout
