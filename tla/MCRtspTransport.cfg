SPECIFICATION Spec
CONSTANTS
    Kinds <- MCKinds
    HeaderLen <- MCHeaderLen
    BodyLen <- MCBodyLen
    Malformed <- MCMalformed
    Probes <- MCProbes
    Pairing <- MCPairing
    Frames <- MCFrames
    Closing <- MCClosing
    MaxHeader = 2
    MaxBody = 2
    ProbeLen = 1
    ReadLen = 3
    MaxRaw = 4
    LastNonce = 6
    MaxRequests = 3
INVARIANTS
    TypeOK
    AnsweredInOrder
    SealedOncePaired
    NothingLeftBehind
    ClosedForCause
PROPERTIES
    LateBodyUnanswered
    EveryRequestAnswered
CHECK_DEADLOCK FALSE
