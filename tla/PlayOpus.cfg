\* The stream may stop: the capture ends, the clients leave.
SPECIFICATION Spec
CONSTANTS
    c1 = c1
    c2 = c2
    Subs = {c1, c2}
    MaxClients = 2
    SubQueueDepth = 1
    FanoutBuffer = 1
    PeriodLens = {2}
    FrameLen = 3
    Mode = "opus"
    TSMod = 4
    StartTS = 3
    MaxPos = 8
CONSTRAINT StaysUp
CHECK_DEADLOCK FALSE
INVARIANTS
    SessionIsolation
    NoSplice
    
    OneEncoderRunPerSession
PROPERTIES
    ImplementsLiveAudio
