\* One L16 client under fair goroutines; the stream may stop: the capture ends, the
\* client leaves, the appliance shuts down.
SPECIFICATION FairSpec
CONSTANTS
    c1 = c1
    Subs = {c1}
    MaxClients = 2
    SubQueueDepth = 2
    FanoutBuffer = 1
    PeriodLens = {3}
    FrameLen = 2
    Mode = "pcm"
    TSMod = 4
    StartTS = 3
    MaxPos = 9
CHECK_DEADLOCK FALSE
INVARIANTS
    ClosureStopsAudio
    AudioInOrder
PROPERTIES
    PathEnds
