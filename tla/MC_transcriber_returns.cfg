CONSTANTS
    Families <- StreamingOnly
    Overrun = "block"
    QueueLen = 1
    Threshold = 0
    Warmup = 1
    Preroll = 1
    Features = {"gate", "gap", "discont", "backward", "eos", "flush", "stop", "fail"}
    FirstPts = 1
    MaxPts = 3
    Durations = {1, 2}
    MinRow = 1
    MaxRows = 1
    MaxStreams = 2
    MinWord = 1
    Granularity = 2
SPECIFICATION FairSpec
CHECK_DEADLOCK FALSE
INVARIANTS
    OnItsAudio
PROPERTIES
    HandlerReturns
