CONSTANTS
    Families <- AllButTimedChunks
    Overrun = "block"
    QueueLen = 2
    Threshold = 0
    Warmup = 0
    Preroll = 1
    Features = {"eos", "discont", "flush"}
    FirstPts = 0
    MaxPts = 3
    Durations = {0, 1}
    MinRow = 1
    MaxRows = 1
    MaxStreams = 6
    MinWord = 1
    Granularity = 2
SPECIFICATION Spec
CHECK_DEADLOCK FALSE
INVARIANTS
    TypeOK
    OnItsAudio
    EosDrained
PROPERTIES
    Contiguous
    GapNeverOverWord
