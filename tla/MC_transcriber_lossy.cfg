CONSTANTS
    Families <- Timed
    Overrun = "drop"
    QueueLen = 1
    Threshold = 0
    Warmup = 0
    Preroll = 1
    Features = {"gap", "eos", "earlyflush", "stop", "fail"}
    FirstPts = 0
    MaxPts = 3
    Durations = {1}
    MinRow = 0
    MaxRows = 1
    MaxStreams = 2
    MinWord = 1
    Granularity = 2
SPECIFICATION Spec
CHECK_DEADLOCK FALSE

    
PROPERTIES
    NeverOverlaps
