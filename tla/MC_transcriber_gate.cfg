CONSTANTS
    Families <- StreamingOnly
    Overrun = "block"
    QueueLen = 1
    Threshold = 0
    Warmup = 1
    Preroll = 1
    Features = {"gate", "eos"}
    FirstPts = 1
    MaxPts = 5
    Durations = {0, 1, 2}
    MinRow = 0
    MaxRows = 2
    MaxStreams = 2
    MinWord = 2
    Granularity = 2
SPECIFICATION Spec
CHECK_DEADLOCK FALSE
PROPERTIES
    Contiguous
