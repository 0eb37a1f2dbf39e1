CONSTANTS
    Texts = {a}
    Blank = blank
    UnitsPerMs = 1
    MaxTimestampMs = 9
    MaxTime = 1
    FlvQueueLen = 1
    TextQueueLen = 2
    MaxCues = 1
SPECIFICATION FairSpec
CHECK_DEADLOCK FALSE
PROPERTIES
    EndsAfterBothEos
