CONSTANTS
    Texts = {a, b}
    Blank = blank
    UnitsPerMs = 2
    MaxTimestampMs = 9
    MaxTime = 2
    FlvQueueLen = 1
    TextQueueLen = 1
    MaxCues = 2
SYMMETRY Symmetry
SPECIFICATION Spec
CHECK_DEADLOCK FALSE
INVARIANTS
    TypeOK
    MediaCovered
    TimelineTiled
    ScreenMatchesTimeline
    NothingLeaks
PROPERTIES
    CueNeverSkipped
    TagsBetweenMedia
