CONSTANTS
    FrameLength = 2
    Hangover = 2
    Preroll = 5
    MaxBuffer = 3
    MaxSamples = 10
    MaxArms = 2
SPECIFICATION Spec
CHECK_DEADLOCK FALSE
INVARIANTS
    TypeOK
    OnlyChoosesTheFirst
    StandsAtItsTime
