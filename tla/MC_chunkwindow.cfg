CONSTANTS
    Scripts <- MCScripts
    ChunkMs = 2
    LiveEdgeMs = 1
    MaxMs = 4
    MaxBuffer = 2
    MaxEnd = 11
    MaxStreams = 2
SPECIFICATION Spec
CHECK_DEADLOCK FALSE
INVARIANTS
    TypeOK
    RowsAreNew
PROPERTIES
    NothingBehindFrontier
