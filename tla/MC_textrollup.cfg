CONSTANTS
    Words <- SomeWords
    Geometries <- Settings
    ClearAfters = {0, 1}
    Features = {"reshape", "blank", "hole", "flush", "stop"}
    MaxTime = 3
    MaxBatch = 2
    MaxWords = 3
    MaxSegments = 3
SPECIFICATION Spec
CHECK_DEADLOCK FALSE
INVARIANTS
    TypeOK
    OnlyCurrentText
    WindowIsWrapped
PROPERTIES
    CoveragePreserved
    ClearedInTime
    ClearedNoEarlier
    NothingMoves
