CONSTANTS
    Scripts <- MCScripts
    Marks <- MCMarks
    Families = {"none", "full", "bare"}
    Settle = 2
    MaxFeed = 2
    LastCommit = 4
    MaxStreams = 2
SPECIFICATION FairSpec
CHECK_DEADLOCK FALSE
INVARIANTS
    TypeOK
    WholeWordsOnce
PROPERTIES
    NothingBehindFrontier
    WordsAreReleased
