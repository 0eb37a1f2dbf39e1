CONSTANTS
    Features = {}
    MaxConnections = 2
    MaxTags = 1
    MaxStarts = 2
SPECIFICATION FairSpec
CHECK_DEADLOCK FALSE
INVARIANTS
    TypeOK
PROPERTIES
    BracketsPublishers
    EndIsReported
    ListensAgain
    StopReturns
