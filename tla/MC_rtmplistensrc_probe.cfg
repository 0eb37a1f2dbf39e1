CONSTANTS
    Features = {"probe"}
    MaxConnections = 2
    MaxTags = 1
    MaxStarts = 1
SPECIFICATION FairSpec
CHECK_DEADLOCK FALSE
PROPERTIES
    ListensAgain
