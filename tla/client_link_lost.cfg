SPECIFICATION FairSpec
CONSTANTS
    MaxLists = 4
    ListSize = 2
PROPERTIES LostLinkEndsWait
CHECK_DEADLOCK FALSE
