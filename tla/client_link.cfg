SPECIFICATION FairSpec
CONSTANTS
    MaxLists = 4
    ListSize = 2
INVARIANTS TypeOK ListsTakenWhole SocketOutlivesReads
PROPERTIES QuitEndsBoth
CHECK_DEADLOCK FALSE
