SPECIFICATION FairSpec
CONSTANTS
    c1 = c1
    c2 = c2
    c3 = c3
    Clients = {c1, c2}
    SameData = {c1}
    Checking = {c2}
    MaxStatus = 1
    MaxLists = 1
INVARIANTS TypeOK NoOneStartsAlone PlayersDiscardNothing
PROPERTIES WaitsEnd
CHECK_DEADLOCK FALSE
