SPECIFICATION FairSpec
CONSTANTS
    Server = Server
    c1 = c1
    c2 = c2
    o1 = o1
    o2 = o2
    Clients = {c1}
    Orders = {o1}
    PlayerOf <- OneClientOrder
    Admins = {}
    FramePeriod = 2
    AllowedMaxFallback = 0
    MaxCatchUp = 0
    MaxFrame = 7
    MaxSwitches = 0
    MaxLagPauses = 1
    MaxBroadcasts = 4
PROPERTIES OrdersReachEveryClient ClientsFollow
CHECK_DEADLOCK FALSE
