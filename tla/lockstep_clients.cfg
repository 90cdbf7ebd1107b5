SPECIFICATION Spec
CONSTANTS
    Server = Server
    c1 = c1
    c2 = c2
    o1 = o1
    o2 = o2
    Clients = {c1, c2}
    Orders = {o1}
    PlayerOf <- OneClientOrder
    Admins = {Server}
    FramePeriod = 2
    AllowedMaxFallback = 0
    MaxCatchUp = 0
    MaxFrame = 4
    MaxSwitches = 1
    MaxLagPauses = 0
    MaxBroadcasts = 3
INVARIANTS ServerReachesFirst OrdersConserved
PROPERTIES ImplementsLog
CHECK_DEADLOCK FALSE
