SPECIFICATION Spec
CONSTANTS
    Server = Server
    c1 = c1
    c2 = c2
    o1 = o1
    o2 = o2
    Clients = {c1}
    Orders = {o1}
    PlayerOf <- OneClientOrder
    Admins = {Server}
    FramePeriod = 2
    AllowedMaxFallback = 0
    MaxCatchUp = 0
    MaxFrame = 7
    MaxSwitches = 1
    MaxLagPauses = 1
    MaxBroadcasts = 4
INVARIANTS NothingMissedBehind
CHECK_DEADLOCK FALSE
