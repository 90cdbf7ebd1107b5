SPECIFICATION Spec
CONSTANTS
    castle = castle
    worker = worker
    house = house
    guard = guard
    u1 = u1
    u2 = u2
    u3 = u3
    gold = gold
    people = people
    grain = grain
    Ids = {1, 2, 3}
    UnitTypes = {castle, worker, house, guard}
    Upgrades = {u1}
    Resources = {gold, people, grain}
    Class <- MCClass
    RecoupCost = {people}
    Cost <- MCCost
    Stores <- MCStores
    Needs <- MCNeeds
    MaxUnitCount <- MCMaxUnitCount
    Discount <- MCDiscount
    Orders <- MCOrders
    Start <- MCStart
    StartAmount <- MCStartAmount
    Harvesters = {worker}
    Repairers = {worker}
    MaxCommands = 2
    NoUnit = NoUnit
    Other = Other
INVARIANTS TypeOK WithinStore PopulationNeverGained MaxUnitCountKept OneCommandPerUpgrade
CHECK_DEADLOCK FALSE
