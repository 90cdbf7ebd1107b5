------------------------------ MODULE Economy -------------------------------
(***************************************************************************)
(* The economy and technology of one faction: the resources it has and can *)
(* store, the orders its units hold, what an order charges when it is      *)
(* given and returns when it is undone, and the upgrades.  Where units     *)
(* stand is not modelled: whether a place is free, reached or taken is a   *)
(* choice.  Every step of the world is one step here, and so is the        *)
(* execution of a player's order: both are calls of the simulation thread. *)
(***************************************************************************)
EXTENDS UpgradeManager, FiniteSets, FiniteSetsExt, SequencesExt

CONSTANTS
    Ids,           \* bound: the units that can exist at a time
    UnitTypes, Upgrades, Resources,
    Class,         \* of a resource: "tech", "static" or "consumable"
    RecoupCost,    \* the resources whose static costs a death returns
    Cost,          \* of a type or an upgrade; below 0: it is a source of it
    Stores,        \* what a unit of a type can store
    Needs,         \* the types and upgrades a type or an upgrade requires
    MaxUnitCount,  \* of a type; 0: as many as one likes
    Discount,      \* of a morph into a type, in percent
    Orders,        \* of a type: the commands it understands
    Start,         \* the types of the units at the start
    StartAmount,   \* the resources the faction begins with
    Harvesters,    \* types that bring in resources
    Repairers,     \* types that can finish a building someone else began
    MaxCommands,   \* bound: commands a unit holds
    NoUnit, Other  \* nothing, and a unit that has nothing to do with it

Classes == {"produce", "build", "upgrade", "morph", "stop"}
Skills == {"none", "stop", "beBuilt", "produce", "build", "upgrade", "morph"}
\* Every class of command makes a thing of its kind.
OrderTypes == [class : {"produce", "build", "morph"}, of : UnitTypes]
                \cup [class : {"upgrade"}, of : Upgrades] \cup [class : {"stop"}, of : {NoUnit}]

ASSUME EconomyConstants ==
    /\ IsFiniteSet(Ids) /\ NoUnit \notin Ids /\ Other \notin Ids \cup {NoUnit}
    /\ UnitTypes \cap Upgrades = {} /\ NoUnit \notin UnitTypes \cup Upgrades
    /\ MaxCommands \in Nat \ {0}
    /\ Class \in [Resources -> {"tech", "static", "consumable"}]
    /\ Cost \in [UnitTypes \cup Upgrades -> [Resources -> Int]]
    /\ Stores \in [UnitTypes -> [Resources -> Nat]]
    /\ Needs \in [UnitTypes \cup Upgrades -> SUBSET (UnitTypes \cup Upgrades)]
    /\ MaxUnitCount \in [UnitTypes -> Nat] /\ Discount \in [UnitTypes -> 0 .. 100]
    /\ Orders \in [UnitTypes -> SUBSET OrderTypes]
    /\ DOMAIN Start \subseteq Ids /\ \A u \in DOMAIN Start : Start[u] \in UnitTypes
    /\ StartAmount \in [Resources -> Nat]

VARIABLE faction   \* amount, store, unit (by id), manager (of the upgrades)

SumOf(g) == MapThenSumSet(LAMBDA x : g[x], DOMAIN g)

-----------------------------------------------------------------------------
\* Units.  A unit that has been killed is as good as gone.

Gone == [type |-> NoUnit, alive |-> FALSE, skill |-> "none", commands |-> <<>>,
         target |-> NoUnit]
NewUnit(t, skill) ==
    [Gone EXCEPT !.type = t, !.alive = TRUE, !.skill = skill]

Standing(f) == {u \in Ids : f.unit[u].skill # "none"}
Operative(f, u) == f.unit[u].alive /\ f.unit[u].skill # "beBuilt"
OperativeOf(f, t) == {u \in Ids : Operative(f, u) /\ f.unit[u].type = t}

\* An id that no command and no target names.
Fresh(f) ==
    (Ids \ Standing(f)) \ UNION {{f.unit[v].target} \cup {c.site : c \in Range(f.unit[v].commands)} :
                                    v \in Standing(f)}

\* The target is only looked at while the unit builds.
WithSkill(f, u, skill) ==
    [f EXCEPT !.unit[u].skill = skill,
              !.unit[u].target = IF skill = "build" THEN @ ELSE NoUnit]

-----------------------------------------------------------------------------
\* Resources.

\* incResourceAmount of every resource that `change` names
Credited(f, change) ==
    [f EXCEPT !.amount = [r \in Resources |->
        LET n == f.amount[r] + change[r]
        IN  IF change[r] = 0 \/ Class[r] = "static" \/ n <= f.store[r]
            THEN n ELSE f.store[r]]]

Only(change, R) == [r \in Resources |-> IF r \in R THEN change[r] ELSE 0]
Negated(change) == [r \in Resources |-> -change[r]]

StaticResources == {r \in Resources : Class[r] = "static"}
Costs(p) == {r \in Resources : Cost[p][r] > 0}
\* what an order charges: not what its unit will produce or eat
Charge(p) ==
    Only(Cost[p], {r \in Resources : /\ Class[r] # "consumable"
                                     /\ r \in Costs(p) \/ Class[r] # "static"})

CheckCosts(f, p) == \A r \in Costs(p) : Cost[p][r] <= f.amount[r]
CostsApplied(f, p) == IF CheckCosts(f, p) THEN Credited(f, Negated(Charge(p))) ELSE f
CostsDeapplied(f, p) == Credited(f, Charge(p))
Percent(n, percent) ==
    IF n >= 0 THEN (n * percent) \div 100 ELSE -(((-n) * percent) \div 100)
DiscountApplied(f, p, percent) ==
    Credited(f, [r \in Resources |-> Percent(Charge(p)[r], percent)])
StaticCostsDeapplied(f, p) == Credited(f, Only(Cost[p], StaticResources \cap RecoupCost))
StaticCostsApplied(f, p) == Credited(f, Negated(Only(Cost[p], StaticResources \cap Costs(p))))
StaticConsumptionDeapplied(f, p) == Credited(f, Only(Cost[p], StaticResources \cap Costs(p)))
StaticProductionApplied(f, p) == Credited(f, Negated(Only(Cost[p], StaticResources \ Costs(p))))

StoreAdded(f, t) ==
    [f EXCEPT !.store = [r \in Resources |-> f.store[r] + Stores[t][r]]]

StoreReduced(f, t) ==
    [f EXCEPT !.store = [r \in Resources |-> f.store[r] - Stores[t][r]]]

\* limitResourcesToStore
StoreLimited(f) ==
    [f EXCEPT !.amount = [r \in Resources |->
        IF Class[r] # "static" /\ f.amount[r] > f.store[r] THEN f.store[r] ELSE f.amount[r]]]

\* mutant: what can no longer be stored is kept
StoreRemovedOnly(f, t) == StoreReduced(f, t)

StoreRemoved(f, t) == StoreLimited(StoreReduced(f, t))

\* Unit::born
Born(f, u) ==
    WithSkill(StaticProductionApplied(StoreAdded(f, f.unit[u].type), f.unit[u].type), u, "stop")

-----------------------------------------------------------------------------
\* Commands.

Command(o) == [class |-> o.class, of |-> o.of, site |-> NoUnit]
HasProduced(c) == c.class \in {"produce", "morph", "upgrade"}

\* the commands that make a p: the unit and the place in its list
CommandsFor(f, p) ==
    {x \in Ids \X (1 .. MaxCommands) :
        /\ x[2] \in DOMAIN f.unit[x[1]].commands
        /\ f.unit[x[1]].commands[x[2]].of = p}

\* mutant: the units in the orders do not count
ReqsOkWithoutOrders(f, p) ==
    /\ \A t \in Needs[p] \cap UnitTypes : OperativeOf(f, t) # {}
    /\ \A v \in Needs[p] \cap Upgrades : IsUpgraded(f.manager, v)
    /\ CheckCosts(f, p)
    /\ p \in UnitTypes /\ MaxUnitCount[p] > 0 =>
         MaxUnitCount[p] > Cardinality(OperativeOf(f, p))

\* reqsOk (which checks the costs too) of a unit type or an upgrade, with getCountForMaxUnitCount
ReqsOk(f, p) ==
    /\ \A t \in Needs[p] \cap UnitTypes : OperativeOf(f, t) # {}
    /\ \A v \in Needs[p] \cap Upgrades : IsUpgraded(f.manager, v)
    /\ CheckCosts(f, p)
    /\ p \in UnitTypes /\ MaxUnitCount[p] > 0 =>
         MaxUnitCount[p] > Cardinality(OperativeOf(f, p)) + Cardinality(CommandsFor(f, p))

\* mutant: an upgrade in progress may be ordered again
CheckCommandTwice(f, u, c) ==
    /\ Operative(f, u)
    /\ [class |-> c.class, of |-> c.of] \in Orders[f.unit[u].type]
    /\ c.class # "stop" => ReqsOk(f, c.of)

CheckCommand(f, u, c) ==
    /\ Operative(f, u)
    /\ [class |-> c.class, of |-> c.of] \in Orders[f.unit[u].type]
    /\ c.class # "stop" => ReqsOk(f, c.of)
    /\ c.class = "upgrade" => ~IsKnown(f.manager, c.of)

\* applyCommand and the push_back after it
Applied(f, u, c) ==
    LET g == IF c.class = "stop" THEN f ELSE CostsApplied(f, c.of)
    IN  [g EXCEPT !.unit[u].commands = Append(@, c),
                  !.manager = IF c.class = "upgrade" THEN Started(@, c.of) ELSE @]

\* undoCommand
Undone(f, u, c) ==
    LET g == IF HasProduced(c) \/ (c.class = "build" /\ f.unit[u].skill # "build")
             THEN CostsDeapplied(f, c.of) ELSE f
    IN  [g EXCEPT !.manager = IF c.class = "upgrade" THEN Cancelled(@, c.of) ELSE @]

\* the i-th command is undone and deleted
Withdrawn(f, u, i) ==
    [Undone(f, u, f.unit[u].commands[i]) EXCEPT !.unit[u].commands = RemoveAt(@, i)]

\* cancelCommand: the last command
LastCancelled(f, u) ==
    LET commands == f.unit[u].commands
    IN  IF commands = <<>> THEN f ELSE Withdrawn(f, u, Len(commands))

\* clearCommands: the last command, as often as there are commands
Cleared(f, u) == FoldLeft(LAMBDA g, c : LastCancelled(g, u), f, f.unit[u].commands)

Priority(c) ==
    CASE c.class \in {"produce", "upgrade"} -> 15
      [] c.class = "stop" -> 100000
      [] OTHER -> 10

\* deleteQueuedCommand of the first command of lower priority
FirstLowerDeleted(f, u, c) ==
    LET commands == f.unit[u].commands
        lower == {i \in DOMAIN commands : Priority(commands[i]) < Priority(c)}
    IN  IF lower = {} THEN f ELSE Withdrawn(f, u, Min(lower))

\* the loop over the commands that deletes those of lower priority
LowerDeleted(f, u, c) ==
    FoldLeft(LAMBDA g, d : FirstLowerDeleted(g, u, c), f, f.unit[u].commands)

AlwaysQueued(c) == c.class \in {"produce", "upgrade"}
Appendable(c) == c.class \notin {"stop", "morph"}

\* what giveCommand does to the commands the unit has
Prepared(f, u, c, tryQueue) ==
    LET kept == IF AlwaysQueued(c) /\ tryQueue THEN f ELSE LowerDeleted(f, u, c)
        commands == kept.unit[u].commands
    IN  IF AlwaysQueued(c) \/ (tryQueue /\ c.class # "stop")
        THEN IF commands # <<>> /\ ~Appendable(Last(commands))
             THEN LastCancelled(kept, u) ELSE kept
        ELSE Cleared(f, u)

\* giveCommand
Given(f, u, c, tryQueue) ==
    LET g == Prepared(f, u, c, tryQueue)
    IN  IF CheckCommand(g, u, c) THEN Applied(g, u, c) ELSE g

CommandFinished(f, u) == [f EXCEPT !.unit[u].commands = Tail(@)]
FinishedAndStopped(f, u) == WithSkill(CommandFinished(f, u), u, "stop")

-----------------------------------------------------------------------------
\* The update of a unit's command: the set of what may come of it.

\* updateProduce; the new unit may find no place
ProduceUpdates(f, u, c) ==
    LET g == FinishedAndStopped(f, u)
    IN  IF f.unit[u].skill # "produce" THEN {WithSkill(f, u, "produce")}
        ELSE {f, g} \cup
             {Born([g EXCEPT !.unit[n] = NewUnit(c.of, "stop")], n) : n \in Fresh(f)}

\* updateUpgrade
UpgradeUpdates(f, u, c) ==
    IF f.unit[u].skill # "upgrade" THEN {WithSkill(f, u, "upgrade")}
    ELSE {f, [FinishedAndStopped(f, u) EXCEPT !.manager = Finished(@, c.of)]}

\* Unit::morph
Morphed(f, u, t) ==
    LET old == f.unit[u].type
        turned == [StaticCostsDeapplied(f, old) EXCEPT !.unit[u].type = t]
        discounted == DiscountApplied(turned, t, Discount[t])
    IN  StaticProductionApplied(StoreRemoved(StoreAdded(discounted, t), old), t)

\* updateMorph; there may be no room to start or to end it
MorphUpdates(f, u, c) ==
    IF f.unit[u].skill # "morph" THEN {WithSkill(f, u, "morph"), LastCancelled(f, u)}
    ELSE {f, FinishedAndStopped(Morphed(f, u, c.of), u),
          WithSkill(LastCancelled(f, u), u, "stop")}

\* u builds n from now on.
WithSite(f, u, n) ==
    [f EXCEPT !.unit[u] = [@ EXCEPT !.skill = "build", !.target = n, !.commands[1].site = n]]

\* updateBuild of a unit that is not building: it is on its way, it puts the
\* new building there, it finds the place taken, or it cannot get there.
ApproachUpdates(f, u, c) ==
    {f, WithSkill(LastCancelled(f, u), u, "stop"), LastCancelled(f, u)} \cup
    {WithSite([f EXCEPT !.unit[n] = NewUnit(c.of, "beBuilt")], u, n) : n \in Fresh(f)}

\* mutant: a building that someone else has finished is finished again
BuildUpdatesTwice(f, u, c) ==
    LET target == f.unit[u].target
        atTarget == IF target \in Standing(f) THEN {target} ELSE {NoUnit, Other}
        Here(b) ==
            IF b # NoUnit /\ b # c.site THEN {WithSkill(f, u, "stop")}
            ELSE IF b = NoUnit THEN {FinishedAndStopped(f, u)}
            ELSE {f, Born(FinishedAndStopped(f, u), b)}
    IN  IF f.unit[u].skill # "build" THEN ApproachUpdates(f, u, c)
        ELSE UNION {Here(b) : b \in atTarget}

\* updateBuild of a unit that is building: what counts is what stands where
\* the unit's last target was.
BuildUpdates(f, u, c) ==
    LET target == f.unit[u].target
        atTarget == IF target \in Standing(f) THEN {target} ELSE {NoUnit, Other}
        Here(b) ==
            IF b # NoUnit /\ b # c.site THEN {WithSkill(f, u, "stop")}
            ELSE IF b = NoUnit \/ f.unit[b].skill # "beBuilt" THEN {FinishedAndStopped(f, u)}
            ELSE {f, Born(FinishedAndStopped(f, u), b)}
    IN  IF f.unit[u].skill # "build" THEN ApproachUpdates(f, u, c)
        ELSE UNION {Here(b) : b \in atTarget}

CommandUpdates(f, u) ==
    IF f.unit[u].commands = <<>> THEN {f}
    ELSE LET c == Head(f.unit[u].commands)
         IN  CASE c.class = "produce" -> ProduceUpdates(f, u, c)
               [] c.class = "upgrade" -> UpgradeUpdates(f, u, c)
               [] c.class = "morph" -> MorphUpdates(f, u, c)
               [] c.class = "build" -> BuildUpdates(f, u, c)
               [] c.class = "stop" -> {WithSkill(f, u, "stop")}

\* the end of updateUnitCommand: a unit without commands stops
Idle(f, u) ==
    LET stop == [class |-> "stop", of |-> NoUnit]
    IN  IF f.unit[u].commands # <<>> \/ ~Operative(f, u) THEN f
        ELSE IF stop \in Orders[f.unit[u].type]
             THEN Given(WithSkill(f, u, "stop"), u, Command(stop), FALSE)
             ELSE WithSkill(f, u, "stop")

\* Unit::kill
Killed(f, u) ==
    LET t == f.unit[u].type
        beBuilt == f.unit[u].skill = "beBuilt"
        returned == IF beBuilt THEN StaticConsumptionDeapplied(f, t)
                               ELSE StaticCostsDeapplied(f, t)
        cleared == Cleared(returned, u)
    IN  [(IF beBuilt THEN cleared ELSE StoreRemoved(cleared, t)) EXCEPT !.unit[u] = Gone]

-----------------------------------------------------------------------------
\* The starting units are created and born one after the other; what they cannot
\* store of the resources at the start is lost.
Init ==
    LET empty == [amount |-> StartAmount, store |-> [r \in Resources |-> 0],
                  unit |-> [u \in Ids |-> Gone], manager |-> NoUpgrades]
        Created(f, u) ==
            Born([StaticCostsApplied(f, Start[u]) EXCEPT !.unit[u] = NewUnit(Start[u], "none")],
                 u)
    IN  faction = StoreLimited(FoldLeft(Created, empty, SetToSeq(DOMAIN Start)))

\* An order of the player of the faction is executed.  The unit may have
\* become another type since the order was given.
GiveCommand(u) ==
    /\ u \in Standing(faction)
    /\ Len(faction.unit[u].commands) < MaxCommands
    /\ LET t == faction.unit[u].type
           earlier == {s \in UnitTypes : [class |-> "morph", of |-> t] \in Orders[s]}
       IN  \E o \in UNION {Orders[s] : s \in earlier \cup {t}}, tryQueue \in BOOLEAN :
             faction' = Given(faction, u, Command(o), tryQueue)

CancelCommand(u) ==
    /\ u \in Standing(faction)
    /\ faction' = LastCancelled(faction, u)

\* updateUnit: the skill goes on, or it has ended and the command is updated;
\* a unit that has died is killed at the end of it.
UpdateUnit(u) ==
    /\ u \in Standing(faction)
    /\ \E f \in {faction} \cup {Idle(g, u) : g \in CommandUpdates(faction, u)} :
         faction' = IF faction.unit[u].alive THEN f ELSE Killed(f, u)

\* decHp takes the last of the unit's health
Die(u) ==
    /\ faction.unit[u].alive
    /\ faction' = [faction EXCEPT !.unit[u].alive = FALSE]

\* updateHarvest: a worker unloads
Harvest(r) ==
    /\ Class[r] = "tech"
    /\ \E t \in Harvesters : OperativeOf(faction, t) # {}
    /\ faction' = Credited(faction, [s \in Resources |-> IF s = r THEN 1 ELSE 0])

\* updateRepair: someone who repairs finishes a building
FinishBuilding(b) ==
    /\ faction.unit[b].alive /\ faction.unit[b].skill = "beBuilt"
    /\ \E t \in Repairers : OperativeOf(faction, t) # {}
    /\ faction' = Born(faction, b)

\* applyCostsOnInterval: when there is not enough the consumers lose health
Consume(r) ==
    LET units == {u \in Ids : Operative(faction, u) /\ Cost[faction.unit[u].type][r] # 0}
        usage == SumOf([u \in units |-> -Cost[faction.unit[u].type][r]])
        f == Credited(faction, [s \in Resources |-> IF s = r THEN usage ELSE 0])
    IN  /\ Class[r] = "consumable" /\ units # {}
        /\ IF f.amount[r] >= 0 THEN faction' = f
           ELSE \E starved \in SUBSET {u \in units : Cost[faction.unit[u].type][r] > 0} :
                  faction' = [f EXCEPT
                    !.amount[r] = 0,
                    !.unit = [u \in Ids |-> IF u \in starved THEN [@[u] EXCEPT !.alive = FALSE]
                                                             ELSE @[u]]]

Next ==
    \/ \E u \in Ids : GiveCommand(u) \/ CancelCommand(u) \/ UpdateUnit(u) \/ Die(u)
                      \/ FinishBuilding(u)
    \/ \E r \in Resources : Harvest(r) \/ Consume(r)

Spec == Init /\ [][Next]_faction

-----------------------------------------------------------------------------
CommandType ==
    {c \in [class : Classes, of : UnitTypes \cup Upgrades \cup {NoUnit}, site : Ids \cup {NoUnit}] :
        [class |-> c.class, of |-> c.of] \in OrderTypes}

\* Every value has its type, and so have the places in the upgrade manager's
\* map: finishUpgrade and isUpgraded index its vector without a check.
TypeOK ==
    /\ faction.amount \in [Resources -> Int]
    /\ faction.store \in [Resources -> Nat]
    /\ \A u \in Ids :
         LET x == faction.unit[u]
         IN  /\ x.type \in UnitTypes \cup {NoUnit} /\ x.alive \in BOOLEAN
             /\ x.skill \in Skills /\ x.target \in Ids \cup {NoUnit}
             /\ x.commands \in Seq(CommandType) /\ Len(x.commands) <= MaxCommands
    /\ faction.manager.upgrades \in Seq([type : Upgrades, done : BOOLEAN])
    /\ PlacesExist(faction.manager)

\* What can be stored is never exceeded and never overspent: the orders of all
\* units together are paid from the amount there is, and when a store is lost
\* the surplus is lost (incResourceAmount, removeStore).
WithinStore ==
    \A r \in Resources \ StaticResources : faction.amount[r] \in 0 .. faction.store[r]

\* What an order holds of a static resource, and what a unit does.  A unit that is
\* still being built adds nothing.
HeldByOrder(c, r) == IF HasProduced(c) /\ r \in Costs(c.of) THEN Cost[c.of][r] ELSE 0
HeldByUnit(x, r) ==
    IF x.type # NoUnit /\ (r \in Costs(x.type) \/ x.skill # "beBuilt") THEN Cost[x.type][r] ELSE 0
HeldBy(x, r) ==
    HeldByUnit(x, r) + SumOf([i \in DOMAIN x.commands |-> HeldByOrder(x.commands[i], r)])

\* The places that there are for units of a static resource (the population): what is
\* left, what orders hold, and what units use or add.
StaticBalance(f, r) == f.amount[r] + SumOf([u \in Ids |-> HeldBy(f.unit[u], r)])

BuiltTypes == {o.of : o \in {q \in UNION {Orders[t] : t \in UnitTypes} : q.class = "build"}}

\* A faction never gets more population than its buildings give: whatever is
\* ordered, cancelled, morphed or killed, in whatever order, what is left and
\* what is in use together never grow (applyCosts, deApplyCosts and the static
\* variants).  They may shrink: a produced unit that finds no place is lost
\* with what it cost.  A morph's discount that is not rounded off returns places
\* which the unit returns again when it dies (applyDiscount), so it is excepted.
Undiscounted(r) == \A t \in UnitTypes : Percent(Charge(t)[r], Discount[t]) = 0
PopulationNeverGained ==
    \A r \in StaticResources \cap RecoupCost :
        Undiscounted(r) /\ (\A t \in BuiltTypes : r \notin Costs(t)) =>
            StaticBalance(faction, r) <= StartAmount[r]

\* The units of a type that is not built and the orders for more of them never
\* exceed its maximum, although units give, lose and finish their orders
\* independently (getCountForMaxUnitCount).
MaxUnitCountKept ==
    \A t \in UnitTypes \ BuiltTypes : MaxUnitCount[t] > 0 =>
        Cardinality(OperativeOf(faction, t)) + Cardinality(CommandsFor(faction, t))
            <= MaxUnitCount[t]

\* At most one unit works at an upgrade, and the manager knows it: an upgrade
\* that is in progress is known, and one that is cancelled with its command is
\* not cancelled under another's (isUpgradingOrUpgraded, cancelUpgrade).
OneCommandPerUpgrade ==
    \A v \in Upgrades :
        /\ Cardinality(CommandsFor(faction, v)) <= 1
        /\ CommandsFor(faction, v) # {} => IsKnown(faction.manager, v)

\* upgrade.h 165: "Returns true if an Upgrade of the desired type has state
\* usUpgraded (ie, is finished upgrading)".
IsUpgradedAsDocumented ==
    \A v \in Upgrades :
        IsUpgraded(faction.manager, v) <=>
            [type |-> v, done |-> TRUE] \in Range(faction.manager.upgrades)
=============================================================================
