----------------------------- MODULE MCEconomy ------------------------------
(* Small instances of Economy for TLC.                                     *)
EXTENDS Economy

CONSTANTS castle, worker, house, guard, u1, u2, u3, gold, people, grain

Of(class, p) == [class |-> class, of |-> p]
Amounts(g, p, f) ==
    [r \in Resources |-> IF r = gold THEN g ELSE IF r = people THEN p ELSE f]

MCClass == [r \in Resources |-> IF r = gold THEN "tech" ELSE IF r = people THEN "static"
                                 ELSE "consumable"]
\* A worker and a guard each need a place, a house gives one; they eat grain,
\* and the castle yields some.
MCCost == [p \in UnitTypes \cup Upgrades |->
            CASE p = worker -> Amounts(1, 1, 1) [] p = house -> Amounts(1, -1, 0)
              [] p = guard -> Amounts(2, 1, 1) [] p = castle -> Amounts(3, 0, -1)
              [] OTHER -> Amounts(1, 0, 0)]
MCStores == [t \in UnitTypes |-> IF t = castle THEN Amounts(2, 0, 1) ELSE Amounts(0, 0, 0)]
MCNeeds == [p \in UnitTypes \cup Upgrades |-> IF p = guard THEN {castle} ELSE {}]
MCMaxUnitCount == [t \in UnitTypes |-> CASE t = worker -> 2 [] t = guard -> 1 [] OTHER -> 0]
MCDiscount == [t \in UnitTypes |-> 50]
MCOrders == [t \in UnitTypes |->
              CASE t = castle -> {Of("produce", worker)}
                [] t = worker -> {Of("upgrade", u1), Of("build", house), Of("morph", guard),
                                  Of("stop", NoUnit)}
                [] OTHER -> {}]
MCStart == (1 :> castle) @@ (2 :> worker)
MCStartAmount == Amounts(3, 3, 1)

\* Two castles, which store enough for three upgrades.
TwoCastles == (1 :> castle) @@ (2 :> castle)
Research == [t \in UnitTypes |-> {Of("upgrade", v) : v \in Upgrades}]
RichAmount == Amounts(3, 0, 0)
=============================================================================
