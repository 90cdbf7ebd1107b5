--------------------------- MODULE UpgradeManager ---------------------------
(***************************************************************************)
(* The upgrade manager of a faction (type_instances/upgrade.cpp): the      *)
(* list of the upgrades that are in progress or finished, and a map from   *)
(* an upgrade's type to its place in that list.  An operator takes the     *)
(* manager's value and gives the one the method leaves; a method that      *)
(* throws leaves the value alone, and Throws tells that it does.           *)
(***************************************************************************)
EXTENDS Integers, Sequences, Functions

NoUpgrades == [upgrades |-> <<>>, lookup |-> [u \in {} |-> 0]]

\* mutant: the index is not one less than the size of the list
StartedOneBeyond(m, u) ==
    [upgrades |-> Append(m.upgrades, [type |-> u, done |-> FALSE]),
     lookup |-> [v \in DOMAIN m.lookup \cup {u} |->
                   IF v = u THEN Len(m.upgrades) + 2 ELSE m.lookup[v]]]

\* startUpgrade: the new upgrade is the last of the list.
Started(m, u) ==
    [upgrades |-> Append(m.upgrades, [type |-> u, done |-> FALSE]),
     lookup |-> [v \in DOMAIN m.lookup \cup {u} |->
                   IF v = u THEN Len(m.upgrades) + 1 ELSE m.lookup[v]]]

\* isUpgradingOrUpgraded
IsKnown(m, u) == u \in DOMAIN m.lookup

CancelThrows(m, u) == ~IsKnown(m, u) \/ m.lookup[u] > Len(m.upgrades)
FinishThrows(m, u) == ~IsKnown(m, u)

\* cancelUpgrade: the upgrade is erased from the list; of the places in the
\* map, those beyond the end of the shorter list are moved by one, and one
\* that leaves the list in front is erased.
Cancelled(m, u) ==
    LET i == m.lookup[u]
        n == Len(m.upgrades) - 1
        moved == [v \in DOMAIN m.lookup \ {u} |->
                    IF m.lookup[v] > n THEN m.lookup[v] - 1 ELSE m.lookup[v]]
    IN  IF CancelThrows(m, u) THEN m
        ELSE [upgrades |-> SubSeq(m.upgrades, 1, i - 1) \o SubSeq(m.upgrades, i + 1, n + 1),
              lookup |-> Restrict(moved, {v \in DOMAIN moved : moved[v] >= 1})]

\* finishUpgrade
Finished(m, u) ==
    IF FinishThrows(m, u) THEN m ELSE [m EXCEPT !.upgrades[m.lookup[u]].done = TRUE]

IsUpgraded(m, u) == IsKnown(m, u) /\ m.upgrades[m.lookup[u]].done

\* Every place the map gives is a place of the list: upgrade.cpp indexes the
\* vector without a check of its own in finishUpgrade, isUpgraded and isUpgrading.
PlacesExist(m) ==
    \A u \in DOMAIN m.lookup : m.lookup[u] \in DOMAIN m.upgrades
=============================================================================
