----------------------------- MODULE MCLockstep -----------------------------
(* Small instances of Lockstep for TLC.                                    *)
EXTENDS LockstepInvariant, TLC

CONSTANTS c1, c2, o1, o2

\* o1 is given by the player of a client, o2 by the player of the host.
ClientAndHostOrder == [o \in {o1, o2} |-> IF o = o1 THEN c1 ELSE Server]
\* Both orders are given by the player of the same client.
TwoClientOrders == [o \in {o1, o2} |-> c1]
OneClientOrder == [o \in {o1} |-> c1]
=============================================================================
