---------------------------- MODULE ReplicatedLog ----------------------------
(***************************************************************************)
(* What the lockstep protocol promises, without messages, queues, threads  *)
(* or pauses: a leader writes a log of entries for each slot of a clock,   *)
(* and every replica applies the log in step with its own clock.  The      *)
(* leader may only write the slot its clock stands at, no replica passes a *)
(* slot before it applied all that is ever written there, and what it has  *)
(* applied is at all times a prefix of what the leader wrote.              *)
(***************************************************************************)
EXTENDS Integers, Sequences, SequencesExt

CONSTANTS Leader, Followers, Entries, Slots, LastTick

Replicas == Followers \cup {Leader}

VARIABLES
    clock,    \* the tick each replica stands at
    applied   \* what each replica applied in each slot; the leader's is the log

vars == <<clock, applied>>

Init ==
    /\ clock = [r \in Replicas |-> 0]
    /\ applied = [r \in Replicas |-> [s \in Slots |-> <<>>]]

\* The leader moves to tick t, or stays, and writes more entries in the slot of
\* t, which no follower may have left behind.
Publish(t) ==
    /\ t \in {clock[Leader], clock[Leader] + 1} \cap Slots
    /\ \A r \in Followers : clock[r] <= t
    /\ clock' = [clock EXCEPT ![Leader] = t]
    /\ applied'[Leader][t] \in Seq(Entries)
    /\ IsPrefix(applied[Leader][t], applied'[Leader][t])
    /\ applied' = [applied EXCEPT ![Leader][t] = applied'[Leader][t]]

\* A follower applies more of the slot it stands at.
Apply(r, n) ==
    LET t == clock[r]
        prefix == SubSeq(applied[Leader][t], 1, n)
    IN
    /\ t \in Slots
    /\ n \in Len(applied[r][t]) .. Len(applied[Leader][t])
    /\ applied' = [applied EXCEPT ![r][t] = prefix]
    /\ UNCHANGED clock

\* A replica moves on; a follower only if it applied the whole slot.
Advance(r) ==
    /\ clock[r] < LastTick
    /\ clock[r] \in Slots => applied[r][clock[r]] = applied[Leader][clock[r]]
    /\ clock' = [clock EXCEPT ![r] = @ + 1]
    /\ UNCHANGED applied

Next ==
    \/ \E t \in Slots : Publish(t)
    \/ \E r \in Followers :
          /\ clock[r] \in Slots
          /\ \E n \in 0 .. Len(applied[Leader][clock[r]]) : Apply(r, n)
    \/ \E r \in Replicas : Advance(r)

Spec == Init /\ [][Next]_vars
=============================================================================
