-------------------------- MODULE ClientLinkProofs --------------------------
(***************************************************************************)
(* The safety properties of ClientLink for any number and length of lists. *)
(* One inductive invariant carries all of them: the mutex is held where    *)
(* the code holds it, the cache has an entry for exactly the lists that    *)
(* were read, every entry that the mutex does not protect is whole, and    *)
(* the main thread has taken nothing ahead of its frame.                   *)
(***************************************************************************)
EXTENDS ClientLink, TLAPS

\* A thread that stores a list has read one; a thread at a keyframe has reached one.
PlacesInv ==
    /\ netAt \in {"storing", "pushing"} => read > 0
    /\ mainAt \in {"polling", "taking", "closing"} => frame > 0
    /\ netAt = "pushing" <=> lockedBy = "net"

\* The lists the cache has an entry for.
ListsEntered == 1 .. (IF netAt = "storing" THEN read - 1 ELSE read)

CacheInv ==
    /\ entries = ListsEntered
    /\ \A f \in Keyframes :
          /\ f \notin entries => stored[f] = 0
          /\ f \in entries => stored[f] = ListSize \/ (netAt = "pushing" /\ f = read)

TakenInv ==
    /\ \A f \in Keyframes :
          /\ f > frame => taken[f] = 0
          /\ f < frame => taken[f] \in {0, ListSize}
    /\ mainAt = "polling" => taken[frame] = 0
    /\ mainAt = "taking" => frame \in entries /\ taken[frame] <= stored[frame]
    /\ mainAt \in {"playing", "left", "closing"} /\ frame > 0
          => taken[frame] \in {0, ListSize}

LinkInv == TypeOK /\ PlacesInv /\ CacheInv /\ TakenInv /\ SocketOutlivesReads
-----------------------------------------------------------------------------
\* The invariant holds before the first list.
LEMMA LinkInit == Init => LinkInv
<1> SUFFICES ASSUME Init PROVE LinkInv
  OBVIOUS
<1> USE DEF Init
<1>1. TypeOK
  <2>1. stored \in [Keyframes -> 0 .. ListSize] /\ taken \in [Keyframes -> 0 .. ListSize]
    BY LinkBounds
  <2>2. /\ linkUp \in BOOLEAN /\ partial \in BOOLEAN /\ socketOpen \in BOOLEAN
        /\ quit \in BOOLEAN /\ quitThread \in BOOLEAN
    BY Zenon
  <2>3. sent \in 0 .. MaxLists /\ read \in 0 .. sent /\ frame \in 0 .. MaxLists
    BY LinkBounds
  <2> QED BY <2>1, <2>2, <2>3 DEF TypeOK, NetPlaces, MainPlaces
<1>2. PlacesInv /\ SocketOutlivesReads
  BY DEF PlacesInv, SocketOutlivesReads
<1>3. CacheInv
  BY LinkBounds DEF CacheInv, ListsEntered, Keyframes
<1>4. TakenInv
  BY LinkBounds DEF TakenInv, Keyframes
<1> QED BY <1>1, <1>2, <1>3, <1>4 DEF LinkInv

\* The server, the connection and the network thread's waiting leave the cache alone.
LEMMA WaitingSteps ==
    ASSUME LinkInv,
           \/ ServerSends \/ LinkLost \/ NetBegin \/ NetEnds \/ NetReads
           \/ NetReadFails \/ NetGivesUp \/ NetLeavesWait
    PROVE  LinkInv'
<1> USE LinkBounds DEF LinkInv, TypeOK, PlacesInv, CacheInv, TakenInv, ListsEntered,
        SocketOutlivesReads, Keyframes, NetPlaces, MainPlaces, cacheVars, mainVars,
        flags, linkVars
<1>1. CASE ServerSends
  BY <1>1, SMT DEF ServerSends
<1>2. CASE LinkLost
  <2> USE <1>2 DEF LinkLost
  <2>1. TypeOK'
    <3>1. partial' \in BOOLEAN /\ linkUp' \in BOOLEAN
      BY Zenon
    <3>2. sent' \in 0 .. MaxLists /\ read' \in 0 .. sent'
      OBVIOUS
    <3> QED BY <3>1, <3>2
  <2>2. PlacesInv' /\ SocketOutlivesReads'
    OBVIOUS
  <2>3. CacheInv'
    OBVIOUS
  <2>4. TakenInv'
    OBVIOUS
  <2> QED BY <2>1, <2>2, <2>3, <2>4
<1>3. CASE NetBegin
  BY <1>3, SMT DEF NetBegin, Connected
<1>4. CASE NetEnds
  BY <1>4, SMT DEF NetEnds
<1>5. CASE NetReads
  BY <1>5, SMT DEF NetReads
<1>6. CASE NetReadFails
  <2> USE <1>6 DEF NetReadFails
  <2>1. TypeOK'
    OBVIOUS
  <2>2. PlacesInv' /\ SocketOutlivesReads'
    OBVIOUS
  <2>3. CacheInv'
    OBVIOUS
  <2>4. TakenInv'
    OBVIOUS
  <2> QED BY <2>1, <2>2, <2>3, <2>4
<1>7. CASE NetGivesUp
  BY <1>7, SMT DEF NetGivesUp
<1>8. CASE NetLeavesWait
  BY <1>8, SMT DEF NetLeavesWait
<1> QED BY <1>1, <1>2, <1>3, <1>4, <1>5, <1>6, <1>7, <1>8

\* The network thread stores a list under the mutex, and closes the connection.
LEMMA StoringSteps ==
    ASSUME LinkInv,
           NetLocks \/ NetPushes \/ NetUnlocks \/ NetCloses \/ NetSelfWaitEnds
    PROVE  LinkInv'
<1> USE LinkBounds DEF LinkInv, TypeOK, PlacesInv, CacheInv, TakenInv, ListsEntered,
        SocketOutlivesReads, Keyframes, NetPlaces, MainPlaces, cacheVars, mainVars,
        flags, linkVars
<1>1. CASE NetLocks
  BY <1>1, SMT DEF NetLocks
<1>2. CASE NetPushes
  BY <1>2, SMT DEF NetPushes
<1>3. CASE NetUnlocks
  BY <1>3, SMT DEF NetUnlocks
<1>4. CASE NetCloses
  BY <1>4, SMT DEF NetCloses
<1>5. CASE NetSelfWaitEnds
  <2> USE <1>5 DEF NetSelfWaitEnds
  <2>1. TypeOK'
    OBVIOUS
  <2>2. PlacesInv' /\ SocketOutlivesReads'
    OBVIOUS
  <2>3. CacheInv'
    OBVIOUS
  <2>4. TakenInv'
    OBVIOUS
  <2> QED BY <2>1, <2>2, <2>3, <2>4
<1> QED BY <1>1, <1>2, <1>3, <1>4, <1>5

\* The main thread takes a list under the mutex, and closes the connection only when
\* the network thread is not reading.
LEMMA MainSteps ==
    ASSUME LinkInv, MainNext
    PROVE  LinkInv'
<1> USE LinkBounds DEF LinkInv, TypeOK, PlacesInv, CacheInv, TakenInv, ListsEntered,
        SocketOutlivesReads, Keyframes, NetPlaces, MainPlaces, cacheVars, mainVars,
        flags, linkVars
<1>1. CASE MainReachesKeyframe
  BY <1>1, SMT DEF MainReachesKeyframe
<1>2. CASE MainFindsEntry
  BY <1>2, SMT DEF MainFindsEntry
<1>3. CASE MainTakes
  BY <1>3, SMT DEF MainTakes
<1>4. CASE MainDone
  <2> USE <1>4 DEF MainDone
  <2>1. TypeOK'
    OBVIOUS
  <2>2. PlacesInv' /\ SocketOutlivesReads'
    OBVIOUS
  <2>3. CacheInv'
    OBVIOUS
  <2>4. TakenInv'
    OBVIOUS
  <2> QED BY <2>1, <2>2, <2>3, <2>4
<1>5. CASE MainCloses
  <2> USE <1>5 DEF MainCloses, NetNeedsMutex
  <2>1. TypeOK'
    OBVIOUS
  <2>2. PlacesInv' /\ SocketOutlivesReads'
    OBVIOUS
  <2>3. CacheInv'
    OBVIOUS
  <2>4. TakenInv'
    OBVIOUS
  <2> QED BY <2>1, <2>2, <2>3, <2>4
<1>6. CASE MainLeaves
  BY <1>6, SMT DEF MainLeaves
<1> QED BY <1>1, <1>2, <1>3, <1>4, <1>5, <1>6 DEF MainNext

\* Nothing the invariant speaks of changes in a stuttering step.
LEMMA LinkStutters == ASSUME LinkInv, UNCHANGED vars PROVE LinkInv'
BY SMT DEF LinkInv, TypeOK, PlacesInv, CacheInv, TakenInv, ListsEntered,
   SocketOutlivesReads, Keyframes, NetPlaces, MainPlaces, vars

\* The inductive invariant holds in every state of the two threads.
THEOREM LinkInvariant == Spec => []LinkInv
<1>1. LinkInv /\ [Next]_vars => LinkInv'
  BY WaitingSteps, StoringSteps, MainSteps, LinkStutters DEF Next, NetNext
<1> QED BY <1>1, LinkInit, PTL DEF Spec

\* Every variable of the two threads keeps its type, and the mutex is held by the main
\* thread exactly while it takes a list or closes the connection.
THEOREM LinkTypeCorrect == Spec => []TypeOK
<1>1. LinkInv => TypeOK
  BY DEF LinkInv
<1> QED BY <1>1, LinkInvariant, PTL

\* getNetworkCommand gives the commands of a list together, although the network
\* thread stores them one by one.
THEOREM ListsWhole == Spec => []ListsTakenWhole
<1>1. LinkInv => ListsTakenWhole
  BY LinkBounds, SMT DEF LinkInv, TypeOK, TakenInv, ListsTakenWhole, Keyframes
<1> QED BY <1>1, LinkInvariant, PTL

\* close deletes the socket only when the network thread is not reading from it.
THEOREM SocketKept == Spec => []SocketOutlivesReads
<1>1. LinkInv => SocketOutlivesReads
  BY DEF LinkInv
<1> QED BY <1>1, LinkInvariant, PTL
=============================================================================
