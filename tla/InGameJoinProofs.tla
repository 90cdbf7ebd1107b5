-------------------------- MODULE InGameJoinProofs --------------------------
(***************************************************************************)
(* Proofs about joining a match for any number of players, connections,    *)
(* frames and pauses: the types of the model, FlagsAreOfTheClient and      *)
(* SavedWorldStandsStill.  The flags of a slot follow from the messages    *)
(* that are still on their way: JoinInv ties the messages a slot has not   *)
(* read, its flags and what the client was told to how far the client is.  *)
(* The main thread's variables play no part in that; SaveInv adds them,    *)
(* and says that the match is paused for a join, with no resume asked for, *)
(* as long as a client was told of the saved game or waits with it for its *)
(* answer.                                                                 *)
(***************************************************************************)
EXTENDS InGameJoin, SequenceTheorems, FoldTheorems, TLAPS

\* A client is at the other end.
Holds(s) == slots[s].client # Nobody /\ slots[s].up

JoinTypes ==
    /\ slots \in [Players -> Slot]
    /\ phase \in [Players -> Phases]
    /\ inbox \in [Players -> Nat]
    /\ readyForJoin \subseteq Players

\* Whoever is not away is connected to a slot, and to one only.
Connections ==
    /\ \A p \in Players : phase[p] # "away" => \E s \in Players : slots[s].client = p /\ slots[s].up
    /\ \A s, t \in Players :
          Holds(s) /\ Holds(t) /\ slots[s].client = slots[t].client => s = t

\* A slot without a client holds no resume message and has nothing left to read.
FreeSlots ==
    \A s \in Players : slots[s].client = Nobody => ~slots[s].unpause /\ slots[s].inq = <<>>

\* A client that has not loaded the saved game has sent no ready message; it was told
\* to fetch the game, or will be, only if its slot is joining.
NotLoaded(r, p) ==
    /\ ~r.ready /\ ~r.unpause
    /\ \A j \in DOMAIN r.inq : r.inq[j] # "ready"
    /\ inbox[p] > 0 \/ p \in readyForJoin => r.join

\* The one ready message of a client that waits comes last and finds its slot joining.
Loaded(r) ==
    /\ ~r.unpause
    /\ \A j \in DOMAIN r.inq : r.inq[j] = "ready" => j = Len(r.inq) /\ r.join

Stage(r, p) ==
    /\ phase[p] # "away"
    /\ phase[p] \in {"lobby", "launched"} => NotLoaded(r, p)
    /\ phase[p] = "waiting" => Loaded(r)

Stages == \A s \in Players : Holds(s) => Stage(slots[s], slots[s].client)

\* Nothing is left of what a client that is gone was told.
AwayClients == \A p \in Players : phase[p] = "away" => inbox[p] = 0 /\ p \notin readyForJoin

JoinInv == JoinTypes /\ Connections /\ FreeSlots /\ Stages /\ AwayClients
-----------------------------------------------------------------------------
LEMMA JoinImplies == JoinInv => FlagsAreOfTheClient
<1> SUFFICES ASSUME JoinInv, NEW s \in Players, slots[s].client # Nobody, slots[s].up
             PROVE  /\ slots[s].ready => phase[slots[s].client] \in {"waiting", "playing"}
                    /\ slots[s].unpause => phase[slots[s].client] = "playing"
  BY DEF FlagsAreOfTheClient
<1>1. Stage(slots[s], slots[s].client)
  BY DEF JoinInv, Stages, Holds
<1>2. phase[slots[s].client] \in Phases
  BY DEF JoinInv, JoinTypes, Slot, Nobody
<1> QED BY <1>1, <1>2 DEF Stage, NotLoaded, Loaded, Phases

LEMMA JoinInit == Init => JoinInv
<1> SUFFICES ASSUME Init PROVE JoinInv
  OBVIOUS
<1> DEFINE Former(s) == [Free EXCEPT !.uuid = s]
           Player(s) == [Free EXCEPT !.client = s, !.up = TRUE, !.uuid = s, !.ready = TRUE]
<1>1. /\ slots = [s \in Players |-> IF s \in Absent THEN Former(s) ELSE Player(s)]
      /\ phase = [p \in Players |-> IF p \in Absent THEN "away" ELSE "playing"]
      /\ inbox = [p \in Players |-> 0] /\ readyForJoin = {}
  BY DEF Init
<1>2. ASSUME NEW s \in Players
      PROVE  /\ Former(s) \in Slot /\ Player(s) \in Slot
             /\ Former(s).client = Nobody /\ ~Former(s).unpause /\ Former(s).inq = <<>>
             /\ Player(s).client = s /\ Player(s).up /\ s # Nobody
  <2>1. <<>> \in Seq({"intro", "launch", "ready"}) /\ s # Nobody /\ Nobody = 0
    BY DEF Players, Nobody
  <2>2. Free \in Slot /\ Free.client = Nobody /\ ~Free.unpause /\ Free.inq = <<>>
    BY <2>1 DEF Free, Slot
  <2> QED BY <2>1, <2>2 DEF Slot
<1> HIDE DEF Former, Player
<1>3. JoinTypes
  BY <1>1, <1>2 DEF JoinTypes, Phases
<1>4. Connections
  BY <1>1, <1>2 DEF Connections, Holds
<1>5. FreeSlots
  BY <1>1, <1>2 DEF FreeSlots
<1>6. Stages
  BY <1>1, <1>2 DEF Stages, Stage, Holds
<1>7. AwayClients
  BY <1>1 DEF AwayClients
<1> QED BY <1>3, <1>4, <1>5, <1>6, <1>7 DEF JoinInv

\* A client that is not away finds its slot.
LEMMA SlotFound ==
    ASSUME JoinInv, NEW p \in Players, phase[p] # "away"
    PROVE  /\ SlotOf(p) \in Players /\ slots[SlotOf(p)].client = p /\ slots[SlotOf(p)].up
           /\ p # Nobody
           /\ Stage(slots[SlotOf(p)], p)
           /\ \A s \in Players : Holds(s) /\ slots[s].client = p => s = SlotOf(p)
<1>1. SlotOf(p) \in Players /\ slots[SlotOf(p)].client = p /\ slots[SlotOf(p)].up
  BY DEF JoinInv, Connections, SlotOf
<1>2. p # Nobody
  BY DEF Players, Nobody
<1>3. Holds(SlotOf(p))
  BY <1>1, <1>2 DEF Holds
<1> QED BY <1>1, <1>2, <1>3 DEF JoinInv, Connections, Stages
-----------------------------------------------------------------------------
(* The steps of the main thread.                                           *)

\* A step that leaves alone whose the slots are, what they have not read, and whether
\* they are ready and joining, keeps the invariant if it sets no resume flag and tells
\* only clients whose slot is joining.
LEMMA FlagsKept ==
    ASSUME JoinInv, JoinTypes', phase' = phase, readyForJoin' = readyForJoin,
           \A s \in Players :
              /\ slots'[s].client = slots[s].client /\ slots'[s].up = slots[s].up
              /\ slots'[s].inq = slots[s].inq /\ slots'[s].ready = slots[s].ready
              /\ slots'[s].join = slots[s].join
              /\ slots'[s].unpause => slots[s].unpause,
           \A p \in Players :
              inbox'[p] = inbox[p]
              \/ \E s \in Players : slots[s].client = p /\ slots[s].up /\ slots[s].join
    PROVE  JoinInv'
<1>1. Connections'
  BY DEF JoinInv, Connections, Holds
<1>2. FreeSlots'
  BY DEF JoinInv, FreeSlots
<1>3. Stages'
  <2> SUFFICES ASSUME NEW s \in Players, Holds(s)'
               PROVE  Stage(slots[s], slots[s].client)'
    BY DEF Stages
  <2>1. Holds(s) /\ Stage(slots[s], slots[s].client)
    BY DEF JoinInv, Stages, Holds
  <2> DEFINE p == slots[s].client
  <2>2. p \in Players
    BY <2>1 DEF JoinInv, JoinTypes, Slot, Holds
  <2>3. inbox'[p] = inbox[p] \/ slots[s].join
    BY <2>1, <2>2 DEF JoinInv, Connections, Holds
  <2>4. CASE phase[p] \in {"lobby", "launched"}
    BY <2>1, <2>3, <2>4 DEF Stage, NotLoaded
  <2>5. CASE phase[p] = "waiting"
    BY <2>1, <2>5 DEF Stage, Loaded
  <2>6. CASE phase[p] = "playing"
    BY <2>6 DEF Stage
  <2>7. phase[p] # "away"
    BY <2>1 DEF Stage
  <2> QED BY <2>2, <2>4, <2>5, <2>6, <2>7 DEF JoinInv, JoinTypes, Phases
<1>4. AwayClients'
  <2> SUFFICES ASSUME NEW p \in Players, phase[p] = "away"
               PROVE  inbox'[p] = 0 /\ p \notin readyForJoin
    BY DEF AwayClients
  <2>1. p # Nobody
    BY DEF Players, Nobody
  <2>2. ~\E s \in Players : slots[s].client = p /\ slots[s].up
    BY <2>1 DEF JoinInv, Stages, Stage, Holds
  <2> QED BY <2>2 DEF JoinInv, AwayClients
<1> QED BY <1>1, <1>2, <1>3, <1>4 DEF JoinInv

\* Game::update and what the commands of a keyframe do.
LEMMA MainSteps ==
    ASSUME JoinInv,
           Advance \/ GiveRequests \/ TryPauseToggle \/ ReplaceDisconnected \/ UpdateJoins
    PROVE  JoinInv'
<1>1. CASE slots' = slots /\ phase' = phase /\ inbox' = inbox /\ readyForJoin' = readyForJoin
  BY <1>1 DEF JoinInv, JoinTypes, Connections, FreeSlots, Stages, Stage, NotLoaded, Loaded,
              Holds, AwayClients
<1>2. CASE Advance \/ GiveRequests \/ TryPauseToggle \/ ReplaceDisconnected \/ UpdateAsksPause
  BY <1>1, <1>2 DEF Advance, GiveRequests, TryPauseToggle, ReplaceDisconnected,
                    UpdateAsksPause, clientVars
<1>3. ASSUME NEW s \in Players
      PROVE  /\ slots[s] \in Slot
             /\ [slots[s] EXCEPT !.pause = FALSE] \in Slot
             /\ [[slots[s] EXCEPT !.pause = FALSE] EXCEPT !.unpause = FALSE] \in Slot
  BY DEF JoinInv, JoinTypes, Slot
<1>4. CASE UpdateAsksResume
  <2>1. /\ slots' = [s \in Players |->
                        [[slots[s] EXCEPT !.pause = FALSE] EXCEPT !.unpause = FALSE]]
        /\ phase' = phase /\ inbox' = inbox /\ readyForJoin' = readyForJoin
    BY <1>4 DEF UpdateAsksResume, SettingsSent, clientVars
  <2>2. JoinTypes'
    BY <1>3, <2>1 DEF JoinInv, JoinTypes
  <2>3. \A s \in Players :
           /\ slots'[s].client = slots[s].client /\ slots'[s].up = slots[s].up
           /\ slots'[s].inq = slots[s].inq /\ slots'[s].ready = slots[s].ready
           /\ slots'[s].join = slots[s].join
           /\ slots'[s].unpause => slots[s].unpause
    BY <1>3, <2>1 DEF Slot
  <2> QED BY <2>1, <2>2, <2>3, FlagsKept
<1>5. CASE UpdateOnly
  <2>1. /\ slots' = [s \in Players |-> [slots[s] EXCEPT !.pause = FALSE]]
        /\ phase' = phase /\ inbox' = inbox /\ readyForJoin' = readyForJoin
    BY <1>5 DEF UpdateOnly, SettingsSent, clientVars
  <2>2. JoinTypes'
    BY <1>3, <2>1 DEF JoinInv, JoinTypes
  <2>3. \A s \in Players :
           /\ slots'[s].client = slots[s].client /\ slots'[s].up = slots[s].up
           /\ slots'[s].inq = slots[s].inq /\ slots'[s].ready = slots[s].ready
           /\ slots'[s].join = slots[s].join
           /\ slots'[s].unpause => slots[s].unpause
    BY <1>3, <2>1 DEF Slot
  <2> QED BY <2>1, <2>2, <2>3, FlagsKept
<1>6. CASE UpdateSaves
  <2> DEFINE served == [s \in Players |->
                           [SettingsSent[s] EXCEPT !.sent = @ \/ s \in Unserved]]
             first == Min(ToServe)
  <2>1. /\ slots' = [served EXCEPT ![first].start = FALSE]
        /\ phase' = phase /\ readyForJoin' = readyForJoin
        /\ inbox' = [p \in Players |->
                       IF \E s \in Unserved : slots[s].client = p /\ slots[s].up
                       THEN inbox[p] + 1 ELSE inbox[p]]
    BY <1>6 DEF UpdateSaves
  <2>2. ASSUME NEW s \in Players
        PROVE  /\ slots'[s] \in Slot
               /\ slots'[s].client = slots[s].client /\ slots'[s].up = slots[s].up
               /\ slots'[s].inq = slots[s].inq /\ slots'[s].ready = slots[s].ready
               /\ slots'[s].join = slots[s].join /\ slots'[s].unpause = slots[s].unpause
    <3> DEFINE sent == slots[s].sent \/ s \in Unserved
    <3>1. served[s] = [[slots[s] EXCEPT !.pause = FALSE] EXCEPT !.sent = sent]
      BY <1>3 DEF SettingsSent, Slot
    <3>2. sent \in BOOLEAN
      BY Zenon
    <3> HIDE DEF served, sent
    <3>3. /\ served[s] \in Slot
          /\ served[s].client = slots[s].client /\ served[s].up = slots[s].up
          /\ served[s].inq = slots[s].inq /\ served[s].ready = slots[s].ready
          /\ served[s].join = slots[s].join /\ served[s].unpause = slots[s].unpause
      BY <1>3, <3>1, <3>2 DEF Slot
    <3>4. slots'[s] = IF s = first THEN [served[s] EXCEPT !.start = FALSE] ELSE served[s]
      BY <2>1 DEF served
    <3> HIDE DEF first
    <3>5. [served[s] EXCEPT !.start = FALSE] \in Slot
      BY <3>3 DEF Slot
    <3> QED BY <3>3, <3>4, <3>5 DEF Slot
  <2>3. \A p \in Players : inbox'[p] \in Nat
    BY <2>1 DEF JoinInv, JoinTypes
  <2>4. \A p \in Players :
           inbox'[p] = inbox[p]
           \/ \E s \in Players : slots[s].client = p /\ slots[s].up /\ slots[s].join
    BY <2>1 DEF Unserved
  <2>5. JoinTypes'
    BY <2>1, <2>2, <2>3 DEF JoinInv, JoinTypes
  <2> QED BY <2>1, <2>2, <2>4, <2>5, FlagsKept
<1> QED BY <1>2, <1>4, <1>5, <1>6 DEF UpdateJoins
-----------------------------------------------------------------------------
(* The steps of the clients and of the slots' threads.                     *)

\* A step of one slot and its client, which may close or lose the connection.
LEMMA OneSlot ==
    ASSUME JoinInv, JoinTypes', NEW s \in Players, NEW p, slots[s].client = p,
           \A t \in Players \ {s} : slots'[t] = slots[t],
           \A q \in Players : q # p \/ ~slots[s].up =>
              /\ phase'[q] = phase[q] /\ inbox'[q] = inbox[q]
              /\ q \in readyForJoin' <=> q \in readyForJoin,
           slots'[s].client # p => slots'[s].client = Nobody /\ ~slots[s].up,
           slots'[s].client = Nobody => ~slots'[s].unpause /\ slots'[s].inq = <<>>,
           slots'[s].up => slots[s].up /\ Stage(slots[s], p)',
           slots[s].up /\ ~slots'[s].up =>
              phase'[p] = "away" /\ inbox'[p] = 0 /\ p \notin readyForJoin'
    PROVE  JoinInv'
<1>1. ASSUME NEW t \in Players, Holds(t)'
      PROVE  Holds(t) /\ slots'[t].client = slots[t].client
  BY <1>1 DEF Holds
<1>2. FreeSlots'
  BY DEF JoinInv, FreeSlots
<1>3. Connections'
  <2>1. ASSUME NEW q \in Players, phase'[q] # "away"
        PROVE  \E t \in Players : slots'[t].client = q /\ slots'[t].up
    <3>1. q # Nobody
      BY DEF Players, Nobody
    <3>2. CASE q = p /\ slots[s].up
      BY <2>1, <3>1, <3>2
    <3>3. CASE ~(q = p /\ slots[s].up)
      <4>1. PICK t \in Players : slots[t].client = q /\ slots[t].up
        BY <2>1, <3>3 DEF JoinInv, Connections
      <4>2. t # s
        BY <3>3, <4>1
      <4> QED BY <4>1, <4>2
    <3> QED BY <3>2, <3>3
  <2>2. ASSUME NEW t \in Players, NEW u \in Players, Holds(t)', Holds(u)',
               slots'[t].client = slots'[u].client
        PROVE  t = u
    BY <1>1, <2>2 DEF JoinInv, Connections
  <2> QED BY <2>1, <2>2 DEF Connections
<1>4. Stages'
  <2> SUFFICES ASSUME NEW t \in Players, Holds(t)'
               PROVE  Stage(slots[t], slots[t].client)'
    BY DEF Stages
  <2>1. Holds(t) /\ slots'[t].client = slots[t].client
    BY <1>1
  <2>2. CASE t = s
    BY <2>1, <2>2 DEF Holds
  <2>3. CASE t # s
    <3> DEFINE q == slots[t].client
    <3>1. q \in Players /\ (q # p \/ ~slots[s].up)
      BY <2>1, <2>3 DEF JoinInv, JoinTypes, Connections, Holds, Slot
    <3>2. Stage(slots[t], q) /\ slots'[t] = slots[t]
      BY <2>1, <2>3 DEF JoinInv, Stages
    <3>3. /\ phase'[q] = phase[q] /\ inbox'[q] = inbox[q]
          /\ q \in readyForJoin' <=> q \in readyForJoin
      BY <3>1
    <3> QED BY <2>1, <3>2, <3>3 DEF Stage, NotLoaded, Loaded
  <2> QED BY <2>2, <2>3
<1>5. AwayClients'
  <2> SUFFICES ASSUME NEW q \in Players, phase'[q] = "away"
               PROVE  inbox'[q] = 0 /\ q \notin readyForJoin'
    BY DEF AwayClients
  <2>1. CASE q # p \/ ~slots[s].up
    BY <2>1 DEF JoinInv, AwayClients
  <2>2. CASE q = p /\ slots[s].up
    BY <2>2 DEF Stage
  <2> QED BY <2>1, <2>2
<1> QED BY <1>2, <1>3, <1>4, <1>5 DEF JoinInv

\* The slots may change places: w[s] is the place where what is at s was.
LEMMA Rearranged ==
    ASSUME JoinInv, JoinTypes', FreeSlots', NEW w \in [Players -> Players],
           phase' = phase, inbox' = inbox, readyForJoin' = readyForJoin,
           \A s, t \in Players : w[s] = w[t] => s = t,
           \A s \in Players : Holds(s)' =>
              /\ Holds(w[s]) /\ slots'[s].client = slots[w[s]].client
              /\ Stage(slots'[s], slots'[s].client),
           \A s \in Players : Holds(s) =>
              \E t \in Players : slots'[t].client = slots[s].client /\ slots'[t].up
    PROVE  JoinInv'
<1>1. Connections'
  <2>1. ASSUME NEW p \in Players, phase'[p] # "away"
        PROVE  \E t \in Players : slots'[t].client = p /\ slots'[t].up
    BY <2>1 DEF JoinInv, Connections, Holds, Players, Nobody
  <2>2. ASSUME NEW s \in Players, NEW t \in Players, Holds(s)', Holds(t)',
               slots'[s].client = slots'[t].client
        PROVE  s = t
    <3>1. w[s] = w[t]
      BY <2>2 DEF JoinInv, Connections
    <3> QED BY <3>1
  <2> QED BY <2>1, <2>2 DEF Connections
<1>2. Stages'
  BY DEF Stages, Stage, NotLoaded, Loaded
<1>3. AwayClients'
  BY DEF JoinInv, AwayClients
<1> QED BY <1>1, <1>2, <1>3 DEF JoinInv

\* A slot that has read a message that is not ready, and was at most told to join.
LEMMA StageAfter ==
    ASSUME NEW r \in Slot, NEW q \in Slot, NEW p, Stage(r, p), r.inq # <<>>,
           q.inq = Tail(r.inq), q.ready => r.ready, q.unpause => r.unpause, r.join => q.join
    PROVE  Stage(q, p)
<1>1. /\ r.inq \in Seq({"intro", "launch", "ready"}) /\ Len(r.inq) \in Nat \ {0}
      /\ DOMAIN r.inq = 1 .. Len(r.inq)
  BY DEF Slot
<1>2. /\ Len(q.inq) = Len(r.inq) - 1 /\ DOMAIN q.inq = 1 .. Len(r.inq) - 1
      /\ \A j \in DOMAIN q.inq : q.inq[j] = r.inq[j + 1] /\ j + 1 \in DOMAIN r.inq
  BY <1>1
<1>3. NotLoaded(r, p) => NotLoaded(q, p)
  BY <1>2 DEF NotLoaded
<1>4. Loaded(r) => Loaded(q)
  BY <1>1, <1>2 DEF Loaded
<1> QED BY <1>3, <1>4 DEF Stage

LEMMA StepIntro ==
    ASSUME JoinInv, NEW s \in Players, HandleIntro(s)
    PROVE  JoinInv'
<1> DEFINE p == slots[s].client
           r == [[slots[s] EXCEPT !.inq = Tail(@)] EXCEPT !.uuid = p]
<1>1. /\ slots[s] \in Slot /\ slots[s].inq # <<>> /\ p # Nobody /\ p \in Players
      /\ phase' = phase /\ inbox' = inbox /\ readyForJoin' = readyForJoin
  BY DEF JoinInv, JoinTypes, FreeSlots, HandleIntro, Receives, clientVars, Slot
<1>2. /\ Tail(slots[s].inq) \in Seq({"intro", "launch", "ready"})
      /\ r \in Slot /\ r.client = p /\ r.up = slots[s].up /\ r.inq = Tail(slots[s].inq)
      /\ r.ready = slots[s].ready /\ r.unpause = slots[s].unpause /\ r.join = slots[s].join
  <2>1. Tail(slots[s].inq) \in Seq({"intro", "launch", "ready"})
    BY <1>1 DEF Slot
  <2> QED BY <1>1, <2>1 DEF Slot
<1>3. [Taken(s) EXCEPT ![s].uuid = p] = [slots EXCEPT ![s] = r]
  BY <1>1 DEF Taken, JoinInv, JoinTypes
<1>4. slots[s].up => Stage(slots[s], p)
  BY <1>1 DEF JoinInv, Stages, Holds
<1> HIDE DEF r
<1>5. CASE slots' = [[slots EXCEPT ![s] = r] EXCEPT ![s] = Joining(r)]
  <2>1. /\ Joining(r) \in Slot /\ Joining(r).client = p /\ Joining(r).up = slots[s].up
        /\ Joining(r).inq = Tail(slots[s].inq) /\ ~Joining(r).ready
        /\ Joining(r).unpause = slots[s].unpause /\ Joining(r).join
    BY <1>2 DEF Joining, Slot
  <2>2. slots' = [slots EXCEPT ![s] = Joining(r)]
    BY <1>5 DEF JoinInv, JoinTypes
  <2>3. JoinTypes'
    BY <1>1, <2>1, <2>2 DEF JoinInv, JoinTypes
  <2>4. slots'[s] = Joining(r) /\ \A t \in Players \ {s} : slots'[t] = slots[t]
    BY <2>2 DEF JoinInv, JoinTypes
  <2>5. slots'[s].up => Stage(slots[s], p)'
    <3>1. slots[s].up => Stage(Joining(r), p)
      BY <1>1, <1>4, <2>1, StageAfter
    <3> QED BY <1>1, <2>1, <2>4, <3>1 DEF Stage, NotLoaded, Loaded
  <2> QED BY <1>1, <2>1, <2>3, <2>4, <2>5, OneSlot
<1>6. ASSUME NEW t \in FormerSlots(p) \ {s},
             slots' = IF Joining(slots[t]).client = Nobody
                      THEN [[slots EXCEPT ![s] = r] EXCEPT ![t] = [slots EXCEPT ![s] = r][s],
                                                          ![s] = Joining(slots[t])]
                      ELSE [[slots EXCEPT ![s] = r] EXCEPT ![t] = Joining(slots[t])]
      PROVE  JoinInv'
  <2> DEFINE f == Joining(slots[t])
  <2>1. t \in Players /\ t # s /\ slots[t] \in Slot /\ ~Holds(t)
    BY DEF FormerSlots, Connected, Holds, JoinInv, JoinTypes
  <2>2. /\ f \in Slot /\ f.client = slots[t].client /\ f.up = slots[t].up
        /\ f.inq = slots[t].inq /\ f.unpause = slots[t].unpause
    BY <2>1 DEF Joining, Slot
  <2>3. slots[s].up => Stage(r, p)
    BY <1>1, <1>2, <1>4, StageAfter
  <2>4. f.client = Nobody => ~f.unpause /\ f.inq = <<>>
    BY <2>1, <2>2 DEF JoinInv, FreeSlots
  <2> HIDE DEF f
  <2>5. CASE f.client = Nobody
    <3>1. /\ slots' \in [Players -> Slot] /\ slots'[t] = r /\ slots'[s] = f
          /\ \A u \in Players \ {s, t} : slots'[u] = slots[u]
      BY <1>1, <1>2, <1>6, <2>1, <2>2, <2>5 DEF f, JoinInv, JoinTypes
    <3>2. JoinTypes' /\ FreeSlots'
      BY <1>1, <1>2, <2>1, <2>4, <3>1 DEF JoinInv, JoinTypes, FreeSlots
    <3> DEFINE w == [u \in Players |-> IF u = s THEN t ELSE IF u = t THEN s ELSE u]
    <3>3. w \in [Players -> Players] /\ \A u, v \in Players : w[u] = w[v] => u = v
      BY <2>1
    <3>4. ASSUME NEW u \in Players, Holds(u)'
          PROVE  /\ Holds(w[u]) /\ slots'[u].client = slots[w[u]].client
                 /\ Stage(slots'[u], slots'[u].client)
      BY <1>1, <1>2, <2>1, <2>3, <2>5, <3>1, <3>4 DEF Holds, JoinInv, Stages
    <3>5. ASSUME NEW u \in Players, Holds(u)
          PROVE  \E v \in Players : slots'[v].client = slots[u].client /\ slots'[v].up
      BY <1>2, <2>1, <3>1, <3>5 DEF Holds
    <3> HIDE DEF w
    <3> QED BY <1>1, <3>2, <3>3, <3>4, <3>5, Rearranged
  <2>6. CASE f.client # Nobody
    <3>1. /\ slots' \in [Players -> Slot] /\ slots'[s] = r /\ slots'[t] = f
          /\ \A u \in Players \ {s, t} : slots'[u] = slots[u]
      BY <1>1, <1>2, <1>6, <2>1, <2>2, <2>6 DEF f, JoinInv, JoinTypes
    <3>2. JoinTypes' /\ FreeSlots'
      BY <1>1, <1>2, <2>1, <2>6, <3>1 DEF JoinInv, JoinTypes, FreeSlots
    <3> DEFINE w == [u \in Players |-> u]
    <3>3. w \in [Players -> Players] /\ \A u, v \in Players : w[u] = w[v] => u = v
      OBVIOUS
    <3>4. ASSUME NEW u \in Players, Holds(u)'
          PROVE  /\ Holds(w[u]) /\ slots'[u].client = slots[w[u]].client
                 /\ Stage(slots'[u], slots'[u].client)
      BY <1>1, <1>2, <2>1, <2>2, <2>3, <3>1, <3>4 DEF Holds, JoinInv, Stages
    <3>5. ASSUME NEW u \in Players, Holds(u)
          PROVE  \E v \in Players : slots'[v].client = slots[u].client /\ slots'[v].up
      BY <1>2, <2>1, <3>1, <3>5 DEF Holds
    <3> HIDE DEF w
    <3> QED BY <1>1, <3>2, <3>3, <3>4, <3>5, Rearranged
  <2> QED BY <2>5, <2>6
<1> QED BY <1>3, <1>5, <1>6, <1>1 DEF HandleIntro, JoinInv, JoinTypes

LEMMA StepLaunchMessage ==
    ASSUME JoinInv, NEW s \in Players, HandleLaunch(s)
    PROVE  JoinInv'
<1> PICK p, r :
       /\ p = slots[s].client
       /\ r = IF slots[s].join THEN [[slots[s] EXCEPT !.inq = Tail(@)] EXCEPT !.start = TRUE]
              ELSE [slots[s] EXCEPT !.inq = Tail(@)]
  OBVIOUS
<1>1. /\ slots[s] \in Slot /\ slots[s].inq # <<>> /\ p # Nobody /\ p \in Players
      /\ phase' = phase /\ inbox' = inbox /\ readyForJoin' = readyForJoin
      /\ slots' = [slots EXCEPT ![s] = r]
  BY DEF JoinInv, JoinTypes, FreeSlots, HandleLaunch, Receives, Taken, clientVars, Slot
<1>2. /\ r \in Slot /\ r.client = p /\ r.up = slots[s].up /\ r.inq = Tail(slots[s].inq)
      /\ r.ready = slots[s].ready /\ r.unpause = slots[s].unpause /\ r.join = slots[s].join
  <2>1. Tail(slots[s].inq) \in Seq({"intro", "launch", "ready"})
    BY <1>1 DEF Slot
  <2> QED BY <1>1, <2>1 DEF Slot
<1>3. slots[s].up => Stage(r, p)
  BY <1>1, <1>2, StageAfter DEF JoinInv, Stages, Holds
<1>4. JoinTypes' /\ slots'[s] = r /\ \A t \in Players \ {s} : slots'[t] = slots[t]
  BY <1>1, <1>2 DEF JoinInv, JoinTypes
<1>5. slots'[s].up => Stage(slots[s], p)'
  BY <1>1, <1>2, <1>3, <1>4 DEF Stage, NotLoaded, Loaded
<1>6. slots'[s].client = p /\ slots'[s].up = slots[s].up
  BY <1>2, <1>4
<1> QED BY <1>1, <1>4, <1>5, <1>6, OneSlot

LEMMA LastTaken ==
    ASSUME NEW S, NEW q \in Seq(S), Len(q) = 1
    PROVE  \A j : j \notin DOMAIN Tail(q)
<1>1. Tail(q) \in Seq(S) /\ Len(Tail(q)) = 0
  OBVIOUS
<1>2. DOMAIN Tail(q) = 1 .. 0
  BY <1>1, LenProperties, Zenon
<1> QED BY <1>2

LEMMA StepReadyMessage ==
    ASSUME JoinInv, NEW s \in Players, HandleReady(s)
    PROVE  JoinInv'
<1> DEFINE taken == [slots[s] EXCEPT !.inq = Tail(@)]
<1> PICK p, r :
       /\ p = slots[s].client
       /\ r = IF slots[s].join
              THEN [taken EXCEPT !.ready = TRUE, !.join = FALSE, !.sent = FALSE]
              ELSE [taken EXCEPT !.unpause = TRUE]
  OBVIOUS
<1>1. /\ slots[s] \in Slot /\ slots[s].inq # <<>> /\ Head(slots[s].inq) = "ready"
      /\ p # Nobody /\ p \in Players
      /\ phase' = phase /\ readyForJoin' = readyForJoin
      /\ slots' = [slots EXCEPT ![s] = r]
      /\ inbox' = IF slots[s].join /\ slots[s].up THEN [inbox EXCEPT ![p] = @ + 1] ELSE inbox
  BY DEF JoinInv, JoinTypes, FreeSlots, HandleReady, Receives, Taken, Answered, Slot
<1>2. /\ r \in Slot /\ r.client = p /\ r.up = slots[s].up /\ r.inq = Tail(slots[s].inq)
      /\ slots[s].join /\ ~slots[s].unpause => ~r.unpause
  <2>1. Tail(slots[s].inq) \in Seq({"intro", "launch", "ready"})
    BY <1>1 DEF Slot
  <2>2. taken \in Slot /\ taken.client = p /\ taken.up = slots[s].up
        /\ taken.inq = Tail(slots[s].inq) /\ taken.unpause = slots[s].unpause
    BY <1>1, <2>1 DEF Slot
  <2> QED BY <2>2 DEF Slot
<1>3. JoinTypes' /\ slots'[s] = r /\ \A t \in Players \ {s} : slots'[t] = slots[t]
  BY <1>1, <1>2 DEF JoinInv, JoinTypes
<1>4. \A q \in Players : q # p \/ ~slots[s].up => inbox'[q] = inbox[q]
  BY <1>1 DEF JoinInv, JoinTypes
<1>5. slots'[s].up => Stage(slots[s], p)'
  <2> SUFFICES ASSUME slots[s].up PROVE Stage(r, p)'
    BY <1>2, <1>3
  <2>1. Stage(slots[s], p)
    BY <1>1 DEF JoinInv, Stages, Holds
  <2>2. 1 \in DOMAIN slots[s].inq /\ slots[s].inq[1] = "ready"
    BY <1>1 DEF Slot
  <2>3. phase[p] \notin {"lobby", "launched"}
    BY <2>1, <2>2 DEF Stage, NotLoaded
  <2>4. CASE phase[p] = "waiting"
    <3>1. slots[s].join /\ Len(slots[s].inq) = 1 /\ ~slots[s].unpause
      BY <2>1, <2>2, <2>4 DEF Stage, Loaded
    <3>2. (\A j : j \notin DOMAIN r.inq) /\ ~r.unpause
      <4>1. slots[s].inq \in Seq({"intro", "launch", "ready"})
        BY <1>1 DEF Slot
      <4>2. \A j : j \notin DOMAIN Tail(slots[s].inq)
        BY <3>1, <4>1, LastTaken, Zenon
      <4> QED BY <1>2, <3>1, <4>2, Zenon
    <3> QED BY <1>1, <2>4, <3>2 DEF Stage, Loaded
  <2>5. CASE phase[p] # "waiting"
    BY <1>1, <2>1, <2>3, <2>5 DEF Stage
  <2> QED BY <2>4, <2>5
<1> QED BY <1>1, <1>2, <1>3, <1>4, <1>5, OneSlot

LEMMA StepClose ==
    ASSUME JoinInv, NEW s \in Players, Close(s)
    PROVE  JoinInv'
<1> DEFINE r == [slots[s] EXCEPT !.client = Nobody, !.ready = FALSE, !.join = FALSE,
                                 !.sent = FALSE, !.pause = FALSE, !.unpause = FALSE]
<1>1. /\ slots[s] \in Slot /\ ~slots[s].up /\ slots[s].inq = <<>>
      /\ slots' = [slots EXCEPT ![s] = r]
      /\ phase' = phase /\ inbox' = inbox /\ readyForJoin' = readyForJoin
  BY DEF JoinInv, JoinTypes, Close, Connected, clientVars
<1>2. /\ r \in Slot /\ r.client = Nobody /\ r.up = slots[s].up /\ r.inq = slots[s].inq
      /\ ~r.unpause
  BY <1>1 DEF Slot
<1> HIDE DEF r
<1>3. JoinTypes' /\ slots'[s] = r /\ \A t \in Players \ {s} : slots'[t] = slots[t]
  BY <1>1, <1>2 DEF JoinInv, JoinTypes
<1> QED BY <1>1, <1>2, <1>3, OneSlot

\* What a client sends arrives last at its slot.
LEMMA Sending ==
    ASSUME JoinInv, NEW p \in Players, phase[p] # "away", NEW m \in {"launch", "ready"}
    PROVE  LET s == SlotOf(p)
               r == [slots[s] EXCEPT !.inq = Append(@, m)]
           IN  /\ Sent(p, <<m>>) = [slots EXCEPT ![s] = r]
               /\ r \in Slot /\ r.client = p /\ r.up
<1> DEFINE s == SlotOf(p)
           r == [slots[s] EXCEPT !.inq = Append(@, m)]
<1>1. s \in Players /\ slots[s] \in Slot /\ slots[s].client = p /\ slots[s].up
  BY SlotFound DEF JoinInv, JoinTypes
<1>2. slots[s].inq \o <<m>> = Append(slots[s].inq, m)
      /\ Append(slots[s].inq, m) \in Seq({"intro", "launch", "ready"})
  BY <1>1 DEF Slot
<1>3. Sent(p, <<m>>) = [slots EXCEPT ![s] = r]
  BY <1>1, <1>2 DEF Sent, JoinInv, JoinTypes
<1>4. r \in Slot /\ r.client = p /\ r.up
  BY <1>1, <1>2 DEF Slot
<1> QED BY <1>3, <1>4

\* A step in which the slot of a client changes to r and the client stays connected.
LEMMA StaysConnected ==
    ASSUME JoinInv, NEW p \in Players, phase[p] # "away",
           NEW s \in Players, slots[s].client = p, slots[s].up, p # Nobody,
           NEW r \in Slot, r.client = p, r.up, slots' = [slots EXCEPT ![s] = r],
           phase' \in [Players -> Phases], inbox' \in [Players -> Nat],
           readyForJoin' \subseteq Players,
           \A q \in Players \ {p} :
              /\ phase'[q] = phase[q] /\ inbox'[q] = inbox[q]
              /\ q \in readyForJoin' <=> q \in readyForJoin,
           Stage(r, p)'
    PROVE  JoinInv'
<1>1. JoinTypes' /\ slots'[s] = r /\ \A t \in Players \ {s} : slots'[t] = slots[t]
  BY DEF JoinInv, JoinTypes
<1>2. Stage(slots[s], p)'
  BY <1>1 DEF Stage, NotLoaded, Loaded
<1>3. slots'[s].client = p /\ slots'[s].up
  BY <1>1
<1> QED BY <1>1, <1>2, <1>3, OneSlot

\* One more message that is not ready, or the first ready message in a joining slot.
LEMMA Appended ==
    ASSUME NEW r \in Slot, NEW m \in {"launch", "ready"}
    PROVE  LET q == [r EXCEPT !.inq = Append(@, m)]
           IN  /\ DOMAIN q.inq = 1 .. Len(r.inq) + 1 /\ Len(q.inq) = Len(r.inq) + 1
               /\ DOMAIN r.inq = 1 .. Len(r.inq)
               /\ \A j \in DOMAIN r.inq : q.inq[j] = r.inq[j]
               /\ q.inq[Len(r.inq) + 1] = m
               /\ q.ready = r.ready /\ q.unpause = r.unpause /\ q.join = r.join
               /\ Len(r.inq) \in Nat
<1>1. r.inq \in Seq({"intro", "launch", "ready"})
  BY DEF Slot
<1>2. [r EXCEPT !.inq = Append(@, m)].inq = Append(r.inq, m)
  BY DEF Slot
<1>3. \A f \in {"ready", "unpause", "join"} : [r EXCEPT !.inq = Append(@, m)][f] = r[f]
  BY DEF Slot
<1> QED BY <1>1, <1>2, <1>3

LEMMA StepLaunch ==
    ASSUME JoinInv, NEW p \in Players, Launch(p)
    PROVE  JoinInv'
<1> PICK s, r : s = SlotOf(p) /\ r = [slots[s] EXCEPT !.inq = Append(@, "launch")]
  OBVIOUS
<1>0. phase[p] # "away" /\ slots' = Sent(p, <<"launch">>)
  BY DEF Launch, LoadSavedGame, EnterMatch
<1>9. /\ slots' = [slots EXCEPT ![s] = r] /\ r \in Slot /\ r.client = p /\ r.up
      /\ s \in Players /\ slots[s].client = p /\ slots[s].up /\ p # Nobody
  BY <1>0, Sending, SlotFound
<1>1. /\ phase[p] = "lobby" /\ slots[s] \in Slot /\ Stage(slots[s], p)
      /\ phase' = [phase EXCEPT ![p] = "launched"]
      /\ inbox' = inbox /\ readyForJoin' = readyForJoin
  BY SlotFound DEF Launch, JoinInv, JoinTypes
<1>2. NotLoaded(slots[s], p)
  BY <1>1 DEF Stage
<1>3. Stage(r, p)'
  BY <1>1, <1>2, Appended DEF Stage, NotLoaded, JoinInv, JoinTypes
<1>4. /\ phase' \in [Players -> Phases] /\ inbox' \in [Players -> Nat]
      /\ readyForJoin' \subseteq Players
      /\ \A q \in Players \ {p} :
            /\ phase'[q] = phase[q] /\ inbox'[q] = inbox[q]
            /\ q \in readyForJoin' <=> q \in readyForJoin
  BY <1>1 DEF JoinInv, JoinTypes, Phases
<1> QED BY <1>0, <1>9, <1>3, <1>4, StaysConnected

LEMMA StepLoad ==
    ASSUME JoinInv, NEW p \in Players, LoadSavedGame(p)
    PROVE  JoinInv'
<1> PICK s, r : s = SlotOf(p) /\ r = [slots[s] EXCEPT !.inq = Append(@, "ready")]
  OBVIOUS
<1>0. phase[p] # "away" /\ slots' = Sent(p, <<"ready">>)
  BY DEF Launch, LoadSavedGame, EnterMatch
<1>9. /\ slots' = [slots EXCEPT ![s] = r] /\ r \in Slot /\ r.client = p /\ r.up
      /\ s \in Players /\ slots[s].client = p /\ slots[s].up /\ p # Nobody
  BY <1>0, Sending, SlotFound
<1>1. /\ phase[p] = "launched" /\ slots[s] \in Slot /\ Stage(slots[s], p)
      /\ phase' = [phase EXCEPT ![p] = "waiting"]
      /\ inbox' = inbox /\ p \in readyForJoin /\ readyForJoin' = readyForJoin \ {p}
  BY SlotFound DEF LoadSavedGame, JoinInv, JoinTypes
<1>2. NotLoaded(slots[s], p) /\ slots[s].join
  BY <1>1 DEF Stage, NotLoaded
<1>3. Stage(r, p)'
  BY <1>1, <1>2, Appended DEF Stage, NotLoaded, Loaded, JoinInv, JoinTypes
<1>4. /\ phase' \in [Players -> Phases] /\ inbox' \in [Players -> Nat]
      /\ readyForJoin' \subseteq Players
      /\ \A q \in Players \ {p} :
            /\ phase'[q] = phase[q] /\ inbox'[q] = inbox[q]
            /\ q \in readyForJoin' <=> q \in readyForJoin
  BY <1>1 DEF JoinInv, JoinTypes, Phases
<1> QED BY <1>0, <1>9, <1>3, <1>4, StaysConnected

LEMMA StepEnter ==
    ASSUME JoinInv, NEW p \in Players, EnterMatch(p)
    PROVE  JoinInv'
<1> PICK s, r : s = SlotOf(p) /\ r = [slots[s] EXCEPT !.inq = Append(@, "ready")]
  OBVIOUS
<1>0. phase[p] # "away" /\ slots' = Sent(p, <<"ready">>)
  BY DEF Launch, LoadSavedGame, EnterMatch
<1>9. /\ slots' = [slots EXCEPT ![s] = r] /\ r \in Slot /\ r.client = p /\ r.up
      /\ s \in Players /\ slots[s].client = p /\ slots[s].up /\ p # Nobody
  BY <1>0, Sending, SlotFound
<1>1. /\ phase[p] = "waiting" /\ inbox[p] \in Nat \ {0}
      /\ phase' = [phase EXCEPT ![p] = "playing"]
      /\ inbox' = [inbox EXCEPT ![p] = @ - 1] /\ readyForJoin' = readyForJoin
  BY DEF EnterMatch, JoinInv, JoinTypes
<1>2. Stage(r, p)'
  BY <1>1 DEF Stage, JoinInv, JoinTypes
<1>3. /\ phase' \in [Players -> Phases] /\ inbox' \in [Players -> Nat]
      /\ readyForJoin' \subseteq Players
      /\ \A q \in Players \ {p} :
            /\ phase'[q] = phase[q] /\ inbox'[q] = inbox[q]
            /\ q \in readyForJoin' <=> q \in readyForJoin
  BY <1>1 DEF JoinInv, JoinTypes, Phases
<1> QED BY <1>0, <1>9, <1>2, <1>3, StaysConnected

LEMMA StepLobbyReady ==
    ASSUME JoinInv, NEW p \in Players, LobbyReady(p)
    PROVE  JoinInv'
<1> PICK s, r : s = SlotOf(p) /\ r = slots[s]
  OBVIOUS
<1>1. /\ phase[p] \in {"lobby", "launched"} /\ phase' = phase /\ slots' = slots
      /\ inbox[p] \in Nat \ {0} /\ inbox' = [inbox EXCEPT ![p] = @ - 1]
      /\ readyForJoin' = readyForJoin \cup {p}
  BY DEF LobbyReady, JoinInv, JoinTypes
<1>2. /\ phase[p] # "away" /\ r \in Slot /\ s \in Players /\ r.client = p /\ r.up
      /\ p # Nobody /\ Stage(r, p)
  BY <1>1, SlotFound DEF JoinInv, JoinTypes
<1>3. slots' = [slots EXCEPT ![s] = r]
  BY <1>1 DEF JoinInv, JoinTypes
<1>4. Stage(r, p)'
  BY <1>1, <1>2 DEF Stage, NotLoaded, Loaded
<1>5. /\ phase' \in [Players -> Phases] /\ inbox' \in [Players -> Nat]
      /\ readyForJoin' \subseteq Players
      /\ \A q \in Players \ {p} :
            /\ phase'[q] = phase[q] /\ inbox'[q] = inbox[q]
            /\ q \in readyForJoin' <=> q \in readyForJoin
  BY <1>1 DEF JoinInv, JoinTypes
<1> QED BY <1>2, <1>3, <1>4, <1>5, StaysConnected

LEMMA StepLeave ==
    ASSUME JoinInv, NEW p \in Players, Leave(p)
    PROVE  JoinInv'
<1> PICK s, r : s = SlotOf(p) /\ r = [slots[s] EXCEPT !.up = FALSE]
  OBVIOUS
<1>1. /\ phase[p] # "away" /\ phase' = [phase EXCEPT ![p] = "away"]
      /\ slots' = [slots EXCEPT ![s] = r]
      /\ inbox' = [inbox EXCEPT ![p] = 0] /\ readyForJoin' = readyForJoin \ {p}
  BY DEF Leave
<1>2. /\ s \in Players /\ slots[s] \in Slot /\ slots[s].client = p /\ slots[s].up
      /\ p # Nobody
  BY <1>1, SlotFound DEF JoinInv, JoinTypes
<1>3. r \in Slot /\ r.client = p /\ ~r.up
  BY <1>2 DEF Slot
<1>4. JoinTypes' /\ slots'[s] = r /\ \A t \in Players \ {s} : slots'[t] = slots[t]
  BY <1>1, <1>2, <1>3 DEF JoinInv, JoinTypes, Phases
<1>5. /\ phase'[p] = "away" /\ inbox'[p] = 0 /\ p \notin readyForJoin'
      /\ \A q \in Players : q # p \/ ~slots[s].up =>
            /\ phase'[q] = phase[q] /\ inbox'[q] = inbox[q]
            /\ q \in readyForJoin' <=> q \in readyForJoin
  BY <1>1, <1>2 DEF JoinInv, JoinTypes
<1>6. slots'[s].client = p /\ ~slots'[s].up
  BY <1>3, <1>4
<1> QED BY <1>2, <1>4, <1>5, <1>6, OneSlot

LEMMA StepConnect ==
    ASSUME JoinInv, NEW p \in Players, NEW s \in Players, Connect(p, s)
    PROVE  JoinInv'
<1> PICK r : r = [slots[s] EXCEPT !.client = p, !.up = TRUE, !.inq = <<"intro">>,
                                  !.uuid = Nobody, !.ready = FALSE]
  OBVIOUS
<1>1. /\ phase[p] = "away" /\ slots[s].client = Nobody /\ slots[s] \in Slot
      /\ slots' = [slots EXCEPT ![s] = r] /\ phase' = [phase EXCEPT ![p] = "lobby"]
      /\ inbox' = inbox /\ readyForJoin' = readyForJoin
  BY DEF Connect, JoinInv, JoinTypes
<1>2. ~slots[s].unpause /\ p # Nobody /\ inbox[p] = 0 /\ p \notin readyForJoin
  BY <1>1 DEF JoinInv, FreeSlots, AwayClients, Players, Nobody
<1>3. /\ r \in Slot /\ r.client = p /\ r.up /\ r.inq = <<"intro">> /\ ~r.ready
      /\ ~r.unpause
  <2>1. <<"intro">> \in Seq({"intro", "launch", "ready"}) /\ Nobody \in Players \cup {Nobody}
    OBVIOUS
  <2> QED BY <1>1, <1>2, <2>1 DEF Slot
<1>4. JoinTypes' /\ slots'[s] = r /\ \A t \in Players \ {s} : slots'[t] = slots[t]
  BY <1>1, <1>3 DEF JoinInv, JoinTypes, Phases
<1>5. phase'[p] = "lobby" /\ \A q \in Players \ {p} : phase'[q] = phase[q]
  BY <1>1 DEF JoinInv, JoinTypes
<1>6. ASSUME NEW t \in Players, Holds(t)
      PROVE  t # s /\ slots[t].client \in Players \ {p} /\ slots'[t] = slots[t] /\ Holds(t)'
  <2>1. t # s /\ slots[t].client # p /\ slots[t].client \in Players
    BY <1>1, <1>6 DEF Holds, JoinInv, JoinTypes, Stages, Stage, Slot
  <2> QED BY <1>4, <1>6, <2>1 DEF Holds
<1>7. ASSUME NEW t \in Players, Holds(t)'
      PROVE  t = s \/ Holds(t)
  BY <1>4, <1>7 DEF Holds
<1>8. Connections'
  <2>1. ASSUME NEW q \in Players, phase'[q] # "away"
        PROVE  \E t \in Players : slots'[t].client = q /\ slots'[t].up
    <3>1. CASE q = p
      BY <1>3, <1>4, <3>1
    <3>2. CASE q # p
      <4>1. PICK t \in Players : slots[t].client = q /\ slots[t].up
        BY <1>5, <2>1, <3>2 DEF JoinInv, Connections
      <4>2. Holds(t)
        BY <4>1 DEF Holds, Players, Nobody
      <4> QED BY <1>6, <4>1, <4>2
    <3> QED BY <3>1, <3>2
  <2>2. ASSUME NEW t \in Players, NEW u \in Players, Holds(t)', Holds(u)',
               slots'[t].client = slots'[u].client
        PROVE  t = u
    <3>1. CASE t # s /\ u # s
      BY <1>6, <1>7, <2>2, <3>1 DEF JoinInv, Connections
    <3>2. CASE t = s \/ u = s
      BY <1>3, <1>4, <1>6, <1>7, <2>2, <3>2
    <3> QED BY <3>1, <3>2
  <2> QED BY <2>1, <2>2 DEF Connections
<1>9. FreeSlots'
  BY <1>2, <1>3, <1>4 DEF JoinInv, FreeSlots
<1>10. Stages'
  <2> SUFFICES ASSUME NEW t \in Players, Holds(t)'
               PROVE  Stage(slots[t], slots[t].client)'
    BY DEF Stages
  <2>1. CASE t = s
    <3>1. \A j \in DOMAIN <<"intro">> : <<"intro">>[j] # "ready"
      OBVIOUS
    <3>2. NotLoaded(r, p)'
      BY <1>1, <1>2, <1>3, <3>1 DEF NotLoaded
    <3>3. Stage(r, p)'
      BY <1>5, <3>2 DEF Stage
    <3> QED BY <1>3, <1>4, <2>1, <3>3
  <2>2. CASE t # s
    <3>1. PICK q, c : q = slots[t] /\ c = q.client
      OBVIOUS
    <3>2. Stage(q, c) /\ slots'[t] = q /\ phase'[c] = phase[c]
      BY <1>5, <1>6, <1>7, <2>2, <3>1 DEF JoinInv, Stages
    <3>3. Stage(q, c)'
      BY <1>1, <3>2 DEF Stage, NotLoaded, Loaded
    <3> QED BY <3>1, <3>2, <3>3
  <2> QED BY <2>1, <2>2
<1>11. AwayClients'
  BY <1>1, <1>5 DEF JoinInv, AwayClients
<1> QED BY <1>4, <1>8, <1>9, <1>10, <1>11 DEF JoinInv
-----------------------------------------------------------------------------
LEMMA JoinStep == JoinInv /\ [Next]_vars => JoinInv'
<1> SUFFICES ASSUME JoinInv, [Next]_vars
             PROVE  JoinInv'
  OBVIOUS
<1>1. ASSUME NEW p \in Players, NEW s \in Players, Connect(p, s)
      PROVE  JoinInv'
  BY <1>1, StepConnect
<1>2. ASSUME NEW p \in Players, Launch(p) \/ ClientGoesOn(p) \/ Leave(p)
      PROVE  JoinInv'
  BY <1>2, StepLaunch, StepLobbyReady, StepLoad, StepEnter, StepLeave DEF ClientGoesOn
<1>3. ASSUME NEW s \in Players, SlotNext(s)
      PROVE  JoinInv'
  BY <1>3, StepIntro, StepLaunchMessage, StepReadyMessage, StepClose DEF SlotNext
<1>4. CASE Advance \/ GiveRequests \/ TryPauseToggle \/ ReplaceDisconnected \/ UpdateJoins
  BY <1>4, MainSteps
<1>5. CASE UNCHANGED vars
  BY <1>5 DEF vars, JoinInv, JoinTypes, Connections, FreeSlots, Stages, Stage, NotLoaded,
              Loaded, AwayClients, Holds
<1> QED BY <1>1, <1>2, <1>3, <1>4, <1>5 DEF Next

\* For any number of players, connections, frames and pauses: a slot counts as ready
\* only for a client that has loaded the saved game, and holds a resume message only
\* of one that plays (what setJoinGameInProgressFlags, close, and the two slots that
\* change places in ConnectionSlot::update have to keep).
THEOREM FlagsOfTheClient == Spec => []FlagsAreOfTheClient
<1>1. Spec => []JoinInv
  BY JoinInit, JoinStep, PTL DEF Spec
<1> QED BY <1>1, JoinImplies, PTL
-----------------------------------------------------------------------------
(* The types of the main thread's variables, and the world that stands still. *)

GameType == [paused : BOOLEAN, forJoin : BOOLEAN, before : BOOLEAN,
             pauseSent : BOOLEAN, resumeSent : BOOLEAN]
Request == [pause : BOOLEAN, join : BOOLEAN]

MainTypes ==
    /\ game \in GameType
    /\ frame \in 0 .. MaxFrame
    /\ requests \in Seq(Request)
    /\ ai \subseteq Players /\ handled \subseteq Players
    /\ saved \in Save /\ loaded \in [Players -> Save]
    /\ connects \in 0 .. MaxConnects /\ toggles \in 0 .. MaxToggles

\* The world of a save is the server's, and nothing that is on its way moves it.
Still(save) == game.forJoin /\ ~ResumeRequested /\ save.at = frame

\* A client that has been told to fetch the saved game.
Told(p) == phase[p] \in {"lobby", "launched"} /\ (inbox[p] > 0 \/ p \in readyForJoin)

\* A client that has loaded it and has not been answered.
Unanswered(p) == phase[p] = "waiting" /\ inbox[p] = 0

SaveInv ==
    /\ game.forJoin => game.paused
    /\ \A s \in Players : slots[s].join => ~slots[s].ready
    /\ \A s \in Players : Holds(s) /\ Unanswered(slots[s].client) => slots[s].join
    /\ \A p \in Players : Told(p) /\ ~saved.resuming => Still(saved)
    /\ \A p \in Players : Unanswered(p) /\ ~loaded[p].resuming => Still(loaded[p])

LEMMA MainInit == Init => MainTypes /\ SaveInv
<1> SUFFICES ASSUME Init PROVE MainTypes /\ SaveInv
  OBVIOUS
<1>1. NoSave \in Save
  BY JoinBounds DEF NoSave, Save
<1>2. 0 \in 0 .. MaxFrame /\ 0 \in 0 .. MaxConnects /\ 0 \in 0 .. MaxToggles
  BY JoinBounds
<1>3. <<>> \in Seq(Request) /\ Absent \subseteq Players
  BY JoinBounds
<1>4. game \in GameType /\ ~game.forJoin
  BY DEF Init, GameType
<1>5. MainTypes
  BY <1>1, <1>2, <1>3, <1>4 DEF Init, MainTypes
<1>6. ASSUME NEW s \in Players PROVE ~slots[s].join
  BY DEF Init, Free
<1>7. ASSUME NEW p \in Players PROVE ~Told(p) /\ ~Unanswered(p)
  BY DEF Init, Told, Unanswered
<1>8. ASSUME NEW s \in Players, Holds(s) PROVE slots[s].client \in Players
  BY <1>8, JoinInit DEF Holds, JoinInv, JoinTypes, Slot
<1>9. SaveInv
  BY <1>4, <1>6, <1>7, <1>8 DEF SaveInv
<1> QED BY <1>5, <1>9

\* What the requests of a keyframe make of the game's flags, when each of them keeps
\* them in G.
LEMMA GivenStayIn ==
    ASSUME NEW G, game \in G, NEW R, requests \in Seq(R),
           \A g \in G : \A i \in DOMAIN requests : SetPaused(g, requests[i]) \in G
    PROVE  FoldLeft(SetPaused, game, requests) \in G
<1> PICK n \in Nat : n = Len(requests) /\ DOMAIN requests = 1 .. n
  OBVIOUS
<1> DEFINE F == [x \in G \X (1 .. n) |-> SetPaused(x[1], requests[x[2]])]
<1>1. F \in [G \X (1 .. n) -> G]
  OBVIOUS
<1>2. \A g \in G : \A i \in 1 .. n : F[<<g, i>>] = SetPaused(g, requests[i])
  OBVIOUS
<1> HIDE DEF F
<1>3. PICK h \in [SUBSET (1 .. n) -> G] : Folds(F, game, n, h)
  BY <1>1, FoldExists
<1>4. \A s \in SUBSET (1 .. n) : s # {} => Max(s) \in 1 .. n /\ s \ {Max(s)} \in SUBSET (1 .. n)
  BY GreatestNumber
<1>5. h = [s \in SUBSET (1 .. n) |-> IF s = {} THEN game ELSE SetPaused(h[s \ {Max(s)}], requests[Max(s)])]
  BY <1>2, <1>3, <1>4 DEF Folds
<1>6. PICK iter : iter = CHOOSE f : f = [s \in SUBSET (1 .. n) |-> IF s = {} THEN game ELSE SetPaused(f[s \ {Max(s)}], requests[Max(s)])]
  OBVIOUS
<1>7. FoldLeft(SetPaused, game, requests) = iter[1 .. n]
  BY <1>6 DEF FoldLeft, MapThenFoldSet
<1>8. iter = [s \in SUBSET (1 .. n) |-> IF s = {} THEN game ELSE SetPaused(iter[s \ {Max(s)}], requests[Max(s)])]
  BY <1>5, <1>6
<1> DEFINE a == [k \in 0 .. n |-> iter[1 .. k]]
<1>9. a[0] \in G
  BY <1>8
<1>10. ASSUME NEW k \in 0 .. n - 1, a[k] \in G
       PROVE  a[k + 1] \in G
  <2>1. Max(1 .. k + 1) = k + 1 /\ (1 .. k + 1) \ {k + 1} = 1 .. k /\ k + 1 \in 1 .. n
    <3>1. k \in Nat /\ k + 1 \in 1 .. n
      OBVIOUS
    <3>2. Max(1 .. k + 1) = k + 1 /\ (1 .. k + 1) \ {k + 1} = 1 .. k
      BY <3>1, LastPlace
    <3> QED BY <3>1, <3>2
  <2>2. a[k + 1] = SetPaused(iter[1 .. k], requests[k + 1])
    <3>1. PICK s \in SUBSET (1 .. n) : s = 1 .. k + 1
      BY <2>1
    <3>2. s # {} /\ Max(s) = k + 1 /\ s \ {Max(s)} = 1 .. k
      BY <2>1, <3>1
    <3>3. iter[s] = SetPaused(iter[s \ {Max(s)}], requests[Max(s)])
      BY <1>8, <3>2
    <3>4. a[k + 1] = iter[1 .. k + 1]
      BY <2>1
    <3> HIDE DEF a
    <3> QED BY <3>1, <3>2, <3>3, <3>4
  <2> QED BY <1>10, <2>1, <2>2
<1> HIDE DEF a
<1>11. \A k \in 0 .. n : a[k] \in G
  BY <1>9, <1>10, StepByStep
<1> QED BY <1>7, <1>11 DEF a

LEMMA MainTypesStep ==
    ASSUME JoinInv, MainTypes, [Next]_vars
    PROVE  MainTypes'
<1>1. CASE UNCHANGED vars
  BY <1>1 DEF MainTypes, vars
<1>2. ASSUME NEW p \in Players, NEW s \in Players, Connect(p, s)
      PROVE  MainTypes'
  BY <1>2, JoinBounds DEF Connect, MainTypes, serverVars
<1>3. ASSUME NEW p \in Players, Launch(p) \/ LobbyReady(p)
      PROVE  MainTypes'
  BY <1>3 DEF Launch, LobbyReady, MainTypes, serverVars, bounds
<1>4. ASSUME NEW p \in Players, LoadSavedGame(p) \/ EnterMatch(p) \/ Leave(p)
      PROVE  MainTypes'
  <2>1. NoSave \in Save
    BY JoinBounds DEF NoSave, Save
  <2>2. loaded' \in [Players -> Save]
    BY <1>4, <2>1 DEF LoadSavedGame, EnterMatch, Leave, MainTypes
  <2> QED BY <1>4, <2>2 DEF LoadSavedGame, EnterMatch, Leave, MainTypes, serverVars, bounds
<1>5. ASSUME NEW s \in Players, SlotNext(s)
      PROVE  MainTypes'
  <2>1. UNCHANGED serverVars /\ UNCHANGED bounds /\ loaded' = loaded
    <3>1. CASE HandleIntro(s) \/ HandleLaunch(s) \/ Close(s)
      BY <3>1 DEF HandleIntro, HandleLaunch, Close, clientVars
    <3>2. CASE HandleReady(s)
      BY <3>2 DEF HandleReady
    <3> QED BY <1>5, <3>1, <3>2 DEF SlotNext
  <2> QED BY <2>1 DEF MainTypes, serverVars, bounds
<1>6. CASE Advance
  BY <1>6, JoinBounds DEF Advance, MainTypes, clientVars, bounds
<1>7. CASE GiveRequests
  <2>1. ASSUME NEW g \in GameType, NEW i \in DOMAIN requests
        PROVE  SetPaused(g, requests[i]) \in GameType
    <3>1. PICK r \in Request : r = requests[i]
      BY DEF MainTypes
    <3>2. SetPaused(g, r) \in GameType
      BY DEF SetPaused, GameType, Request
    <3> QED BY <3>1, <3>2
  <2>2. requests \in Seq(Request) /\ game \in GameType
    BY DEF MainTypes
  <2>3. FoldLeft(SetPaused, game, requests) \in GameType
    <3> HIDE DEF GameType, Request
    <3> QED BY <2>1, <2>2, GivenStayIn
  <2>4. <<>> \in Seq(Request)
    OBVIOUS
  <2> QED BY <1>7, <2>3, <2>4 DEF GiveRequests, MainTypes, clientVars, bounds
<1>8. CASE TryPauseToggle
  <2>1. [pause |-> ~game.paused, join |-> FALSE] \in Request
    BY DEF Request
  <2>2. requests' \in Seq(Request)
    BY <1>8, <2>1 DEF TryPauseToggle, MainTypes
  <2> QED BY <1>8, <2>2, JoinBounds DEF TryPauseToggle, MainTypes, clientVars
<1>9. CASE ReplaceDisconnected
  BY <1>9 DEF ReplaceDisconnected, MainTypes, clientVars, bounds
<1>10. ASSUME NEW b \in BOOLEAN PROVE Append(requests, [pause |-> b, join |-> TRUE]) \in Seq(Request)
  <2>1. [pause |-> b, join |-> TRUE] \in Request
    BY DEF Request
  <2> QED BY <2>1 DEF MainTypes
<1>11. ai \ StoppedAIs \subseteq Players /\ \A S : handled \ S \subseteq Players
  BY DEF MainTypes
<1>12. CASE UpdateAsksPause
  <2>1. game' \in GameType
    BY <1>12 DEF UpdateAsksPause, MainTypes, GameType
  <2> QED BY <1>10, <1>11, <1>12, <2>1 DEF UpdateAsksPause, MainTypes, clientVars, bounds
<1>13. CASE UpdateAsksResume
  <2>1. game' \in GameType
    BY <1>13 DEF UpdateAsksResume, MainTypes, GameType
  <2>2. requests' \in Seq(Request)
    BY <1>10, <1>13 DEF UpdateAsksResume, MainTypes
  <2> QED BY <1>11, <1>13, <2>1, <2>2 DEF UpdateAsksResume, MainTypes, clientVars, bounds
<1>14. CASE UpdateSaves
  <2>1. saved' \in Save
    BY <1>14 DEF UpdateSaves, MainTypes, Save, ResumeRequested
  <2> QED BY <1>11, <1>14, <2>1 DEF UpdateSaves, MainTypes, bounds
<1>15. CASE UpdateOnly
  <2>1. game' \in GameType
    BY <1>15 DEF UpdateOnly, MainTypes, GameType
  <2> QED BY <1>11, <1>15, <2>1 DEF UpdateOnly, MainTypes, clientVars, bounds
<1> QED BY <1>1, <1>2, <1>3, <1>4, <1>5, <1>6, <1>7, <1>8, <1>9, <1>12, <1>13, <1>14, <1>15
        DEF Next, ClientGoesOn, UpdateJoins

\* For any number of players, connections and frames: every variable of the joining
\* keeps its type, and a client that is not away is connected to exactly one slot,
\* however slots change places.
THEOREM JoinTypeCorrect == Spec => []TypeOK
<1>1. JoinInv /\ MainTypes => TypeOK
  <2> SUFFICES ASSUME JoinInv, MainTypes PROVE TypeOK
    OBVIOUS
  <2>1. ASSUME NEW p \in Players, phase[p] # "away"
        PROVE  \E s \in Players : \A t \in Players : slots[t].client = p /\ slots[t].up <=> t = s
    <3>1. p # Nobody
      BY DEF Players, Nobody
    <3>2. PICK s \in Players : slots[s].client = p /\ slots[s].up
      BY <2>1 DEF JoinInv, Connections
    <3>3. \A t \in Players : slots[t].client = p /\ slots[t].up => t = s
      BY <3>1, <3>2 DEF JoinInv, Connections, Holds
    <3> QED BY <3>2, <3>3
  <2> QED BY <2>1 DEF JoinInv, JoinTypes, MainTypes, GameType, Request, TypeOK
<1>2. Init => JoinInv /\ MainTypes
  BY JoinInit, MainInit
<1>3. JoinInv /\ MainTypes /\ [Next]_vars => (JoinInv /\ MainTypes)'
  BY JoinStep, MainTypesStep
<1> QED BY <1>1, <1>2, <1>3, PTL DEF Spec
-----------------------------------------------------------------------------
\* As long as a client is to load the saved game, or waits for the answer, its slot
\* is connected and not ready.
LEMMA SomeoneJoins ==
    ASSUME JoinInv, SaveInv, NEW p \in Players, Told(p) \/ Unanswered(p)
    PROVE  JoinerConnected /\ ~ResumeAsked
<1>1. phase[p] # "away"
  BY DEF Told, Unanswered
<1>2. PICK s : s = SlotOf(p)
  OBVIOUS
<1>3. s \in Players /\ slots[s].client = p /\ slots[s].up /\ p # Nobody /\ Stage(slots[s], p)
  BY <1>1, <1>2, SlotFound
<1>4. slots[s].join
  <2>1. CASE Told(p)
    BY <1>3, <2>1 DEF Told, Stage, NotLoaded
  <2>2. CASE Unanswered(p)
    BY <1>3, <2>2 DEF SaveInv, Holds
  <2> QED BY <2>1, <2>2
<1>5. Connected(s) /\ ~slots[s].ready
  BY <1>3, <1>4 DEF Connected, SaveInv
<1> QED BY <1>3, <1>5 DEF JoinerConnected, ResumeAsked

\* A step of a client or of a slot's thread leaves the world alone: it keeps the
\* invariant if the flags stay as they have to be and a client that has newly loaded
\* the game was told to.
LEMMA WorldUntouched ==
    ASSUME SaveInv, UNCHANGED serverVars,
           \A s \in Players : slots'[s].join => ~slots'[s].ready,
           \A s \in Players : Holds(s)' /\ Unanswered(slots[s].client)' => slots'[s].join,
           \A p \in Players : Told(p)' => Told(p),
           \A p \in Players : Unanswered(p)' =>
              \/ Unanswered(p) /\ loaded'[p] = loaded[p]
              \/ Told(p) /\ loaded'[p] = saved
    PROVE  SaveInv'
<1>1. ASSUME NEW save PROVE Still(save)' <=> Still(save)
  BY DEF Still, serverVars, ResumeRequested
<1>2. game' = game /\ saved' = saved
  BY DEF serverVars
<1>3. ASSUME NEW p \in Players, Told(p)', ~saved.resuming
      PROVE  Still(saved)'
  <2>1. Still(saved)
    BY <1>3 DEF SaveInv
  <2> QED BY <1>2, <2>1 DEF Still, serverVars, ResumeRequested
<1>4. ASSUME NEW p \in Players, Unanswered(p)', ~loaded'[p].resuming
      PROVE  Still(loaded[p])'
  <2>1. PICK save : save = loaded'[p]
    OBVIOUS
  <2>2. Still(save)
    BY <1>4, <2>1 DEF SaveInv
  <2> QED BY <2>1, <2>2 DEF Still, serverVars, ResumeRequested
<1> QED BY <1>2, <1>3, <1>4 DEF SaveInv

LEMMA SaveConnect ==
    ASSUME JoinInv, SaveInv, NEW p \in Players, NEW s \in Players, Connect(p, s)
    PROVE  SaveInv'
<1> PICK r : r = [slots[s] EXCEPT !.client = p, !.up = TRUE, !.inq = <<"intro">>,
                                  !.uuid = Nobody, !.ready = FALSE]
  OBVIOUS
<1>1. /\ phase[p] = "away" /\ slots[s].client = Nobody /\ slots[s] \in Slot
      /\ slots' = [slots EXCEPT ![s] = r] /\ phase' = [phase EXCEPT ![p] = "lobby"]
      /\ inbox' = inbox /\ readyForJoin' = readyForJoin /\ loaded' = loaded
      /\ UNCHANGED serverVars
  BY DEF Connect, JoinInv, JoinTypes
<1>2. r.client = p /\ ~r.ready /\ r.join = slots[s].join
  BY <1>1 DEF Slot
<1>3. slots'[s] = r /\ \A t \in Players \ {s} : slots'[t] = slots[t]
  BY <1>1 DEF JoinInv, JoinTypes
<1>4. inbox[p] = 0 /\ p \notin readyForJoin
  BY <1>1 DEF JoinInv, AwayClients
<1>5. phase'[p] = "lobby" /\ \A q \in Players \ {p} : phase'[q] = phase[q]
  BY <1>1 DEF JoinInv, JoinTypes
<1>6. \A q \in Players : Told(q)' => Told(q)
  BY <1>1, <1>4, <1>5 DEF Told
<1>7. \A q \in Players : Unanswered(q)' => Unanswered(q) /\ loaded'[q] = loaded[q]
  BY <1>1, <1>5 DEF Unanswered
<1>8. \A t \in Players : slots'[t].join => ~slots'[t].ready
  BY <1>2, <1>3 DEF SaveInv
<1>9. ASSUME NEW t \in Players, Holds(t)', Unanswered(slots[t].client)'
      PROVE  slots'[t].join
  <2>1. CASE t = s
    BY <1>2, <1>3, <1>5, <1>9, <2>1 DEF Unanswered
  <2>2. CASE t # s
    <3>1. Holds(t) /\ slots'[t] = slots[t]
      BY <1>3, <1>9, <2>2 DEF Holds
    <3>2. PICK q : q = slots[t].client
      OBVIOUS
    <3>3. q \in Players
      BY <3>1, <3>2 DEF Holds, JoinInv, JoinTypes, Slot
    <3>4. Unanswered(q)
      BY <1>1, <1>5, <1>9, <3>1, <3>2, <3>3 DEF Unanswered
    <3> QED BY <3>1, <3>2, <3>4 DEF SaveInv
  <2> QED BY <2>1, <2>2
<1> QED BY <1>1, <1>6, <1>7, <1>8, <1>9, WorldUntouched

\* Launch, LoadSavedGame, EnterMatch and LobbyReady: the client stays in its slot.
LEMMA SaveClient ==
    ASSUME JoinInv, SaveInv, NEW p \in Players, phase[p] # "away", UNCHANGED serverVars,
           slots' \in [Players -> Slot],
           \A s \in Players : /\ slots'[s].join = slots[s].join
                              /\ slots'[s].ready = slots[s].ready
                              /\ slots'[s].client = slots[s].client
                              /\ slots'[s].up = slots[s].up,
           \A q \in Players \ {p} :
              /\ phase'[q] = phase[q] /\ inbox'[q] = inbox[q] /\ loaded'[q] = loaded[q]
              /\ q \in readyForJoin' => q \in readyForJoin,
           Told(p)' => Told(p),
           Unanswered(p)' => Told(p) /\ loaded'[p] = saved
    PROVE  SaveInv'
<1>1. \A q \in Players : Told(q)' => Told(q)
  BY DEF Told
<1>2. \A q \in Players : Unanswered(q)' =>
          \/ Unanswered(q) /\ loaded'[q] = loaded[q]
          \/ Told(q) /\ loaded'[q] = saved
  BY DEF Unanswered
<1>3. ASSUME NEW t \in Players, Holds(t)', Unanswered(slots[t].client)'
      PROVE  slots'[t].join
  <2>1. PICK q : q = slots[t].client
    OBVIOUS
  <2>2. Holds(t) /\ slots'[t].client = q /\ q \in Players /\ q # Nobody
    BY <1>3, <2>1 DEF Holds, JoinInv, JoinTypes, Slot
  <2>3. Stage(slots[t], q)
    BY <2>1, <2>2 DEF JoinInv, Stages
  <2>4. Unanswered(q) \/ Told(q)
    BY <1>2, <1>3, <2>2
  <2>5. slots[t].join
    BY <2>1, <2>2, <2>3, <2>4 DEF SaveInv, Told, Stage, NotLoaded
  <2> QED BY <2>5
<1>4. \A s \in Players : slots'[s].join => ~slots'[s].ready
  BY DEF SaveInv
<1> QED BY <1>1, <1>2, <1>3, <1>4, WorldUntouched

LEMMA SentFlags ==
    ASSUME JoinInv, NEW p \in Players, phase[p] # "away", NEW m \in {"launch", "ready"},
           slots' = Sent(p, <<m>>)
    PROVE  /\ slots' \in [Players -> Slot]
           /\ \A s \in Players : /\ slots'[s].join = slots[s].join
                                 /\ slots'[s].ready = slots[s].ready
                                 /\ slots'[s].client = slots[s].client
                                 /\ slots'[s].up = slots[s].up
<1> PICK s, r : s = SlotOf(p) /\ r = [slots[s] EXCEPT !.inq = Append(@, m)]
  OBVIOUS
<1>1. slots' = [slots EXCEPT ![s] = r] /\ r \in Slot
  BY Sending
<1>2. s \in Players /\ slots[s] \in Slot /\ slots \in [Players -> Slot]
  BY SlotFound DEF JoinInv, JoinTypes
<1>3. /\ r.join = slots[s].join /\ r.ready = slots[s].ready
      /\ r.client = slots[s].client /\ r.up = slots[s].up
  BY <1>2 DEF Slot
<1> QED BY <1>1, <1>2, <1>3

LEMMA SaveClientSteps ==
    ASSUME JoinInv, MainTypes, SaveInv, NEW p \in Players, Launch(p) \/ ClientGoesOn(p)
    PROVE  SaveInv'
<1>1. phase \in [Players -> Phases] /\ inbox \in [Players -> Nat]
  BY DEF JoinInv, JoinTypes
<1>2. CASE Launch(p)
  <2>1. /\ phase[p] = "lobby" /\ phase' = [phase EXCEPT ![p] = "launched"]
        /\ slots' = Sent(p, <<"launch">>) /\ UNCHANGED serverVars
        /\ inbox' = inbox /\ readyForJoin' = readyForJoin /\ loaded' = loaded
    BY <1>2 DEF Launch
  <2>2. phase'[p] = "launched" /\ \A q \in Players \ {p} : phase'[q] = phase[q]
    BY <1>1, <2>1
  <2>3. Told(p)' => Told(p)
    BY <2>1, <2>2 DEF Told
  <2>4. ~Unanswered(p)'
    BY <2>2 DEF Unanswered
  <2> QED BY <2>1, <2>2, <2>3, <2>4, SentFlags, SaveClient
<1>3. CASE LobbyReady(p)
  <2>1. /\ phase[p] \in {"lobby", "launched"} /\ inbox[p] > 0 /\ phase' = phase
        /\ inbox' = [inbox EXCEPT ![p] = @ - 1] /\ readyForJoin' = readyForJoin \cup {p}
        /\ slots' = slots /\ loaded' = loaded /\ UNCHANGED serverVars
    BY <1>3 DEF LobbyReady
  <2>2. \A q \in Players \ {p} : inbox'[q] = inbox[q]
    BY <1>1, <2>1
  <2>3. Told(p)
    BY <2>1 DEF Told
  <2>4. ~Unanswered(p)'
    BY <2>1 DEF Unanswered
  <2>5. slots' \in [Players -> Slot]
    BY <2>1 DEF JoinInv, JoinTypes
  <2> QED BY <2>1, <2>2, <2>3, <2>4, <2>5, SaveClient
<1>4. CASE LoadSavedGame(p)
  <2>1. /\ loaded'[p] = saved
        /\ \A q \in Players \ {p} : loaded'[q] = loaded[q]
    BY <1>4 DEF LoadSavedGame, MainTypes
  <2>2. /\ phase[p] = "launched" /\ p \in readyForJoin
        /\ phase' = [phase EXCEPT ![p] = "waiting"] /\ readyForJoin' = readyForJoin \ {p}
        /\ slots' = Sent(p, <<"ready">>) /\ inbox' = inbox /\ UNCHANGED serverVars
    BY <1>4 DEF LoadSavedGame
  <2>3. phase'[p] = "waiting" /\ \A q \in Players \ {p} : phase'[q] = phase[q]
    BY <1>1, <2>2
  <2>4. Told(p) /\ ~Told(p)'
    BY <2>2, <2>3 DEF Told
  <2> QED BY <2>1, <2>2, <2>3, <2>4, SentFlags, SaveClient
<1>5. CASE EnterMatch(p)
  <2>1. /\ phase[p] = "waiting" /\ phase' = [phase EXCEPT ![p] = "playing"]
        /\ inbox' = [inbox EXCEPT ![p] = @ - 1] /\ readyForJoin' = readyForJoin
        /\ slots' = Sent(p, <<"ready">>) /\ UNCHANGED serverVars
    BY <1>5 DEF EnterMatch
  <2>2. \A q \in Players \ {p} : loaded'[q] = loaded[q]
    BY <1>5 DEF EnterMatch, MainTypes
  <2>3. phase'[p] = "playing" /\ \A q \in Players \ {p} : phase'[q] = phase[q] /\ inbox'[q] = inbox[q]
    BY <1>1, <2>1
  <2>4. ~Told(p)' /\ ~Unanswered(p)'
    BY <2>3 DEF Told, Unanswered
  <2> QED BY <2>1, <2>2, <2>3, <2>4, SentFlags, SaveClient
<1> QED BY <1>2, <1>3, <1>4, <1>5 DEF ClientGoesOn

LEMMA SaveLeave ==
    ASSUME JoinInv, MainTypes, SaveInv, NEW p \in Players, Leave(p)
    PROVE  SaveInv'
<1> PICK s, r : s = SlotOf(p) /\ r = [slots[s] EXCEPT !.up = FALSE]
  OBVIOUS
<1>1. /\ phase[p] # "away" /\ phase' = [phase EXCEPT ![p] = "away"]
      /\ slots' = [slots EXCEPT ![s] = r] /\ inbox' = [inbox EXCEPT ![p] = 0]
      /\ readyForJoin' = readyForJoin \ {p} /\ UNCHANGED serverVars
  BY DEF Leave
<1>2. /\ s \in Players /\ slots[s] \in Slot /\ slots[s].client = p /\ slots[s].up
      /\ \A t \in Players : Holds(t) /\ slots[t].client = p => t = s
  BY <1>1, SlotFound DEF JoinInv, JoinTypes
<1>3. ~r.up /\ r.join = slots[s].join /\ r.ready = slots[s].ready
  BY <1>2 DEF Slot
<1>4. slots'[s] = r /\ \A t \in Players \ {s} : slots'[t] = slots[t]
  BY <1>1, <1>2 DEF JoinInv, JoinTypes
<1>5. /\ phase'[p] = "away"
      /\ \A q \in Players \ {p} : /\ phase'[q] = phase[q] /\ inbox'[q] = inbox[q]
                                  /\ loaded'[q] = loaded[q]
  BY <1>1 DEF JoinInv, JoinTypes, MainTypes, Leave
<1>6. \A q \in Players : Told(q)' => Told(q)
  BY <1>1, <1>5 DEF Told
<1>7. \A q \in Players : Unanswered(q)' => q # p /\ Unanswered(q) /\ loaded'[q] = loaded[q]
  BY <1>5 DEF Unanswered
<1>8. \A t \in Players : slots'[t].join => ~slots'[t].ready
  BY <1>3, <1>4 DEF SaveInv
<1>9. ASSUME NEW t \in Players, Holds(t)', Unanswered(slots[t].client)'
      PROVE  slots'[t].join
  <2>1. t # s
    BY <1>3, <1>4, <1>9 DEF Holds
  <2>2. Holds(t) /\ slots'[t] = slots[t]
    BY <1>4, <1>9, <2>1 DEF Holds
  <2>3. PICK q : q = slots[t].client
    OBVIOUS
  <2>4. q \in Players
    BY <2>2, <2>3 DEF Holds, JoinInv, JoinTypes, Slot
  <2>5. Unanswered(q)
    BY <1>7, <1>9, <2>2, <2>3, <2>4
  <2> QED BY <2>2, <2>3, <2>5 DEF SaveInv
<1> QED BY <1>1, <1>6, <1>7, <1>8, <1>9, WorldUntouched

\* A slot's thread in a step that answers no client.
LEMMA SaveSlot ==
    ASSUME JoinInv, SaveInv, UNCHANGED serverVars,
           phase' = phase, inbox' = inbox, readyForJoin' = readyForJoin, loaded' = loaded,
           \A s \in Players : slots'[s].join => ~slots'[s].ready,
           \A s \in Players : Holds(s)' =>
              \E t \in Players : /\ Holds(t) /\ slots[t].client = slots'[s].client
                                 /\ slots[t].join => slots'[s].join
    PROVE  SaveInv'
<1>1. \A q \in Players : Told(q)' => Told(q)
  BY DEF Told
<1>2. \A q : Unanswered(q)' => Unanswered(q)
  BY DEF Unanswered
<1>3. ASSUME NEW s \in Players, Holds(s)', Unanswered(slots[s].client)'
      PROVE  slots'[s].join
  <2>1. PICK t \in Players : /\ Holds(t) /\ slots[t].client = slots'[s].client
                             /\ slots[t].join => slots'[s].join
    BY <1>3
  <2>2. PICK q : q = slots[t].client
    OBVIOUS
  <2>3. Unanswered(q)
    BY <1>3, <2>1, <2>2 DEF Unanswered
  <2> QED BY <2>1, <2>2, <2>3 DEF SaveInv
<1> QED BY <1>1, <1>2, <1>3, WorldUntouched

LEMMA SaveIntro ==
    ASSUME JoinInv, SaveInv, NEW s \in Players, HandleIntro(s)
    PROVE  SaveInv'
<1> DEFINE p == slots[s].client
           r == [[slots[s] EXCEPT !.inq = Tail(@)] EXCEPT !.uuid = p]
<1>1. /\ UNCHANGED serverVars /\ phase' = phase /\ inbox' = inbox
      /\ readyForJoin' = readyForJoin /\ loaded' = loaded
      /\ slots[s] \in Slot /\ slots \in [Players -> Slot]
  BY DEF HandleIntro, clientVars, JoinInv, JoinTypes
<1>2. /\ r.client = slots[s].client /\ r.up = slots[s].up
      /\ r.join = slots[s].join /\ r.ready = slots[s].ready
      /\ Joining(r).client = r.client /\ Joining(r).up = r.up
      /\ Joining(r).join /\ ~Joining(r).ready
  BY <1>1 DEF Slot, Joining
<1>3. [Taken(s) EXCEPT ![s].uuid = p] = [slots EXCEPT ![s] = r]
  BY <1>1 DEF Taken
<1> HIDE DEF r, p
<1>4. CASE slots' = [[slots EXCEPT ![s] = r] EXCEPT ![s] = Joining(r)]
  <2>1. slots'[s] = Joining(r) /\ \A t \in Players \ {s} : slots'[t] = slots[t]
    BY <1>1, <1>4
  <2>2. \A t \in Players : slots'[t].join => ~slots'[t].ready
    BY <1>2, <2>1 DEF SaveInv
  <2>3. \A t \in Players : Holds(t)' => /\ Holds(t) /\ slots[t].client = slots'[t].client
                                        /\ slots[t].join => slots'[t].join
    BY <1>2, <2>1 DEF Holds
  <2> QED BY <1>1, <2>2, <2>3, SaveSlot
<1>5. ASSUME NEW t \in FormerSlots(p) \ {s},
             slots' = IF Joining(slots[t]).client = Nobody
                      THEN [[slots EXCEPT ![s] = r] EXCEPT ![t] = [slots EXCEPT ![s] = r][s],
                                                          ![s] = Joining(slots[t])]
                      ELSE [[slots EXCEPT ![s] = r] EXCEPT ![t] = Joining(slots[t])]
      PROVE  SaveInv'
  <2> PICK f : f = Joining(slots[t])
    OBVIOUS
  <2>1. t \in Players /\ t # s /\ slots[t] \in Slot /\ ~Holds(t)
    BY <1>1 DEF FormerSlots, Connected, Holds
  <2>2. f.client = slots[t].client /\ f.up = slots[t].up /\ f.join /\ ~f.ready
    BY <2>1 DEF Joining, Slot
  <2>3. \/ slots'[t] = r /\ slots'[s] = f
        \/ slots'[s] = r /\ slots'[t] = f
    BY <1>1, <1>5, <2>1
  <2>4. \A u \in Players \ {s, t} : slots'[u] = slots[u]
    BY <1>1, <1>5, <2>1
  <2>5. \A u \in Players : slots'[u].join => ~slots'[u].ready
    BY <1>2, <2>2, <2>3, <2>4 DEF SaveInv
  <2>6. ASSUME NEW u \in Players, Holds(u)'
        PROVE  \E v \in Players : /\ Holds(v) /\ slots[v].client = slots'[u].client
                                  /\ slots[v].join => slots'[u].join
    <3>1. CASE u \in {s, t}
      <4>1. slots'[u] = r
        BY <2>1, <2>2, <2>3, <2>6, <3>1 DEF Holds
      <4>2. /\ Holds(s) /\ slots[s].client = slots'[u].client
            /\ slots[s].join => slots'[u].join
        BY <1>2, <2>6, <4>1 DEF Holds
      <4> QED BY <4>2
    <3>2. CASE u \notin {s, t}
      <4>1. slots'[u] = slots[u]
        BY <2>4, <3>2
      <4>2. Holds(u) /\ slots[u].client = slots'[u].client /\ slots[u].join = slots'[u].join
        BY <2>6, <4>1 DEF Holds
      <4> QED BY <4>2
    <3> QED BY <3>1, <3>2
  <2> QED BY <1>1, <2>5, <2>6, SaveSlot
<1> QED BY <1>1, <1>3, <1>4, <1>5 DEF HandleIntro, p

LEMMA SaveMessages ==
    ASSUME JoinInv, SaveInv, NEW s \in Players, HandleLaunch(s) \/ HandleReady(s) \/ Close(s)
    PROVE  SaveInv'
<1>1. slots[s] \in Slot /\ slots \in [Players -> Slot]
  BY DEF JoinInv, JoinTypes
<1>2. CASE HandleLaunch(s)
  <2>1. /\ UNCHANGED serverVars /\ phase' = phase /\ inbox' = inbox
        /\ readyForJoin' = readyForJoin /\ loaded' = loaded
        /\ slots' = IF slots[s].join
                    THEN [slots EXCEPT ![s] = [[slots[s] EXCEPT !.inq = Tail(@)] EXCEPT !.start = TRUE]]
                    ELSE [slots EXCEPT ![s] = [slots[s] EXCEPT !.inq = Tail(@)]]
    BY <1>1, <1>2 DEF HandleLaunch, clientVars, Taken
  <2>2. \A t \in Players : /\ slots'[t].client = slots[t].client /\ slots'[t].up = slots[t].up
                           /\ slots'[t].join = slots[t].join /\ slots'[t].ready = slots[t].ready
    BY <1>1, <2>1 DEF Slot
  <2>3. \A t \in Players : slots'[t].join => ~slots'[t].ready
    BY <2>2 DEF SaveInv
  <2>4. \A t \in Players : Holds(t)' =>
            \E u \in Players : /\ Holds(u) /\ slots[u].client = slots'[t].client
                               /\ slots[u].join => slots'[t].join
    BY <2>2 DEF Holds
  <2> QED BY <2>1, <2>3, <2>4, SaveSlot
<1>3. CASE HandleReady(s) /\ ~slots[s].join
  <2>1. /\ UNCHANGED serverVars /\ phase' = phase /\ inbox' = inbox
        /\ readyForJoin' = readyForJoin /\ loaded' = loaded
        /\ slots' = [slots EXCEPT ![s] = [[slots[s] EXCEPT !.inq = Tail(@)] EXCEPT !.unpause = TRUE]]
    BY <1>1, <1>3 DEF HandleReady, Taken
  <2>2. \A t \in Players : /\ slots'[t].client = slots[t].client /\ slots'[t].up = slots[t].up
                           /\ slots'[t].join = slots[t].join /\ slots'[t].ready = slots[t].ready
    BY <1>1, <2>1 DEF Slot
  <2>3. \A t \in Players : slots'[t].join => ~slots'[t].ready
    BY <2>2 DEF SaveInv
  <2>4. \A t \in Players : Holds(t)' =>
            \E u \in Players : /\ Holds(u) /\ slots[u].client = slots'[t].client
                               /\ slots[u].join => slots'[t].join
    BY <2>2 DEF Holds
  <2> QED BY <2>1, <2>3, <2>4, SaveSlot
<1>4. CASE HandleReady(s) /\ slots[s].join
  <2> PICK p, r : /\ p = slots[s].client
                  /\ r = [[slots[s] EXCEPT !.inq = Tail(@)] EXCEPT !.ready = TRUE, !.join = FALSE,
                                                                  !.sent = FALSE]
    OBVIOUS
  <2>1. /\ UNCHANGED serverVars /\ phase' = phase
        /\ readyForJoin' = readyForJoin /\ loaded' = loaded
        /\ slots' = [slots EXCEPT ![s] = r]
        /\ inbox' = IF slots[s].up THEN [inbox EXCEPT ![p] = @ + 1] ELSE inbox
        /\ Receives(s, "ready")
    BY <1>1, <1>4 DEF HandleReady, Taken, Answered
  <2>2. /\ r.client = p /\ r.up = slots[s].up /\ r.ready /\ ~r.join
    BY <1>1 DEF Slot
  <2>3. slots'[s] = r /\ \A t \in Players \ {s} : slots'[t] = slots[t]
    BY <1>1, <2>1
  <2>4. p \in Players /\ p # Nobody
    BY <1>1, <2>1 DEF JoinInv, FreeSlots, Receives, Slot
  <2>5. inbox \in [Players -> Nat]
    BY DEF JoinInv, JoinTypes
  <2>6. \A q \in Players : q # p \/ ~slots[s].up => inbox'[q] = inbox[q]
    BY <2>1, <2>5
  <2>7. slots[s].up => inbox'[p] # 0 /\ phase[p] \notin {"lobby", "launched"}
    <3>1. slots[s].up => Stage(slots[s], p)
      BY <2>4 DEF JoinInv, Stages, Holds
    <3>2. 1 \in DOMAIN slots[s].inq /\ slots[s].inq[1] = "ready"
      BY <1>1, <2>1 DEF Slot, Receives
    <3> QED BY <2>1, <2>4, <2>5, <3>1, <3>2 DEF Stage, NotLoaded
  <2>8. \A q \in Players : Told(q)' => Told(q)
    BY <2>1, <2>6, <2>7 DEF Told
  <2>9. \A q \in Players : Unanswered(q)' => Unanswered(q) /\ loaded'[q] = loaded[q]
    BY <2>1, <2>6, <2>7 DEF Unanswered
  <2>10. \A t \in Players : slots'[t].join => ~slots'[t].ready
    BY <2>2, <2>3 DEF SaveInv
  <2>11. ASSUME NEW t \in Players, Holds(t)', Unanswered(slots[t].client)'
         PROVE  slots'[t].join
    <3>1. t # s
      BY <2>2, <2>3, <2>7, <2>11 DEF Holds, Unanswered
    <3>2. Holds(t) /\ slots'[t] = slots[t]
      BY <2>3, <2>11, <3>1 DEF Holds
    <3>3. PICK q : q = slots[t].client
      OBVIOUS
    <3>4. q \in Players
      BY <3>2, <3>3 DEF Holds, JoinInv, JoinTypes, Slot
    <3>5. Unanswered(q)
      BY <2>9, <2>11, <3>2, <3>3, <3>4
    <3> QED BY <3>2, <3>3, <3>5 DEF SaveInv
  <2> QED BY <2>1, <2>8, <2>9, <2>10, <2>11, WorldUntouched
<1>5. CASE Close(s)
  <2> PICK r : r = [slots[s] EXCEPT !.client = Nobody, !.ready = FALSE, !.join = FALSE,
                                    !.sent = FALSE, !.pause = FALSE, !.unpause = FALSE]
    OBVIOUS
  <2>1. /\ UNCHANGED serverVars /\ phase' = phase /\ inbox' = inbox
        /\ readyForJoin' = readyForJoin /\ loaded' = loaded
        /\ slots' = [slots EXCEPT ![s] = r]
    BY <1>5 DEF Close, clientVars
  <2>2. ~r.join /\ r.client = Nobody
    BY <1>1 DEF Slot
  <2>3. slots'[s] = r /\ \A t \in Players \ {s} : slots'[t] = slots[t]
    BY <1>1, <2>1
  <2>4. \A t \in Players : slots'[t].join => ~slots'[t].ready
    BY <2>2, <2>3 DEF SaveInv
  <2>5. ASSUME NEW t \in Players, Holds(t)'
        PROVE  \E u \in Players : /\ Holds(u) /\ slots[u].client = slots'[t].client
                                  /\ slots[u].join => slots'[t].join
    <3>1. t # s
      BY <2>2, <2>3, <2>5 DEF Holds
    <3>2. slots'[t] = slots[t] /\ Holds(t)
      BY <2>3, <2>5, <3>1 DEF Holds
    <3> QED BY <3>2
  <2> QED BY <2>1, <2>4, <2>5, SaveSlot
<1> QED BY <1>2, <1>3, <1>4, <1>5

\* A step of the main thread that sets no flag of a slot, tells no client anything, and
\* keeps the world still if a client is to load a saved game or has loaded it.
LEMMA SlotsUntouched ==
    ASSUME JoinInv, SaveInv, saved' = saved, loaded' = loaded,
           phase' = phase, inbox' = inbox, readyForJoin' = readyForJoin,
           \A s \in Players : /\ slots'[s].client = slots[s].client /\ slots'[s].up = slots[s].up
                              /\ slots'[s].join = slots[s].join /\ slots'[s].ready = slots[s].ready,
           game'.forJoin => game'.paused,
           ASSUME NEW p \in Players, Told(p) \/ Unanswered(p), NEW save, Still(save)
           PROVE  Still(save)'
    PROVE  SaveInv'
<1>1. \A p \in Players : (Told(p)' <=> Told(p)) /\ (Unanswered(p)' <=> Unanswered(p))
  BY DEF Told, Unanswered
<1>2. ASSUME NEW s \in Players, Holds(s)', Unanswered(slots[s].client)'
      PROVE  slots'[s].join
  <2>1. PICK q : q = slots[s].client
    OBVIOUS
  <2>2. Holds(s) /\ slots'[s].client = q
    BY <1>2, <2>1 DEF Holds
  <2>3. Unanswered(q)
    BY <1>2, <2>2 DEF Unanswered
  <2> QED BY <2>1, <2>2, <2>3 DEF SaveInv
<1>3. \A s \in Players : slots'[s].join => ~slots'[s].ready
  BY DEF SaveInv
<1>4. ASSUME NEW p \in Players, Told(p)', ~saved.resuming
      PROVE  Still(saved)'
  <2>1. PICK save : save = saved
    OBVIOUS
  <2>2. Told(p) /\ Still(save)
    BY <1>1, <1>4, <2>1 DEF SaveInv
  <2>3. Still(save)'
    BY <2>2
  <2> QED BY <2>1, <2>3 DEF Still
<1>5. ASSUME NEW p \in Players, Unanswered(p)', ~loaded[p].resuming
      PROVE  Still(loaded[p])'
  <2>1. PICK save : save = loaded[p]
    OBVIOUS
  <2>2. Unanswered(p) /\ Still(save)
    BY <1>1, <1>5, <2>1 DEF SaveInv
  <2>3. Still(save)'
    BY <2>2
  <2> QED BY <2>1, <2>3 DEF Still
<1> QED BY <1>2, <1>3, <1>4, <1>5 DEF SaveInv

\* The requests of a keyframe do not end a pause for a join, of which no request asks.
LEMMA SaveGiveRequests ==
    ASSUME JoinInv, MainTypes, SaveInv, GiveRequests
    PROVE  SaveInv'
<1> DEFINE Frozen == JoinerConnected /\ ~ResumeRequested /\ game.forJoin
           G == {g \in GameType : (g.forJoin => g.paused) /\ (Frozen => g.forJoin)}
<1>1. /\ requests \in Seq(Request) /\ game' = FoldLeft(SetPaused, game, requests)
      /\ requests' = <<>> /\ frame' = frame /\ saved' = saved /\ slots' = slots
      /\ UNCHANGED clientVars
  BY DEF GiveRequests, MainTypes
<1>2. game \in G
  BY DEF MainTypes, SaveInv
<1>3. ASSUME NEW g \in G, NEW i \in DOMAIN requests
      PROVE  SetPaused(g, requests[i]) \in G
  <2>1. PICK r \in Request : r = requests[i]
    BY <1>1
  <2>2. Frozen => JoinerConnected /\ ~(r.join /\ ~r.pause)
    BY <2>1 DEF ResumeRequested
  <2>3. g \in GameType /\ (g.forJoin => g.paused) /\ (Frozen => g.forJoin)
    OBVIOUS
  <2> HIDE DEF Frozen
  <2>4. SetPaused(g, r) \in GameType
    BY <2>3 DEF SetPaused, GameType, Request
  <2>5. /\ SetPaused(g, r).forJoin => SetPaused(g, r).paused
        /\ Frozen => SetPaused(g, r).forJoin
    BY <2>2, <2>3 DEF SetPaused, GameType, Request
  <2> QED BY <2>1, <2>4, <2>5
<1>4. game' \in G
  <2> HIDE DEF G, Request
  <2> QED BY <1>1, <1>2, <1>3, GivenStayIn
<1>5. ASSUME NEW p \in Players, Told(p) \/ Unanswered(p), NEW save, Still(save)
      PROVE  Still(save)'
  <2>1. Frozen
    BY <1>5, SomeoneJoins DEF Still
  <2>2. game'.forJoin
    BY <1>4, <2>1
  <2>3. ~ResumeRequested'
    BY <1>1 DEF ResumeRequested
  <2> QED BY <1>1, <1>5, <2>2, <2>3 DEF Still
<1>6. game'.forJoin => game'.paused
  BY <1>4
<1>7. /\ saved' = saved /\ loaded' = loaded /\ phase' = phase /\ inbox' = inbox
      /\ readyForJoin' = readyForJoin
      /\ \A s \in Players :
            /\ slots'[s].client = slots[s].client /\ slots'[s].up = slots[s].up
            /\ slots'[s].join = slots[s].join /\ slots'[s].ready = slots[s].ready
  BY <1>1 DEF clientVars
<1> HIDE DEF G, Frozen
<1> QED BY <1>5, <1>6, <1>7, SlotsUntouched

LEMMA SaveMain ==
    ASSUME JoinInv, MainTypes, SaveInv,
           Advance \/ TryPauseToggle \/ ReplaceDisconnected
           \/ UpdateAsksPause \/ UpdateAsksResume \/ UpdateOnly
    PROVE  SaveInv'
<1>1. /\ saved' = saved /\ loaded' = loaded /\ phase' = phase /\ inbox' = inbox
      /\ readyForJoin' = readyForJoin
  BY DEF Advance, TryPauseToggle, ReplaceDisconnected, UpdateAsksPause, UpdateAsksResume,
         UpdateOnly, clientVars
<1>2. ASSUME NEW s \in Players
      PROVE  /\ slots'[s].client = slots[s].client /\ slots'[s].up = slots[s].up
             /\ slots'[s].join = slots[s].join /\ slots'[s].ready = slots[s].ready
  <2>1. slots[s] \in Slot
    BY DEF JoinInv, JoinTypes
  <2>2. CASE slots' = slots
    BY <2>2
  <2>3. CASE UpdateAsksResume
    <3>1. slots'[s] = [[slots[s] EXCEPT !.pause = FALSE] EXCEPT !.unpause = FALSE]
      BY <2>3 DEF UpdateAsksResume, SettingsSent
    <3> QED BY <2>1, <3>1 DEF Slot
  <2>4. CASE UpdateOnly
    <3>1. slots'[s] = [slots[s] EXCEPT !.pause = FALSE]
      BY <2>4 DEF UpdateOnly, SettingsSent
    <3> QED BY <2>1, <3>1 DEF Slot
  <2> QED BY <2>2, <2>3, <2>4 DEF Advance, TryPauseToggle, ReplaceDisconnected, UpdateAsksPause
<1>3. game'.forJoin = game.forJoin /\ game'.paused = game.paused
  BY DEF Advance, TryPauseToggle, ReplaceDisconnected, UpdateAsksPause, UpdateAsksResume,
         UpdateOnly, MainTypes, GameType
<1>4. game'.forJoin => game'.paused
  BY <1>3 DEF SaveInv
<1>5. ASSUME NEW p \in Players, Told(p) \/ Unanswered(p), NEW save, Still(save)
      PROVE  Still(save)'
  <2>1. game.forJoin /\ game.paused /\ ~ResumeAsked
    BY <1>5, SomeoneJoins DEF Still, SaveInv
  <2>2. frame' = frame
    BY <2>1 DEF Advance, TryPauseToggle, ReplaceDisconnected, UpdateAsksPause,
                UpdateAsksResume, UpdateOnly
  <2>3. ~ResumeRequested'
    <3>1. ~ResumeRequested
      BY <1>5 DEF Still
    <3>2. CASE requests' = requests
      BY <3>1, <3>2 DEF ResumeRequested
    <3>3. CASE TryPauseToggle
      <4>1. PICK r : r = [pause |-> ~game.paused, join |-> FALSE]
        OBVIOUS
      <4>2. requests' = Append(requests, r) /\ ~r.join /\ requests \in Seq(Request)
        BY <3>3, <4>1 DEF TryPauseToggle, MainTypes
      <4>3. \A i \in DOMAIN requests' : requests'[i] = r \/ (i \in DOMAIN requests /\ requests'[i] = requests[i])
        BY <4>2
      <4> QED BY <3>1, <4>2, <4>3 DEF ResumeRequested
    <3> QED BY <2>1, <3>2, <3>3 DEF Advance, ReplaceDisconnected, UpdateAsksPause,
                                   UpdateAsksResume, UpdateOnly
  <2> QED BY <1>3, <1>5, <2>2, <2>3 DEF Still
<1> QED BY <1>1, <1>2, <1>4, <1>5, SlotsUntouched

\* The game is saved while it is paused for a join.
LEMMA SaveSaves ==
    ASSUME JoinInv, MainTypes, SaveInv, UpdateSaves
    PROVE  SaveInv'
<1>1. /\ game.forJoin /\ game' = game /\ frame' = frame /\ requests' = requests
      /\ saved' = [at |-> frame, resuming |-> ResumeRequested]
      /\ phase' = phase /\ readyForJoin' = readyForJoin /\ loaded' = loaded
  BY DEF UpdateSaves
<1>2. ASSUME NEW s \in Players
      PROVE  /\ slots'[s].client = slots[s].client /\ slots'[s].up = slots[s].up
             /\ slots'[s].join = slots[s].join /\ slots'[s].ready = slots[s].ready
  <2> DEFINE served == [t \in Players |-> [SettingsSent[t] EXCEPT !.sent = @ \/ t \in Unserved]]
             first == Min(ToServe)
             sent == slots[s].sent \/ s \in Unserved
  <2>1. slots' = [served EXCEPT ![first].start = FALSE] /\ slots[s] \in Slot
    BY DEF UpdateSaves, JoinInv, JoinTypes
  <2>2. served[s] = [[slots[s] EXCEPT !.pause = FALSE] EXCEPT !.sent = sent]
    BY <2>1 DEF SettingsSent, Slot
  <2>3. slots'[s] = IF s = first THEN [served[s] EXCEPT !.start = FALSE] ELSE served[s]
    BY <2>1
  <2>4. sent \in BOOLEAN
    BY Zenon
  <2> HIDE DEF served, sent, first
  <2>5. /\ served[s] \in Slot
        /\ served[s].client = slots[s].client /\ served[s].up = slots[s].up
        /\ served[s].join = slots[s].join /\ served[s].ready = slots[s].ready
    BY <2>1, <2>2, <2>4 DEF Slot
  <2> QED BY <2>3, <2>5 DEF Slot
<1>3. ASSUME NEW p \in Players PROVE inbox'[p] \in {inbox[p], inbox[p] + 1} /\ inbox[p] \in Nat
  BY DEF UpdateSaves, JoinInv, JoinTypes
<1>4. \A p \in Players : Unanswered(p)' => Unanswered(p)
  BY <1>1, <1>3 DEF Unanswered
<1>5. ~saved'.resuming => Still(saved)'
  BY <1>1 DEF Still, ResumeRequested
<1>6. ASSUME NEW p \in Players, Unanswered(p)', ~loaded'[p].resuming
      PROVE  Still(loaded[p])'
  <2>1. Still(loaded[p])
    BY <1>1, <1>4, <1>6 DEF SaveInv
  <2> QED BY <1>1, <2>1 DEF Still, ResumeRequested
<1>7. ASSUME NEW s \in Players, Holds(s)', Unanswered(slots[s].client)'
      PROVE  slots'[s].join
  <2>1. PICK q : q = slots[s].client
    OBVIOUS
  <2>2. Holds(s) /\ slots'[s].client = q
    BY <1>2, <1>7, <2>1 DEF Holds
  <2>3. q \in Players
    BY <2>1, <2>2 DEF Holds, JoinInv, JoinTypes, Slot
  <2>4. Unanswered(q)
    BY <1>4, <1>7, <2>2, <2>3
  <2> QED BY <1>2, <2>1, <2>2, <2>4 DEF SaveInv
<1>8. \A s \in Players : slots'[s].join => ~slots'[s].ready
  BY <1>2 DEF SaveInv
<1> QED BY <1>1, <1>5, <1>6, <1>7, <1>8 DEF SaveInv
-----------------------------------------------------------------------------
LEMMA SaveStep ==
    ASSUME JoinInv, MainTypes, SaveInv, [Next]_vars
    PROVE  SaveInv'
<1>1. ASSUME NEW p \in Players, NEW s \in Players, Connect(p, s)
      PROVE  SaveInv'
  BY <1>1, SaveConnect
<1>2. ASSUME NEW p \in Players, Launch(p) \/ ClientGoesOn(p) \/ Leave(p)
      PROVE  SaveInv'
  BY <1>2, SaveClientSteps, SaveLeave
<1>3. ASSUME NEW s \in Players, SlotNext(s)
      PROVE  SaveInv'
  BY <1>3, SaveIntro, SaveMessages DEF SlotNext
<1>4. CASE Advance \/ GiveRequests \/ TryPauseToggle \/ ReplaceDisconnected \/ UpdateJoins
  BY <1>4, SaveMain, SaveGiveRequests, SaveSaves DEF UpdateJoins
<1>5. CASE UNCHANGED vars
  BY <1>5 DEF vars, SaveInv, Holds, Told, Unanswered, Still, ResumeRequested
<1> QED BY <1>1, <1>2, <1>3, <1>4, <1>5 DEF Next

\* For any number of players, connections, pauses and resumes: the world that a client
\* has loaded is the server's until the server answers the client, unless a resume was
\* on its way already when the game was saved (what the test in Game::setPaused, the
\* test for a resume in Game::update and the flags of the slots are for).
THEOREM WorldAwaitsJoiner == Spec => []SavedWorldStandsStill
<1>1. SaveInv => SavedWorldStandsStill
  BY DEF SaveInv, SavedWorldStandsStill, Unanswered, Still
<1>2. Init => JoinInv /\ MainTypes /\ SaveInv
  BY JoinInit, MainInit
<1>3. JoinInv /\ MainTypes /\ SaveInv /\ [Next]_vars => (JoinInv /\ MainTypes /\ SaveInv)'
  BY JoinStep, MainTypesStep, SaveStep
<1> QED BY <1>1, <1>2, <1>3, PTL DEF Spec
=============================================================================
