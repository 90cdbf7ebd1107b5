------------------------- MODULE StartBarrierProofs -------------------------
(***************************************************************************)
(* The barrier at the start of a match, for any set of clients.  The       *)
(* argument follows the messages: a client is in ready only after it has   *)
(* loaded, the server answers only when every connected client is in       *)
(* ready, a client plays only after an answer, and the first command list  *)
(* comes behind the answer in every stream.                                *)
(***************************************************************************)
EXTENDS StartBarrier, TLAPS

\* What a client said, and what the server keeps of it, it says only once loaded.
ReadyMeansLoaded ==
    \A c \in Clients :
        /\ c \in ready => clientState[c] # "loading"
        /\ \A i \in 1 .. Len(toServer[c]) :
              toServer[c][i] = "ready" => clientState[c] # "loading"

\* allReady speaks of the slots visited in this round; an answering server has heard
\* of all.
RoundsAreComplete ==
    /\ serverState = "waiting" /\ allReady => linked \ unvisited \subseteq ready
    /\ serverState \in {"answering", "started"} => linked \subseteq ready

\* Answers exist, and are acted upon, only after the decision to answer.
AnswersFollowDecision ==
    \A c \in Clients :
        \/ serverState \in {"answering", "started"}
        \/ /\ c \in linked => clientState[c] # "playing"
           /\ \A i \in 1 .. Len(toClient[c]) : toClient[c][i] # "ready"

\* Lists exist only once the server's match runs, behind the answer if there is one.
ListsFollowAnswers ==
    \A c \in Clients :
        /\ serverState \notin InMatch =>
              /\ c \notin discarded
              /\ \A i \in 1 .. Len(toClient[c]) : toClient[c][i] # "list"
        /\ c \in discarded =>
              \A i \in 1 .. Len(toClient[c]) : toClient[c][i] # "ready"
        /\ \A i, j \in 1 .. Len(toClient[c]) :
              i < j /\ toClient[c][i] = "list" => toClient[c][j] # "ready"

BarrierInv ==
    /\ TypeOK /\ ReadyMeansLoaded /\ RoundsAreComplete /\ AnswersFollowDecision
    /\ ListsFollowAnswers /\ PlayersDiscardNothing
-----------------------------------------------------------------------------
\* A message behind a stream is its last element; the rest stays in place.
LEMMA Behind ==
    ASSUME NEW S, NEW s \in Seq(S), NEW m \in S
    PROVE  /\ Append(s, m) \in Seq(S)
           /\ Len(Append(s, m)) = Len(s) + 1
           /\ \A i \in 1 .. Len(s) : Append(s, m)[i] = s[i]
           /\ Append(s, m)[Len(s) + 1] = m
OBVIOUS

\* Reading the first message of a stream moves the others one place forward.
LEMMA Forward ==
    ASSUME NEW S, NEW s \in Seq(S), s # <<>>
    PROVE  /\ Head(s) \in S /\ Head(s) = s[1]
           /\ Tail(s) \in Seq(S)
           /\ Len(Tail(s)) = Len(s) - 1 /\ Len(s) \in Nat \ {0}
           /\ \A i \in 1 .. Len(Tail(s)) : Tail(s)[i] = s[i + 1]
OBVIOUS

\* What goes out to all is a stream of messages for every client.
LEMMA SentIsStream ==
    ASSUME toClient \in [Clients -> Seq(Messages)], NEW m \in Messages
    PROVE  /\ SentToAll(m) \in [Clients -> Seq(Messages)]
           /\ \A c \in Clients :
                 SentToAll(m)[c] = IF c \in linked THEN Append(toClient[c], m)
                                   ELSE toClient[c]
BY DEF SentToAll

\* The types hold when the match is loaded ...
LEMMA BarrierTypeInit == Init => TypeOK
<1> SUFFICES ASSUME Init PROVE TypeOK
  OBVIOUS
<1>1. toServer \in [Clients -> Seq(Messages)] /\ toClient \in [Clients -> Seq(Messages)]
  <2>1. <<"lobby">> \in Seq(Messages) /\ <<>> \in Seq(Messages)
    BY DEF Messages
  <2> QED BY <2>1 DEF Init
<1>2. clientState \in [Clients -> ClientStates]
  BY DEF Init, ClientStates
<1>3. /\ unvisited \subseteq Clients /\ ready \subseteq Clients /\ linked \subseteq Clients
      /\ discarded \subseteq Clients
  BY DEF Init
<1>4. serverState \in ServerStates /\ allReady \in BOOLEAN
  BY Zenon DEF Init, ServerStates
<1>5. statusSent \in 0 .. MaxStatus /\ listsSent \in 0 .. MaxLists
  BY BarrierBounds DEF Init
<1> QED BY <1>1, <1>2, <1>3, <1>4, <1>5 DEF TypeOK

\* ... and every step keeps them.
LEMMA BarrierTypeNext == TypeOK /\ [Next]_vars => TypeOK'
<1> SUFFICES ASSUME TypeOK, [Next]_vars PROVE TypeOK'
  OBVIOUS
<1> USE BarrierBounds DEF TypeOK, serverVars, counters
<1>1. CASE UNCHANGED vars
  BY <1>1 DEF vars
<1>2. CASE ServerLoaded \/ ServerTimeout \/ BeginAnswers
  BY <1>2 DEF ServerLoaded, ServerTimeout, BeginAnswers, BeginRound, ServerStates
<1>3. CASE NextRound
  <2>1. "status" \in Messages
    BY DEF Messages
  <2> QED BY <1>3, <2>1, SentIsStream DEF NextRound, BeginRound
<1>4. CASE Cancel
  <2>1. "quit" \in Messages
    BY DEF Messages
  <2> QED BY <1>4, <2>1, SentIsStream DEF Cancel, ServerStates
<1>5. CASE SendList
  <2>1. "list" \in Messages
    BY DEF Messages
  <2> QED BY <1>5, <2>1, SentIsStream DEF SendList
<1>6. ASSUME NEW c \in Clients, VisitSlot(c) PROVE TypeOK'
  <2>1. toServer' \in [Clients -> Seq(Messages)]
    <3>1. CASE c \in linked \ ready /\ toServer[c] # <<>>
      <4>1. Tail(toServer[c]) \in Seq(Messages)
        BY <3>1, Forward
      <4> QED BY <1>6, <3>1, <4>1 DEF VisitSlot
    <3>2. CASE ~(c \in linked \ ready /\ toServer[c] # <<>>)
      BY <1>6, <3>2 DEF VisitSlot
    <3> QED BY <3>1, <3>2
  <2>2. ready' \subseteq Clients /\ unvisited' \subseteq Clients
    BY <1>6 DEF VisitSlot
  <2>3. allReady' \in BOOLEAN
    BY <1>6, Zenon DEF VisitSlot
  <2> QED BY <1>6, <2>1, <2>2, <2>3 DEF VisitSlot
<1>7. ASSUME NEW c \in Clients, VisitSlotFails(c) \/ LinkLost(c) PROVE TypeOK'
  BY <1>7 DEF VisitSlotFails, LinkLost, ServerStates
<1>8. ASSUME NEW c \in Clients, Answer(c) PROVE TypeOK'
  <2>1. "ready" \in Messages
    BY DEF Messages
  <2>2. toClient' \in [Clients -> Seq(Messages)]
    BY <1>8, <2>1, Behind DEF Answer
  <2>3. serverState' \in ServerStates /\ unvisited' \subseteq Clients
    BY <1>8 DEF Answer, ServerStates
  <2> QED BY <1>8, <2>2, <2>3 DEF Answer
<1>9. ASSUME NEW c \in Clients, ClientLoaded(c) PROVE TypeOK'
  <2>1. "ready" \in Messages /\ "waiting" \in ClientStates
    BY DEF Messages, ClientStates
  <2>2. toServer' \in [Clients -> Seq(Messages)]
    BY <1>9, <2>1, Behind DEF ClientLoaded
  <2>3. clientState' \in [Clients -> ClientStates]
    BY <1>9, <2>1 DEF ClientLoaded
  <2> QED BY <1>9, <2>2, <2>3 DEF ClientLoaded
<1>10. ASSUME NEW c \in Clients, ClientReceive(c) PROVE TypeOK'
  <2>1. toClient' \in [Clients -> Seq(Messages)]
    BY <1>10, Forward DEF ClientReceive
  <2>2. clientState' \in [Clients -> ClientStates] /\ linked' \subseteq Clients
    BY <1>10 DEF ClientReceive, Leave, ClientStates
  <2>3. discarded' \subseteq Clients
    BY <1>10 DEF ClientReceive
  <2> QED BY <1>10, <2>1, <2>2, <2>3 DEF ClientReceive
<1>11. ASSUME NEW c \in Clients, ClientReadFails(c) \/ ClientGivesUp(c) PROVE TypeOK'
  BY <1>11 DEF ClientReadFails, ClientGivesUp, Leave, ClientStates
<1> QED BY <1>1, <1>2, <1>3, <1>4, <1>5, <1>6, <1>7, <1>8, <1>9, <1>10, <1>11 DEF Next

\* Every variable of the barrier keeps its type, and the counters their bounds.
THEOREM BarrierTypeCorrect == Spec => []TypeOK
BY BarrierTypeInit, BarrierTypeNext, PTL DEF Spec
-----------------------------------------------------------------------------
\* No client is believed ready before it has loaded.
LEMMA LoadedNext == TypeOK /\ ReadyMeansLoaded /\ [Next]_vars => ReadyMeansLoaded'
<1> SUFFICES ASSUME TypeOK, ReadyMeansLoaded, [Next]_vars PROVE ReadyMeansLoaded'
  OBVIOUS
<1> USE DEF ReadyMeansLoaded, serverVars, counters
<1>1. CASE UNCHANGED vars
  BY <1>1 DEF vars
<1>2. CASE ServerLoaded \/ ServerTimeout \/ BeginAnswers \/ NextRound \/ Cancel \/ SendList
  BY <1>2 DEF ServerLoaded, ServerTimeout, BeginAnswers, NextRound, Cancel, SendList
<1>3. ASSUME NEW c \in Clients, VisitSlot(c) PROVE ReadyMeansLoaded'
  <2>1. CASE c \in linked \ ready /\ toServer[c] # <<>>
    <3>1. toServer[c] \in Seq(Messages)
      BY DEF TypeOK
    <3>2. ready' \subseteq ready \cup {c} /\ (c \in ready' => toServer[c][1] = "ready")
      BY <1>3, <2>1, <3>1, Forward DEF VisitSlot
    <3>3. clientState' = clientState /\ toServer' = [toServer EXCEPT ![c] = Tail(@)]
      BY <1>3, <2>1 DEF VisitSlot
    <3>4. \A i \in 1 .. Len(Tail(toServer[c])) :
             i + 1 \in 1 .. Len(toServer[c]) /\ Tail(toServer[c])[i] = toServer[c][i + 1]
      BY <2>1, <3>1, Forward
    <3>5. 1 \in 1 .. Len(toServer[c])
      BY <2>1, <3>1, Forward
    <3>6. \A d \in Clients : d \in ready' => clientState'[d] # "loading"
      BY <3>2, <3>3, <3>5
    <3>7. \A d \in Clients : \A i \in 1 .. Len(toServer'[d]) :
             toServer'[d][i] = "ready" => clientState'[d] # "loading"
      BY <3>3, <3>4 DEF TypeOK
    <3> QED BY <3>6, <3>7
  <2>2. CASE ~(c \in linked \ ready /\ toServer[c] # <<>>)
    BY <1>3, <2>2 DEF VisitSlot
  <2> QED BY <2>1, <2>2
<1>4. ASSUME NEW c \in Clients, VisitSlotFails(c) \/ LinkLost(c) \/ Answer(c)
      PROVE ReadyMeansLoaded'
  BY <1>4 DEF VisitSlotFails, LinkLost, Answer
<1>5. ASSUME NEW c \in Clients, ClientLoaded(c) PROVE ReadyMeansLoaded'
  <2>1. clientState' = [clientState EXCEPT ![c] = "waiting"]
    BY <1>5 DEF ClientLoaded
  <2>2. \A d \in Clients \ {c} : toServer'[d] = toServer[d] /\ clientState'[d] = clientState[d]
    BY <1>5 DEF ClientLoaded, TypeOK
  <2>3. ready' = ready /\ clientState'[c] # "loading"
    BY <1>5, <2>1 DEF ClientLoaded, TypeOK
  <2> QED BY <2>2, <2>3 DEF TypeOK
<1>6. ASSUME NEW c \in Clients, ClientReceive(c) \/ ClientReadFails(c) \/ ClientGivesUp(c)
      PROVE ReadyMeansLoaded'
  <2>1. toServer' = toServer /\ ready' = ready
    BY <1>6 DEF ClientReceive, ClientReadFails, ClientGivesUp
  <2>2. \A d \in Clients : clientState[d] # "loading" => clientState'[d] # "loading"
    BY <1>6 DEF ClientReceive, ClientReadFails, ClientGivesUp, Leave, TypeOK
  <2> QED BY <2>1, <2>2
<1> QED BY <1>1, <1>2, <1>3, <1>4, <1>5, <1>6 DEF Next

\* An answering server has heard of every client that is still connected.
LEMMA RoundsNext == TypeOK /\ RoundsAreComplete /\ [Next]_vars => RoundsAreComplete'
<1> SUFFICES ASSUME TypeOK, RoundsAreComplete, [Next]_vars PROVE RoundsAreComplete'
  OBVIOUS
<1> USE DEF RoundsAreComplete, TypeOK, serverVars, counters
<1>1. CASE UNCHANGED vars
  BY <1>1 DEF vars
<1>2. CASE ServerLoaded \/ ServerTimeout \/ BeginAnswers \/ NextRound \/ Cancel \/ SendList
  BY <1>2 DEF ServerLoaded, ServerTimeout, BeginAnswers, NextRound, Cancel, SendList,
     BeginRound, InMatch
<1>3. ASSUME NEW c \in Clients, VisitSlot(c) PROVE RoundsAreComplete'
  <2>1. /\ serverState = "waiting" /\ serverState' = serverState /\ linked' = linked
        /\ unvisited' = unvisited \ {c} /\ ready \subseteq ready'
    BY <1>3 DEF VisitSlot
  <2>2. allReady' => allReady /\ (c \in linked => c \in ready)
    BY <1>3, Zenon DEF VisitSlot
  <2> QED BY <2>1, <2>2
<1>4. ASSUME NEW c \in Clients, VisitSlotFails(c) \/ LinkLost(c) \/ Answer(c)
      PROVE RoundsAreComplete'
  BY <1>4 DEF VisitSlotFails, LinkLost, Answer
<1>5. ASSUME NEW c \in Clients,
             ClientLoaded(c) \/ ClientReceive(c) \/ ClientReadFails(c) \/ ClientGivesUp(c)
      PROVE RoundsAreComplete'
  <2>1. UNCHANGED <<serverVars, ready>> /\ linked' \subseteq linked
    BY <1>5 DEF ClientLoaded, ClientReceive, ClientReadFails, ClientGivesUp, Leave
  <2> QED BY <2>1
<1> QED BY <1>1, <1>2, <1>3, <1>4, <1>5 DEF Next

\* Before the server decides to answer there are no answers, and nobody plays.
LEMMA AnswersNext == TypeOK /\ AnswersFollowDecision /\ [Next]_vars => AnswersFollowDecision'
<1> SUFFICES ASSUME TypeOK, AnswersFollowDecision, [Next]_vars PROVE AnswersFollowDecision'
  OBVIOUS
<1> USE DEF AnswersFollowDecision, serverVars, counters
<1>1. CASE UNCHANGED vars
  BY <1>1 DEF vars
<1>2. CASE ServerLoaded \/ ServerTimeout \/ BeginAnswers
  BY <1>2 DEF ServerLoaded, ServerTimeout, BeginAnswers
<1>3. ASSUME NEW m \in Messages \ {"ready"}, toClient' = SentToAll(m) \/ toClient' = toClient,
             UNCHANGED <<linked, clientState>>,
             serverState \in {"answering", "started"} => serverState' = serverState
      PROVE AnswersFollowDecision'
  <2>1. ASSUME NEW c \in Clients, NEW i \in 1 .. Len(toClient'[c]), toClient'[c][i] = "ready"
        PROVE  \E j \in 1 .. Len(toClient[c]) : toClient[c][j] = "ready"
    <3>1. toClient[c] \in Seq(Messages)
      BY DEF TypeOK
    <3>2. CASE toClient' = toClient
      BY <2>1, <3>2
    <3>3. CASE toClient'[c] = Append(toClient[c], m)
      BY <2>1, <3>1, <3>3, Behind
    <3> QED BY <1>3, <2>1, <3>2, <3>3, SentIsStream DEF TypeOK
  <2> QED BY <1>3, <2>1
<1>4. CASE NextRound \/ Cancel \/ SendList
  <2>1. {"status", "quit", "list"} \subseteq Messages \ {"ready"}
    BY DEF Messages
  <2>2. UNCHANGED <<linked, clientState>>
    BY <1>4 DEF NextRound, Cancel, SendList
  <2>3. serverState \in {"answering", "started"} => serverState' = serverState
    BY <1>4 DEF NextRound, Cancel, SendList
  <2>4. \E m \in {"status", "quit", "list"} : toClient' = SentToAll(m) \/ toClient' = toClient
    BY <1>4 DEF NextRound, Cancel, SendList
  <2> QED BY <1>3, <2>1, <2>2, <2>3, <2>4
<1>5. ASSUME NEW c \in Clients, VisitSlot(c) \/ VisitSlotFails(c) \/ LinkLost(c)
      PROVE AnswersFollowDecision'
  BY <1>5 DEF VisitSlot, VisitSlotFails, LinkLost
<1>6. ASSUME NEW c \in Clients, Answer(c) PROVE AnswersFollowDecision'
  BY <1>6 DEF Answer
<1>7. ASSUME NEW c \in Clients, ClientLoaded(c) \/ ClientReadFails(c) \/ ClientGivesUp(c)
      PROVE AnswersFollowDecision'
  BY <1>7 DEF ClientLoaded, ClientReadFails, ClientGivesUp, Leave, TypeOK
<1>8. ASSUME NEW c \in Clients, ClientReceive(c) PROVE AnswersFollowDecision'
  <2>1. toClient[c] \in Seq(Messages) /\ toClient[c] # <<>>
    BY <1>8 DEF ClientReceive, TypeOK
  <2>2. /\ serverState' = serverState /\ linked' \subseteq linked
        /\ toClient' = [toClient EXCEPT ![c] = Tail(@)]
    BY <1>8 DEF ClientReceive, Leave
  <2>3. \A d \in Clients : \A i \in 1 .. Len(toClient'[d]) :
           \E j \in 1 .. Len(toClient[d]) : toClient'[d][i] = toClient[d][j]
    <3>1. \A i \in 1 .. Len(Tail(toClient[c])) :
             i + 1 \in 1 .. Len(toClient[c]) /\ Tail(toClient[c])[i] = toClient[c][i + 1]
      BY <2>1, Forward
    <3> QED BY <2>2, <3>1 DEF TypeOK
  <2>4. \A d \in Clients : clientState'[d] = "playing" =>
           clientState[d] = "playing" \/ (d = c /\ Head(toClient[c]) = "ready")
    BY <1>8 DEF ClientReceive, Leave, TypeOK
  <2>5. Head(toClient[c]) = toClient[c][1] /\ 1 \in 1 .. Len(toClient[c])
    BY <2>1, Forward
  <2> QED BY <2>2, <2>3, <2>4, <2>5
<1> QED BY <1>1, <1>2, <1>4, <1>5, <1>6, <1>7, <1>8 DEF Next

\* Lists come behind the answers, so that who has read a list gets no answer any more.
LEMMA ListsNext ==
    TypeOK /\ ListsFollowAnswers /\ [Next]_vars => ListsFollowAnswers'
<1> SUFFICES ASSUME TypeOK, ListsFollowAnswers, [Next]_vars PROVE ListsFollowAnswers'
  OBVIOUS
<1> USE DEF ListsFollowAnswers, serverVars, counters
<1>1. CASE UNCHANGED vars
  BY <1>1 DEF vars
<1>2. CASE ServerLoaded \/ ServerTimeout \/ BeginAnswers
  BY <1>2 DEF ServerLoaded, ServerTimeout, BeginAnswers, InMatch
<1>3. ASSUME NEW m \in Messages \ {"ready"}, toClient' = SentToAll(m) \/ toClient' = toClient,
             UNCHANGED discarded, m = "list" => serverState' \in InMatch,
             serverState \in InMatch => serverState' \in InMatch
      PROVE ListsFollowAnswers'
  <2> SUFFICES ASSUME NEW c \in Clients
               PROVE  /\ serverState' \notin InMatch =>
                            /\ c \notin discarded'
                            /\ \A i \in 1 .. Len(toClient'[c]) : toClient'[c][i] # "list"
                      /\ c \in discarded' =>
                            \A i \in 1 .. Len(toClient'[c]) : toClient'[c][i] # "ready"
                      /\ \A i, j \in 1 .. Len(toClient'[c]) :
                            i < j /\ toClient'[c][i] = "list" => toClient'[c][j] # "ready"
    OBVIOUS
  <2>1. toClient[c] \in Seq(Messages)
    BY DEF TypeOK
  <2>2. CASE toClient'[c] = toClient[c]
    BY <1>3, <2>2
  <2>3. CASE toClient'[c] = Append(toClient[c], m)
    <3>1. /\ Len(toClient'[c]) = Len(toClient[c]) + 1 /\ Len(toClient[c]) \in Nat
          /\ \A i \in 1 .. Len(toClient[c]) : toClient'[c][i] = toClient[c][i]
          /\ toClient'[c][Len(toClient[c]) + 1] = m
      BY <2>1, <2>3, Behind
    <3>2. \A i \in 1 .. Len(toClient'[c]) : i \in 1 .. Len(toClient[c]) \/ toClient'[c][i] = m
      BY <3>1
    <3>3. serverState' \notin InMatch =>
             c \notin discarded' /\ \A i \in 1 .. Len(toClient'[c]) : toClient'[c][i] # "list"
      BY <1>3, <3>1, <3>2
    <3>4. \A i \in 1 .. Len(toClient'[c]) :
             toClient'[c][i] = "ready" =>
                i \in 1 .. Len(toClient[c]) /\ toClient[c][i] = "ready"
      BY <1>3, <3>1, <3>2
    <3>5. c \in discarded' => \A i \in 1 .. Len(toClient'[c]) : toClient'[c][i] # "ready"
      BY <1>3, <3>4
    <3>6. ASSUME NEW i \in 1 .. Len(toClient'[c]), NEW j \in 1 .. Len(toClient'[c]),
                 i < j, toClient'[c][i] = "list", toClient'[c][j] = "ready"
          PROVE FALSE
      <4>1. j \in 1 .. Len(toClient[c]) /\ toClient[c][j] = "ready"
        BY <3>4, <3>6
      <4>2. i \in 1 .. Len(toClient[c])
        BY <3>1, <3>6, <4>1
      <4> QED BY <3>1, <3>6, <4>1, <4>2
    <3> QED BY <3>3, <3>5, <3>6
  <2> QED BY <1>3, <2>2, <2>3, SentIsStream DEF TypeOK
<1>4. CASE NextRound \/ Cancel \/ SendList
  <2>1. {"status", "quit", "list"} \subseteq Messages \ {"ready"}
    BY DEF Messages
  <2>2. UNCHANGED discarded /\ (serverState \in InMatch => serverState' \in InMatch)
    BY <1>4 DEF NextRound, Cancel, SendList, InMatch
  <2>3. \E m \in {"status", "quit", "list"} :
           /\ toClient' = SentToAll(m) \/ toClient' = toClient
           /\ m = "list" => serverState' \in InMatch
    BY <1>4 DEF NextRound, Cancel, SendList
  <2> QED BY <1>3, <2>1, <2>2, <2>3
<1>5. ASSUME NEW c \in Clients,
             \/ VisitSlot(c) \/ VisitSlotFails(c) \/ LinkLost(c)
             \/ ClientLoaded(c) \/ ClientReadFails(c) \/ ClientGivesUp(c)
      PROVE ListsFollowAnswers'
  BY <1>5 DEF VisitSlot, VisitSlotFails, LinkLost, ClientLoaded, ClientReadFails,
     ClientGivesUp, InMatch
<1>6. ASSUME NEW c \in Clients, Answer(c) PROVE ListsFollowAnswers'
  <2>1. toClient[c] \in Seq(Messages) /\ "ready" \in Messages
    BY DEF TypeOK, Messages
  <2>2. /\ serverState \notin InMatch /\ discarded' = discarded
        /\ \A d \in Clients \ {c} : toClient'[d] = toClient[d]
    BY <1>6 DEF Answer, InMatch, TypeOK
  <2>3. toClient'[c] = toClient[c] \/ toClient'[c] = Append(toClient[c], "ready")
    BY <1>6 DEF Answer, TypeOK
  <2>4. \A i \in 1 .. Len(toClient'[c]) : toClient'[c][i] # "list"
    BY <2>1, <2>2, <2>3, Behind
  <2> QED BY <2>2, <2>4
<1>7. ASSUME NEW c \in Clients, ClientReceive(c) PROVE ListsFollowAnswers'
  <2>1. toClient[c] \in Seq(Messages) /\ toClient[c] # <<>>
    BY <1>7 DEF ClientReceive, TypeOK
  <2>2. /\ serverState' = serverState
        /\ toClient' = [toClient EXCEPT ![c] = Tail(@)]
        /\ discarded' \subseteq discarded \cup {c}
        /\ c \in discarded' => c \in discarded \/ toClient[c][1] = "list"
    BY <1>7, <2>1, Forward DEF ClientReceive
  <2>3. /\ 1 \in 1 .. Len(toClient[c])
        /\ \A i \in 1 .. Len(Tail(toClient[c])) :
             /\ i + 1 \in 1 .. Len(toClient[c]) /\ 1 < i + 1
             /\ Tail(toClient[c])[i] = toClient[c][i + 1]
    BY <2>1, Forward
  <2>4. \A i, j \in 1 .. Len(Tail(toClient[c])) : i < j => i + 1 < j + 1
    BY <2>1, Forward
  <2>5. toClient'[c] = Tail(toClient[c]) /\ \A d \in Clients \ {c} : toClient'[d] = toClient[d]
    BY <2>2 DEF TypeOK
  <2> QED BY <2>2, <2>3, <2>4, <2>5
<1> QED BY <1>1, <1>2, <1>4, <1>5, <1>6, <1>7 DEF Next

\* Only an answer makes a client a player of the server's match.
LEMMA PlayersNext ==
    TypeOK /\ ListsFollowAnswers /\ PlayersDiscardNothing /\ [Next]_vars
        => PlayersDiscardNothing'
<1> SUFFICES ASSUME TypeOK, ListsFollowAnswers, PlayersDiscardNothing, [Next]_vars
             PROVE  PlayersDiscardNothing'
  OBVIOUS
<1> USE DEF PlayersDiscardNothing, Playing, serverVars, counters
<1>1. CASE UNCHANGED vars
  BY <1>1 DEF vars
<1>2. CASE ServerLoaded \/ ServerTimeout \/ BeginAnswers \/ NextRound \/ Cancel \/ SendList
  BY <1>2 DEF ServerLoaded, ServerTimeout, BeginAnswers, NextRound, Cancel, SendList
<1>3. ASSUME NEW c \in Clients,
             \/ VisitSlot(c) \/ VisitSlotFails(c) \/ LinkLost(c) \/ Answer(c)
             \/ ClientLoaded(c) \/ ClientReadFails(c) \/ ClientGivesUp(c)
      PROVE PlayersDiscardNothing'
  BY <1>3 DEF VisitSlot, VisitSlotFails, LinkLost, Answer, ClientLoaded, ClientReadFails,
     ClientGivesUp, Leave, TypeOK
<1>4. ASSUME NEW c \in Clients, ClientReceive(c) PROVE PlayersDiscardNothing'
  <2>1. toClient[c] \in Seq(Messages) /\ toClient[c] # <<>>
    BY <1>4 DEF ClientReceive, TypeOK
  <2>2. Head(toClient[c]) = toClient[c][1] /\ 1 \in 1 .. Len(toClient[c])
    BY <2>1, Forward
  <2>3. /\ clientState[c] = "waiting" /\ linked' \subseteq linked
        /\ discarded' = IF Head(toClient[c]) = "list" THEN discarded \cup {c} ELSE discarded
        /\ \A d \in Clients \ {c} : clientState'[d] = clientState[d]
        /\ clientState'[c] = "playing" => Head(toClient[c]) = "ready"
    BY <1>4 DEF ClientReceive, Leave, TypeOK
  <2>4. ~(clientState'[c] = "playing" /\ c \in discarded')
    <3>1. clientState'[c] = "playing" => discarded' = discarded
      BY <2>3
    <3> QED BY <2>2, <2>3, <3>1 DEF ListsFollowAnswers
  <2>5. \A d \in Clients \ {c} : d \in discarded' => d \in discarded
    BY <2>3
  <2> QED BY <2>3, <2>4, <2>5 DEF TypeOK
<1> QED BY <1>1, <1>2, <1>3, <1>4 DEF Next
-----------------------------------------------------------------------------
\* The invariant holds when loading begins.
LEMMA BarrierInit == Init => BarrierInv
<1> SUFFICES ASSUME Init PROVE BarrierInv
  OBVIOUS
<1>1. \A c \in Clients : \A i \in 1 .. Len(toServer[c]) : toServer[c][i] = "lobby"
  BY DEF Init
<1>2. \A c \in Clients : \A i \in 1 .. Len(toClient[c]) : toClient[c][i] = "lobby"
  BY DEF Init
<1>3. ReadyMeansLoaded /\ RoundsAreComplete
  BY <1>1 DEF Init, ReadyMeansLoaded, RoundsAreComplete
<1>4. AnswersFollowDecision /\ ListsFollowAnswers /\ PlayersDiscardNothing
  BY <1>2 DEF Init, AnswersFollowDecision, ListsFollowAnswers, PlayersDiscardNothing
<1> QED BY <1>3, <1>4, BarrierTypeInit DEF BarrierInv

\* The inductive invariant of the barrier.
THEOREM BarrierInvariant == Spec => []BarrierInv
<1>1. BarrierInv /\ [Next]_vars => BarrierInv'
  BY BarrierTypeNext, LoadedNext, RoundsNext, AnswersNext, ListsNext, PlayersNext
     DEF BarrierInv
<1> QED BY <1>1, BarrierInit, PTL DEF Spec

\* waitUntilReady is a barrier: while a client plays in the server's match, the server
\* has answered, and no client that is still connected is loading.
THEOREM BarrierHolds == Spec => []NoOneStartsAlone
<1>1. BarrierInv => NoOneStartsAlone
  <2> SUFFICES ASSUME BarrierInv, NEW c \in Playing
               PROVE  /\ serverState \in {"answering", "started"}
                      /\ \A d \in linked : clientState[d] # "loading"
    BY DEF NoOneStartsAlone
  <2>1. c \in Clients /\ c \in linked /\ clientState[c] = "playing"
    BY DEF Playing, BarrierInv, TypeOK
  <2>2. serverState \in {"answering", "started"}
    BY <2>1 DEF BarrierInv, AnswersFollowDecision
  <2>3. linked \subseteq ready /\ ready \subseteq Clients
    BY <2>2 DEF BarrierInv, RoundsAreComplete, TypeOK
  <2> QED BY <2>2, <2>3 DEF BarrierInv, ReadyMeansLoaded
<1> QED BY <1>1, BarrierInvariant, PTL

\* A client that plays in the server's match has thrown no command list away.
THEOREM NothingDiscarded == Spec => []PlayersDiscardNothing
<1>1. BarrierInv => PlayersDiscardNothing
  BY DEF BarrierInv
<1> QED BY <1>1, BarrierInvariant, PTL
=============================================================================
