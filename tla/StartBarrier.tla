---------------------------- MODULE StartBarrier ----------------------------
(***************************************************************************)
(* The start of a match.  Every machine loads the map, then all of them    *)
(* meet in waitUntilReady: a client tells the server that it is ready and  *)
(* waits for the server's answer; the server looks at its slots round      *)
(* after round until every connected client is ready, then answers all of  *)
(* them.  Either side may time out, the host may cancel, connections may   *)
(* break, and messages of the lobby may still be on the way.               *)
(* Once the server has left waitUntilReady, in whatever way, Game::init    *)
(* goes on and the server's match runs: it sends command lists.            *)
(***************************************************************************)
EXTENDS Integers, Sequences, FiniteSets

CONSTANTS
    Clients,    \* the clients in the server's slots
    SameData,   \* those whose data have the checksum of the server's
    Checking,   \* those with NetworkConsistencyChecks enabled
    MaxStatus,  \* bound: loading status messages the server sends
    MaxLists    \* bound: command lists the server's match sends

ASSUME ClientsAssumption ==
    IsFiniteSet(Clients) /\ SameData \subseteq Clients /\ Checking \subseteq Clients
ASSUME BarrierBounds == MaxStatus \in Nat /\ MaxLists \in Nat

VARIABLES
    serverState, \* see ServerStates
    unvisited,   \* slots left in the current loop over the slots
    allReady,    \* ServerInterface::waitUntilReady, allReady
    ready,       \* slots whose ConnectionSlot::isReady
    linked,      \* clients whose connection is up
    toServer,    \* messages in flight from each client
    toClient,    \* messages in flight to each client
    clientState, \* see ClientStates
    discarded,   \* clients that threw a command list away
    statusSent, listsSent

serverVars == <<serverState, unvisited, allReady>>
counters == <<statusSent, listsSent>>
vars == <<serverState, unvisited, allReady, ready, linked, toServer, toClient,
          clientState, discarded, statusSent, listsSent>>

\* gaveUp: a timeout or an error; cancelled: by the host; started: all were ready.
ServerStates == {"loading", "waiting", "answering", "started", "gaveUp", "cancelled"}
InMatch == {"started", "gaveUp", "cancelled"}
ClientStates == {"loading", "waiting", "playing", "left"}
Messages == {"lobby", "ready", "status", "list", "quit"}

\* A message for every client whose connection is up.
SentToAll(message) ==
    [c \in Clients |-> IF c \in linked THEN Append(toClient[c], message) ELSE toClient[c]]

\* Messages sent in the lobby may still be on the way, in both directions.
Init ==
    /\ serverState = "loading"
    /\ unvisited = {}
    /\ allReady = FALSE
    /\ ready = {}
    /\ linked = Clients
    /\ toServer \in [Clients -> {<<>>, <<"lobby">>}]
    /\ toClient \in [Clients -> {<<>>, <<"lobby">>}]
    /\ clientState = [c \in Clients |-> "loading"]
    /\ discarded = {}
    /\ statusSent = 0
    /\ listsSent = 0
-----------------------------------------------------------------------------
(* The server's main thread in ServerInterface::waitUntilReady.            *)

\* Mutant of BeginRound: the loop runs over one slot too many.
BeginRoundOneTooMany ==
    /\ unvisited' = Clients \cup {Cardinality(Clients)}
    /\ allReady' = TRUE

\* A turn of the server's loop begins: every slot is looked at again.
BeginRound ==
    /\ unvisited' = Clients
    /\ allReady' = TRUE

ServerLoaded ==
    /\ serverState = "loading"
    /\ serverState' = "waiting"
    /\ BeginRound
    /\ UNCHANGED <<ready, linked, toServer, toClient, clientState, discarded, counters>>

\* Mutant of VisitSlot: a slot without a message does not clear allReady.
VisitSlotForgets(c) ==
    /\ serverState = "waiting"
    /\ c \in unvisited
    /\ unvisited' = unvisited \ {c}
    /\ IF c \in linked \ ready /\ toServer[c] # <<>>
       THEN /\ toServer' = [toServer EXCEPT ![c] = Tail(@)]
            /\ ready' = IF Head(toServer[c]) = "ready" THEN ready \cup {c} ELSE ready
            /\ allReady' = FALSE
       ELSE UNCHANGED <<toServer, ready, allReady>>
    /\ UNCHANGED <<serverState, linked, toClient, clientState, discarded, counters>>

\* One slot is looked at, under its mutex.  A slot that became ready just now
\* costs another round, like one that is not ready.
VisitSlot(c) ==
    /\ serverState = "waiting"
    /\ c \in unvisited
    /\ unvisited' = unvisited \ {c}
    /\ allReady' = (allReady /\ (c \in linked => c \in ready))
    /\ IF c \in linked \ ready /\ toServer[c] # <<>>
       THEN /\ toServer' = [toServer EXCEPT ![c] = Tail(@)]
            /\ ready' = IF Head(toServer[c]) = "ready" THEN ready \cup {c} ELSE ready
       ELSE UNCHANGED <<toServer, ready>>
    /\ UNCHANGED <<serverState, linked, toClient, clientState, discarded, counters>>

\* The connection breaks while the body of the ready message is read: the type is
\* known, the read fails, and the server takes the message for an unexpected one.
\* It returns although the other clients wait.
VisitSlotFails(c) ==
    /\ serverState = "waiting"
    /\ c \in unvisited \cap (linked \ ready)
    /\ toServer[c] # <<>> /\ Head(toServer[c]) = "ready"
    /\ serverState' = "gaveUp"
    /\ linked' = linked \ {c}
    /\ UNCHANGED <<unvisited, allReady, ready, toServer, toClient, clientState,
                   discarded, counters>>

\* Not all are ready: once a second every client is told which ones are missing.
NextRound ==
    /\ serverState = "waiting" /\ unvisited = {} /\ ~allReady
    /\ BeginRound
    /\ \/ UNCHANGED <<toClient, statusSent>>
       \/ /\ statusSent < MaxStatus
          /\ statusSent' = statusSent + 1
          /\ toClient' = SentToAll("status")
    /\ UNCHANGED <<serverState, ready, linked, toServer, clientState, discarded, listsSent>>

\* readyWaitTimeout is over.
ServerTimeout ==
    /\ serverState = "waiting" /\ unvisited = {} /\ ~allReady
    /\ serverState' = "gaveUp"
    /\ UNCHANGED <<unvisited, allReady, ready, linked, toServer, toClient,
                   clientState, discarded, counters>>

\* The host cancels the loading: quitGame tells every client to quit.
Cancel ==
    /\ serverState = "waiting" /\ unvisited = {}
    /\ serverState' = "cancelled"
    /\ toClient' = SentToAll("quit")
    /\ UNCHANGED <<unvisited, allReady, ready, linked, toServer, clientState,
                   discarded, counters>>

BeginAnswers ==
    /\ serverState = "waiting" /\ unvisited = {} /\ allReady
    /\ serverState' = "answering"
    /\ unvisited' = Clients
    /\ UNCHANGED <<allReady, ready, linked, toServer, toClient, clientState,
                   discarded, counters>>

\* Mutant of Answer: the match starts before every slot has got its answer.
AnswerAndStart(c) ==
    /\ serverState \in {"answering", "started"}
    /\ c \in unvisited
    /\ unvisited' = unvisited \ {c}
    /\ serverState' = "started"
    /\ toClient' = IF c \in linked THEN [toClient EXCEPT ![c] = Append(@, "ready")]
                   ELSE toClient
    /\ UNCHANGED <<allReady, ready, linked, toServer, clientState, discarded, counters>>

\* The answer goes out slot by slot; after the last one the match starts.
Answer(c) ==
    /\ serverState = "answering"
    /\ c \in unvisited
    /\ unvisited' = unvisited \ {c}
    /\ serverState' = IF unvisited = {c} THEN "started" ELSE "answering"
    /\ toClient' = IF c \in linked THEN [toClient EXCEPT ![c] = Append(@, "ready")]
                   ELSE toClient
    /\ UNCHANGED <<allReady, ready, linked, toServer, clientState, discarded, counters>>

\* ServerInterface::updateKeyframe of the match that follows.
SendList ==
    /\ serverState \in InMatch
    /\ listsSent < MaxLists
    /\ listsSent' = listsSent + 1
    /\ toClient' = SentToAll("list")
    /\ UNCHANGED <<serverVars, ready, linked, toServer, clientState, discarded, statusSent>>
-----------------------------------------------------------------------------
(* The clients' main threads in ClientInterface::waitUntilReady.           *)

ClientLoaded(c) ==
    /\ clientState[c] = "loading"
    /\ clientState' = [clientState EXCEPT ![c] = "waiting"]
    /\ toServer' = IF c \in linked THEN [toServer EXCEPT ![c] = Append(@, "ready")]
                   ELSE toServer
    /\ UNCHANGED <<serverVars, ready, linked, toClient, discarded, counters>>

Leave(c) ==
    /\ clientState' = [clientState EXCEPT ![c] = "left"]
    /\ linked' = linked \ {c}

\* One message is read.  What the lobby left behind is consumed, and so are
\* command lists; an answer ends the wait, with a look at the checksums.
ClientReceive(c) ==
    LET message == Head(toClient[c]) IN
    /\ clientState[c] = "waiting"
    /\ toClient[c] # <<>>
    /\ toClient' = [toClient EXCEPT ![c] = Tail(@)]
    /\ discarded' = IF message = "list" THEN discarded \cup {c} ELSE discarded
    /\ CASE message = "quit" -> Leave(c)
         [] message = "ready" /\ c \in Checking \ SameData -> Leave(c)
         [] message = "ready" /\ c \notin Checking \ SameData ->
               /\ clientState' = [clientState EXCEPT ![c] = "playing"]
               /\ UNCHANGED linked
         [] OTHER -> UNCHANGED <<clientState, linked>>
    /\ UNCHANGED <<serverVars, ready, toServer, counters>>

\* The connection breaks in the middle of a command list: the client returns from
\* waitUntilReady as if it had got the answer, and Game::init goes on.
ClientReadFails(c) ==
    /\ clientState[c] = "waiting"
    /\ toClient[c] # <<>> /\ Head(toClient[c]) = "list"
    /\ clientState' = [clientState EXCEPT ![c] = "playing"]
    /\ linked' = linked \ {c}
    /\ UNCHANGED <<serverVars, ready, toServer, toClient, discarded, counters>>

\* Mutant of ClientGivesUp: the client has no timeout.
ClientSeesBrokenLink(c) ==
    /\ clientState[c] = "waiting"
    /\ c \notin linked
    /\ Leave(c)
    /\ UNCHANGED <<serverVars, ready, toServer, toClient, discarded, counters>>

\* The connection is gone, or nothing comes and readyWaitTimeout is over.
ClientGivesUp(c) ==
    /\ clientState[c] = "waiting"
    /\ c \notin linked \/ toClient[c] = <<>>
    /\ Leave(c)
    /\ UNCHANGED <<serverVars, ready, toServer, toClient, discarded, counters>>

\* A connection breaks, whatever either side is doing.
LinkLost(c) ==
    /\ c \in linked
    /\ linked' = linked \ {c}
    /\ UNCHANGED <<serverVars, ready, toServer, toClient, clientState, discarded, counters>>
-----------------------------------------------------------------------------
Next ==
    \/ ServerLoaded \/ NextRound \/ ServerTimeout \/ Cancel \/ BeginAnswers \/ SendList
    \/ \E c \in Clients : \/ VisitSlot(c) \/ VisitSlotFails(c) \/ Answer(c)
                          \/ ClientLoaded(c) \/ ClientReceive(c)
                          \/ ClientReadFails(c) \/ ClientGivesUp(c) \/ LinkLost(c)

Spec == Init /\ [][Next]_vars

\* Both loops go on, and a timer that is looked at again and again runs out.
Fairness ==
    /\ WF_vars(ServerLoaded) /\ WF_vars(NextRound) /\ SF_vars(ServerTimeout)
    /\ WF_vars(BeginAnswers)
    /\ \A c \in Clients :
          /\ WF_vars(VisitSlot(c)) /\ WF_vars(Answer(c))
          /\ WF_vars(ClientLoaded(c)) /\ WF_vars(ClientReceive(c))
          /\ WF_vars(ClientGivesUp(c))

FairSpec == Spec /\ Fairness
-----------------------------------------------------------------------------
(* Properties.                                                             *)

\* Type invariant of every variable, with the bounds on the counters.
TypeOK ==
    /\ serverState \in ServerStates
    /\ unvisited \subseteq Clients
    /\ allReady \in BOOLEAN
    /\ ready \subseteq Clients
    /\ linked \subseteq Clients
    /\ toServer \in [Clients -> Seq(Messages)]
    /\ toClient \in [Clients -> Seq(Messages)]
    /\ clientState \in [Clients -> ClientStates]
    /\ discarded \subseteq Clients
    /\ statusSent \in 0 .. MaxStatus
    /\ listsSent \in 0 .. MaxLists

\* A client that went on without its connection is not in the server's match.
Playing == {c \in linked : clientState[c] = "playing"}

\* The barrier: once any client plays in the server's match, every other client has
\* loaded, unless its connection broke; the server did not give up or cancel.
NoOneStartsAlone ==
    Playing # {} =>
        /\ serverState \in {"answering", "started"}
        /\ \A d \in linked : clientState[d] # "loading"

\* waitUntilReady throws command lists away: no client that plays in the server's
\* match has lost one.
PlayersDiscardNothing == Playing \cap discarded = {}

\* No machine waits for ever: everyone plays, or leaves, or has given up.
WaitsEnd ==
    <>[](/\ serverState \in InMatch
         /\ \A c \in Clients : clientState[c] \in {"playing", "left"})
=============================================================================
