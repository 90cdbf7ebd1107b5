----------------------------- MODULE InGameJoin -----------------------------
(***************************************************************************)
(* Joining a match in progress.  A client connects to a free slot, is told *)
(* that the match runs, asks to be launched, and loads the saved game that *)
(* the server takes for it.  The server's main thread pauses the match for *)
(* that, saves, and resumes when every connected client said that it is    *)
(* in; the threads of the slots handle the client's messages meanwhile, so *)
(* the two meet in the flags of the slots.  A player who lost its          *)
(* connection is recognised by its UUID and moved to its former slot.      *)
(*                                                                         *)
(* Slot i is the one of the faction that player i plays.                   *)
(***************************************************************************)
EXTENDS Integers, Sequences, FiniteSets, SequencesExt

CONSTANTS
    NumPlayers,   \* players of the match beside the server's own
    Absent,       \* those whose connection was lost before, an AI plays for them
    MaxFrame,     \* bound: frames of the match
    MaxConnects,  \* bound: connections that are opened during the match
    MaxToggles    \* bound: pauses and resumes the server asks for on its own

Players == 1 .. NumPlayers
Nobody == 0

ASSUME JoinBounds ==
    /\ NumPlayers \in Nat \ {0} /\ Absent \subseteq Players
    /\ MaxFrame \in Nat /\ MaxConnects \in Nat /\ MaxToggles \in Nat

VARIABLES
    \* the server's Game
    game,         \* paused, forJoin (pausedForJoinGame), before (pausedBeforeJoinGame),
                  \* pauseSent and resumeSent (pauseRequestSent, resumeRequestSent)
    frame,        \* World::frameCount
    requests,     \* pauses and resumes in requestedCommands
    ai,           \* slots whose faction has an AiInterface
    handled,      \* slots whose faction has factionDisconnectHandled
    saved,        \* the file: the frame it was saved at, and whether a resume had
                  \* already been asked for
    \* ServerInterface
    slots,        \* the ConnectionSlot at each index
    \* the clients
    phase,        \* see Phases
    inbox,        \* what a client has not read yet: ready messages, and how many
    readyForJoin, \* ClientInterface::readyForInGameJoin
    loaded,       \* the saved game the client has loaded
    \* bounds
    connects, toggles

serverVars == <<game, frame, requests, ai, handled, saved>>
clientVars == <<phase, inbox, readyForJoin, loaded>>
bounds == <<connects, toggles>>
vars == <<game, frame, requests, ai, handled, saved, slots, phase, inbox,
          readyForJoin, loaded, connects, toggles>>

\* lobby:    connected, in the menu of a match that runs
\* launched: the player chose to join, the launch message is sent
\* waiting:  in waitUntilReady with the saved game loaded
Phases == {"away", "lobby", "launched", "waiting", "playing"}

Free == [client |-> Nobody, up |-> FALSE, inq |-> <<>>, uuid |-> Nobody,
         ready |-> FALSE, join |-> FALSE, sent |-> FALSE,
         pause |-> FALSE, unpause |-> FALSE, start |-> FALSE]

\* ConnectionSlot::isConnected, which stays true while something is left to read.
Connected(s) == slots[s].client # Nobody /\ (slots[s].up \/ slots[s].inq # <<>>)

NoSave == [at |-> 0, resuming |-> FALSE]

Init ==
    /\ game = [paused |-> FALSE, forJoin |-> FALSE, before |-> FALSE,
               pauseSent |-> FALSE, resumeSent |-> FALSE]
    /\ frame = 0
    /\ requests = <<>>
    /\ ai = Absent
    /\ handled = Absent
    /\ saved = NoSave
    /\ slots = [s \in Players |->
                   IF s \in Absent THEN [Free EXCEPT !.uuid = s]
                   ELSE [Free EXCEPT !.client = s, !.up = TRUE, !.uuid = s, !.ready = TRUE]]
    /\ phase = [p \in Players |-> IF p \in Absent THEN "away" ELSE "playing"]
    /\ inbox = [p \in Players |-> 0]
    /\ readyForJoin = {}
    /\ loaded = [p \in Players |-> NoSave]
    /\ connects = 0 /\ toggles = 0
-----------------------------------------------------------------------------
(* The clients.                                                            *)

\* The client opens a connection, any free slot's thread accepts it, and the client
\* answers the slot's introduction.  What accepting does not reset stays as the last
\* client of the slot left it.
Connect(p, s) ==
    /\ phase[p] = "away" /\ slots[s].client = Nobody
    /\ connects < MaxConnects
    /\ connects' = connects + 1
    /\ slots' = [slots EXCEPT ![s].client = p, ![s].up = TRUE, ![s].inq = <<"intro">>,
                              ![s].uuid = Nobody, ![s].ready = FALSE]
    /\ phase' = [phase EXCEPT ![p] = "lobby"]
    /\ UNCHANGED <<serverVars, inbox, readyForJoin, loaded, toggles>>

\* The slot the client is connected to, and what it sends there.
SlotOf(p) == CHOOSE s \in Players : slots[s].client = p /\ slots[s].up
Sent(p, messages) == [slots EXCEPT ![SlotOf(p)].inq = @ \o messages]

\* "Play now": ClientInterface::broadcastGameStart.
Launch(p) ==
    /\ phase[p] = "lobby"
    /\ phase' = [phase EXCEPT ![p] = "launched"]
    /\ slots' = Sent(p, <<"launch">>)
    /\ UNCHANGED <<serverVars, inbox, readyForJoin, loaded, bounds>>

\* A ready message in the menu says that the saved game can be fetched.
LobbyReady(p) ==
    /\ phase[p] \in {"lobby", "launched"} /\ inbox[p] > 0
    /\ inbox' = [inbox EXCEPT ![p] = @ - 1]
    /\ readyForJoin' = readyForJoin \cup {p}
    /\ UNCHANGED <<serverVars, slots, phase, loaded, bounds>>

\* The file is fetched and loaded, and waitUntilReady tells the server.
LoadSavedGame(p) ==
    /\ phase[p] = "launched" /\ p \in readyForJoin
    /\ loaded' = [loaded EXCEPT ![p] = saved]
    /\ readyForJoin' = readyForJoin \ {p}
    /\ phase' = [phase EXCEPT ![p] = "waiting"]
    /\ slots' = Sent(p, <<"ready">>)
    /\ UNCHANGED <<serverVars, inbox, bounds>>

\* The server's answer ends waitUntilReady; the resume message is a second ready.
EnterMatch(p) ==
    /\ phase[p] = "waiting" /\ inbox[p] > 0
    /\ inbox' = [inbox EXCEPT ![p] = @ - 1]
    /\ phase' = [phase EXCEPT ![p] = "playing"]
    /\ loaded' = [loaded EXCEPT ![p] = NoSave]
    /\ slots' = Sent(p, <<"ready">>)
    /\ UNCHANGED <<serverVars, readyForJoin, bounds>>

\* The client quits or its connection breaks, which the slot finds out later.
Leave(p) ==
    /\ phase[p] # "away"
    /\ phase' = [phase EXCEPT ![p] = "away"]
    /\ slots' = [slots EXCEPT ![SlotOf(p)].up = FALSE]
    /\ inbox' = [inbox EXCEPT ![p] = 0]
    /\ readyForJoin' = readyForJoin \ {p}
    /\ loaded' = [loaded EXCEPT ![p] = NoSave]
    /\ UNCHANGED <<serverVars, bounds>>
-----------------------------------------------------------------------------
(* The threads of the slots: ConnectionSlot::update.                       *)

Receives(s, message) == slots[s].inq # <<>> /\ Head(slots[s].inq) = message
Taken(s) == [slots EXCEPT ![s].inq = Tail(@)]

\* setJoinGameInProgressFlags, and the pause for the new connection.
Joining(slot) == [slot EXCEPT !.join = TRUE, !.ready = FALSE, !.sent = FALSE, !.pause = TRUE]

\* findSlotForUUID: unconnected slots that last belonged to the player.
FormerSlots(p) == {t \in Players : slots[t].uuid = p /\ ~Connected(t)}

\* Mutant of HandleIntro: the slots change places halfway.
HandleIntroTwice(s) ==
    LET p == slots[s].client
        known == [Taken(s) EXCEPT ![s].uuid = p]
    IN  /\ Receives(s, "intro")
        /\ \/ /\ FormerSlots(p) \ {s} = {}
              /\ slots' = [known EXCEPT ![s] = Joining(@)]
           \/ \E t \in FormerSlots(p) \ {s} :
              slots' = [known EXCEPT ![t] = known[s]]
        /\ UNCHANGED <<serverVars, clientVars, bounds>>

\* The introduction of player p.  Its former slot, if there is one, gets the flags,
\* and the two slots change places unless the former one still holds a socket.
HandleIntro(s) ==
    LET p == slots[s].client
        known == [Taken(s) EXCEPT ![s].uuid = p]
    IN  /\ Receives(s, "intro")
        /\ \/ /\ FormerSlots(p) \ {s} = {}
              /\ slots' = [known EXCEPT ![s] = Joining(@)]
           \/ \E t \in FormerSlots(p) \ {s} :
              LET former == Joining(slots[t])
              IN  slots' = IF former.client = Nobody
                           THEN [known EXCEPT ![t] = known[s], ![s] = former]
                           ELSE [known EXCEPT ![t] = former]
        /\ UNCHANGED <<serverVars, clientVars, bounds>>

\* In a slot that is not joining, a launch message only sends the settings around.
HandleLaunch(s) ==
    /\ Receives(s, "launch")
    /\ slots' = IF slots[s].join THEN [Taken(s) EXCEPT ![s].start = TRUE] ELSE Taken(s)
    /\ UNCHANGED <<serverVars, clientVars, bounds>>

Answered(s) == IF slots[s].up THEN [inbox EXCEPT ![slots[s].client] = @ + 1] ELSE inbox

\* Mutant of HandleReady: the answer is forgotten.
HandleReadySilently(s) ==
    /\ Receives(s, "ready")
    /\ slots' = IF slots[s].join
                THEN [Taken(s) EXCEPT ![s].ready = TRUE, ![s].join = FALSE, ![s].sent = FALSE]
                ELSE [Taken(s) EXCEPT ![s].unpause = TRUE]
    /\ UNCHANGED <<serverVars, clientVars, bounds>>

\* The first ready message of a joining client is answered, the second one is taken
\* for its resume message.
HandleReady(s) ==
    /\ Receives(s, "ready")
    /\ IF slots[s].join
       THEN /\ slots' = [Taken(s) EXCEPT ![s].ready = TRUE, ![s].join = FALSE,
                                         ![s].sent = FALSE]
            /\ inbox' = Answered(s)
       ELSE /\ slots' = [Taken(s) EXCEPT ![s].unpause = TRUE]
            /\ UNCHANGED inbox
    /\ UNCHANGED <<serverVars, phase, readyForJoin, loaded, bounds>>

\* Mutant of Close: the resume message of the last client stays.
CloseKeepsResume(s) ==
    /\ slots[s].client # Nobody /\ ~Connected(s)
    /\ slots' = [slots EXCEPT ![s].client = Nobody, ![s].ready = FALSE, ![s].join = FALSE,
                              ![s].sent = FALSE, ![s].pause = FALSE]
    /\ UNCHANGED <<serverVars, clientVars, bounds>>

\* close: the request to be launched is not among what it resets.
Close(s) ==
    /\ slots[s].client # Nobody /\ ~Connected(s)
    /\ slots' = [slots EXCEPT ![s].client = Nobody, ![s].ready = FALSE, ![s].join = FALSE,
                              ![s].sent = FALSE, ![s].pause = FALSE, ![s].unpause = FALSE]
    /\ UNCHANGED <<serverVars, clientVars, bounds>>
-----------------------------------------------------------------------------
(* The server's main thread.                                               *)

Advance ==
    /\ ~game.paused /\ frame < MaxFrame
    /\ frame' = frame + 1
    /\ UNCHANGED <<game, requests, ai, handled, saved, slots, clientVars, bounds>>

JoinerConnected == \E s \in Players : Connected(s) /\ ~slots[s].ready

\* Mutant of SetPaused: whether it was paused before is asked too late.
SetPausedTooEarly(g, r) ==
    IF g.forJoin /\ ~r.join /\ JoinerConnected THEN g
    ELSE IF r.pause
         THEN [g EXCEPT !.paused = TRUE, !.forJoin = r.join, !.pauseSent = FALSE,
                        !.before = r.join \/ @]
         ELSE [g EXCEPT !.paused = FALSE, !.forJoin = FALSE, !.before = FALSE]

\* Game::setPaused, on the server.
SetPaused(g, r) ==
    IF g.forJoin /\ ~r.join /\ JoinerConnected THEN g
    ELSE IF r.pause
         THEN [g EXCEPT !.paused = TRUE, !.forJoin = r.join, !.pauseSent = FALSE,
                        !.before = IF r.join THEN g.paused ELSE @]
         ELSE [g EXCEPT !.paused = FALSE, !.forJoin = FALSE, !.before = FALSE]

\* At a keyframe the requested commands are given.
GiveRequests ==
    /\ requests # <<>>
    /\ game' = FoldLeft(SetPaused, game, requests)
    /\ requests' = <<>>
    /\ UNCHANGED <<frame, ai, handled, saved, slots, clientVars, bounds>>

\* The player at the server, or the lag control, asks for a pause or a resume.
TryPauseToggle ==
    /\ toggles < MaxToggles
    /\ toggles' = toggles + 1
    /\ requests' = Append(requests, [pause |-> ~game.paused, join |-> FALSE])
    /\ UNCHANGED <<game, frame, ai, handled, saved, slots, clientVars, connects>>

\* ReplaceDisconnectedNetworkPlayersWithAI.
ReplaceDisconnected ==
    LET left == {s \in Players : s \notin handled \cup ai /\ ~Connected(s)}
    IN  /\ left # {}
        /\ ai' = ai \cup left
        /\ handled' = handled \cup left
        /\ UNCHANGED <<game, frame, requests, saved, slots, clientVars, bounds>>

PauseAsked == \E s \in Players : slots[s].pause
LaunchAsked == \E s \in Players : slots[s].start

\* Mutant of ResumeAsked: clients that are not ready do not count.
ResumeAskedByReady ==
    /\ \E s \in Players : Connected(s) /\ slots[s].ready
    /\ \A s \in Players : Connected(s) /\ slots[s].ready => slots[s].unpause

\* getUnPauseForInGameConnection
ResumeAsked ==
    /\ \E s \in Players : Connected(s)
    /\ \A s \in Players : Connected(s) => slots[s].ready /\ slots[s].unpause

Launching == LaunchAsked /\ ~PauseAsked

\* The AIs of joining players stop; a player that is gone again is looked at again.
StoppedAIs == {s \in Players : Launching /\ slots[s].join}
LookedAtAgain ==
    {s \in Players \ ai : Launching /\ ~slots[s].join /\ ~Connected(s)}

SettingsSent == [s \in Players |-> [slots[s] EXCEPT !.pause = FALSE]]

\* A launch was asked for, the match is not paused for it and no pause is on its way.
UpdateAsksPause ==
    /\ Launching /\ ~game.forJoin /\ ~game.pauseSent
    /\ requests' = Append(requests, [pause |-> TRUE, join |-> TRUE])
    /\ game' = [game EXCEPT !.pauseSent = TRUE]
    /\ ai' = ai \ StoppedAIs
    /\ handled' = handled \ LookedAtAgain
    /\ UNCHANGED <<frame, saved, slots, clientVars, bounds>>

\* Everyone is in: resume, unless the match had been paused before.
UpdateAsksResume ==
    LET resume == ~game.before /\ ~game.resumeSent
    IN  /\ game.forJoin /\ ResumeAsked
        /\ slots' = [s \in Players |-> [SettingsSent[s] EXCEPT !.unpause = FALSE]]
        /\ requests' = IF resume THEN Append(requests, [pause |-> FALSE, join |-> TRUE])
                       ELSE requests
        /\ game' = [game EXCEPT !.resumeSent = @ \/ resume]
        /\ ai' = ai \ StoppedAIs
        /\ handled' = handled \ (LookedAtAgain \cup {s \in Players : slots[s].unpause})
        /\ UNCHANGED <<frame, saved, clientVars, bounds>>

Unserved == {s \in Players : slots[s].join /\ ~slots[s].sent}
ToServe == {s \in Unserved : slots[s].start}
ResumeRequested == \E i \in DOMAIN requests : requests[i].join /\ ~requests[i].pause

\* The game is saved for the first slot that asked, and all joining clients are told.
UpdateSaves ==
    /\ game.forJoin /\ ~ResumeAsked /\ ToServe # {}
    /\ LET served == [s \in Players |->
                         [SettingsSent[s] EXCEPT !.sent = @ \/ s \in Unserved]]
       IN  slots' = [served EXCEPT ![Min(ToServe)].start = FALSE]
    /\ saved' = [at |-> frame, resuming |-> ResumeRequested]
    /\ inbox' = [p \in Players |->
                    IF \E s \in Unserved : slots[s].client = p /\ slots[s].up
                    THEN inbox[p] + 1 ELSE inbox[p]]
    /\ ai' = ai \ StoppedAIs
    /\ handled' = handled \ LookedAtAgain
    /\ UNCHANGED <<game, frame, requests, phase, readyForJoin, loaded, bounds>>

\* None of these; the settings may have to be sent.
UpdateOnly ==
    /\ game.forJoin => ~ResumeAsked /\ ToServe = {}
    /\ Launching => game.forJoin \/ game.pauseSent
    /\ slots' = SettingsSent
    /\ game' = [game EXCEPT !.resumeSent = @ /\ game.forJoin]
    /\ ai' = ai \ StoppedAIs
    /\ handled' = handled \ LookedAtAgain
    /\ UNCHANGED <<frame, requests, saved, clientVars, bounds>>

\* The end of Game::update.
UpdateJoins == UpdateAsksPause \/ UpdateAsksResume \/ UpdateSaves \/ UpdateOnly
-----------------------------------------------------------------------------
SlotNext(s) == HandleIntro(s) \/ HandleLaunch(s) \/ HandleReady(s) \/ Close(s)

ClientGoesOn(p) == LobbyReady(p) \/ LoadSavedGame(p) \/ EnterMatch(p)

Next ==
    \/ \E p \in Players :
        \/ \E s \in Players : Connect(p, s)
        \/ Launch(p) \/ ClientGoesOn(p) \/ Leave(p)
    \/ \E s \in Players : SlotNext(s)
    \/ Advance \/ GiveRequests \/ TryPauseToggle \/ ReplaceDisconnected \/ UpdateJoins

Spec == Init /\ [][Next]_vars

\* The threads of the slots, the main loop of the server and a client that joins go
\* on.  Nobody has to connect, to choose to join, to leave or to pause.
Fairness ==
    /\ \A s \in Players : WF_vars(SlotNext(s))
    /\ \A p \in Players : WF_vars(ClientGoesOn(p))
    /\ WF_vars(GiveRequests) /\ WF_vars(ReplaceDisconnected) /\ WF_vars(UpdateJoins)

FairSpec == Spec /\ Fairness
-----------------------------------------------------------------------------
(* Properties.                                                             *)

Slot == [client : Players \cup {Nobody}, up : BOOLEAN,
         inq : Seq({"intro", "launch", "ready"}), uuid : Players \cup {Nobody},
         ready : BOOLEAN, join : BOOLEAN, sent : BOOLEAN,
         pause : BOOLEAN, unpause : BOOLEAN, start : BOOLEAN]
Save == [at : 0 .. MaxFrame, resuming : BOOLEAN]

\* Type invariant; a client that is not away is connected to one slot.
TypeOK ==
    /\ game \in [paused : BOOLEAN, forJoin : BOOLEAN, before : BOOLEAN,
                 pauseSent : BOOLEAN, resumeSent : BOOLEAN]
    /\ frame \in 0 .. MaxFrame
    /\ requests \in Seq([pause : BOOLEAN, join : BOOLEAN])
    /\ ai \subseteq Players /\ handled \subseteq Players
    /\ saved \in Save /\ loaded \in [Players -> Save]
    /\ slots \in [Players -> Slot]
    /\ phase \in [Players -> Phases]
    /\ inbox \in [Players -> Nat]
    /\ readyForJoin \subseteq Players
    /\ connects \in 0 .. MaxConnects /\ toggles \in 0 .. MaxToggles
    /\ \A p \in Players : phase[p] # "away" =>
        \E s \in Players : \A t \in Players :
            slots[t].client = p /\ slots[t].up <=> t = s

\* Whatever slots were reused or changed places, a slot counts as ready only for a
\* client that has loaded the saved game, and holds a resume message only of one that
\* plays: flags of an earlier client never answer for the present one.
FlagsAreOfTheClient ==
    \A s \in Players : slots[s].client # Nobody /\ slots[s].up =>
        LET at == phase[slots[s].client]
        IN  /\ slots[s].ready => at \in {"waiting", "playing"}
            /\ slots[s].unpause => at = "playing"

\* The server's world stands still while a client loads the game that was saved for
\* it: the world it will start from is the server's, whoever else joins, leaves or
\* asks for a resume.  Excepted is a game that was saved between the request of a
\* resume and the keyframe at which it is given.
SavedWorldStandsStill ==
    \A p \in Players :
        phase[p] = "waiting" /\ ~loaded[p].resuming /\ inbox[p] = 0
            => loaded[p].at = frame

Joins(p) == \E s \in Players : slots[s].client = p /\ slots[s].up /\ slots[s].join

\* A player whose slot is joining and who chose to join gets a saved game and the
\* answer that lets it play, or leaves.
LaunchedPlayersGetIn ==
    \A p \in Players :
        phase[p] \in {"launched", "waiting"} /\ Joins(p) ~> phase[p] \in {"playing", "away"}

\* When every connected client has sent its resume message, a match that the players
\* have not paused goes on, unless another client comes or everyone leaves.  (A
\* resumeSent that is left over from an earlier pause is excepted: the server's main
\* loop forgets it only in an update that asks for no pause.)
EveryoneInResumes ==
    game.forJoin /\ toggles = 0 /\ ~game.resumeSent /\ ResumeAsked
        ~> ~game.paused \/ JoinerConnected \/ \A s \in Players : ~Connected(s)
=============================================================================
