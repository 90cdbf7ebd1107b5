------------------------------ MODULE Lockstep ------------------------------
(***************************************************************************)
(* The lockstep core of a network game.  Every machine simulates the same  *)
(* world; what keeps the worlds equal is that every machine gives the same *)
(* commands at the same world frame.  Commands asked for on any machine    *)
(* travel to the server, which at every keyframe (every FramePeriod        *)
(* frames) drains what was asked for, gives it to its own world and        *)
(* broadcasts it, tagged with the keyframe.  A client that reaches a       *)
(* keyframe waits for the list of that keyframe.                           *)
(*                                                                         *)
(* Modelled here: Game::update and Commander::updateNetwork on all         *)
(* machines, ServerInterface::updateKeyframe and the lag pause of          *)
(* ServerInterface::update, the command lists a ConnectionSlot receives,   *)
(* and the two threads of ClientInterface.  Joining a match in progress,   *)
(* the start of the match and the loss of a link seen by the client's      *)
(* threads are left to other modules; here a lost link just cuts the       *)
(* streams and the client may leave.                                       *)
(***************************************************************************)
EXTENDS Integers, Sequences, FiniteSets, SequencesExt

CONSTANTS
    Server,          \* the machine that hosts the match
    Clients,         \* the machines connected to it
    Orders,          \* unit orders the players may give, each at most once
    PlayerOf,        \* the machine whose player gives the order
    Admins,          \* machines whose player may pause and resume
    FramePeriod,     \* GameSettings::networkFramePeriod
    AllowedMaxFallback, \* frames a client may lag before it catches up
    MaxCatchUp,      \* bound: longest catch-up in updates; 0 = it never happens
    MaxFrame,        \* bound: the match ends at this frame
    MaxSwitches,     \* bound: pauses and resumes the players ask for
    MaxLagPauses,    \* MAX_CLIENT_PAUSE_FOR_LAG_COUNT
    MaxBroadcasts    \* bound: lists broadcast in the match

Hosts == Clients \cup {Server}
PauseCommands == {"pause", "resume"}
Commands == Orders \cup PauseCommands
Frames == 0 .. MaxFrame

\* Commander::updateNetwork: the frames at which commands are exchanged.  World
\* frame 0 is none of them: the first Game::update moves the world to frame 1.
Keyframes == {f \in 1 .. MaxFrame : f % FramePeriod = 0}

ASSUME HostsAssumption ==
    Server \notin Clients /\ Admins \subseteq Hosts
ASSUME OrdersAssumption ==
    Orders \cap PauseCommands = {} /\ PlayerOf \in [Orders -> Hosts]
ASSUME BoundsAssumption ==
    /\ FramePeriod \in Nat \ {0}
    /\ AllowedMaxFallback \in Nat /\ MaxCatchUp \in Nat
    /\ MaxFrame \in Nat /\ MaxSwitches \in Nat
    /\ MaxLagPauses \in Nat /\ MaxBroadcasts \in Nat

VARIABLES
    \* every machine
    frameCount,         \* World::frameCount
    paused,             \* Game::paused
    requestedCommands,  \* GameNetworkInterface::requestedCommands
    given,              \* history: the commands given to the world at each keyframe
    \* what the players did, for the bounds and the properties
    issued,             \* orders given so far
    switches,           \* pauses and resumes asked for by players so far
    \* the server
    clientsAutoPausedDueToLag,
    lagRequest,         \* Game::network{Pause,Resume}GameForLaggedClientsRequested
    lagPauses,          \* ConnectionSlot::autoPauseGameCountForLag
    pendingNetworkCommandList,  \* ConnectionSlot::vctPendingNetworkCommandList
    \* the connections
    linked,             \* the connection of the client is up
    toServer,           \* command lists in flight from the client
    broadcasts,         \* every list the server broadcast, in order
    sent,               \* how many of them were written to the client's connection
    received,           \* how many of them the client read from it
    \* the clients
    phase,              \* where Game::update stands, see Phases
    loopsLeft,          \* world updates still to do in this Game::update
    framesToCatchUp,    \* Game::framesToCatchUpAsClient
    cachedFrames,       \* the frames that have an entry in cachedPendingCommands
    cachedPendingCommands,
    cachedPendingCommandCRCs,
    cachedLastPendingFrameCount

worldVars == <<frameCount, paused, given>>
playerVars == <<issued, switches>>
lagVars == <<clientsAutoPausedDueToLag, lagRequest, lagPauses>>
upVars == <<pendingNetworkCommandList, toServer>>
downVars == <<broadcasts, sent>>
cacheVars == <<received, cachedFrames, cachedPendingCommands,
               cachedPendingCommandCRCs, cachedLastPendingFrameCount>>
loopVars == <<phase, loopsLeft, framesToCatchUp>>
vars == <<frameCount, paused, requestedCommands, given, issued, switches,
          clientsAutoPausedDueToLag, lagRequest, lagPauses,
          pendingNetworkCommandList, linked, toServer, broadcasts, sent,
          received, phase, loopsLeft, framesToCatchUp, cachedFrames,
          cachedPendingCommands, cachedPendingCommandCRCs, cachedLastPendingFrameCount>>

\* run:    between two world updates, or between two Game::updates
\* wait:   the main thread is in ClientInterface::getNetworkCommand
\* desync: the checksums differed, the client closed its connection
\* left:   the client saw that the connection is gone and quit the match
Phases == {"run", "wait", "desync", "left"}

History == [Keyframes -> Seq(Commands)]
NoCommands == [k \in Keyframes |-> <<>>]
-----------------------------------------------------------------------------
(* Operators.                                                              *)

\* Game::setPaused for each pause and resume of cmds in turn, from pause state p.
PausedAfter(p, cmds) ==
    \/ p /\ \A i \in 1 .. Len(cmds) : cmds[i] # "resume"
    \/ \E i \in 1 .. Len(cmds) :
          /\ cmds[i] = "pause"
          /\ \A j \in i + 1 .. Len(cmds) : cmds[j] # "resume"

\* GameNetworkInterface::requestCommand: unit moves are put in front.
WithRequest(queue, cmd, insertAtStart) ==
    IF insertAtStart THEN <<cmd>> \o queue ELSE Append(queue, cmd)

\* Both updateKeyframe of the server and update of the client take the
\* requested commands from the back of the vector until it is empty.
Drained(queue) == Reverse(queue)

\* history once cmds are given at keyframe f.
WithGiven(history, f, cmds) == [history EXCEPT ![f] = @ \o cmds]

\* The faction checksums of a machine at frame f.  The simulation is
\* deterministic, so the state its last world update started from is what the
\* commands of the earlier keyframes made it.
WorldCRC(history, f) ==
    [k \in Keyframes |-> IF k < f THEN history[k] ELSE <<>>]

CRCs == History
\* A list on the wire.  after is a history field, which nothing reads: all that
\* the server has given once it gave the commands of this list.
Lists == [frame : Keyframes, commands : Seq(Commands), crc : CRCs, after : History]
-----------------------------------------------------------------------------
Init ==
    /\ frameCount = [h \in Hosts |-> 0]
    /\ paused = [h \in Hosts |-> FALSE]
    /\ requestedCommands = [h \in Hosts |-> <<>>]
    /\ given = [h \in Hosts |-> NoCommands]
    /\ issued = {}
    /\ switches = 0
    /\ clientsAutoPausedDueToLag = FALSE
    /\ lagRequest = "none"
    /\ lagPauses = [c \in Clients |-> 0]
    /\ pendingNetworkCommandList = [c \in Clients |-> <<>>]
    /\ linked = [c \in Clients |-> TRUE]
    /\ toServer = [c \in Clients |-> <<>>]
    /\ broadcasts = <<>>
    /\ sent = [c \in Clients |-> 0]
    /\ received = [c \in Clients |-> 0]
    /\ phase = [c \in Clients |-> "run"]
    /\ loopsLeft = [c \in Clients |-> 0]
    /\ framesToCatchUp = [c \in Clients |-> 0]
    /\ cachedFrames = [c \in Clients |-> {}]
    /\ cachedPendingCommands = [c \in Clients |-> NoCommands]
    /\ cachedPendingCommandCRCs = [c \in Clients |-> [k \in Keyframes |-> <<>>]]
    /\ cachedLastPendingFrameCount = [c \in Clients |-> 0]
-----------------------------------------------------------------------------
(* What the players do: Commander::try*, which only ask for a command.     *)

\* The machine runs its main loop outside Game::update's world updates.
AtLeisure(h) == h \in Clients => phase[h] = "run" /\ loopsLeft[h] = 0

GiveOrder(h, o) ==
    /\ h = PlayerOf[o]
    /\ AtLeisure(h)
    /\ o \notin issued
    /\ issued' = issued \cup {o}
    /\ \E insertAtStart \in BOOLEAN :
          requestedCommands' = [requestedCommands EXCEPT ![h] =
                                  WithRequest(@, o, insertAtStart)]
    /\ UNCHANGED <<worldVars, switches, lagVars, upVars, linked, downVars,
                   loopVars, cacheVars>>

\* Game::tryPauseToggle on the machine of the host or of the admin.
TryPauseToggle(h) ==
    /\ h \in Admins
    /\ AtLeisure(h)
    /\ switches < MaxSwitches
    /\ switches' = switches + 1
    /\ \E cmd \in PauseCommands :
          requestedCommands' = [requestedCommands EXCEPT ![h] = Append(@, cmd)]
    /\ UNCHANGED <<worldVars, issued, lagVars, upVars, linked, downVars,
                   loopVars, cacheVars>>
-----------------------------------------------------------------------------
(* The server.                                                             *)

\* The frame the next Game::update of the server ends at: a paused world stands
\* still, and Commander::updateNetwork is called at the same frame again.
ServerFrame ==
    IF paused[Server] THEN frameCount[Server] ELSE frameCount[Server] + 1

\* Mutant of Broadcast: the checksums are taken after the commands are given.
BroadcastChecksumsAfterwards(f, cmds) ==
    LET after == WithGiven(given[Server], f, cmds) IN
    /\ Len(broadcasts) < MaxBroadcasts
    /\ broadcasts' = Append(broadcasts,
          [frame |-> f, commands |-> cmds, crc |-> WorldCRC(after, f + 1), after |-> after])
    /\ sent' = [c \in Clients |->
                   IF linked[c] THEN Len(broadcasts) + 1 ELSE sent[c]]

\* ServerInterface::updateKeyframe: broadcastMessage to every connected slot.
\* The checksums are those of the world before cmds are given.
Broadcast(f, cmds) ==
    /\ Len(broadcasts) < MaxBroadcasts
    /\ broadcasts' = Append(broadcasts,
          [frame |-> f, commands |-> cmds, crc |-> WorldCRC(given[Server], f),
           after |-> WithGiven(given[Server], f, cmds)])
    /\ sent' = [c \in Clients |->
                   IF linked[c] THEN Len(broadcasts) + 1 ELSE sent[c]]

\* Mutant of HoldBack: a list is held back although it carries commands.
HoldBackAny(cmds) ==
    /\ clientsAutoPausedDueToLag
    /\ broadcasts # <<>>
    /\ UNCHANGED downVars

\* An empty list is held back only while the server believes that it paused the
\* clients for lag, and then only until lastBroadcastCommandsTimer is due again.
\* The first list of the match starts that timer, so the first one is always sent;
\* whether it is due at a later keyframe is a free choice.
HoldBack(cmds) ==
    /\ cmds = <<>>
    /\ clientsAutoPausedDueToLag
    /\ broadcasts # <<>>
    /\ UNCHANGED downVars

\* Commander::updateNetwork gives the pending commands to the world, in order.
Give(h, f, cmds) ==
    /\ given' = [given EXCEPT ![h] = WithGiven(@, f, cmds)]
    /\ paused' = [paused EXCEPT ![h] = PausedAfter(@, cmds)]

\* The end of Game::update: a pause or resume that the lag check requested is
\* asked for if it changes the pause state; queue is what is asked for already.
AnswerLagRequest(queue, isPaused) ==
    /\ requestedCommands' = [requestedCommands EXCEPT ![Server] = queue \o
          CASE lagRequest = "pause" /\ ~isPaused -> <<"pause">>
            [] lagRequest = "resume" /\ isPaused -> <<"resume">>
            [] OTHER -> <<>>]
    /\ lagRequest' = "none"

\* Game::update on the server, ending at a frame that is no keyframe.
ServerUpdate ==
    /\ ServerFrame \in Frames \ Keyframes
    /\ frameCount' = [frameCount EXCEPT ![Server] = ServerFrame]
    /\ AnswerLagRequest(requestedCommands[Server], paused[Server])
    /\ UNCHANGED <<paused, given, playerVars, clientsAutoPausedDueToLag,
                   lagPauses, upVars, linked, downVars, loopVars, cacheVars>>

\* Game::update on the server, ending at a keyframe.
ServerKeyframe ==
    LET cmds == Drained(requestedCommands[Server]) IN
    /\ ServerFrame \in Keyframes
    /\ frameCount' = [frameCount EXCEPT ![Server] = ServerFrame]
    /\ Broadcast(ServerFrame, cmds) \/ HoldBack(cmds)
    /\ Give(Server, ServerFrame, cmds)
    /\ AnswerLagRequest(<<>>, PausedAfter(paused[Server], cmds))
    /\ UNCHANGED <<playerVars, clientsAutoPausedDueToLag, lagPauses, upVars,
                   linked, loopVars, cacheVars>>

\* Mutant of ExecuteNetworkCommandsFromClient: the slot's list is not cleared.
ExecuteNetworkCommandsAgain(c) ==
    /\ linked[c]
    /\ pendingNetworkCommandList[c] # <<>>
    /\ requestedCommands' = [requestedCommands EXCEPT ![Server] =
                                @ \o pendingNetworkCommandList[c]]
    /\ UNCHANGED <<worldVars, playerVars, lagVars, upVars, linked, downVars,
                   loopVars, cacheVars>>

\* ServerInterface::executeNetworkCommandsFromClients, for the slot of c.  Each
\* slot is drained under its own mutex.
ExecuteNetworkCommandsFromClient(c) ==
    /\ linked[c]
    /\ pendingNetworkCommandList[c] # <<>>
    /\ requestedCommands' = [requestedCommands EXCEPT ![Server] =
                                @ \o pendingNetworkCommandList[c]]
    /\ pendingNetworkCommandList' = [pendingNetworkCommandList EXCEPT ![c] = <<>>]
    /\ UNCHANGED <<worldVars, playerVars, lagVars, toServer, linked, downVars,
                   loopVars, cacheVars>>

\* ConnectionSlot::update reads a command list from the client.
SlotReceive(c) ==
    /\ linked[c]
    /\ toServer[c] # <<>>
    /\ toServer' = [toServer EXCEPT ![c] = Tail(@)]
    /\ pendingNetworkCommandList' = [pendingNetworkCommandList EXCEPT ![c] =
                                        @ \o Head(toServer[c])]
    /\ UNCHANGED <<worldVars, requestedCommands, playerVars, lagVars, linked,
                   downVars, loopVars, cacheVars>>

\* ServerInterface::checkForAutoPauseForLaggingClient for a client found lagging.
CheckForAutoPause(c) ==
    /\ linked[c]
    /\ ~clientsAutoPausedDueToLag
    /\ lagPauses[c] < MaxLagPauses
    /\ lagPauses' = [lagPauses EXCEPT ![c] = @ + 1]
    /\ clientsAutoPausedDueToLag' = TRUE
    /\ lagRequest' = "pause"
    /\ UNCHANGED <<worldVars, requestedCommands, playerVars, upVars, linked,
                   downVars, loopVars, cacheVars>>

\* ServerInterface::checkForAutoResumeForLaggingClients once its timer is due.
CheckForAutoResume ==
    /\ clientsAutoPausedDueToLag
    /\ clientsAutoPausedDueToLag' = FALSE
    /\ lagRequest' = "resume"
    /\ UNCHANGED <<worldVars, requestedCommands, playerVars, lagPauses, upVars,
                   linked, downVars, loopVars, cacheVars>>
-----------------------------------------------------------------------------
(* The clients.                                                            *)

\* ClientInterface::update sends the commands asked for on this machine.  Lists
\* without commands, sent once per keyframe, only feed the server's lag check.
ClientSend(c) ==
    /\ linked[c]
    /\ AtLeisure(c)
    /\ requestedCommands[c] # <<>>
    /\ toServer' = [toServer EXCEPT ![c] = Append(@, Drained(requestedCommands[c]))]
    /\ requestedCommands' = [requestedCommands EXCEPT ![c] = <<>>]
    /\ UNCHANGED <<worldVars, playerVars, lagVars, pendingNetworkCommandList,
                   linked, downVars, loopVars, cacheVars>>

\* What both mutants of ClientReceive share with it: one more list is read.
ReadOneList(c) ==
    LET f == broadcasts[received[c] + 1].frame IN
    /\ phase[c] \in {"run", "wait"}
    /\ received[c] < sent[c]
    /\ received' = [received EXCEPT ![c] = @ + 1]
    /\ cachedLastPendingFrameCount' = [cachedLastPendingFrameCount EXCEPT ![c] = f]
    /\ cachedFrames' = [cachedFrames EXCEPT ![c] = @ \cup {f}]
    /\ UNCHANGED <<worldVars, requestedCommands, playerVars, lagVars, upVars,
                   linked, downVars, loopVars>>

\* Mutant of ClientReceive: checksums are stored only with the first list of a frame.
ClientReceiveFirstChecksums(c) ==
    LET list == broadcasts[received[c] + 1]
        f == list.frame
    IN
    /\ ReadOneList(c)
    /\ cachedPendingCommands' = [cachedPendingCommands EXCEPT ![c][f] =
                                    @ \o list.commands]
    /\ cachedPendingCommandCRCs' =
          IF list.commands # <<>> /\ f \notin cachedFrames[c]
          THEN [cachedPendingCommandCRCs EXCEPT ![c][f] = <<list.crc>>]
          ELSE cachedPendingCommandCRCs

\* Mutant of ClientReceive: a list replaces the stored commands of its frame.
ClientReceiveReplaces(c) ==
    LET list == broadcasts[received[c] + 1] IN
    /\ ReadOneList(c)
    /\ cachedPendingCommands' = [cachedPendingCommands EXCEPT
                                    ![c][list.frame] = list.commands]
    /\ cachedPendingCommandCRCs' = [cachedPendingCommandCRCs EXCEPT ![c][list.frame] =
                                       IF list.commands = <<>> THEN <<>> ELSE <<list.crc>>]

\* ClientInterface::updateFrame, on the network thread: one list is stored under
\* networkCommandListThreadAccessor.  The checksums of a frame are those of its
\* first list that carries commands.
ClientReceive(c) ==
    LET list == broadcasts[received[c] + 1]
        f == list.frame
    IN
    /\ phase[c] \in {"run", "wait"}
    /\ received[c] < sent[c]
    /\ received' = [received EXCEPT ![c] = @ + 1]
    /\ cachedLastPendingFrameCount' = [cachedLastPendingFrameCount EXCEPT ![c] = f]
    /\ cachedFrames' = [cachedFrames EXCEPT ![c] = @ \cup {f}]
    /\ cachedPendingCommands' = [cachedPendingCommands EXCEPT ![c][f] =
                                    @ \o list.commands]
    /\ cachedPendingCommandCRCs' =
          IF list.commands # <<>> /\ cachedPendingCommandCRCs[c][f] = <<>>
          THEN [cachedPendingCommandCRCs EXCEPT ![c][f] = <<list.crc>>]
          ELSE cachedPendingCommandCRCs
    /\ UNCHANGED <<worldVars, requestedCommands, playerVars, lagVars, upVars,
                   linked, downVars, loopVars>>

\* The smoothing at the start of Game::update: how many updates the client does
\* at double speed from here on.  The code wants the client to have lagged by more
\* than AllowedMaxFallback at each keyframe of an interval; here once is enough.
FramesToCatchUp(c) ==
    {framesToCatchUp[c]} \cup
        IF /\ frameCount[c] >= 2 * FramePeriod
           /\ cachedLastPendingFrameCount[c] > frameCount[c] + AllowedMaxFallback
        THEN 1 .. MaxCatchUp ELSE {}

\* Mutant of WorldUpdate: keyframes are not waited at.
WorldUpdateOnly(c) ==
    /\ phase[c] = "run"
    /\ frameCount[c] + 1 \in Frames
    /\ frameCount' = [frameCount EXCEPT ![c] = @ + 1]
    /\ UNCHANGED <<paused, given, requestedCommands, playerVars, lagVars, upVars,
                   linked, downVars, phase, cacheVars>>

\* World::update, then at a keyframe ClientInterface::updateKeyframe, which waits
\* for the list of the frame.
WorldUpdate(c) ==
    LET f == frameCount[c] + 1 IN
    /\ phase[c] = "run"
    /\ f \in Frames
    /\ frameCount' = [frameCount EXCEPT ![c] = f]
    /\ phase' = [phase EXCEPT ![c] = IF f \in Keyframes THEN "wait" ELSE "run"]
    /\ UNCHANGED <<paused, given, requestedCommands, playerVars, lagVars, upVars,
                   linked, downVars, cacheVars>>

\* Mutant of ClientUpdate: the updates to catch up are counted down past zero.
ClientUpdateCountsDown(c) ==
    /\ AtLeisure(c)
    /\ ~paused[c]
    /\ \E n \in FramesToCatchUp(c) :
          /\ loopsLeft' = [loopsLeft EXCEPT ![c] = IF n > 0 THEN 1 ELSE 0]
          /\ framesToCatchUp' = [framesToCatchUp EXCEPT ![c] = n - 1]
    /\ WorldUpdate(c)

\* The first pass of the loop in Game::update.  The number of passes is fixed
\* before it, from the pause state at that time: two while the client catches up.
ClientUpdate(c) ==
    /\ AtLeisure(c)
    /\ ~paused[c]
    /\ \E n \in FramesToCatchUp(c) :
          /\ loopsLeft' = [loopsLeft EXCEPT ![c] = IF n > 0 THEN 1 ELSE 0]
          /\ framesToCatchUp' = [framesToCatchUp EXCEPT ![c] = IF n > 0 THEN n - 1 ELSE 0]
    /\ WorldUpdate(c)

\* The second pass: the loop does not look at the pause state again.
ClientSecondLoop(c) ==
    /\ loopsLeft[c] > 0
    /\ loopsLeft' = [loopsLeft EXCEPT ![c] = 0]
    /\ WorldUpdate(c)
    /\ UNCHANGED framesToCatchUp

\* Mutant of ClientIdleUpdate: a paused game does not look for commands.
ClientIdleUpdateUnpaused(c) ==
    /\ AtLeisure(c)
    /\ frameCount[c] \in Keyframes
    /\ ~paused[c] /\ frameCount[c] >= 2 * FramePeriod
    /\ phase' = [phase EXCEPT ![c] = "wait"]
    /\ UNCHANGED <<worldVars, requestedCommands, playerVars, lagVars, upVars,
                   linked, downVars, loopsLeft, framesToCatchUp, cacheVars>>

\* Game::update without a world update, because the world is paused or the client
\* slows down: Commander::updateNetwork looks at the same keyframe again.
ClientIdleUpdate(c) ==
    /\ AtLeisure(c)
    /\ frameCount[c] \in Keyframes
    /\ paused[c] \/ frameCount[c] >= 2 * FramePeriod
    /\ phase' = [phase EXCEPT ![c] = "wait"]
    /\ UNCHANGED <<worldVars, requestedCommands, playerVars, lagVars, upVars,
                   linked, downVars, loopsLeft, framesToCatchUp, cacheVars>>

\* Mutants of ClientTake: the entry keeps its commands; they are given from the back.
ClientTakeKeeps(c) ==
    /\ phase[c] = "wait"
    /\ frameCount[c] \in cachedFrames[c]
    /\ Give(c, frameCount[c], cachedPendingCommands[c][frameCount[c]])
    /\ phase' = [phase EXCEPT ![c] = "run"]
    /\ UNCHANGED <<frameCount, requestedCommands, playerVars, lagVars, upVars, linked,
                   downVars, loopsLeft, framesToCatchUp, cacheVars>>
ClientTakeFromBack(c) ==
    LET f == frameCount[c] IN
    /\ phase[c] = "wait"
    /\ f \in cachedFrames[c]
    /\ Give(c, f, Reverse(cachedPendingCommands[c][f]))
    /\ cachedPendingCommands' = [cachedPendingCommands EXCEPT ![c][f] = <<>>]
    /\ cachedPendingCommandCRCs' = [cachedPendingCommandCRCs EXCEPT ![c][f] = <<>>]
    /\ phase' = [phase EXCEPT ![c] = "run"]
    /\ UNCHANGED <<frameCount, requestedCommands, playerVars, lagVars, upVars, linked,
                   downVars, loopsLeft, framesToCatchUp, received, cachedFrames,
                   cachedLastPendingFrameCount>>

\* ClientInterface::getNetworkCommand finds an entry for the frame; its commands
\* are given.  The checksums are compared only if there are commands, and a
\* difference ends the client's match although the commands are given.
ClientTake(c) ==
    LET f == frameCount[c]
        cmds == cachedPendingCommands[c][f]
        differs == /\ cmds # <<>>
                   /\ cachedPendingCommandCRCs[c][f] # <<WorldCRC(given[c], f)>>
    IN
    /\ phase[c] = "wait"
    /\ f \in cachedFrames[c]
    /\ Give(c, f, cmds)
    /\ cachedPendingCommands' = [cachedPendingCommands EXCEPT ![c][f] = <<>>]
    /\ cachedPendingCommandCRCs' = [cachedPendingCommandCRCs EXCEPT ![c][f] = <<>>]
    /\ phase' = [phase EXCEPT ![c] = IF differs THEN "desync" ELSE "run"]
    /\ linked' = [linked EXCEPT ![c] = @ /\ ~differs]
    /\ UNCHANGED <<frameCount, requestedCommands, playerVars, lagVars, upVars,
                   downVars, loopsLeft, framesToCatchUp, received, cachedFrames,
                   cachedLastPendingFrameCount>>

\* Mutant of ClientSkip: the client does not wait for the server to be past the frame.
ClientSkipAtOnce(c) ==
    /\ phase[c] = "wait"
    /\ frameCount[c] \notin cachedFrames[c]
    /\ phase' = [phase EXCEPT ![c] = "run"]
    /\ UNCHANGED <<worldVars, requestedCommands, playerVars, lagVars, upVars,
                   linked, downVars, loopsLeft, framesToCatchUp, cacheVars>>

\* getNetworkCommand finds no entry, but the server already sent a later frame.
ClientSkip(c) ==
    /\ phase[c] = "wait"
    /\ frameCount[c] \notin cachedFrames[c]
    /\ cachedLastPendingFrameCount[c] > frameCount[c]
    /\ phase' = [phase EXCEPT ![c] = "run"]
    /\ UNCHANGED <<worldVars, requestedCommands, playerVars, lagVars, upVars,
                   linked, downVars, loopsLeft, framesToCatchUp, cacheVars>>

\* The connection of the client breaks.  What was in flight from the server may
\* still arrive up to some point; nothing more of the client's does.
LinkLost(c) ==
    /\ linked[c]
    /\ linked' = [linked EXCEPT ![c] = FALSE]
    /\ \E n \in received[c] .. sent[c] : sent' = [sent EXCEPT ![c] = n]
    /\ UNCHANGED <<worldVars, requestedCommands, playerVars, lagVars, upVars,
                   broadcasts, loopVars, cacheVars>>

\* ClientInterface::waitForMessage sees the broken connection: quit and close.
ClientLeave(c) ==
    /\ ~linked[c]
    /\ phase[c] \in {"run", "wait"}
    /\ phase' = [phase EXCEPT ![c] = "left"]
    /\ UNCHANGED <<worldVars, requestedCommands, playerVars, lagVars, upVars,
                   linked, downVars, loopsLeft, framesToCatchUp, cacheVars>>
-----------------------------------------------------------------------------
PlayerNext ==
    \/ \E h \in Hosts, o \in Orders : GiveOrder(h, o)
    \/ \E h \in Hosts : TryPauseToggle(h)

ServerNext ==
    \/ ServerUpdate
    \/ ServerKeyframe
    \/ CheckForAutoResume
    \/ \E c \in Clients : \/ ExecuteNetworkCommandsFromClient(c)
                          \/ SlotReceive(c)
                          \/ CheckForAutoPause(c)

ClientNext(c) ==
    \/ ClientSend(c)
    \/ ClientReceive(c)
    \/ ClientUpdate(c)
    \/ ClientSecondLoop(c)
    \/ ClientIdleUpdate(c)
    \/ ClientTake(c)
    \/ ClientSkip(c)
    \/ ClientLeave(c)

Next ==
    \/ PlayerNext
    \/ ServerNext
    \/ \E c \in Clients : ClientNext(c) \/ LinkLost(c)

Spec == Init /\ [][Next]_vars

\* Each thread of a client and of the server keeps running while it has work:
\* the network thread reads what arrived, and the main loop calls Game::update
\* again and again.  A client slows down for a bounded number of updates, so an
\* unpaused client's world update is taken although idle updates come between.
Fairness ==
    /\ \A c \in Clients :
          /\ WF_vars(ClientReceive(c))
          /\ WF_vars(ClientTake(c) \/ ClientSkip(c))
          /\ SF_vars(ClientUpdate(c) \/ ClientSecondLoop(c))
          /\ WF_vars(paused[c] /\ ClientIdleUpdate(c))
          /\ WF_vars(ClientSend(c))
          /\ WF_vars(SlotReceive(c))
          /\ WF_vars(ExecuteNetworkCommandsFromClient(c))
    /\ WF_vars(ServerUpdate \/ ServerKeyframe)

FairSpec == Spec /\ Fairness
-----------------------------------------------------------------------------
(* Properties.                                                             *)

\* Type invariant of every variable of the module, with the bounds on counters
\* and the order of the positions in a connection's stream.
WorldTypeOK ==
    /\ frameCount \in [Hosts -> Frames]
    /\ paused \in [Hosts -> BOOLEAN]
    /\ requestedCommands \in [Hosts -> Seq(Commands)]
    /\ given \in [Hosts -> History]
ServerTypeOK ==
    /\ issued \subseteq Orders
    /\ switches \in 0 .. MaxSwitches
    /\ clientsAutoPausedDueToLag \in BOOLEAN
    /\ lagRequest \in {"none", "pause", "resume"}
    /\ lagPauses \in [Clients -> 0 .. MaxLagPauses]
    /\ pendingNetworkCommandList \in [Clients -> Seq(Commands)]
LinkTypeOK ==
    /\ linked \in [Clients -> BOOLEAN]
    /\ toServer \in [Clients -> Seq(Seq(Commands))]
    /\ broadcasts \in Seq(Lists)
    /\ Len(broadcasts) <= MaxBroadcasts
    /\ sent \in [Clients -> Nat]
    /\ received \in [Clients -> Nat]
    /\ \A c \in Clients : received[c] <= sent[c] /\ sent[c] <= Len(broadcasts)
LoopTypeOK ==
    /\ phase \in [Clients -> Phases]
    /\ loopsLeft \in [Clients -> {0, 1}]
    /\ framesToCatchUp \in [Clients -> 0 .. MaxCatchUp]
CacheTypeOK ==
    /\ cachedFrames \in [Clients -> SUBSET Keyframes]
    /\ cachedPendingCommands \in [Clients -> History]
    /\ cachedPendingCommandCRCs \in [Clients -> [Keyframes -> Seq(CRCs)]]
    /\ cachedLastPendingFrameCount \in [Clients -> Keyframes \cup {0}]
TypeOK == WorldTypeOK /\ ServerTypeOK /\ LinkTypeOK /\ LoopTypeOK /\ CacheTypeOK

\* At every keyframe a client has given a prefix of what the server has given
\* there: no command is given at another frame, twice, or in another order.
SameCommandsInOrder ==
    \A c \in Clients, k \in Keyframes : IsPrefix(given[c][k], given[Server][k])

\* A client whose world moved past a keyframe has given all that the server ever
\* gives there: a world never runs on without a command.
NothingMissedBehind ==
    \A c \in Clients, k \in Keyframes :
        k < frameCount[c] => given[c][k] = given[Server][k]

\* No client finds a difference of checksums: the lists a client stored while it
\* was behind carry the checksums of the state it is in when it gives them.
NoFalseDesync == \A c \in Clients : phase[c] # "desync"

\* An entry with commands always has checksums beside it: getNetworkCommand
\* indexes cachedPendingCommandCRCs[frame] without looking whether it is empty.
ChecksumsBesideCommands ==
    \A c \in Clients, k \in Keyframes :
        cachedPendingCommands[c][k] # <<>> <=> cachedPendingCommandCRCs[c][k] # <<>>

\* A client's world may run ahead of the server's between two keyframes, but never
\* past a keyframe that the server has not reached.
ServerReachesFirst ==
    \A c \in Clients, k \in Keyframes :
        frameCount[c] > k => frameCount[Server] >= k

\* The sum of a function's values.
SumOf(g) == MapThenSumSet(LAMBDA x : g[x], DOMAIN g)

\* The copies of an order in a queue, in lists and in a history.
Copies(queue, o) == Cardinality({i \in DOMAIN queue : queue[i] = o})
CopiesInLists(lists, o) == SumOf([i \in DOMAIN lists |-> Copies(lists[i], o)])
CopiesGiven(history, o) == SumOf([k \in Keyframes |-> Copies(history[k], o)])

\* Those on their way from client c, and those that reached the server.
CopiesFrom(c, o) ==
    Copies(requestedCommands[c], o) + CopiesInLists(toServer[c], o)
    + Copies(pendingNetworkCommandList[c], o)
CopiesAtServer(o) ==
    Copies(requestedCommands[Server], o) + CopiesGiven(given[Server], o)

\* The copies of an order on its way from the player to the server's world.
CopiesUpstream(o) ==
    CopiesAtServer(o) + IF PlayerOf[o] = Server THEN 0 ELSE CopiesFrom(PlayerOf[o], o)

\* An order that a player gave is in exactly one place until the server's world
\* gives it, and then in no other: none is lost while its player's connection
\* is up, and none is given twice.
OrdersConserved ==
    \A o \in Orders :
        /\ CopiesUpstream(o) <= IF o \in issued THEN 1 ELSE 0
        /\ o \in issued /\ (PlayerOf[o] = Server \/ linked[PlayerOf[o]])
              => CopiesUpstream(o) = 1

\* The lockstep protocol implements a replicated log: no machine runs past a
\* keyframe without having given everything that is ever given there.
Log == INSTANCE ReplicatedLog WITH
          Leader <- Server, Followers <- Clients, Entries <- Commands,
          Slots <- Keyframes, LastTick <- MaxFrame,
          clock <- frameCount, applied <- given
ImplementsLog == Log!Spec

\* A world that is paused does not move: Game::update makes no world update
\* while the game is paused.
PausedWorldStandsStill ==
    [][\A h \in Hosts : paused[h] => frameCount'[h] = frameCount[h]]_vars

GivenAt(h, o) == \E k \in Keyframes : Copies(given[h][k], o) > 0

\* An order given to the server's world is given to the world of every client
\* whose connection stays up.
OrdersReachEveryClient ==
    \A c \in Clients, o \in Orders :
        GivenAt(Server, o) ~> GivenAt(c, o) \/ ~linked[c]

\* A client does not stay paused, or waiting, behind a server that moved on.
ClientsFollow ==
    \A c \in Clients, k \in Keyframes :
        (\E i \in 1 .. Len(broadcasts) : broadcasts[i].frame > k)
            ~> frameCount[c] > k \/ ~linked[c]
=============================================================================
