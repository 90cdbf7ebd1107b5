--------------------------- MODULE LockstepProofs ---------------------------
(***************************************************************************)
(* Proofs about the lockstep for any number of clients and orders, any     *)
(* frame period and any bounds: its types, that commands stay in order,    *)
(* that checksums are there and agree, that no world runs ahead or on      *)
(* without a command, that the exchange implements ReplicatedLog, and that *)
(* no order is lost or doubled on its way to the server's world.           *)
(***************************************************************************)
EXTENDS LockstepInvariant, FoldTheorems, FiniteSetTheorems, SequenceTheorems, TLAPS

\* Draining a queue keeps it a sequence of commands.
LEMMA DrainedType ==
    ASSUME NEW queue \in Seq(Commands)
    PROVE  Drained(queue) \in Seq(Commands)
  BY DEF Drained, Reverse

\* The checksum of a world is a checksum.
LEMMA CRCType ==
    ASSUME NEW history \in History, NEW f \in Nat
    PROVE  WorldCRC(history, f) \in CRCs
  BY DEF WorldCRC, CRCs, History

\* A world that was given nothing has a history.
LEMMA EmptyHistory == NoCommands \in History
  BY DEF NoCommands, History

\* Every variable has its type before the first update.
LEMMA TypeInit == Init => TypeOK
  <1> SUFFICES ASSUME Init PROVE TypeOK
    OBVIOUS
  <1> USE BoundsAssumption DEF Init
  <1>1. WorldTypeOK
    BY EmptyHistory DEF WorldTypeOK, Frames
  <1>2. ServerTypeOK
    <2>1. /\ issued \subseteq Orders /\ clientsAutoPausedDueToLag \in BOOLEAN
          /\ lagRequest \in {"none", "pause", "resume"}
      OBVIOUS
    <2>2. /\ switches \in 0 .. MaxSwitches
          /\ lagPauses \in [Clients -> 0 .. MaxLagPauses]
          /\ pendingNetworkCommandList \in [Clients -> Seq(Commands)]
      OBVIOUS
    <2> QED BY <2>1, <2>2 DEF ServerTypeOK
  <1>3. LinkTypeOK
    BY DEF LinkTypeOK
  <1>4. LoopTypeOK
    BY DEF LoopTypeOK, Phases
  <1>5. CacheTypeOK
    <2>1. [k \in Keyframes |-> <<>>] \in [Keyframes -> Seq(CRCs)]
      OBVIOUS
    <2>2. cachedPendingCommandCRCs \in [Clients -> [Keyframes -> Seq(CRCs)]]
      BY <2>1
    <2>3. cachedPendingCommands \in [Clients -> History]
      BY EmptyHistory
    <2> QED BY <2>2, <2>3 DEF CacheTypeOK
  <1> QED BY <1>1, <1>2, <1>3, <1>4, <1>5 DEF TypeOK

-----------------------------------------------------------------------------
(* Type correctness of every step, one lemma per action.                   *)

\* The hosts, keyframes and commands, as the type proofs use them.
LEMMA HostsFacts ==
    /\ Server \in Hosts /\ Server \notin Clients
    /\ \A c \in Clients : c \in Hosts
    /\ \A k \in Keyframes : k \in Frames /\ k \in Nat
    /\ \A o \in Orders : o \in Commands
    /\ "pause" \in Commands /\ "resume" \in Commands
  BY HostsAssumption, BoundsAssumption
     DEF Hosts, Keyframes, Frames, Commands, PauseCommands

\* Requesting a command keeps a queue a sequence of commands.
LEMMA RequestType ==
    ASSUME NEW queue \in Seq(Commands), NEW cmd \in Commands, NEW b \in BOOLEAN
    PROVE  WithRequest(queue, cmd, b) \in Seq(Commands)
  BY DEF WithRequest

\* A player's order only lengthens the queue of requested commands.
LEMMA GiveOrderType ==
    ASSUME TypeOK, NEW h \in Hosts, NEW o \in Orders, GiveOrder(h, o)
    PROVE  TypeOK'
  <1> USE HostsFacts DEF TypeOK, GiveOrder, worldVars, lagVars, upVars, downVars,
                         loopVars, cacheVars
  <1>1. PICK b \in BOOLEAN :
            requestedCommands' = [requestedCommands EXCEPT ![h] = WithRequest(@, o, b)]
    OBVIOUS
  <1>2. WithRequest(requestedCommands[h], o, b) \in Seq(Commands)
    BY RequestType DEF WorldTypeOK
  <1>3. WorldTypeOK'
    BY <1>1, <1>2 DEF WorldTypeOK
  <1>4. ServerTypeOK'
    BY DEF ServerTypeOK
  <1>5. LinkTypeOK' /\ LoopTypeOK' /\ CacheTypeOK'
    BY DEF LinkTypeOK, LoopTypeOK, CacheTypeOK
  <1> QED BY <1>3, <1>4, <1>5

\* A player's pause only requests a command.
LEMMA TryPauseToggleType ==
    ASSUME TypeOK, NEW h \in Hosts, TryPauseToggle(h)
    PROVE  TypeOK'
  <1> USE HostsFacts, BoundsAssumption
      DEF TypeOK, TryPauseToggle, PauseCommands, worldVars, lagVars, upVars,
          downVars, loopVars, cacheVars
  <1>1. WorldTypeOK'
    BY DEF WorldTypeOK
  <1>2. ServerTypeOK'
    BY DEF ServerTypeOK
  <1>3. LinkTypeOK' /\ LoopTypeOK' /\ CacheTypeOK'
    BY DEF LinkTypeOK, LoopTypeOK, CacheTypeOK
  <1> QED BY <1>1, <1>2, <1>3

\* What giving commands to a world does to the history and the pause state.
LEMMA WithGivenType ==
    ASSUME NEW history \in History, NEW f \in Keyframes, NEW cmds \in Seq(Commands)
    PROVE  /\ WithGiven(history, f, cmds) \in History
           /\ WithGiven(history, f, cmds)[f] = history[f] \o cmds
           /\ \A k \in Keyframes \ {f} : WithGiven(history, f, cmds)[k] = history[k]
  <1>1. history[f] \o cmds \in Seq(Commands)
    BY DEF History
  <1> QED BY <1>1 DEF History, WithGiven

\* A world stays typed when commands are given to it.
LEMMA GiveType ==
    ASSUME WorldTypeOK, NEW h \in Hosts, NEW f \in Keyframes,
           NEW cmds \in Seq(Commands), Give(h, f, cmds)
    PROVE  /\ given' \in [Hosts -> History]
           /\ paused' \in [Hosts -> BOOLEAN]
           /\ given'[h][f] = given[h][f] \o cmds
           /\ \A k \in Keyframes \ {f} : given'[h][k] = given[h][k]
           /\ \A g \in Hosts \ {h} : given'[g] = given[g] /\ paused'[g] = paused[g]
           /\ paused'[h] = PausedAfter(paused[h], cmds)
  <1> USE DEF WorldTypeOK, Give
  <1>1. given[h] \in History
    OBVIOUS
  <1>2. /\ WithGiven(given[h], f, cmds) \in History
        /\ WithGiven(given[h], f, cmds)[f] = given[h][f] \o cmds
        /\ \A k \in Keyframes \ {f} : WithGiven(given[h], f, cmds)[k] = given[h][k]
    BY <1>1, WithGivenType
  <1>3. given' \in [Hosts -> History] /\ given'[h] = WithGiven(given[h], f, cmds)
    BY <1>2
  <1>4. PausedAfter(paused[h], cmds) \in BOOLEAN
    BY DEF PausedAfter
  <1>5. paused' \in [Hosts -> BOOLEAN] /\ paused'[h] = PausedAfter(paused[h], cmds)
    BY <1>4
  <1>6. /\ given'[h][f] = given[h][f] \o cmds
        /\ \A k \in Keyframes \ {f} : given'[h][k] = given[h][k]
        /\ \A g \in Hosts \ {h} : given'[g] = given[g] /\ paused'[g] = paused[g]
    BY <1>2, <1>3
  <1> QED BY <1>3, <1>5, <1>6

\* What a broadcast does to the list of broadcasts.
LEMMA BroadcastType ==
    ASSUME WorldTypeOK, LinkTypeOK, NEW f \in Keyframes,
           NEW cmds \in Seq(Commands), Broadcast(f, cmds)
    PROVE  LET list == [frame |-> f, commands |-> cmds,
                        crc |-> WorldCRC(given[Server], f),
                        after |-> WithGiven(given[Server], f, cmds)]
           IN /\ list \in Lists
              /\ broadcasts' = Append(broadcasts, list)
              /\ broadcasts' \in Seq(Lists)
              /\ Len(broadcasts') = Len(broadcasts) + 1
              /\ Len(broadcasts') <= MaxBroadcasts
              /\ sent' \in [Clients -> Nat]
              /\ \A c \in Clients : sent[c] <= sent'[c] /\ sent'[c] <= Len(broadcasts')
  <1> DEFINE after == WithGiven(given[Server], f, cmds)
             list == [frame |-> f, commands |-> cmds,
                      crc |-> WorldCRC(given[Server], f), after |-> after]
  <1>1. given[Server] \in History
    BY HostsFacts DEF WorldTypeOK
  <1>2. after \in History
    BY <1>1, WithGivenType
  <1>3. WorldCRC(given[Server], f) \in CRCs
    BY <1>1, CRCType, HostsFacts
  <1>4. list \in Lists
    BY <1>2, <1>3 DEF Lists
  <1> HIDE DEF after
  <1>5. broadcasts' = Append(broadcasts, list)
    BY DEF Broadcast, after
  <1> HIDE DEF list
  <1>6. /\ broadcasts' \in Seq(Lists)
        /\ Len(broadcasts') = Len(broadcasts) + 1
    BY <1>4, <1>5 DEF LinkTypeOK
  <1>7. /\ Len(broadcasts') <= MaxBroadcasts
        /\ sent' \in [Clients -> Nat]
        /\ \A c \in Clients : sent[c] <= sent'[c] /\ sent'[c] <= Len(broadcasts')
    BY <1>6, BoundsAssumption DEF LinkTypeOK, Broadcast
  <1> QED BY <1>4, <1>5, <1>6, <1>7 DEF list, after

\* The answer to the lag check requests a pause command or nothing.
LEMMA AnswerType ==
    ASSUME WorldTypeOK, NEW queue \in Seq(Commands), NEW isPaused \in BOOLEAN,
           AnswerLagRequest(queue, isPaused)
    PROVE  /\ requestedCommands' \in [Hosts -> Seq(Commands)]
           /\ lagRequest' \in {"none", "pause", "resume"}
  <1> DEFINE answer == CASE lagRequest = "pause" /\ ~isPaused -> <<"pause">>
                         [] lagRequest = "resume" /\ isPaused -> <<"resume">>
                         [] OTHER -> <<>>
  <1>1. answer \in Seq(Commands)
    BY HostsFacts
  <1> HIDE DEF answer
  <1>2. queue \o answer \in Seq(Commands)
    BY <1>1
  <1>3. requestedCommands' = [requestedCommands EXCEPT ![Server] = queue \o answer]
    BY DEF AnswerLagRequest, answer
  <1> QED BY <1>2, <1>3 DEF WorldTypeOK, AnswerLagRequest

\* The frame of the server's world is a number.
LEMMA ServerFrameType ==
    ASSUME WorldTypeOK PROVE ServerFrame \in Nat
  BY HostsFacts DEF WorldTypeOK, ServerFrame, Frames

\* An update of the server between keyframes keeps the types.
LEMMA ServerUpdateType ==
    ASSUME TypeOK, ServerUpdate
    PROVE  TypeOK'
  <1> USE HostsFacts DEF TypeOK, ServerUpdate, playerVars, upVars, downVars,
                         loopVars, cacheVars
  <1>1. requestedCommands[Server] \in Seq(Commands) /\ paused[Server] \in BOOLEAN
    BY DEF WorldTypeOK
  <1>2. /\ requestedCommands' \in [Hosts -> Seq(Commands)]
        /\ lagRequest' \in {"none", "pause", "resume"}
    BY <1>1, AnswerType
  <1>3. WorldTypeOK'
    BY <1>2 DEF WorldTypeOK
  <1>4. ServerTypeOK'
    BY <1>2 DEF ServerTypeOK
  <1>5. LinkTypeOK' /\ LoopTypeOK' /\ CacheTypeOK'
    BY DEF LinkTypeOK, LoopTypeOK, CacheTypeOK
  <1> QED BY <1>3, <1>4, <1>5

\* So does its keyframe, with the broadcast and the server's own commands.
LEMMA ServerKeyframeType ==
    ASSUME TypeOK, ServerKeyframe
    PROVE  TypeOK'
  <1> DEFINE cmds == Drained(requestedCommands[Server])
  <1> USE HostsFacts DEF TypeOK
  <1>1. cmds \in Seq(Commands)
    BY DrainedType DEF WorldTypeOK
  <1>2. ServerFrame \in Keyframes /\ PausedAfter(paused[Server], cmds) \in BOOLEAN
    BY DEF ServerKeyframe, PausedAfter
  <1>3. /\ given' \in [Hosts -> History]
        /\ paused' \in [Hosts -> BOOLEAN]
    BY <1>1, <1>2, GiveType DEF ServerKeyframe
  <1>4. /\ requestedCommands' \in [Hosts -> Seq(Commands)]
        /\ lagRequest' \in {"none", "pause", "resume"}
    <2>1. <<>> \in Seq(Commands)
      OBVIOUS
    <2>2. AnswerLagRequest(<<>>, PausedAfter(paused[Server], cmds))
      BY DEF ServerKeyframe
    <2> QED BY <1>2, <2>1, <2>2, AnswerType
  <1>5. WorldTypeOK'
    BY <1>2, <1>3, <1>4 DEF WorldTypeOK, ServerKeyframe
  <1>6. ServerTypeOK'
    BY <1>4 DEF ServerTypeOK, ServerKeyframe, playerVars, upVars
  <1>7. LinkTypeOK'
    <2>1. CASE Broadcast(ServerFrame, cmds)
      <3>1. /\ broadcasts' \in Seq(Lists)
            /\ Len(broadcasts') <= MaxBroadcasts
            /\ sent' \in [Clients -> Nat]
            /\ \A c \in Clients : sent[c] <= sent'[c] /\ sent'[c] <= Len(broadcasts')
        BY <1>1, <1>2, <2>1, BroadcastType
      <3>2. UNCHANGED <<linked, toServer, received>>
        BY DEF ServerKeyframe, upVars, cacheVars
      <3>3. \A c \in Clients : received[c] <= sent'[c]
        BY <3>1 DEF LinkTypeOK
      <3> QED BY <3>1, <3>2, <3>3 DEF LinkTypeOK
    <2>2. CASE HoldBack(cmds)
      BY <2>2 DEF LinkTypeOK, ServerKeyframe, HoldBack, upVars, downVars, cacheVars
    <2> QED BY <2>1, <2>2 DEF ServerKeyframe
  <1>8. LoopTypeOK' /\ CacheTypeOK'
    BY DEF LoopTypeOK, CacheTypeOK, ServerKeyframe, loopVars, cacheVars
  <1> QED BY <1>5, <1>6, <1>7, <1>8

\* A slot's thread, and the collection of what it read, only move commands.
LEMMA SlotType ==
    ASSUME TypeOK, NEW c \in Clients,
           \/ ExecuteNetworkCommandsFromClient(c)
           \/ SlotReceive(c)
    PROVE  TypeOK'
  <1> USE HostsFacts DEF TypeOK, worldVars, playerVars, lagVars, downVars, loopVars,
                         cacheVars
  <1>1. CASE ExecuteNetworkCommandsFromClient(c)
    <2> USE <1>1 DEF ExecuteNetworkCommandsFromClient
    <2>1. requestedCommands[Server] \o pendingNetworkCommandList[c] \in Seq(Commands)
      BY DEF WorldTypeOK, ServerTypeOK
    <2>2. WorldTypeOK'
      BY <2>1 DEF WorldTypeOK
    <2>3. ServerTypeOK'
      BY DEF ServerTypeOK
    <2>4. LinkTypeOK' /\ LoopTypeOK' /\ CacheTypeOK'
      BY DEF LinkTypeOK, LoopTypeOK, CacheTypeOK
    <2> QED BY <2>2, <2>3, <2>4
  <1>2. CASE SlotReceive(c)
    <2> USE <1>2 DEF SlotReceive
    <2>1. /\ Tail(toServer[c]) \in Seq(Seq(Commands))
          /\ Head(toServer[c]) \in Seq(Commands)
      BY DEF LinkTypeOK
    <2>2. pendingNetworkCommandList[c] \o Head(toServer[c]) \in Seq(Commands)
      BY <2>1 DEF ServerTypeOK
    <2>3. WorldTypeOK'
      BY DEF WorldTypeOK
    <2>4. ServerTypeOK'
      BY <2>2 DEF ServerTypeOK
    <2>5. LinkTypeOK'
      BY <2>1 DEF LinkTypeOK
    <2>6. LoopTypeOK' /\ CacheTypeOK'
      BY DEF LoopTypeOK, CacheTypeOK
    <2> QED BY <2>3, <2>4, <2>5, <2>6
  <1> QED BY <1>1, <1>2

\* The lag check touches its flags and counters only, within their bounds.
LEMMA LagCheckType ==
    ASSUME TypeOK, CheckForAutoResume \/ \E c \in Clients : CheckForAutoPause(c)
    PROVE  TypeOK'
  <1> USE BoundsAssumption DEF TypeOK, CheckForAutoResume, CheckForAutoPause,
          worldVars, playerVars, upVars, downVars, loopVars, cacheVars
  <1>1. WorldTypeOK' /\ LinkTypeOK' /\ LoopTypeOK' /\ CacheTypeOK'
    BY DEF WorldTypeOK, LinkTypeOK, LoopTypeOK, CacheTypeOK
  <1>2. /\ lagPauses' \in [Clients -> 0 .. MaxLagPauses]
        /\ clientsAutoPausedDueToLag' \in BOOLEAN
        /\ lagRequest' \in {"none", "pause", "resume"}
    <2>1. CASE CheckForAutoResume
      BY <2>1 DEF ServerTypeOK
    <2>2. ASSUME NEW c \in Clients, CheckForAutoPause(c)
          PROVE  /\ lagPauses' \in [Clients -> 0 .. MaxLagPauses]
                 /\ clientsAutoPausedDueToLag' \in BOOLEAN
                 /\ lagRequest' \in {"none", "pause", "resume"}
      <3>1. lagPauses[c] + 1 \in 0 .. MaxLagPauses
        BY <2>2 DEF ServerTypeOK
      <3>2. lagPauses' \in [Clients -> 0 .. MaxLagPauses]
        BY <2>2, <3>1 DEF ServerTypeOK
      <3> QED BY <2>2, <3>2
    <2> QED BY <2>1, <2>2
  <1>3. UNCHANGED <<issued, switches, pendingNetworkCommandList>>
    OBVIOUS
  <1>4. ServerTypeOK'
    BY <1>2, <1>3 DEF ServerTypeOK
  <1> QED BY <1>1, <1>4

\* ClientInterface::update moves a client's requests to its connection.
LEMMA ClientSendType ==
    ASSUME TypeOK, NEW c \in Clients, ClientSend(c)
    PROVE  TypeOK'
  <1> USE HostsFacts DEF TypeOK, ClientSend, worldVars, playerVars, lagVars, downVars,
                         loopVars, cacheVars
  <1>1. Drained(requestedCommands[c]) \in Seq(Commands)
    BY DrainedType DEF WorldTypeOK
  <1>2. WorldTypeOK'
    BY DEF WorldTypeOK
  <1>3. toServer' \in [Clients -> Seq(Seq(Commands))]
    BY <1>1 DEF LinkTypeOK
  <1>4. LinkTypeOK'
    BY <1>3 DEF LinkTypeOK
  <1>5. ServerTypeOK' /\ LoopTypeOK' /\ CacheTypeOK'
    BY DEF ServerTypeOK, LoopTypeOK, CacheTypeOK
  <1> QED BY <1>2, <1>4, <1>5

\* A client that reads a list stays behind the lists that were sent.
LEMMA ClientReceiveType ==
    ASSUME TypeOK, NEW c \in Clients, ClientReceive(c)
    PROVE  TypeOK'
  <1> DEFINE list == broadcasts[received[c] + 1]
  <1> USE DEF TypeOK
  <1>1. received[c] + 1 \in 1 .. Len(broadcasts)
    BY DEF LinkTypeOK, ClientReceive
  <1>2. list \in Lists
    BY <1>1 DEF LinkTypeOK
  <1> HIDE DEF list
  <1>3. /\ list.frame \in Keyframes /\ list.commands \in Seq(Commands)
        /\ list.crc \in CRCs
    BY <1>2 DEF Lists
  <1>4. WorldTypeOK' /\ ServerTypeOK' /\ LoopTypeOK'
    BY DEF ClientReceive, WorldTypeOK, ServerTypeOK, LoopTypeOK, worldVars,
           playerVars, lagVars, upVars, loopVars
  <1>5. LinkTypeOK'
    BY <1>1 DEF LinkTypeOK, ClientReceive, upVars, downVars
  <1>6. CacheTypeOK'
    <2>1. /\ cachedLastPendingFrameCount' \in [Clients -> Keyframes \cup {0}]
          /\ cachedFrames' \in [Clients -> SUBSET Keyframes]
      BY <1>3 DEF CacheTypeOK, ClientReceive, list
    <2>2. cachedPendingCommands' \in [Clients -> History]
      <3> DEFINE more == cachedPendingCommands[c][list.frame] \o list.commands
      <3>1. more \in Seq(Commands)
        BY <1>3 DEF CacheTypeOK, History
      <3>2. cachedPendingCommands' = [cachedPendingCommands EXCEPT ![c][list.frame] = more]
        BY DEF ClientReceive, list
      <3> HIDE DEF more
      <3> QED BY <3>1, <3>2, <1>3 DEF CacheTypeOK, History
    <2>3. cachedPendingCommandCRCs' \in [Clients -> [Keyframes -> Seq(CRCs)]]
      <3>1. <<list.crc>> \in Seq(CRCs)
        BY <1>3
      <3>2. \/ UNCHANGED cachedPendingCommandCRCs
            \/ cachedPendingCommandCRCs' =
                  [cachedPendingCommandCRCs EXCEPT ![c][list.frame] = <<list.crc>>]
        BY DEF ClientReceive, list
      <3>3. CASE UNCHANGED cachedPendingCommandCRCs
        BY <3>3 DEF CacheTypeOK
      <3>4. CASE cachedPendingCommandCRCs' =
                  [cachedPendingCommandCRCs EXCEPT ![c][list.frame] = <<list.crc>>]
        BY <3>1, <3>4, <1>3 DEF CacheTypeOK
      <3> QED BY <3>2, <3>3, <3>4
    <2> QED BY <2>1, <2>2, <2>3 DEF CacheTypeOK
  <1> QED BY <1>4, <1>5, <1>6

\* A world update moves a client's frame within the last frame.
LEMMA WorldUpdateType ==
    ASSUME TypeOK, NEW c \in Clients, ClientUpdate(c) \/ ClientSecondLoop(c)
    PROVE  TypeOK'
  <1> USE HostsFacts, BoundsAssumption DEF TypeOK
  <1>1. WorldUpdate(c)
    BY DEF ClientUpdate, ClientSecondLoop
  <1>2. WorldTypeOK'
    BY <1>1 DEF WorldTypeOK, WorldUpdate
  <1>3. ServerTypeOK' /\ LinkTypeOK' /\ CacheTypeOK'
    BY <1>1 DEF WorldUpdate, ServerTypeOK, LinkTypeOK, CacheTypeOK, playerVars, lagVars,
                upVars, downVars, cacheVars
  <1>4. phase' \in [Clients -> Phases]
    BY <1>1 DEF LoopTypeOK, WorldUpdate, Phases
  <1>5. CASE ClientUpdate(c)
    <2>1. PICK n \in FramesToCatchUp(c) :
            /\ loopsLeft' = [loopsLeft EXCEPT ![c] = IF n > 0 THEN 1 ELSE 0]
            /\ framesToCatchUp' =
                  [framesToCatchUp EXCEPT ![c] = IF n > 0 THEN n - 1 ELSE 0]
      BY <1>5 DEF ClientUpdate
    <2>2. n \in 0 .. MaxCatchUp
      BY DEF FramesToCatchUp, LoopTypeOK
    <2>3. LoopTypeOK'
      BY <1>4, <2>1, <2>2 DEF LoopTypeOK
    <2> QED BY <1>2, <1>3, <2>3
  <1>6. CASE ClientSecondLoop(c)
    <2>1. LoopTypeOK'
      BY <1>4, <1>6 DEF LoopTypeOK, ClientSecondLoop
    <2> QED BY <1>2, <1>3, <2>1
  <1> QED BY <1>5, <1>6

\* getNetworkCommand takes commands from the cache into the world.
LEMMA ClientTakeType ==
    ASSUME TypeOK, NEW c \in Clients, ClientTake(c)
    PROVE  TypeOK'
  <1> DEFINE f == frameCount[c]
             cmds == cachedPendingCommands[c][f]
  <1> USE HostsFacts DEF TypeOK
  <1>1. f \in Keyframes /\ cmds \in Seq(Commands)
    BY DEF ClientTake, CacheTypeOK, History
  <1>2. Give(c, f, cmds)
    BY DEF ClientTake
  <1>3. given' \in [Hosts -> History] /\ paused' \in [Hosts -> BOOLEAN]
    BY <1>1, <1>2, GiveType
  <1>4. WorldTypeOK'
    BY <1>3 DEF WorldTypeOK, ClientTake
  <1>5. ServerTypeOK'
    BY DEF ServerTypeOK, ClientTake, playerVars, lagVars, upVars
  <1>6. LinkTypeOK'
    BY DEF LinkTypeOK, ClientTake, upVars, downVars
  <1>7. LoopTypeOK'
    BY DEF LoopTypeOK, ClientTake, Phases
  <1>8. CacheTypeOK'
    <2>1. cachedPendingCommands' =
             [cachedPendingCommands EXCEPT ![c] = [@ EXCEPT ![f] = <<>>]]
      BY DEF ClientTake
    <2>2. [cachedPendingCommands[c] EXCEPT ![f] = <<>>] \in History
      BY <1>1 DEF CacheTypeOK, History
    <2>3. cachedPendingCommandCRCs' =
             [cachedPendingCommandCRCs EXCEPT ![c] = [@ EXCEPT ![f] = <<>>]]
      BY DEF ClientTake
    <2>4. [cachedPendingCommandCRCs[c] EXCEPT ![f] = <<>>] \in [Keyframes -> Seq(CRCs)]
      BY <1>1 DEF CacheTypeOK
    <2>5. UNCHANGED <<cachedFrames, cachedLastPendingFrameCount>>
      BY DEF ClientTake
    <2> QED BY <2>1, <2>2, <2>3, <2>4, <2>5 DEF CacheTypeOK
  <1> QED BY <1>4, <1>5, <1>6, <1>7, <1>8

\* The steps of a client that change its phase only.
LEMMA ClientPhaseType ==
    ASSUME TypeOK, NEW c \in Clients,
           ClientIdleUpdate(c) \/ ClientSkip(c) \/ ClientLeave(c)
    PROVE  TypeOK'
  <1> USE DEF TypeOK, ClientIdleUpdate, ClientSkip, ClientLeave, worldVars,
              playerVars, lagVars, upVars, downVars, cacheVars
  <1>1. WorldTypeOK' /\ ServerTypeOK' /\ LinkTypeOK' /\ CacheTypeOK'
    BY DEF WorldTypeOK, ServerTypeOK, LinkTypeOK, CacheTypeOK
  <1>2. LoopTypeOK'
    BY DEF LoopTypeOK, Phases
  <1> QED BY <1>1, <1>2

\* A connection that breaks, or a client that leaves, keeps the types.
LEMMA LinkLostType ==
    ASSUME TypeOK, NEW c \in Clients, LinkLost(c)
    PROVE  TypeOK'
  <1> USE DEF TypeOK, LinkLost, worldVars, playerVars, lagVars, upVars, loopVars, cacheVars
  <1>1. WorldTypeOK' /\ ServerTypeOK' /\ LoopTypeOK' /\ CacheTypeOK'
    BY DEF WorldTypeOK, ServerTypeOK, LoopTypeOK, CacheTypeOK
  <1>2. LinkTypeOK'
    BY DEF LinkTypeOK
  <1> QED BY <1>1, <1>2

\* A stuttering step keeps the types.
LEMMA StutterType == TypeOK /\ UNCHANGED vars => TypeOK'
  BY DEF vars, TypeOK, WorldTypeOK, ServerTypeOK, LinkTypeOK, LoopTypeOK, CacheTypeOK

\* Every step keeps the types: one case per action.
LEMMA TypeNext == TypeOK /\ [Next]_vars => TypeOK'
  <1> SUFFICES ASSUME TypeOK, [Next]_vars PROVE TypeOK'
    OBVIOUS
  <1>1. CASE PlayerNext
    BY <1>1, GiveOrderType, TryPauseToggleType DEF PlayerNext
  <1>2. CASE ServerNext
    BY <1>2, ServerUpdateType, ServerKeyframeType, LagCheckType, SlotType DEF ServerNext
  <1>3. ASSUME NEW c \in Clients, ClientNext(c) \/ LinkLost(c)
        PROVE  TypeOK'
    BY <1>3, ClientSendType, ClientReceiveType, WorldUpdateType, ClientTakeType,
       ClientPhaseType, LinkLostType DEF ClientNext
  <1>4. CASE UNCHANGED vars
    BY <1>4, StutterType
  <1> QED BY <1>1, <1>2, <1>3, <1>4 DEF Next

\* Type correctness: every variable keeps its type, the counters their bounds,
\* and no client has read more lists than were written to its connection.
THEOREM TypeCorrect == Spec => []TypeOK
  <1>1. Init => TypeOK
    BY TypeInit
  <1>2. TypeOK /\ [Next]_vars => TypeOK'
    BY TypeNext
  <1> QED BY <1>1, <1>2, PTL DEF Spec
-----------------------------------------------------------------------------
(* Sequences of commands.                                                  *)

\* A sequence is a prefix of itself.
LEMMA PrefixReflexive ==
    ASSUME NEW s \in Seq(Commands)
    PROVE  IsPrefix(s, s)
  BY DEF IsPrefix

\* Putting sequences of commands together is associative.
LEMMA CommandsAssociate ==
    ASSUME NEW s \in Seq(Commands), NEW t \in Seq(Commands), NEW u \in Seq(Commands)
    PROVE  s \o (t \o u) = (s \o t) \o u
  BY ConcatAssociative

\* A prefix of a sequence is a prefix of what lengthens it.
LEMMA PrefixOfLonger ==
    ASSUME NEW s \in Seq(Commands), NEW t \in Seq(Commands), NEW u \in Seq(Commands),
           IsPrefix(s, t)
    PROVE  IsPrefix(s, t \o u)
  <1>1. Len(s) <= Len(t) /\ Len(t \o u) = Len(t) + Len(u)
    BY DEF IsPrefix
  <1>2. SubSeq(t \o u, 1, Len(s)) = SubSeq(t, 1, Len(s))
    BY <1>1
  <1> QED BY <1>1, <1>2 DEF IsPrefix

\* The first part of a prefix is a prefix.
LEMMA PrefixOfPart ==
    ASSUME NEW s \in Seq(Commands), NEW t \in Seq(Commands), NEW u \in Seq(Commands),
           IsPrefix(s \o t, u)
    PROVE  IsPrefix(s, u)
  <1>1. Len(s) <= Len(u)
    BY DEF IsPrefix
  <1>2. \A i \in 1 .. Len(s) : s[i] = u[i]
    <2> SUFFICES ASSUME NEW i \in 1 .. Len(s) PROVE s[i] = u[i]
      OBVIOUS
    <2>1. i \in 1 .. Len(s \o t) /\ (s \o t)[i] = s[i]
      OBVIOUS
    <2>2. SubSeq(s \o t, 1, Len(s \o t))[i] = SubSeq(u, 1, Len(s \o t))[i]
      BY DEF IsPrefix
    <2>3. SubSeq(s \o t, 1, Len(s \o t))[i] = (s \o t)[i]
      BY <2>1
    <2>4. SubSeq(u, 1, Len(s \o t))[i] = u[i]
      BY <2>1 DEF IsPrefix
    <2> QED BY <2>1, <2>2, <2>3, <2>4
  <1>3. SubSeq(s, 1, Len(s)) = SubSeq(u, 1, Len(s))
    BY <1>1, <1>2
  <1> QED BY <1>1, <1>3 DEF IsPrefix

\* A prefix is the beginning of the longer sequence.
LEMMA PrefixAsSubSeq ==
    ASSUME NEW s \in Seq(Commands), NEW t \in Seq(Commands), IsPrefix(s, t)
    PROVE  Len(s) \in 0 .. Len(t) /\ s = SubSeq(t, 1, Len(s))
  <1>1. SubSeq(s, 1, Len(s)) = s
    OBVIOUS
  <1> QED BY <1>1 DEF IsPrefix
-----------------------------------------------------------------------------
(* The stream: what the server gave, what the lists carry, what a client   *)
(* stored and what it gave add up.                                         *)

streamVars == <<given, broadcasts, received, cachedPendingCommands>>

\* Only three actions touch the stream: the others leave all of it alone.
LEMMA StreamSteps ==
    ASSUME Next
    PROVE  \/ ServerKeyframe
           \/ \E c \in Clients : ClientReceive(c) \/ ClientTake(c)
           \/ UNCHANGED streamVars
  <1> USE DEF streamVars, worldVars, downVars, cacheVars
  <1>1. CASE PlayerNext
    BY <1>1 DEF PlayerNext, GiveOrder, TryPauseToggle
  <1>2. CASE ServerNext
    BY <1>2 DEF ServerNext, ServerUpdate, CheckForAutoResume, CheckForAutoPause,
                SlotReceive, ExecuteNetworkCommandsFromClient
  <1>3. ASSUME NEW c \in Clients, ClientNext(c) \/ LinkLost(c)
        PROVE  ClientReceive(c) \/ ClientTake(c) \/ UNCHANGED streamVars
    BY <1>3 DEF ClientNext, ClientSend, ClientUpdate, ClientSecondLoop, WorldUpdate,
                ClientIdleUpdate, ClientSkip, ClientLeave, LinkLost
  <1> QED BY <1>1, <1>2, <1>3 DEF Next

\* The types the stream proofs need of one host's history.
LEMMA HistoryType ==
    ASSUME TypeOK
    PROVE  /\ \A h \in Hosts : given[h] \in History
           /\ \A h \in Hosts, k \in Keyframes : given[h][k] \in Seq(Commands)
           /\ \A c \in Clients, k \in Keyframes :
                 cachedPendingCommands[c][k] \in Seq(Commands)
           /\ \A i \in 1 .. Len(broadcasts) :
                 /\ broadcasts[i] \in Lists
                 /\ broadcasts[i].after \in History
                 /\ broadcasts[i].frame \in Keyframes
                 /\ broadcasts[i].commands \in Seq(Commands)
                 /\ \A k \in Keyframes : broadcasts[i].after[k] \in Seq(Commands)
           /\ Len(broadcasts) \in Nat
           /\ \A c \in Clients : received[c] \in 0 .. Len(broadcasts)
  <1> USE DEF TypeOK, History
  <1>1. \A i \in 1 .. Len(broadcasts) : broadcasts[i] \in Lists
    BY DEF LinkTypeOK
  <1> QED BY <1>1 DEF WorldTypeOK, CacheTypeOK, LinkTypeOK, Lists

\* What the first lists of the stream carry is a history.
LEMMA DeliveredType ==
    ASSUME TypeOK, NEW n \in 0 .. Len(broadcasts)
    PROVE  Delivered(broadcasts, n) \in History
  BY HistoryType, EmptyHistory DEF Delivered

\* What a keyframe of the server does to the lists and to the histories.
LEMMA KeyframeStep ==
    ASSUME TypeOK, ServerKeyframe
    PROVE  \E cmds \in Seq(Commands) :
        LET after == WithGiven(given[Server], ServerFrame, cmds)
            list == [frame |-> ServerFrame, commands |-> cmds,
                     crc |-> WorldCRC(given[Server], ServerFrame), after |-> after]
        IN /\ given' = [given EXCEPT ![Server] = after]
           /\ paused' = [paused EXCEPT ![Server] = PausedAfter(@, cmds)]
           /\ \/ broadcasts' = Append(broadcasts, list)
              \/ cmds = <<>> /\ UNCHANGED broadcasts
  <1> DEFINE cmds == Drained(requestedCommands[Server])
  <1>1. cmds \in Seq(Commands)
    BY DrainedType, HostsFacts DEF TypeOK, WorldTypeOK
  <1>2. given' = [given EXCEPT ![Server] =
                     WithGiven(given[Server], ServerFrame, cmds)]
    BY DEF ServerKeyframe, Give
  <1>3. paused' = [paused EXCEPT ![Server] = PausedAfter(@, cmds)]
    BY DEF ServerKeyframe, Give
  <1>4. \/ broadcasts' = Append(broadcasts,
              [frame |-> ServerFrame, commands |-> cmds,
               crc |-> WorldCRC(given[Server], ServerFrame),
               after |-> WithGiven(given[Server], ServerFrame, cmds)])
        \/ cmds = <<>> /\ UNCHANGED broadcasts
    BY DEF ServerKeyframe, Broadcast, HoldBack, downVars
  <1> QED BY <1>1, <1>2, <1>3, <1>4

\* The server's keyframe keeps the invariant: the new list carries all before it.
LEMMA StreamKeyframe ==
    ASSUME StreamInv, ServerKeyframe
    PROVE  ListsAddUp' /\ ListsArePrefixes' /\ CacheAddsUp'
  <1> DEFINE f == ServerFrame
  <1>0. TypeOK /\ f \in Keyframes /\ Server \in Hosts /\ given[Server] \in History
    BY HostsFacts, HistoryType DEF StreamInv, ServerKeyframe
  <1>1. PICK cmds \in Seq(Commands) :
        LET after == WithGiven(given[Server], f, cmds)
            list == [frame |-> f, commands |-> cmds,
                     crc |-> WorldCRC(given[Server], f), after |-> after]
        IN /\ given' = [given EXCEPT ![Server] = after]
           /\ \/ broadcasts' = Append(broadcasts, list)
              \/ cmds = <<>> /\ UNCHANGED broadcasts
    BY <1>0, KeyframeStep
  <1> DEFINE after == WithGiven(given[Server], f, cmds)
             list == [frame |-> f, commands |-> cmds,
                      crc |-> WorldCRC(given[Server], f), after |-> after]
             n == Len(broadcasts)
  <1>2. /\ after \in History
        /\ after[f] = given[Server][f] \o cmds
        /\ \A k \in Keyframes \ {f} : after[k] = given[Server][k]
    BY <1>0, WithGivenType
  <1>3. /\ given'[Server] = after
        /\ \A c \in Clients : given'[c] = given[c]
    BY <1>0, <1>1, HostsFacts DEF TypeOK, WorldTypeOK
  <1>4. \A k \in Keyframes : IsPrefix(given[Server][k], after[k])
    <2> SUFFICES ASSUME NEW k \in Keyframes PROVE IsPrefix(given[Server][k], after[k])
      OBVIOUS
    <2>1. given[Server][k] \in Seq(Commands)
      BY <1>0 DEF History
    <2>2. CASE k = f
      BY <1>2, <2>1, <2>2, PrefixReflexive, PrefixOfLonger
    <2>3. CASE k # f
      BY <1>2, <2>1, <2>3, PrefixReflexive
    <2> QED BY <2>2, <2>3
  <1>5. UNCHANGED <<received, cachedPendingCommands>>
    BY DEF ServerKeyframe, cacheVars
  <1>6. Delivered(broadcasts, n) = given[Server]
    BY DEF StreamInv, ListsAddUp
  <1>7. n \in Nat /\ broadcasts \in Seq(Lists)
    BY <1>0 DEF TypeOK, LinkTypeOK
  <1> HIDE DEF f
  <1>8. CASE broadcasts' = Append(broadcasts, list)
    <2> HIDE DEF after
    <2>1. /\ Len(broadcasts') = n + 1
          /\ \A i \in 1 .. n : broadcasts'[i] = broadcasts[i]
          /\ broadcasts'[n + 1] = list
      BY <1>7, <1>8
    <2>2. \A i \in 0 .. n : Delivered(broadcasts', i) = Delivered(broadcasts, i)
      BY <1>7, <2>1 DEF Delivered
    <2>3. Delivered(broadcasts', n + 1) = after
      <3>1. list.after = after
        OBVIOUS
      <3> HIDE DEF list
      <3> QED BY <1>7, <2>1, <3>1 DEF Delivered
    <2>4. ListsAddUp'
      <3>1. \A i \in 1 .. n :
              broadcasts'[i].after = WithGiven(Delivered(broadcasts', i - 1),
                                               broadcasts'[i].frame, broadcasts'[i].commands)
        BY <1>7, <2>1, <2>2 DEF StreamInv, ListsAddUp
      <3>2. list.after = WithGiven(Delivered(broadcasts', n), list.frame, list.commands)
        BY <1>6, <1>7, <2>2 DEF after
      <3>3. \A i \in 1 .. Len(broadcasts') :
              broadcasts'[i].after = WithGiven(Delivered(broadcasts', i - 1),
                                               broadcasts'[i].frame, broadcasts'[i].commands)
        BY <1>7, <2>1, <3>1, <3>2
      <3> QED BY <1>3, <2>1, <2>3, <3>3 DEF ListsAddUp
    <2>5. ListsArePrefixes'
      <3> SUFFICES ASSUME NEW i \in 1 .. n + 1, NEW k \in Keyframes
                   PROVE  IsPrefix(broadcasts'[i].after[k], after[k])
        BY <1>3, <2>1 DEF ListsArePrefixes
      <3>1. CASE i = n + 1
        BY <1>2, <2>1, <3>1, PrefixReflexive DEF History
      <3>2. CASE i \in 1 .. n
        <4>1. IsPrefix(broadcasts[i].after[k], given[Server][k])
          BY <3>2 DEF StreamInv, ListsArePrefixes
        <4>2. broadcasts[i].after[k] \in Seq(Commands)
          BY <1>0, <3>2, HistoryType
        <4>3. IsPrefix(broadcasts[i].after[k], after[k])
          <5>1. CASE k = f
            BY <1>0, <1>2, <4>1, <4>2, <5>1, PrefixOfLonger DEF History
          <5>2. CASE k # f
            BY <1>2, <4>1, <5>2
          <5> QED BY <5>1, <5>2
        <4> QED BY <2>1, <3>2, <4>3
      <3> QED BY <1>7, <3>1, <3>2
    <2>6. CacheAddsUp'
      BY <1>0, <1>3, <1>5, <2>2, HistoryType DEF StreamInv, CacheAddsUp
    <2> QED BY <2>4, <2>5, <2>6
  <1>9. CASE cmds = <<>> /\ UNCHANGED broadcasts
    <2>1. given[Server][f] \o <<>> = given[Server][f]
      BY <1>0 DEF History
    <2>2. after = given[Server]
      <3>1. after[f] = given[Server][f]
        BY <1>2, <1>9, <2>1
      <3>2. \A k \in Keyframes : after[k] = given[Server][k]
        BY <1>2, <3>1
      <3> HIDE DEF after
      <3> QED BY <1>0, <1>2, <3>2 DEF History
    <2>3. \A i \in 0 .. n : Delivered(broadcasts', i) = Delivered(broadcasts, i)
      BY <1>9 DEF Delivered
    <2> HIDE DEF after
    <2>4. ListsAddUp'
      BY <1>3, <1>7, <1>9, <2>2, <2>3 DEF StreamInv, ListsAddUp, Delivered
    <2>5. ListsArePrefixes'
      BY <1>3, <1>9, <2>2 DEF StreamInv, ListsArePrefixes
    <2>6. CacheAddsUp'
      BY <1>0, <1>3, <1>5, <2>3, HistoryType DEF StreamInv, CacheAddsUp
    <2> QED BY <2>4, <2>5, <2>6
  <1> QED BY <1>1, <1>8, <1>9

\* A client that stores a list keeps the invariant: its cache gains what its lists do.
LEMMA StreamReceive ==
    ASSUME StreamInv, NEW c \in Clients, ClientReceive(c)
    PROVE  ListsAddUp' /\ ListsArePrefixes' /\ CacheAddsUp'
  <1> DEFINE n == received[c]
             list == broadcasts[n + 1]
             f == list.frame
             all == Delivered(broadcasts, n)
             cached == cachedPendingCommands[c]
  <1>0. TypeOK
    BY DEF StreamInv
  <1>1. /\ n \in 0 .. Len(broadcasts) /\ n + 1 \in 1 .. Len(broadcasts)
        /\ Len(broadcasts) \in Nat
    BY <1>0 DEF TypeOK, LinkTypeOK, ClientReceive
  <1>2. /\ list \in Lists /\ f \in Keyframes /\ list.commands \in Seq(Commands)
    BY <1>0, <1>1, HistoryType
  <1>3. all \in History
    BY <1>0, <1>1, DeliveredType
  <1>4. UNCHANGED <<given, broadcasts>>
    BY DEF ClientReceive, worldVars, downVars
  <1>5. received' = [received EXCEPT ![c] = n + 1]
    BY DEF ClientReceive
  <1>6. cachedPendingCommands' = [cachedPendingCommands EXCEPT ![c][f] = @ \o list.commands]
    BY DEF ClientReceive
  <1>7. /\ \A k \in Keyframes : Delivered(broadcasts', n + 1)[k] =
              IF k = f THEN all[f] \o list.commands ELSE all[k]
    <2>1. list.after = WithGiven(Delivered(broadcasts, n + 1 - 1), f, list.commands)
      BY <1>1 DEF StreamInv, ListsAddUp
    <2>2. n + 1 - 1 = n /\ n + 1 # 0
      BY <1>1
    <2>3. Delivered(broadcasts', n + 1) = list.after
      BY <1>4, <2>2 DEF Delivered
    <2>4. list.after = WithGiven(all, f, list.commands)
      BY <2>1, <2>2
    <2> SUFFICES ASSUME NEW k \in Keyframes
                 PROVE  list.after[k] = IF k = f THEN all[f] \o list.commands ELSE all[k]
      BY <2>3
    <2> DEFINE cmds == list.commands
    <2>5. cmds \in Seq(Commands)
      BY <1>2
    <2> HIDE DEF cmds, all, f
    <2>6. /\ WithGiven(all, f, cmds)[f] = all[f] \o cmds
          /\ \A j \in Keyframes \ {f} : WithGiven(all, f, cmds)[j] = all[j]
      BY <1>2, <1>3, <2>5, WithGivenType
    <2>7. list.after[k] = IF k = f THEN all[f] \o cmds ELSE all[k]
      <3> HIDE DEF list
      <3> QED BY <2>4, <2>6 DEF cmds
    <2> QED BY <2>7 DEF cmds
  <1>8. ListsAddUp' /\ ListsArePrefixes'
    BY <1>4 DEF StreamInv, ListsAddUp, ListsArePrefixes, Delivered
  <1>9. CacheAddsUp'
    <2> SUFFICES ASSUME NEW d \in Clients, NEW k \in Keyframes
                 PROVE  given[d][k] \o cachedPendingCommands'[d][k]
                            = Delivered(broadcasts', received'[d])[k]
      BY <1>4 DEF CacheAddsUp
    <2>0. /\ given[d][k] \o cachedPendingCommands[d][k]
                = Delivered(broadcasts, received[d])[k]
          /\ cachedPendingCommands[d] \in History
          /\ cachedPendingCommands \in [Clients -> History]
          /\ received \in [Clients -> Nat]
          /\ given[d][k] \in Seq(Commands)
      BY <1>0, HostsFacts DEF StreamInv, CacheAddsUp, TypeOK, CacheTypeOK, LinkTypeOK,
                              WorldTypeOK, History
    <2>1. CASE d # c
      <3>1. cachedPendingCommands'[d] = cachedPendingCommands[d] /\ received'[d] = received[d]
        BY <1>5, <1>6, <2>0, <2>1
      <3> QED BY <1>4, <2>0, <3>1 DEF Delivered
    <2>2. CASE d = c
      <3>1. received'[c] = n + 1
        BY <1>5, <2>0
      <3>2. cachedPendingCommands'[c][k] =
              IF k = f THEN cached[f] \o list.commands ELSE cached[k]
        <4> HIDE DEF f, list
        <4> QED BY <1>6, <2>0, <2>2 DEF History
      <3>3. CASE k # f
        BY <1>7, <2>0, <2>2, <3>1, <3>2, <3>3
      <3>4. CASE k = f
        <4>1. cached[k] \in Seq(Commands)
          BY <2>0, <2>2 DEF History
        <4>2. given[c][k] \o (cached[k] \o list.commands)
                = (given[c][k] \o cached[k]) \o list.commands
          <5>1. given[c][k] \in Seq(Commands)
            BY <2>0, <2>2
          <5> HIDE DEF cached, list
          <5>2. list.commands \in Seq(Commands)
            BY <1>2
          <5> QED BY <4>1, <5>1, <5>2, CommandsAssociate
        <4> HIDE DEF list
        <4> QED BY <1>7, <2>0, <2>2, <3>1, <3>2, <3>4, <4>2
      <3> QED BY <3>3, <3>4
    <2> QED BY <2>1, <2>2
  <1> QED BY <1>8, <1>9

\* A client that gives its cached commands moves them from the cache to its world.
LEMMA StreamTake ==
    ASSUME StreamInv, NEW c \in Clients, ClientTake(c)
    PROVE  ListsAddUp' /\ ListsArePrefixes' /\ CacheAddsUp'
  <1> DEFINE f == frameCount[c]
             cmds == cachedPendingCommands[c][f]
  <1>0. TypeOK /\ c \in Hosts /\ Server \in Hosts /\ c # Server
    BY HostsFacts DEF StreamInv
  <1>1. f \in Keyframes
    BY <1>0 DEF ClientTake, TypeOK, CacheTypeOK
  <1>2. cmds \in Seq(Commands) /\ WorldTypeOK
    BY <1>0, <1>1, HistoryType DEF TypeOK
  <1>3. Give(c, f, cmds)
    BY DEF ClientTake
  <1>4. /\ given'[c][f] = given[c][f] \o cmds
        /\ \A k \in Keyframes \ {f} : given'[c][k] = given[c][k]
        /\ \A g \in Hosts \ {c} : given'[g] = given[g]
    <2> HIDE DEF f, cmds
    <2> QED BY <1>0, <1>1, <1>2, <1>3, GiveType
  <1>5. UNCHANGED <<broadcasts, received>>
    BY DEF ClientTake, downVars
  <1>6. cachedPendingCommands' = [cachedPendingCommands EXCEPT ![c][f] = <<>>]
    BY DEF ClientTake
  <1>7. given'[Server] = given[Server]
    BY <1>0, <1>4
  <1>8. ListsAddUp' /\ ListsArePrefixes'
    BY <1>5, <1>7 DEF StreamInv, ListsAddUp, ListsArePrefixes, Delivered
  <1>9. CacheAddsUp'
    <2> SUFFICES ASSUME NEW d \in Clients, NEW k \in Keyframes
                 PROVE  given'[d][k] \o cachedPendingCommands'[d][k]
                            = given[d][k] \o cachedPendingCommands[d][k]
      BY <1>5 DEF StreamInv, CacheAddsUp, Delivered
    <2>0. cachedPendingCommands \in [Clients -> History] /\ d \in Hosts
      BY <1>0, HostsFacts DEF TypeOK, CacheTypeOK
    <2>1. CASE d # c
      BY <1>4, <1>6, <2>0, <2>1
    <2>2. CASE d = c /\ k # f
      BY <1>4, <1>6, <2>0, <2>2 DEF History
    <2>3. CASE d = c /\ k = f
      <3>1. cachedPendingCommands'[c][f] = <<>>
        BY <1>1, <1>6, <2>0 DEF History
      <3>2. given[c][f] \o cmds \in Seq(Commands)
        BY <1>0, <1>1, <1>2, HistoryType
      <3>3. (given[c][f] \o cmds) \o <<>> = given[c][f] \o cmds
        BY <3>2, ConcatEmptySeq
      <3> QED BY <1>4, <2>3, <3>1, <3>3
    <2> QED BY <2>1, <2>2, <2>3
  <1> QED BY <1>8, <1>9

\* The invariant holds before the first list.
LEMMA StreamInit == Init => StreamInv
  <1> SUFFICES ASSUME Init PROVE StreamInv
    OBVIOUS
  <1>1. TypeOK
    BY TypeInit
  <1>2. broadcasts = <<>> /\ Len(broadcasts) = 0
    BY DEF Init
  <1>3. given[Server] = NoCommands /\ \A c \in Clients : given[c] = NoCommands
    BY HostsFacts DEF Init
  <1>4. ListsAddUp /\ ListsArePrefixes
    BY <1>2, <1>3 DEF ListsAddUp, ListsArePrefixes, Delivered
  <1>5. CacheAddsUp
    BY <1>3 DEF CacheAddsUp, Delivered, Init, NoCommands
  <1> QED BY <1>1, <1>4, <1>5 DEF StreamInv

\* Every step keeps the invariant of the stream.
LEMMA StreamNext == StreamInv /\ [Next]_vars => StreamInv'
  <1> SUFFICES ASSUME StreamInv, [Next]_vars PROVE StreamInv'
    OBVIOUS
  <1>1. TypeOK'
    BY TypeNext DEF StreamInv
  <1>2. CASE UNCHANGED streamVars
    BY <1>1, <1>2 DEF streamVars, StreamInv, ListsAddUp, ListsArePrefixes, CacheAddsUp,
                      Delivered
  <1>3. CASE ServerKeyframe
    BY <1>1, <1>3, StreamKeyframe DEF StreamInv
  <1>4. CASE \E c \in Clients : ClientReceive(c) \/ ClientTake(c)
    BY <1>1, <1>4, StreamReceive, StreamTake DEF StreamInv
  <1>5. CASE UNCHANGED vars
    BY <1>2, <1>5 DEF vars, streamVars
  <1> QED BY <1>2, <1>3, <1>4, <1>5, StreamSteps

\* The invariant makes a client's commands a prefix of the server's.
LEMMA StreamPrefix == StreamInv => SameCommandsInOrder
  <1> SUFFICES ASSUME StreamInv, NEW c \in Clients, NEW k \in Keyframes
               PROVE  IsPrefix(given[c][k], given[Server][k])
    BY DEF SameCommandsInOrder
  <1> DEFINE n == received[c]
  <1>0. TypeOK /\ c \in Hosts /\ Server \in Hosts
    BY HostsFacts DEF StreamInv
  <1>1. /\ n \in 0 .. Len(broadcasts) /\ Len(broadcasts) \in Nat
        /\ given[c][k] \in Seq(Commands) /\ given[Server][k] \in Seq(Commands)
        /\ cachedPendingCommands[c][k] \in Seq(Commands)
    BY <1>0, HistoryType
  <1>2. given[c][k] \o cachedPendingCommands[c][k] = Delivered(broadcasts, n)[k]
    BY DEF StreamInv, CacheAddsUp
  <1>3. IsPrefix(Delivered(broadcasts, n)[k], given[Server][k])
    <2>1. CASE n = 0
      BY <1>1, <2>1 DEF Delivered, NoCommands, IsPrefix
    <2>2. CASE n # 0
      BY <1>1, <2>2 DEF Delivered, StreamInv, ListsArePrefixes
    <2> QED BY <2>1, <2>2
  <1>4. IsPrefix(given[c][k] \o cachedPendingCommands[c][k], given[Server][k])
    BY <1>2, <1>3
  <1> QED BY <1>1, <1>4, PrefixOfPart

\* Commander::updateNetwork on every machine: whatever the timing of the threads,
\* the pauses, the catch-ups and the broken connections, a client has given at
\* each keyframe a prefix of what the server gave there.
THEOREM CommandsInOrder == Spec => []SameCommandsInOrder
  <1>1. Init => StreamInv
    BY StreamInit
  <1>2. StreamInv /\ [Next]_vars => StreamInv'
    BY StreamNext
  <1>3. StreamInv => SameCommandsInOrder
    BY StreamPrefix
  <1> QED BY <1>1, <1>2, <1>3, PTL DEF Spec

---------------------------------------------------------------------------
(* No world of Lockstep runs on without a command, and no client finds a   *)
(* difference of checksums.                                                *)

(* The pause state.                                                        *)

\* No commands change nothing.
LEMMA PausedEmpty ==
    ASSUME NEW p \in BOOLEAN
    PROVE  PausedAfter(p, <<>>) <=> p
  BY DEF PausedAfter

\* Giving commands one part after the other pauses like giving them at once.
LEMMA PausedCompose ==
    ASSUME NEW s \in Seq(Commands), NEW t \in Seq(Commands), NEW p \in BOOLEAN
    PROVE  PausedAfter(PausedAfter(p, s), t) <=> PausedAfter(p, s \o t)
  <1> DEFINE m == Len(s)
             n == Len(t)
             u == s \o t
  <1>1. /\ m \in Nat /\ n \in Nat /\ Len(u) = m + n
        /\ \A i \in 1 .. m : u[i] = s[i]
        /\ \A i \in 1 .. n : u[m + i] = t[i]
    OBVIOUS
  <1> HIDE DEF u
  <1>2. \A j \in 1 .. m + n : j \in 1 .. m \/ j - m \in 1 .. n
    BY <1>1
  <1>3. \A j \in 1 .. m + n : j \notin 1 .. m => u[j] = t[j - m]
    BY <1>1, <1>2
  <1>4. ASSUME PausedAfter(p, u)
        PROVE  PausedAfter(PausedAfter(p, s), t)
    <2>1. CASE \A j \in 1 .. m + n : u[j] # "resume"
      <3>1. \A j \in 1 .. n : t[j] # "resume"
        BY <1>1, <2>1
      <3>2. \A j \in 1 .. m : s[j] # "resume"
        BY <1>1, <2>1
      <3>3. CASE p
        BY <3>1, <3>2, <3>3 DEF PausedAfter
      <3>4. CASE ~p
        <4>1. PICK i \in 1 .. m + n : u[i] = "pause"
          BY <1>1, <1>4, <3>4 DEF PausedAfter
        <4>2. CASE i \in 1 .. m
          <5>1. PausedAfter(p, s)
            BY <1>1, <3>2, <4>1, <4>2 DEF PausedAfter
          <5> QED BY <3>1, <5>1 DEF PausedAfter
        <4>3. CASE i \notin 1 .. m
          <5>1. i - m \in 1 .. n /\ t[i - m] = "pause"
            BY <1>2, <1>3, <4>1, <4>3
          <5>2. \A j \in i - m + 1 .. n : t[j] # "resume"
            BY <1>1, <3>1, <5>1
          <5> QED BY <5>1, <5>2 DEF PausedAfter
        <4> QED BY <4>2, <4>3
      <3> QED BY <3>3, <3>4
    <2>2. CASE ~ \A j \in 1 .. m + n : u[j] # "resume"
      <3>1. PICK i \in 1 .. m + n :
              u[i] = "pause" /\ \A j \in i + 1 .. m + n : u[j] # "resume"
        BY <1>1, <1>4, <2>2 DEF PausedAfter
      <3>2. CASE i \in 1 .. m
        <4>1. \A j \in i + 1 .. m : s[j] # "resume"
          BY <1>1, <3>1, <3>2
        <4>2. PausedAfter(p, s)
          BY <1>1, <3>1, <3>2, <4>1 DEF PausedAfter
        <4>3. \A j \in 1 .. n : t[j] # "resume"
          <5> TAKE j \in 1 .. n
          <5>1. m + j \in i + 1 .. m + n
            BY <1>1, <3>2
          <5> QED BY <1>1, <3>1, <5>1
        <4> QED BY <4>2, <4>3 DEF PausedAfter
      <3>3. CASE i \notin 1 .. m
        <4>1. i - m \in 1 .. n /\ t[i - m] = "pause"
          BY <1>2, <1>3, <3>1, <3>3
        <4>2. \A j \in i - m + 1 .. n : t[j] # "resume"
          <5> TAKE j \in i - m + 1 .. n
          <5>1. m + j \in i + 1 .. m + n /\ j \in 1 .. n
            BY <1>1, <4>1
          <5> QED BY <1>1, <3>1, <5>1
        <4> QED BY <4>1, <4>2 DEF PausedAfter
      <3> QED BY <3>2, <3>3
    <2> QED BY <2>1, <2>2
  <1>5. ASSUME PausedAfter(PausedAfter(p, s), t)
        PROVE  PausedAfter(p, u)
    <2>1. CASE \E i \in 1 .. n : t[i] = "pause" /\ \A j \in i + 1 .. n : t[j] # "resume"
      <3>1. PICK i \in 1 .. n : t[i] = "pause" /\ \A j \in i + 1 .. n : t[j] # "resume"
        BY <2>1
      <3>2. m + i \in 1 .. m + n /\ u[m + i] = "pause"
        BY <1>1, <3>1
      <3>3. \A j \in m + i + 1 .. m + n : u[j] # "resume"
        <4> TAKE j \in m + i + 1 .. m + n
        <4>1. j - m \in i + 1 .. n /\ j \in 1 .. m + n /\ j \notin 1 .. m
          BY <1>1
        <4> QED BY <1>3, <3>1, <4>1
      <3> QED BY <1>1, <3>2, <3>3 DEF PausedAfter
    <2>2. CASE PausedAfter(p, s) /\ \A j \in 1 .. n : t[j] # "resume"
      <3>1. CASE p /\ \A j \in 1 .. m : s[j] # "resume"
        <4>1. \A j \in 1 .. m + n : u[j] # "resume"
          BY <1>1, <1>2, <1>3, <2>2, <3>1
        <4> QED BY <1>1, <3>1, <4>1 DEF PausedAfter
      <3>2. CASE \E i \in 1 .. m : s[i] = "pause" /\ \A j \in i + 1 .. m : s[j] # "resume"
        <4>1. PICK i \in 1 .. m : s[i] = "pause" /\ \A j \in i + 1 .. m : s[j] # "resume"
          BY <3>2
        <4>2. \A j \in i + 1 .. m + n : u[j] # "resume"
          <5> TAKE j \in i + 1 .. m + n
          <5>1. CASE j \in 1 .. m
            BY <1>1, <4>1, <5>1
          <5>2. CASE j \notin 1 .. m
            <6>1. j \in 1 .. m + n /\ j - m \in 1 .. n
              BY <1>1, <5>2
            <6> QED BY <1>3, <2>2, <5>2, <6>1
          <5> QED BY <5>1, <5>2
        <4>3. i \in 1 .. m + n /\ u[i] = "pause"
          BY <1>1, <4>1
        <4> QED BY <1>1, <4>2, <4>3 DEF PausedAfter
      <3> QED BY <2>2, <3>1, <3>2 DEF PausedAfter
    <2> QED BY <1>5, <2>1, <2>2 DEF PausedAfter
  <1> QED BY <1>4, <1>5 DEF u

\* Giving commands to a world that is paused as its commands so far say.
LEMMA PausedGiven ==
    ASSUME NEW p \in BOOLEAN, NEW s \in Seq(Commands), NEW t \in Seq(Commands),
           p <=> PausedAfter(FALSE, s)
    PROVE  PausedAfter(p, t) <=> PausedAfter(FALSE, s \o t)
  <1>1. PausedAfter(PausedAfter(FALSE, s), t) <=> PausedAfter(FALSE, s \o t)
    BY PausedCompose
  <1>2. PausedAfter(p, t) <=> PausedAfter(PausedAfter(FALSE, s), t)
    BY DEF PausedAfter
  <1> QED BY <1>1, <1>2
-----------------------------------------------------------------------------
(* What the steps do to the frames.                                        *)

frameVars == <<frameCount, paused, given, broadcasts, received, phase, loopsLeft,
               cachedFrames, cachedPendingCommands, cachedPendingCommandCRCs,
               cachedLastPendingFrameCount>>

\* The actions that touch the frames, the worlds, the lists or the caches.
LEMMA FrameSteps ==
    ASSUME Next
    PROVE  \/ ServerUpdate
           \/ ServerKeyframe
           \/ \E c \in Clients :
                 \/ ClientReceive(c)
                 \/ ClientUpdate(c)
                 \/ ClientSecondLoop(c)
                 \/ ClientTake(c)
                 \/ ClientIdleUpdate(c)
                 \/ ClientSkip(c)
                 \/ ClientLeave(c)
           \/ UNCHANGED frameVars
  <1> USE DEF frameVars, worldVars, downVars, cacheVars, loopVars
  <1>1. CASE PlayerNext
    BY <1>1 DEF PlayerNext, GiveOrder, TryPauseToggle
  <1>2. CASE ServerNext
    BY <1>2 DEF ServerNext, CheckForAutoResume, CheckForAutoPause, SlotReceive,
                ExecuteNetworkCommandsFromClient
  <1>3. ASSUME NEW c \in Clients, ClientNext(c) \/ LinkLost(c)
        PROVE  \/ ClientReceive(c) \/ ClientUpdate(c) \/ ClientSecondLoop(c)
               \/ ClientTake(c) \/ ClientIdleUpdate(c) \/ ClientSkip(c)
               \/ ClientLeave(c) \/ UNCHANGED frameVars
    BY <1>3 DEF ClientNext, ClientSend, LinkLost
  <1> QED BY <1>1, <1>2, <1>3 DEF Next

\* Frames are numbers, and keyframes are frames.
LEMMA FrameTypes ==
    ASSUME TypeOK
    PROVE  /\ \A h \in Hosts : frameCount[h] \in Nat /\ paused[h] \in BOOLEAN
           /\ \A k \in Keyframes : k \in Nat /\ k > 0
           /\ \A c \in Clients : cachedLastPendingFrameCount[c] \in Nat
           /\ \A c \in Clients : c \in Hosts /\ c # Server
           /\ Server \in Hosts
  <1>1. \A k \in Keyframes : k \in Nat /\ k > 0
    BY BoundsAssumption DEF Keyframes
  <1>2. \A h \in Hosts : frameCount[h] \in Nat /\ paused[h] \in BOOLEAN
    BY DEF TypeOK, WorldTypeOK, Frames
  <1>3. \A c \in Clients : cachedLastPendingFrameCount[c] \in Nat
    BY <1>1 DEF TypeOK, CacheTypeOK
  <1> QED BY <1>1, <1>2, <1>3, HostsFacts

\* An update of the server moves its world on unless it is paused.
LEMMA ServerFrames ==
    ASSUME TypeOK, ServerUpdate \/ ServerKeyframe
    PROVE  /\ ServerFrame \in Nat
           /\ frameCount[Server] <= ServerFrame
           /\ ServerFrame = frameCount[Server] \/ ServerFrame = frameCount[Server] + 1
           /\ frameCount'[Server] = ServerFrame
           /\ \A c \in Clients : frameCount'[c] = frameCount[c]
           /\ UNCHANGED <<received, phase, loopsLeft, cachedFrames,
                          cachedPendingCommands, cachedPendingCommandCRCs,
                          cachedLastPendingFrameCount>>
  <1>1. frameCount' = [frameCount EXCEPT ![Server] = ServerFrame]
    BY DEF ServerUpdate, ServerKeyframe
  <1>2. UNCHANGED <<loopVars, cacheVars>>
    BY DEF ServerUpdate, ServerKeyframe
  <1>3. frameCount[Server] \in Nat
    BY FrameTypes
  <1>4. /\ ServerFrame \in Nat
        /\ ServerFrame = frameCount[Server] \/ ServerFrame = frameCount[Server] + 1
    BY <1>3 DEF ServerFrame
  <1>5. frameCount'[Server] = ServerFrame /\ \A c \in Clients : frameCount'[c] = frameCount[c]
    BY <1>1, FrameTypes DEF TypeOK, WorldTypeOK
  <1> QED BY <1>2, <1>3, <1>4, <1>5 DEF loopVars, cacheVars

\* The checksums of a world at a frame depend on the keyframes before it only.
LEMMA CRCOfPast ==
    ASSUME NEW g, NEW h, NEW f, \A k \in Keyframes : k < f => g[k] = h[k]
    PROVE  WorldCRC(g, f) = WorldCRC(h, f)
  BY DEF WorldCRC

\* An update of the server between keyframes keeps the invariant of the frames.
LEMMA FrameServerUpdate ==
    ASSUME FrameInv, StreamInv', ServerUpdate
    PROVE  FrameInv'
  <1>0. TypeOK
    BY DEF FrameInv, StreamInv
  <1>1. /\ frameCount[Server] \in Nat /\ ServerFrame \in Nat
        /\ frameCount[Server] <= ServerFrame
        /\ frameCount'[Server] = ServerFrame /\ ServerFrame \notin Keyframes
        /\ \A c \in Clients : frameCount'[c] = frameCount[c]
        /\ UNCHANGED <<received, phase, cachedFrames, cachedPendingCommands,
                       cachedPendingCommandCRCs, cachedLastPendingFrameCount>>
    BY <1>0, ServerFrames, FrameTypes DEF ServerUpdate
  <1>2. UNCHANGED <<paused, given, broadcasts>>
    BY DEF ServerUpdate, downVars
  <1>3. ~paused[Server]
    BY <1>1 DEF FrameInv, ServerPause, ServerFrame
  <1>4. ListsInOrder'
    BY <1>0, <1>1, <1>2, HistoryType, FrameTypes DEF FrameInv, ListsInOrder
  <1>5. NothingGivenAhead'
    BY <1>1, <1>2, <1>0, FrameTypes DEF FrameInv, NothingGivenAhead, Hosts
  <1>6. ServerPause'
    BY <1>1, <1>2, <1>3 DEF ServerPause
  <1>7. SettledLists'
    BY <1>2, <1>3 DEF FrameInv, SettledLists, Settles
  <1>8. CacheFollowsLists' /\ ChecksumsBesideCommands'
    BY <1>1, <1>2 DEF FrameInv, CacheFollowsLists, ChecksumsBesideCommands
  <1>9. ChecksumsAreFinal'
    BY <1>0, <1>1, <1>2, FrameTypes DEF FrameInv, ChecksumsAreFinal
  <1>10. RunsBehind'
    BY <1>0, <1>1, <1>2, FrameTypes DEF FrameInv, RunsBehind
  <1> QED BY <1>4, <1>5, <1>6, <1>7, <1>8, <1>9, <1>10 DEF FrameInv

\* What a keyframe of the server leaves behind, in the terms of the invariant: the
\* server gave only at its own frame, and paused as its commands say.
LEMMA FrameKeyframeFacts ==
    ASSUME FrameInv, ServerKeyframe
    PROVE  /\ ServerFrame \in Keyframes
           /\ \A k \in Keyframes \ {ServerFrame} : given'[Server][k] = given[Server][k]
           /\ \A c \in Clients : given'[c] = given[c]
           /\ paused'[Server] <=> PausedAfter(FALSE, given'[Server][ServerFrame])
           /\ \/ UNCHANGED <<given, broadcasts>>
              \/ /\ Len(broadcasts') = Len(broadcasts) + 1
                 /\ \A i \in 1 .. Len(broadcasts) : broadcasts'[i] = broadcasts[i]
                 /\ broadcasts'[Len(broadcasts) + 1].frame = ServerFrame
                 /\ broadcasts'[Len(broadcasts) + 1].crc = WorldCRC(given[Server], ServerFrame)
                 /\ broadcasts'[Len(broadcasts) + 1].after = given'[Server]
  <1> DEFINE f == ServerFrame
  <1>0. TypeOK /\ f \in Keyframes /\ Server \in Hosts /\ given[Server] \in History
        /\ paused \in [Hosts -> BOOLEAN] /\ given \in [Hosts -> History]
        /\ broadcasts \in Seq(Lists) /\ frameCount[Server] \in Nat
        /\ given[Server][f] \in Seq(Commands) /\ paused[Server] \in BOOLEAN
    BY HistoryType, FrameTypes
       DEF FrameInv, StreamInv, ServerKeyframe, TypeOK, WorldTypeOK, LinkTypeOK
  <1>1. PICK cmds \in Seq(Commands) :
        LET after == WithGiven(given[Server], f, cmds)
            list == [frame |-> f, commands |-> cmds,
                     crc |-> WorldCRC(given[Server], f), after |-> after]
        IN /\ given' = [given EXCEPT ![Server] = after]
           /\ paused' = [paused EXCEPT ![Server] = PausedAfter(@, cmds)]
           /\ \/ broadcasts' = Append(broadcasts, list)
              \/ cmds = <<>> /\ UNCHANGED broadcasts
    BY <1>0, KeyframeStep
  <1> DEFINE after == WithGiven(given[Server], f, cmds)
             list == [frame |-> f, commands |-> cmds,
                      crc |-> WorldCRC(given[Server], f), after |-> after]
  <1>2. /\ after \in History
        /\ after[f] = given[Server][f] \o cmds
        /\ \A k \in Keyframes \ {f} : after[k] = given[Server][k]
    BY <1>0, WithGivenType
  <1>3. /\ given'[Server] = after
        /\ \A c \in Clients : given'[c] = given[c]
    BY <1>0, <1>1, HostsFacts
  <1>4. paused'[Server] <=> PausedAfter(FALSE, given'[Server][f])
    <2>1. paused'[Server] <=> PausedAfter(paused[Server], cmds)
      BY <1>0, <1>1
    <2>2. paused[Server] <=> PausedAfter(FALSE, given[Server][f])
      <3>1. CASE paused[Server]
        BY <3>1 DEF FrameInv, ServerPause, ServerFrame
      <3>2. CASE ~paused[Server]
        <4>1. f > frameCount[Server]
          BY <1>0, <3>2 DEF ServerFrame
        <4>2. given[Server][f] = <<>>
          BY <1>0, <4>1 DEF FrameInv, NothingGivenAhead
        <4> QED BY <3>2, <4>2, PausedEmpty
      <3> QED BY <3>1, <3>2
    <2> HIDE DEF f, after
    <2>3. PausedAfter(paused[Server], cmds) <=> PausedAfter(FALSE, given[Server][f] \o cmds)
      BY <1>0, <2>2, PausedGiven
    <2> QED BY <1>2, <1>3, <2>1, <2>3
  <1>5. CASE broadcasts' = Append(broadcasts, list)
    <2>1. list.frame = f /\ list.crc = WorldCRC(given[Server], f) /\ list.after = after
      OBVIOUS
    <2> HIDE DEF f, after, list
    <2>2. /\ Len(broadcasts') = Len(broadcasts) + 1
          /\ \A i \in 1 .. Len(broadcasts) : broadcasts'[i] = broadcasts[i]
          /\ broadcasts'[Len(broadcasts) + 1] = list
      BY <1>0, <1>5
    <2> QED BY <1>0, <1>2, <1>3, <1>4, <2>1, <2>2 DEF f
  <1>6. CASE cmds = <<>> /\ UNCHANGED broadcasts
    <2>1. after[f] = given[Server][f]
      <3>1. given[Server][f] \o <<>> = given[Server][f]
        BY <1>0
      <3> QED BY <1>2, <1>6, <3>1
    <2> HIDE DEF after
    <2>2. after = given[Server]
      BY <1>0, <1>2, <2>1 DEF History
    <2>3. UNCHANGED given
      BY <1>0, <1>1, <2>2 DEF after
    <2> QED BY <1>0, <1>2, <1>3, <1>4, <1>6, <2>3
  <1> QED BY <1>1, <1>5, <1>6

\* The server's keyframe keeps the invariant of the frames: what it gives there
\* cannot change the past that the lists rely on.
LEMMA FrameKeyframe ==
    ASSUME FrameInv, StreamInv', ServerKeyframe
    PROVE  FrameInv'
  <1> DEFINE f == ServerFrame
             n == Len(broadcasts)
  <1>0. TypeOK /\ TypeOK' /\ n \in Nat
    BY HistoryType DEF FrameInv, StreamInv
  <1>1. /\ frameCount[Server] \in Nat /\ f \in Nat
        /\ frameCount[Server] <= f
        /\ frameCount'[Server] = f
        /\ \A c \in Clients : frameCount'[c] = frameCount[c]
        /\ UNCHANGED <<received, phase, cachedFrames, cachedPendingCommands,
                       cachedPendingCommandCRCs, cachedLastPendingFrameCount>>
    BY <1>0, ServerFrames, FrameTypes
  <1>2. /\ f \in Keyframes
        /\ \A k \in Keyframes \ {f} : given'[Server][k] = given[Server][k]
        /\ \A c \in Clients : given'[c] = given[c]
        /\ paused'[Server] <=> PausedAfter(FALSE, given'[Server][f])
        /\ \/ UNCHANGED <<given, broadcasts>>
           \/ /\ Len(broadcasts') = n + 1
              /\ \A i \in 1 .. n : broadcasts'[i] = broadcasts[i]
              /\ broadcasts'[n + 1].frame = f
              /\ broadcasts'[n + 1].crc = WorldCRC(given[Server], f)
              /\ broadcasts'[n + 1].after = given'[Server]
    BY FrameKeyframeFacts
  <1>3. /\ \A i \in 1 .. Len(broadcasts') :
              \/ i \in 1 .. n /\ broadcasts'[i] = broadcasts[i]
              \/ /\ broadcasts'[i].frame = f
                 /\ broadcasts'[i].crc = WorldCRC(given[Server], f)
                 /\ broadcasts'[i].after = given'[Server]
                 /\ i = n + 1
        /\ \A i \in 1 .. n : broadcasts'[i] = broadcasts[i] /\ i \in 1 .. Len(broadcasts')
    BY <1>0, <1>2
  <1>4. /\ \A i \in 1 .. n : broadcasts[i].frame \in Nat /\ broadcasts[i].frame <= f
        /\ \A k \in Keyframes : k \in Nat
        /\ \A c \in Clients : received[c] \in 0 .. n
    BY <1>0, <1>1, HistoryType, FrameTypes DEF FrameInv, ListsInOrder
  <1> HIDE DEF f, n
  <1>5. ListsInOrder'
    <2>1. \A i \in 1 .. Len(broadcasts') : broadcasts'[i].frame <= frameCount'[Server]
      BY <1>1, <1>3, <1>4
    <2>2. ASSUME NEW i \in 1 .. Len(broadcasts'), NEW j \in 1 .. Len(broadcasts'), i <= j
          PROVE  broadcasts'[i].frame <= broadcasts'[j].frame
      <3>1. CASE j \in 1 .. n
        <4>1. i \in 1 .. n
          BY <1>0, <2>2, <3>1
        <4> QED BY <1>3, <2>2, <3>1, <4>1 DEF FrameInv, ListsInOrder, n
      <3>2. CASE j \notin 1 .. n
        BY <1>1, <1>3, <2>1, <2>2, <3>2
      <3> QED BY <3>1, <3>2
    <2> QED BY <2>1, <2>2 DEF ListsInOrder
  <1>6. NothingGivenAhead'
    <2> SUFFICES ASSUME NEW h \in Hosts, NEW k \in Keyframes, k > frameCount'[h]
                 PROVE  given'[h][k] = <<>>
      BY DEF NothingGivenAhead
    <2>1. CASE h = Server
      BY <1>1, <1>2, <1>4, <2>1 DEF FrameInv, NothingGivenAhead
    <2>2. CASE h \in Clients
      BY <1>1, <1>2, <2>2 DEF FrameInv, NothingGivenAhead
    <2> QED BY <2>1, <2>2 DEF Hosts
  <1>7. ServerPause'
    BY <1>1, <1>2 DEF ServerPause
  <1>8. SettledLists'
    <2> SUFFICES ASSUME NEW i \in 1 .. Len(broadcasts'), NEW k \in Keyframes,
                        broadcasts'[i].frame >= k,
                        ~PausedAfter(FALSE, broadcasts'[i].after[k])
                 PROVE  /\ given'[Server][k] = broadcasts'[i].after[k]
                        /\ frameCount'[Server] > k \/ ~paused'[Server]
      BY DEF SettledLists, Settles
    <2>1. CASE i \in 1 .. n
      <3>1. /\ given[Server][k] = broadcasts[i].after[k]
            /\ frameCount[Server] > k \/ ~paused[Server]
            /\ broadcasts[i].frame <= frameCount[Server]
            /\ broadcasts[i].frame >= k
        BY <1>3, <2>1 DEF FrameInv, SettledLists, Settles, ListsInOrder, n
      <3>2. f > k
        BY <1>1, <1>4, <2>1, <3>1 DEF f, ServerFrame
      <3> QED BY <1>1, <1>2, <1>3, <1>4, <2>1, <3>1, <3>2
    <2>2. CASE i \notin 1 .. n
      <3>1. broadcasts'[i].after = given'[Server] /\ k <= f
        BY <1>1, <1>3, <1>4, <2>2
      <3>2. k = f => ~paused'[Server]
        BY <1>2, <3>1
      <3> QED BY <1>1, <1>4, <3>1, <3>2
    <2> QED BY <2>1, <2>2
  <1>9. CacheFollowsLists' /\ ChecksumsBesideCommands'
    <2>1. \A c \in Clients : received[c] = 0 \/ received[c] \in 1 .. n
      BY <1>0, <1>4
    <2>2. \A c \in Clients : received[c] # 0 => broadcasts'[received[c]] = broadcasts[received[c]]
      BY <1>3, <2>1
    <2> QED BY <1>1, <2>2 DEF FrameInv, CacheFollowsLists, ChecksumsBesideCommands
  <1>10. ChecksumsAreFinal'
    <2>1. ASSUME NEW k \in Nat, k <= f
          PROVE  WorldCRC(given'[Server], k) = WorldCRC(given[Server], k)
      <3>1. \A j \in Keyframes : j < k => given'[Server][j] = given[Server][j]
        BY <1>1, <1>2, <1>4, <2>1
      <3> QED BY <3>1, CRCOfPast
    <2>2. ASSUME NEW i \in 1 .. Len(broadcasts')
          PROVE  broadcasts'[i].crc = WorldCRC(given'[Server], broadcasts'[i].frame)
      BY <1>1, <1>3, <1>4, <2>1 DEF FrameInv, ChecksumsAreFinal, n
    <2>3. ASSUME NEW c \in Clients, NEW k \in Keyframes,
                 cachedPendingCommandCRCs[c][k] # <<>>
          PROVE  /\ k <= f
                 /\ cachedPendingCommandCRCs[c][k] = <<WorldCRC(given'[Server], k)>>
      <3>1. /\ k <= frameCount[Server]
            /\ cachedPendingCommandCRCs[c][k] = <<WorldCRC(given[Server], k)>>
        BY <2>3 DEF FrameInv, ChecksumsAreFinal
      <3>2. k \in Nat /\ k <= f
        BY <1>1, <1>4, <3>1
      <3> QED BY <2>1, <3>1, <3>2
    <2> QED BY <1>1, <2>2, <2>3 DEF ChecksumsAreFinal
  <1>11. RunsBehind'
    BY <1>0, <1>1, FrameTypes DEF FrameInv, RunsBehind
  <1> QED BY <1>5, <1>6, <1>7, <1>8, <1>9, <1>10, <1>11 DEF FrameInv

\* The parts of the invariant that are about the server and the lists alone.
ServerInv == ListsInOrder /\ ServerPause /\ SettledLists

\* They hold on while the server's world and the lists stand still.
LEMMA ServerInvKept ==
    ASSUME ServerInv, UNCHANGED broadcasts,
           frameCount'[Server] = frameCount[Server],
           paused'[Server] = paused[Server],
           given'[Server] = given[Server]
    PROVE  ServerInv'
  BY DEF ServerInv, ListsInOrder, ServerPause, SettledLists, Settles

\* What a client has stored comes from a list, so it is none of the server's future.
LEMMA CacheBehind ==
    ASSUME FrameInv, NEW c \in Clients
    PROVE  /\ cachedLastPendingFrameCount[c] <= frameCount[Server]
           /\ \A k \in cachedFrames[c] : k <= frameCount[Server]
           /\ cachedLastPendingFrameCount[c] > 0 => received[c] \in 1 .. Len(broadcasts)
           /\ \A i \in 1 .. received[c] :
                 broadcasts[i].frame <= cachedLastPendingFrameCount[c]
  <1>1. /\ received[c] \in 0 .. Len(broadcasts) /\ Len(broadcasts) \in Nat
        /\ \A k \in cachedFrames[c] : k \in Nat
        /\ cachedLastPendingFrameCount[c] \in Nat /\ frameCount[Server] \in Nat
    BY HistoryType, FrameTypes DEF FrameInv, StreamInv, TypeOK, CacheTypeOK
  <1>2. cachedLastPendingFrameCount[c] =
          IF received[c] = 0 THEN 0 ELSE broadcasts[received[c]].frame
    BY DEF FrameInv, CacheFollowsLists
  <1>3. received[c] # 0 => broadcasts[received[c]].frame <= frameCount[Server]
    BY <1>1 DEF FrameInv, ListsInOrder
  <1>4. \A i \in 1 .. received[c] : broadcasts[i].frame <= broadcasts[received[c]].frame
    BY <1>1 DEF FrameInv, ListsInOrder
  <1> QED BY <1>1, <1>2, <1>3, <1>4 DEF FrameInv, CacheFollowsLists

\* A client that stores a list keeps the invariant of the frames.
LEMMA FrameReceive ==
    ASSUME FrameInv, StreamInv', NEW c \in Clients, ClientReceive(c)
    PROVE  FrameInv'
  <1> DEFINE n == received[c]
             list == broadcasts[n + 1]
             f == list.frame
  <1>0. TypeOK
    BY DEF FrameInv, StreamInv
  <1>1. /\ n \in 0 .. Len(broadcasts) /\ n + 1 \in 1 .. Len(broadcasts)
        /\ Len(broadcasts) \in Nat
    BY <1>0 DEF TypeOK, LinkTypeOK, ClientReceive
  <1>2. /\ list \in Lists /\ f \in Keyframes /\ list.commands \in Seq(Commands)
        /\ f \in Nat /\ f <= frameCount[Server]
        /\ list.crc = WorldCRC(given[Server], f)
    BY <1>0, <1>1, HistoryType, FrameTypes DEF FrameInv, ListsInOrder, ChecksumsAreFinal
  <1>3. UNCHANGED <<frameCount, paused, given, broadcasts, phase>>
    BY DEF ClientReceive, worldVars, downVars, loopVars
  <1>4. /\ received' = [received EXCEPT ![c] = n + 1]
        /\ cachedLastPendingFrameCount' = [cachedLastPendingFrameCount EXCEPT ![c] = f]
        /\ cachedFrames' = [cachedFrames EXCEPT ![c] = @ \cup {f}]
        /\ cachedPendingCommands' =
              [cachedPendingCommands EXCEPT ![c][f] = @ \o list.commands]
        /\ cachedPendingCommandCRCs' =
              IF list.commands # <<>> /\ cachedPendingCommandCRCs[c][f] = <<>>
              THEN [cachedPendingCommandCRCs EXCEPT ![c][f] = <<list.crc>>]
              ELSE cachedPendingCommandCRCs
    BY DEF ClientReceive
  <1>5. /\ received \in [Clients -> Nat]
        /\ cachedFrames \in [Clients -> SUBSET Keyframes]
        /\ cachedPendingCommands \in [Clients -> History]
        /\ cachedPendingCommandCRCs \in [Clients -> [Keyframes -> Seq(CRCs)]]
        /\ cachedLastPendingFrameCount \in [Clients -> Keyframes \cup {0}]
    BY <1>0 DEF TypeOK, LinkTypeOK, CacheTypeOK
  <1>6. \A k \in Keyframes : k \in Nat
    BY <1>0, FrameTypes
  <1> HIDE DEF f, list
  <1>7. ServerInv'
    BY <1>3, ServerInvKept DEF FrameInv, ServerInv
  <1>8. NothingGivenAhead' /\ RunsBehind'
    BY <1>3 DEF FrameInv, NothingGivenAhead, RunsBehind
  <1>9. \A k \in Keyframes :
          cachedPendingCommands'[c][k] =
              IF k = f THEN cachedPendingCommands[c][f] \o list.commands
                       ELSE cachedPendingCommands[c][k]
    BY <1>4, <1>5 DEF History
  <1>10. \A d \in Clients \ {c} :
            /\ received'[d] = received[d]
            /\ cachedFrames'[d] = cachedFrames[d]
            /\ cachedPendingCommands'[d] = cachedPendingCommands[d]
            /\ cachedPendingCommandCRCs'[d] = cachedPendingCommandCRCs[d]
            /\ cachedLastPendingFrameCount'[d] = cachedLastPendingFrameCount[d]
    BY <1>4, <1>5
  <1>11. \A k \in Keyframes :
           cachedPendingCommandCRCs'[c][k] =
              IF k = f /\ list.commands # <<>> /\ cachedPendingCommandCRCs[c][f] = <<>>
              THEN <<list.crc>> ELSE cachedPendingCommandCRCs[c][k]
    BY <1>2, <1>4, <1>5
  <1>12. CacheFollowsLists'
    <2>1. /\ cachedLastPendingFrameCount'[c] = f
          /\ received'[c] = n + 1
          /\ cachedFrames'[c] = cachedFrames[c] \cup {f}
      BY <1>4, <1>5
    <2>2. cachedLastPendingFrameCount'[c] =
            IF received'[c] = 0 THEN 0 ELSE broadcasts'[received'[c]].frame
      <3>1. n + 1 # 0
        BY <1>1
      <3> QED BY <1>3, <2>1, <3>1 DEF f, list
    <2>3. cachedLastPendingFrameCount[c] <= f
      <3>1. cachedLastPendingFrameCount[c] =
              IF received[c] = 0 THEN 0 ELSE broadcasts[received[c]].frame
        BY DEF FrameInv, CacheFollowsLists
      <3>2. n # 0 => broadcasts[n].frame <= f
        BY <1>1 DEF FrameInv, ListsInOrder, f, list
      <3> QED BY <1>2, <3>1, <3>2
    <2>4. \A k \in cachedFrames'[c] : k <= f
      <3>1. \A k \in cachedFrames[c] : k <= cachedLastPendingFrameCount[c] /\ k \in Nat
        BY <1>5, <1>6 DEF FrameInv, CacheFollowsLists
      <3>2. cachedLastPendingFrameCount[c] \in Nat
        BY <1>0, FrameTypes
      <3> QED BY <1>2, <2>1, <2>3, <3>1, <3>2
    <2>5. \A k \in Keyframes \ cachedFrames'[c] : cachedPendingCommands'[c][k] = <<>>
      BY <1>9, <2>1 DEF FrameInv, CacheFollowsLists
    <2>6. ASSUME NEW d \in Clients, d # c
          PROVE  /\ cachedLastPendingFrameCount'[d] =
                      IF received'[d] = 0 THEN 0 ELSE broadcasts'[received'[d]].frame
                 /\ \A k \in cachedFrames'[d] : k <= cachedLastPendingFrameCount'[d]
                 /\ \A k \in Keyframes \ cachedFrames'[d] :
                       cachedPendingCommands'[d][k] = <<>>
      BY <1>3, <1>10, <2>6 DEF FrameInv, CacheFollowsLists
    <2> QED BY <2>1, <2>2, <2>4, <2>5, <2>6 DEF CacheFollowsLists
  <1>13. ChecksumsBesideCommands'
    <2> SUFFICES ASSUME NEW d \in Clients, NEW k \in Keyframes
                 PROVE  cachedPendingCommands'[d][k] # <<>>
                            <=> cachedPendingCommandCRCs'[d][k] # <<>>
      BY DEF ChecksumsBesideCommands
    <2>1. cachedPendingCommands[d][k] # <<>> <=> cachedPendingCommandCRCs[d][k] # <<>>
      BY DEF FrameInv, ChecksumsBesideCommands
    <2>2. CASE d # c
      BY <1>10, <2>1, <2>2
    <2>3. CASE d = c /\ k # f
      BY <1>9, <1>11, <2>1, <2>3
    <2>4. CASE d = c /\ k = f
      <3>1. cachedPendingCommands[c][f] \in Seq(Commands)
        BY <1>2, <1>5 DEF History
      <3>2. cachedPendingCommands[c][f] \o list.commands # <<>>
               <=> cachedPendingCommands[c][f] # <<>> \/ list.commands # <<>>
        BY <1>2, <3>1
      <3>3. <<list.crc>> # <<>>
        OBVIOUS
      <3> QED BY <1>2, <1>9, <1>11, <2>1, <2>4, <3>2, <3>3
    <2> QED BY <2>2, <2>3, <2>4
  <1>14. ChecksumsAreFinal'
    <2>1. ASSUME NEW d \in Clients, NEW k \in Keyframes,
                 cachedPendingCommandCRCs'[d][k] # <<>>
          PROVE  /\ k <= frameCount[Server]
                 /\ cachedPendingCommandCRCs'[d][k] = <<WorldCRC(given[Server], k)>>
      BY <1>2, <1>10, <1>11, <2>1 DEF FrameInv, ChecksumsAreFinal
    <2> QED BY <1>3, <2>1 DEF FrameInv, ChecksumsAreFinal
  <1> QED BY <1>7, <1>8, <1>12, <1>13, <1>14 DEF FrameInv, ServerInv

\* A world update of a client keeps the invariant of the frames: it only leaves a
\* keyframe at which it ran, and waits at the next one.
LEMMA FrameWorldUpdate ==
    ASSUME FrameInv, StreamInv', NEW c \in Clients, ClientUpdate(c) \/ ClientSecondLoop(c)
    PROVE  FrameInv'
  <1>0. TypeOK
    BY DEF FrameInv, StreamInv
  <1>1. WorldUpdate(c)
    BY DEF ClientUpdate, ClientSecondLoop
  <1>2. /\ frameCount' = [frameCount EXCEPT ![c] = frameCount[c] + 1]
        /\ phase' = [phase EXCEPT ![c] =
                        IF frameCount[c] + 1 \in Keyframes THEN "wait" ELSE "run"]
        /\ phase[c] = "run"
        /\ UNCHANGED <<paused, given, broadcasts, received, cachedFrames,
                       cachedPendingCommands, cachedPendingCommandCRCs,
                       cachedLastPendingFrameCount>>
    BY <1>1 DEF WorldUpdate, downVars, cacheVars
  <1>3. /\ frameCount'[c] = frameCount[c] + 1
        /\ \A h \in Hosts \ {c} : frameCount'[h] = frameCount[h]
        /\ phase'[c] = IF frameCount[c] + 1 \in Keyframes THEN "wait" ELSE "run"
        /\ \A d \in Clients \ {c} : phase'[d] = phase[d]
    BY <1>0, <1>2, FrameTypes DEF TypeOK, WorldTypeOK, LoopTypeOK
  <1>4. frameCount'[Server] = frameCount[Server]
    BY <1>0, <1>3, FrameTypes
  <1>5. ServerInv'
    BY <1>2, <1>4, ServerInvKept DEF FrameInv, ServerInv
  <1>6. NothingGivenAhead'
    BY <1>0, <1>2, <1>3, FrameTypes DEF FrameInv, NothingGivenAhead
  <1>7. CacheFollowsLists' /\ ChecksumsBesideCommands' /\ ChecksumsAreFinal'
    BY <1>2, <1>4 DEF FrameInv, CacheFollowsLists, ChecksumsBesideCommands,
                      ChecksumsAreFinal
  <1>8. RunsBehind'
    <2> SUFFICES ASSUME NEW d \in Clients, NEW k \in Keyframes,
                        frameCount'[d] > k \/ (frameCount'[d] = k /\ phase'[d] = "run")
                 PROVE  k <= frameCount[Server]
      BY <1>4 DEF RunsBehind
    <2>1. frameCount[c] \in Nat /\ k \in Nat
      BY <1>0, FrameTypes
    <2>2. CASE d = c
      <3>1. frameCount[c] > k \/ frameCount[c] = k
        BY <1>3, <2>1, <2>2
      <3> QED BY <1>2, <3>1 DEF FrameInv, RunsBehind
    <2>3. CASE d # c
      BY <1>0, <1>3, <2>3, FrameTypes DEF FrameInv, RunsBehind
    <2> QED BY <2>2, <2>3
  <1> QED BY <1>5, <1>6, <1>7, <1>8 DEF FrameInv, ServerInv

\* What a client that gives its stored commands changes.
LEMMA TakeFacts ==
    ASSUME TypeOK, NEW c \in Clients, ClientTake(c)
    PROVE  /\ frameCount[c] \in Keyframes /\ frameCount[c] \in cachedFrames[c]
           /\ cachedPendingCommands[c][frameCount[c]] \in Seq(Commands)
           /\ given'[c][frameCount[c]] =
                 given[c][frameCount[c]] \o cachedPendingCommands[c][frameCount[c]]
           /\ \A k \in Keyframes \ {frameCount[c]} : given'[c][k] = given[c][k]
           /\ \A h \in Hosts \ {c} : given'[h] = given[h] /\ paused'[h] = paused[h]
           /\ paused'[c] = PausedAfter(paused[c], cachedPendingCommands[c][frameCount[c]])
           /\ \A d \in Clients \ {c} :
                 /\ phase'[d] = phase[d]
                 /\ cachedPendingCommands'[d] = cachedPendingCommands[d]
                 /\ cachedPendingCommandCRCs'[d] = cachedPendingCommandCRCs[d]
           /\ \A k \in Keyframes :
                 /\ cachedPendingCommands'[c][k] =
                       IF k = frameCount[c] THEN <<>> ELSE cachedPendingCommands[c][k]
                 /\ cachedPendingCommandCRCs'[c][k] =
                       IF k = frameCount[c] THEN <<>> ELSE cachedPendingCommandCRCs[c][k]
           /\ UNCHANGED <<frameCount, broadcasts, received, loopsLeft, cachedFrames,
                          cachedLastPendingFrameCount>>
  <1> DEFINE f == frameCount[c]
             cmds == cachedPendingCommands[c][f]
  <1>1. f \in Keyframes /\ f \in cachedFrames[c] /\ c \in Hosts
    BY HostsFacts DEF ClientTake, TypeOK, CacheTypeOK
  <1>2. cmds \in Seq(Commands) /\ WorldTypeOK
    BY <1>1, HistoryType DEF TypeOK
  <1>3. Give(c, f, cmds)
    BY DEF ClientTake
  <1>4. /\ given'[c][f] = given[c][f] \o cmds
        /\ \A k \in Keyframes \ {f} : given'[c][k] = given[c][k]
        /\ \A h \in Hosts \ {c} : given'[h] = given[h] /\ paused'[h] = paused[h]
        /\ paused'[c] = PausedAfter(paused[c], cmds)
    <2> HIDE DEF f, cmds
    <2> QED BY <1>1, <1>2, <1>3, GiveType
  <1>5. /\ cachedPendingCommands' = [cachedPendingCommands EXCEPT ![c][f] = <<>>]
        /\ cachedPendingCommandCRCs' = [cachedPendingCommandCRCs EXCEPT ![c][f] = <<>>]
        /\ \E p : phase' = [phase EXCEPT ![c] = p]
        /\ UNCHANGED <<frameCount, broadcasts, received, loopsLeft, cachedFrames,
                       cachedLastPendingFrameCount>>
    BY DEF ClientTake, downVars
  <1>6. /\ cachedPendingCommands \in [Clients -> History]
        /\ cachedPendingCommandCRCs \in [Clients -> [Keyframes -> Seq(CRCs)]]
        /\ phase \in [Clients -> Phases]
    BY DEF TypeOK, CacheTypeOK, LoopTypeOK
  <1>7. \A d \in Clients \ {c} : phase'[d] = phase[d]
    BY <1>5, <1>6
  <1> HIDE DEF f, cmds
  <1>8. /\ \A d \in Clients \ {c} :
                 /\ cachedPendingCommands'[d] = cachedPendingCommands[d]
                 /\ cachedPendingCommandCRCs'[d] = cachedPendingCommandCRCs[d]
        /\ \A k \in Keyframes :
                 /\ cachedPendingCommands'[c][k] =
                       IF k = f THEN <<>> ELSE cachedPendingCommands[c][k]
                 /\ cachedPendingCommandCRCs'[c][k] =
                       IF k = f THEN <<>> ELSE cachedPendingCommandCRCs[c][k]
    BY <1>5, <1>6 DEF History
  <1> QED BY <1>1, <1>2, <1>4, <1>5, <1>7, <1>8 DEF f, cmds

\* A client that gives its stored commands keeps the invariant of the frames.
LEMMA FrameTake ==
    ASSUME FrameInv, StreamInv', NEW c \in Clients, ClientTake(c)
    PROVE  FrameInv'
  <1> DEFINE f == frameCount[c]
  <1>0. TypeOK
    BY DEF FrameInv, StreamInv
  <1>1. /\ f \in Keyframes /\ f \in cachedFrames[c]
        /\ \A k \in Keyframes \ {f} : given'[c][k] = given[c][k]
        /\ \A h \in Hosts \ {c} : given'[h] = given[h] /\ paused'[h] = paused[h]
        /\ \A d \in Clients \ {c} :
              /\ phase'[d] = phase[d]
              /\ cachedPendingCommands'[d] = cachedPendingCommands[d]
              /\ cachedPendingCommandCRCs'[d] = cachedPendingCommandCRCs[d]
        /\ \A k \in Keyframes :
              /\ cachedPendingCommands'[c][k] =
                    IF k = f THEN <<>> ELSE cachedPendingCommands[c][k]
              /\ cachedPendingCommandCRCs'[c][k] =
                    IF k = f THEN <<>> ELSE cachedPendingCommandCRCs[c][k]
        /\ UNCHANGED <<frameCount, broadcasts, received, cachedFrames,
                       cachedLastPendingFrameCount>>
    BY <1>0, TakeFacts
  <1>2. /\ given'[Server] = given[Server] /\ paused'[Server] = paused[Server]
        /\ frameCount'[Server] = frameCount[Server]
    BY <1>0, <1>1, FrameTypes
  <1> HIDE DEF f
  <1>3. ServerInv'
    BY <1>1, <1>2, ServerInvKept DEF FrameInv, ServerInv
  <1>4. NothingGivenAhead'
    <2> SUFFICES ASSUME NEW h \in Hosts, NEW k \in Keyframes, k > frameCount[h]
                 PROVE  given'[h][k] = <<>>
      BY <1>1 DEF NothingGivenAhead
    <2>1. given[h][k] = <<>>
      BY DEF FrameInv, NothingGivenAhead
    <2>2. h = c => k # f
      BY <1>0, FrameTypes DEF f
    <2> QED BY <1>1, <2>1, <2>2
  <1>5. CacheFollowsLists'
    BY <1>1 DEF FrameInv, CacheFollowsLists
  <1>6. ChecksumsBesideCommands'
    BY <1>1 DEF FrameInv, ChecksumsBesideCommands
  <1>7. ChecksumsAreFinal'
    BY <1>1, <1>2 DEF FrameInv, ChecksumsAreFinal
  <1>8. RunsBehind'
    <2> SUFFICES ASSUME NEW d \in Clients, NEW k \in Keyframes,
                        frameCount[d] > k \/ (frameCount[d] = k /\ phase'[d] = "run")
                 PROVE  k <= frameCount[Server]
      BY <1>1 DEF RunsBehind
    <2>1. CASE frameCount[d] > k \/ d # c
      BY <1>1, <2>1 DEF FrameInv, RunsBehind
    <2>2. CASE d = c /\ frameCount[d] = k
      BY <1>1, <2>2, CacheBehind DEF f
    <2> QED BY <2>1, <2>2
  <1> QED BY <1>3, <1>4, <1>5, <1>6, <1>7, <1>8 DEF FrameInv, ServerInv

\* So does a step that changes a client's phase only: it runs past a keyframe
\* without a list of its own only when the server is past it.
LEMMA FramePhase ==
    ASSUME FrameInv, StreamInv', NEW c \in Clients,
           ClientIdleUpdate(c) \/ ClientSkip(c) \/ ClientLeave(c)
    PROVE  FrameInv'
  <1>0. TypeOK
    BY DEF FrameInv, StreamInv
  <1>1. UNCHANGED <<frameCount, paused, given, broadcasts, received, cachedFrames,
                    cachedPendingCommands, cachedPendingCommandCRCs,
                    cachedLastPendingFrameCount>>
    BY DEF ClientIdleUpdate, ClientSkip, ClientLeave, worldVars, downVars, cacheVars
  <1>2. \A d \in Clients : phase'[d] = "run" =>
          phase[d] = "run" \/ (d = c /\ cachedLastPendingFrameCount[c] > frameCount[c])
    BY <1>0 DEF ClientIdleUpdate, ClientSkip, ClientLeave, TypeOK, LoopTypeOK
  <1>3. ServerInv'
    BY <1>1, ServerInvKept DEF FrameInv, ServerInv
  <1>4. /\ NothingGivenAhead' /\ CacheFollowsLists'
        /\ ChecksumsBesideCommands' /\ ChecksumsAreFinal'
    BY <1>1 DEF FrameInv, NothingGivenAhead, CacheFollowsLists,
                ChecksumsBesideCommands, ChecksumsAreFinal
  <1>5. RunsBehind'
    <2> SUFFICES ASSUME NEW d \in Clients, NEW k \in Keyframes,
                        frameCount[d] > k \/ (frameCount[d] = k /\ phase'[d] = "run")
                 PROVE  k <= frameCount[Server]
      BY <1>1 DEF RunsBehind
    <2>1. CASE frameCount[d] > k \/ phase[d] = "run"
      BY <2>1 DEF FrameInv, RunsBehind
    <2>2. CASE frameCount[d] = k /\ d = c /\ cachedLastPendingFrameCount[c] > frameCount[c]
      BY <1>0, <2>2, CacheBehind, FrameTypes
    <2> QED BY <1>2, <2>1, <2>2
  <1> QED BY <1>3, <1>4, <1>5 DEF FrameInv, ServerInv

\* The invariant of the frames holds before the first update.
LEMMA FrameInit == Init => FrameInv
  <1> SUFFICES ASSUME Init PROVE FrameInv
    OBVIOUS
  <1>1. StreamInv /\ TypeOK
    BY StreamInit, TypeInit
  <1>2. broadcasts = <<>> /\ Len(broadcasts) = 0
    BY DEF Init
  <1>3. /\ \A h \in Hosts : frameCount[h] = 0 /\ given[h] = NoCommands /\ ~paused[h]
        /\ \A c \in Clients : c \in Hosts
        /\ Server \in Hosts /\ 0 \notin Keyframes
        /\ \A k \in Keyframes : k \in Nat /\ k > 0
    BY <1>1, FrameTypes DEF Init
  <1>4. ListsInOrder /\ SettledLists
    BY <1>2 DEF ListsInOrder, SettledLists
  <1>5. NothingGivenAhead /\ ServerPause
    BY <1>3 DEF NothingGivenAhead, ServerPause, NoCommands
  <1>6. CacheFollowsLists
    BY DEF Init, CacheFollowsLists, NoCommands
  <1>7. ChecksumsBesideCommands /\ ChecksumsAreFinal
    BY <1>2 DEF Init, ChecksumsBesideCommands, ChecksumsAreFinal, NoCommands
  <1>8. RunsBehind
    BY <1>3 DEF RunsBehind
  <1> QED BY <1>1, <1>4, <1>5, <1>6, <1>7, <1>8 DEF FrameInv

\* Every step keeps it: one case per action that touches what it speaks of.
LEMMA FrameNext == FrameInv /\ [Next]_vars => FrameInv'
  <1> SUFFICES ASSUME FrameInv, [Next]_vars PROVE FrameInv'
    OBVIOUS
  <1>1. StreamInv'
    BY StreamNext DEF FrameInv
  <1>2. CASE UNCHANGED frameVars
    BY <1>1, <1>2 DEF frameVars, FrameInv, ListsInOrder, NothingGivenAhead, ServerPause,
                      SettledLists, Settles, CacheFollowsLists, ChecksumsBesideCommands,
                      ChecksumsAreFinal, RunsBehind
  <1>3. CASE ServerUpdate
    BY <1>1, <1>3, FrameServerUpdate
  <1>4. CASE ServerKeyframe
    BY <1>1, <1>4, FrameKeyframe
  <1>5. ASSUME NEW c \in Clients,
               \/ ClientReceive(c) \/ ClientUpdate(c) \/ ClientSecondLoop(c)
               \/ ClientTake(c) \/ ClientIdleUpdate(c) \/ ClientSkip(c)
               \/ ClientLeave(c)
        PROVE  FrameInv'
    BY <1>1, <1>5, FrameReceive, FrameWorldUpdate, FrameTake, FramePhase
  <1>6. CASE UNCHANGED vars
    BY <1>2, <1>6 DEF vars, frameVars
  <1> QED BY <1>2, <1>3, <1>4, <1>5, <1>6, FrameSteps

\* The invariant of the frames, which everything below rests on.
LEMMA FramesCorrect == Spec => []FrameInv
  <1>1. Init => FrameInv
    BY FrameInit
  <1>2. FrameInv /\ [Next]_vars => FrameInv'
    BY FrameNext
  <1> QED BY <1>1, <1>2, PTL DEF Spec

\* ClientInterface::getNetworkCommand may index the checksums of a frame whenever
\* the frame has commands: whatever the network thread stored and however often
\* the frame was taken before, the two are there together.
THEOREM ChecksumsAlwaysBeside == Spec => []ChecksumsBesideCommands
  <1>1. FrameInv => ChecksumsBesideCommands
    BY DEF FrameInv
  <1> QED BY <1>1, FramesCorrect, PTL
-----------------------------------------------------------------------------
(* Keyframes are a period apart.                                           *)

\* Two frames in a row are keyframes only if every frame is one.
LEMMA KeyframesApart ==
    ASSUME NEW n \in Nat, n \in Keyframes, n + 1 \in Keyframes
    PROVE  FramePeriod = 1
  <1> DEFINE p == FramePeriod
  <1>1. p \in Nat /\ p >= 1 /\ n % p = 0 /\ (n + 1) % p = 0
    BY BoundsAssumption DEF Keyframes
  <1> HIDE DEF p
  <1>2. p = 1
    BY <1>1
  <1> QED BY <1>2 DEF p

\* A world update only moves a client past a keyframe that the server has reached:
\* through catch-ups, pauses and lost links, no client's world passes one before the
\* server's world is there.
THEOREM NeverAhead == Spec => []ServerReachesFirst
  <1>1. FrameInv => ServerReachesFirst
    BY DEF FrameInv, RunsBehind, ServerReachesFirst
  <1> QED BY <1>1, FramesCorrect, PTL
-----------------------------------------------------------------------------
(* What a client knows when its world moves on.                            *)

\* The invariant of one client.
ClientInv(c) ==
    /\ frameCount[c] \in Keyframes =>
          (paused[c] <=> PausedAfter(FALSE, given[c][frameCount[c]]))
    /\ loopsLeft[c] > 0 => MaxCatchUp > 0
    /\ Stranded(c) => MaxCatchUp > 0 /\ loopsLeft[c] = 0 /\ phase[c] # "wait"
    /\ phase[c] # "desync"
    /\ \A k \in Keyframes :
          /\ frameCount[c] = k /\ phase[c] = "run" => Knows(c, k)
          /\ frameCount[c] > k =>
                /\ Knows(c, k)
                /\ ~PausedAfter(FALSE, given[c][k]) \/ Stranded(c)

\* The whole invariant is that of the frames and of every client.
LEMMA ClientByClient ==
    /\ KnowInv <=> FrameInv /\ \A c \in Clients : ClientInv(c)
    /\ KnowInv' <=> FrameInv' /\ \A c \in Clients : ClientInv(c)'
  BY DEF KnowInv, ClientPause, StrandedStays, ClientsKnow, NoFalseDesync, ClientInv

\* What a client knows does not depend on the lists that follow.
LEMMA KnowsKept ==
    ASSUME NEW c \in Clients, NEW k \in Keyframes, Knows(c, k), TypeOK, TypeOK',
           received[c] <= received'[c], given'[c][k] = given[c][k],
           \A i \in 1 .. Len(broadcasts) : broadcasts'[i] = broadcasts[i]
    PROVE  Knows(c, k)'
  <1>1. PICK i \in 1 .. received[c] :
          broadcasts[i].frame >= k /\ given[c][k] = broadcasts[i].after[k]
    BY DEF Knows
  <1>2. received[c] \in 0 .. Len(broadcasts) /\ Len(broadcasts) \in Nat
    BY HistoryType
  <1>3. received'[c] \in Nat
    BY DEF TypeOK, LinkTypeOK
  <1>4. i \in 1 .. Len(broadcasts) /\ i \in 1 .. received'[c]
    BY <1>1, <1>2, <1>3
  <1> QED BY <1>1, <1>4 DEF Knows

\* A client that takes no step keeps its invariant.
LEMMA ClientInvKept ==
    ASSUME NEW c \in Clients, ClientInv(c), TypeOK, TypeOK',
           frameCount'[c] = frameCount[c], paused'[c] = paused[c],
           given'[c] = given[c], phase'[c] = phase[c], loopsLeft'[c] = loopsLeft[c],
           received[c] <= received'[c],
           \A i \in 1 .. Len(broadcasts) : broadcasts'[i] = broadcasts[i]
    PROVE  ClientInv(c)'
  <1>1. ASSUME NEW k \in Keyframes, Knows(c, k)
        PROVE  Knows(c, k)'
    BY <1>1, KnowsKept
  <1>2. Stranded(c)' <=> Stranded(c)
    BY DEF Stranded
  <1> QED BY <1>1, <1>2 DEF ClientInv

\* The server's steps change nothing of what a client knows.
LEMMA KnowServer ==
    ASSUME KnowInv, FrameInv', ServerUpdate \/ ServerKeyframe
    PROVE  KnowInv'
  <1>0. TypeOK /\ TypeOK' /\ FrameInv
    BY DEF KnowInv, FrameInv, StreamInv
  <1>1. /\ \A c \in Clients : frameCount'[c] = frameCount[c]
        /\ UNCHANGED <<received, phase, loopsLeft>>
    BY <1>0, ServerFrames
  <1>2. \A i \in 1 .. Len(broadcasts) : broadcasts'[i] = broadcasts[i]
    BY <1>0, FrameKeyframeFacts DEF ServerUpdate, downVars
  <1>3. \A c \in Clients : given'[c] = given[c] /\ paused'[c] = paused[c]
    <2>1. CASE ServerUpdate
      BY <2>1 DEF ServerUpdate
    <2>2. CASE ServerKeyframe
      <3>1. \A c \in Clients : paused'[c] = paused[c]
        BY <1>0, <2>2, FrameTypes DEF ServerKeyframe, Give, TypeOK, WorldTypeOK
      <3> QED BY <1>0, <2>2, <3>1, FrameKeyframeFacts
    <2> QED BY <2>1, <2>2
  <1>4. \A c \in Clients : received[c] <= received'[c]
    BY <1>0, <1>1 DEF TypeOK, LinkTypeOK
  <1>5. ASSUME NEW c \in Clients
        PROVE  ClientInv(c)'
    <2>1. ClientInv(c)
      BY ClientByClient
    <2> QED BY <1>0, <1>1, <1>2, <1>3, <1>4, <2>1, ClientInvKept
  <1> QED BY <1>5, ClientByClient

\* Nor does another list.
LEMMA KnowReceive ==
    ASSUME KnowInv, FrameInv', NEW c \in Clients, ClientReceive(c)
    PROVE  KnowInv'
  <1>0. TypeOK /\ TypeOK'
    BY DEF KnowInv, FrameInv, StreamInv
  <1>1. UNCHANGED <<frameCount, paused, given, broadcasts, phase, loopsLeft>>
    BY DEF ClientReceive, worldVars, downVars, loopVars
  <1>2. \A d \in Clients : received[d] <= received'[d]
    BY <1>0 DEF ClientReceive, TypeOK, LinkTypeOK
  <1>3. ASSUME NEW d \in Clients
        PROVE  ClientInv(d)'
    <2>1. ClientInv(d)
      BY ClientByClient
    <2> QED BY <1>0, <1>1, <1>2, <2>1, ClientInvKept
  <1> QED BY <1>3, ClientByClient

\* A client moves on only from a keyframe it knows, unpaused or to be stranded.
LEMMA KnowWorldUpdate ==
    ASSUME KnowInv, CatchUpStrands, FrameInv', NEW c \in Clients,
           ClientUpdate(c) \/ ClientSecondLoop(c)
    PROVE  KnowInv'
  <1> DEFINE f == frameCount[c]
  <1>0. TypeOK /\ TypeOK' /\ FrameInv
    BY DEF KnowInv, FrameInv, StreamInv
  <1>1. WorldUpdate(c)
    BY DEF ClientUpdate, ClientSecondLoop
  <1>2. /\ frameCount' = [frameCount EXCEPT ![c] = f + 1]
        /\ phase' = [phase EXCEPT ![c] = IF f + 1 \in Keyframes THEN "wait" ELSE "run"]
        /\ phase[c] = "run"
        /\ UNCHANGED <<paused, given, broadcasts, received>>
    BY <1>1 DEF WorldUpdate, downVars, cacheVars
  <1>3. /\ f \in Nat
        /\ frameCount'[c] = f + 1
        /\ \A d \in Clients \ {c} : frameCount'[d] = frameCount[d] /\ phase'[d] = phase[d]
        /\ phase'[c] = IF f + 1 \in Keyframes THEN "wait" ELSE "run"
        /\ c \in Hosts
        /\ \A k \in Keyframes : k \in Nat
    BY <1>0, <1>2, FrameTypes DEF TypeOK, WorldTypeOK, LoopTypeOK
  <1>4. /\ \A d \in Clients \ {c} : loopsLeft'[d] = loopsLeft[d]
        /\ loopsLeft'[c] > 0 => MaxCatchUp > 0
        /\ ~paused[c] \/ (loopsLeft[c] > 0 /\ loopsLeft'[c] = 0)
    <2>1. CASE ClientUpdate(c)
      <3>1. PICK n \in FramesToCatchUp(c) :
              loopsLeft' = [loopsLeft EXCEPT ![c] = IF n > 0 THEN 1 ELSE 0]
        BY <2>1 DEF ClientUpdate
      <3>2. n > 0 => MaxCatchUp > 0
        BY <1>0, BoundsAssumption DEF FramesToCatchUp, TypeOK, LoopTypeOK
      <3> QED BY <1>0, <2>1, <3>1, <3>2 DEF ClientUpdate, TypeOK, LoopTypeOK
    <2>2. CASE ClientSecondLoop(c)
      BY <1>0, <2>2 DEF ClientSecondLoop, TypeOK, LoopTypeOK
    <2> QED BY <2>1, <2>2
  <1>5. ClientInv(c)
    BY ClientByClient
  <1> HIDE DEF f
  <1>6. ASSUME NEW d \in Clients, d # c
        PROVE  ClientInv(d)'
    <2>1. ClientInv(d)
      BY ClientByClient
    <2>2. received[d] \in Nat
      BY <1>0 DEF TypeOK, LinkTypeOK
    <2> QED BY <1>0, <1>2, <1>3, <1>4, <1>6, <2>1, <2>2, ClientInvKept
  <1>7. f + 1 \in Keyframes => ~paused[c]
    <2> SUFFICES ASSUME f + 1 \in Keyframes, paused[c] PROVE FALSE
      OBVIOUS
    <2>1. loopsLeft[c] > 0 /\ MaxCatchUp > 0
      BY <1>4, <1>5 DEF ClientInv
    <2>2. f \in Keyframes
      BY <1>5, <2>1 DEF ClientInv, Stranded, f
    <2>3. FramePeriod > 1
      BY <2>1, BoundsAssumption DEF CatchUpStrands
    <2> QED BY <1>3, <2>2, <2>3, KeyframesApart
  <1>8. ClientInv(c)'
    <2>1. /\ frameCount'[c] \in Keyframes =>
             (paused'[c] <=> PausedAfter(FALSE, given'[c][frameCount'[c]]))
      <3> SUFFICES ASSUME f + 1 \in Keyframes
                   PROVE  paused[c] <=> PausedAfter(FALSE, given[c][f + 1])
        BY <1>2, <1>3
      <3>1. given[c][f + 1] = <<>>
        BY <1>0, <1>3 DEF FrameInv, NothingGivenAhead, f
      <3> QED BY <1>7, <3>1, PausedEmpty
    <2>2. Stranded(c)' => MaxCatchUp > 0 /\ loopsLeft'[c] = 0 /\ phase'[c] # "wait"
      BY <1>2, <1>3, <1>4, <1>5 DEF Stranded, ClientInv
    <2>3. paused[c] => Stranded(c)'
      BY <1>2, <1>3, <1>7 DEF Stranded
    <2>4. ASSUME NEW k \in Keyframes, f + 1 > k
          PROVE  Knows(c, k)' /\ (~PausedAfter(FALSE, given'[c][k]) \/ Stranded(c)')
      <3>1. f = k \/ f > k
        BY <1>3, <2>4
      <3>2. Knows(c, k)
        BY <1>2, <1>5, <3>1 DEF ClientInv, f
      <3>3. Knows(c, k)'
        <4>1. received[c] <= received'[c]
          BY <1>0, <1>2 DEF TypeOK, LinkTypeOK
        <4> QED BY <1>0, <1>2, <3>2, <4>1, KnowsKept
      <3>4. CASE paused[c]
        BY <2>3, <3>3, <3>4
      <3>5. CASE ~paused[c]
        <4>1. ~PausedAfter(FALSE, given[c][k])
          BY <1>5, <3>1, <3>5 DEF ClientInv, Stranded, f
        <4> QED BY <1>2, <3>3, <4>1
      <3> QED BY <3>4, <3>5
    <2>5. \A k \in Keyframes : f + 1 = k => phase'[c] # "run"
      BY <1>3
    <2>6. phase'[c] # "desync"
      BY <1>3
    <2> QED BY <1>3, <1>4, <2>1, <2>2, <2>4, <2>5, <2>6 DEF ClientInv
  <1> QED BY <1>6, <1>8, ClientByClient

\* A client that is not stranded has given all that the server ever gives at the
\* keyframes behind it: the list it knows one by left it unpaused, so it settled
\* the keyframe.
LEMMA NothingMissed ==
    ASSUME FrameInv, NEW c \in Clients, ClientInv(c), ~Stranded(c),
           NEW k \in Keyframes, k < frameCount[c]
    PROVE  given[c][k] = given[Server][k]
  <1>1. k \in Nat /\ frameCount[c] \in Nat
    BY FrameTypes DEF FrameInv, StreamInv
  <1>2. Knows(c, k) /\ ~PausedAfter(FALSE, given[c][k])
    BY <1>1 DEF ClientInv
  <1>3. PICK i \in 1 .. received[c] :
          broadcasts[i].frame >= k /\ given[c][k] = broadcasts[i].after[k]
    BY <1>2 DEF Knows
  <1>4. i \in 1 .. Len(broadcasts)
    BY HistoryType DEF FrameInv, StreamInv
  <1>5. Settles(i, k)
    BY <1>2, <1>3 DEF Settles
  <1> QED BY <1>3, <1>4, <1>5 DEF FrameInv, SettledLists

\* What a client gave and stored at a keyframe is what the last list it received
\* says, once that list is one of the keyframe or a later one.
LEMMA StoredIsLast ==
    ASSUME FrameInv, NEW c \in Clients, NEW k \in Keyframes,
           cachedLastPendingFrameCount[c] >= k
    PROVE  /\ received[c] \in 1 .. received[c] /\ received[c] \in 1 .. Len(broadcasts)
           /\ broadcasts[received[c]].frame >= k
           /\ given[c][k] \o cachedPendingCommands[c][k] = broadcasts[received[c]].after[k]
  <1>1. k \in Nat /\ k > 0 /\ cachedLastPendingFrameCount[c] \in Nat
    BY FrameTypes DEF FrameInv, StreamInv
  <1>2. /\ received[c] \in 1 .. Len(broadcasts)
        /\ broadcasts[received[c]].frame = cachedLastPendingFrameCount[c]
    BY <1>1, CacheBehind DEF FrameInv, CacheFollowsLists
  <1>3. given[c][k] \o cachedPendingCommands[c][k] = Delivered(broadcasts, received[c])[k]
    BY DEF FrameInv, StreamInv, CacheAddsUp
  <1> QED BY <1>2, <1>3 DEF Delivered

\* A client that gives its stored commands finds the server's checksums, and knows
\* the keyframe from then on.
LEMMA KnowTake ==
    ASSUME KnowInv, FrameInv', NEW c \in Clients, ClientTake(c)
    PROVE  KnowInv'
  <1> DEFINE f == frameCount[c]
             cmds == cachedPendingCommands[c][f]
  <1>0. TypeOK /\ TypeOK' /\ FrameInv /\ ClientInv(c)
    BY ClientByClient DEF KnowInv, FrameInv, StreamInv
  <1>1. /\ f \in Keyframes /\ f \in cachedFrames[c]
        /\ cmds \in Seq(Commands)
        /\ given'[c][f] = given[c][f] \o cmds
        /\ \A k \in Keyframes \ {f} : given'[c][k] = given[c][k]
        /\ \A h \in Hosts \ {c} : given'[h] = given[h] /\ paused'[h] = paused[h]
        /\ paused'[c] = PausedAfter(paused[c], cmds)
        /\ \A d \in Clients \ {c} : phase'[d] = phase[d]
        /\ UNCHANGED <<frameCount, broadcasts, received, loopsLeft>>
    BY <1>0, TakeFacts
  <1>2. /\ phase[c] = "wait" /\ ~Stranded(c)
        /\ c \in Hosts /\ f \in Nat
        /\ given[c][f] \in Seq(Commands) /\ paused[c] \in BOOLEAN
        /\ \A k \in Keyframes : k \in Nat
    BY <1>0, <1>1, FrameTypes, HistoryType DEF ClientTake, Stranded
  <1>3. cmds # <<>> => cachedPendingCommandCRCs[c][f] = <<WorldCRC(given[c], f)>>
    <2> SUFFICES ASSUME cmds # <<>>
                 PROVE  cachedPendingCommandCRCs[c][f] = <<WorldCRC(given[c], f)>>
      OBVIOUS
    <2>1. cachedPendingCommandCRCs[c][f] # <<>>
      BY <1>0, <1>1 DEF FrameInv, ChecksumsBesideCommands
    <2>2. cachedPendingCommandCRCs[c][f] = <<WorldCRC(given[Server], f)>>
      BY <1>0, <1>1, <2>1 DEF FrameInv, ChecksumsAreFinal
    <2>3. \A k \in Keyframes : k < f => given[c][k] = given[Server][k]
      BY <1>0, <1>2, NothingMissed
    <2>4. WorldCRC(given[c], f) = WorldCRC(given[Server], f)
      <3> HIDE DEF f
      <3> QED BY <2>3, CRCOfPast
    <2> QED BY <2>2, <2>4
  <1>4. phase'[c] = "run"
    BY <1>0, <1>3 DEF ClientTake, TypeOK, LoopTypeOK
  <1> HIDE DEF f, cmds
  <1>5. paused'[c] <=> PausedAfter(FALSE, given'[c][f])
    <2>1. paused[c] <=> PausedAfter(FALSE, given[c][f])
      BY <1>0, <1>1 DEF ClientInv, f
    <2>2. PausedAfter(paused[c], cmds) <=> PausedAfter(FALSE, given[c][f] \o cmds)
      BY <1>1, <1>2, <2>1, PausedGiven
    <2> QED BY <1>1, <2>2
  <1>6. ASSUME NEW k \in Keyframes, k = f
        PROVE  Knows(c, k)'
    <2>1. cachedLastPendingFrameCount[c] >= f
      BY <1>0, <1>1, <1>2, FrameTypes DEF FrameInv, CacheFollowsLists
    <2>2. /\ received[c] \in 1 .. received[c]
          /\ broadcasts[received[c]].frame >= k
          /\ given'[c][k] = broadcasts[received[c]].after[k]
      BY <1>0, <1>1, <1>6, <2>1, StoredIsLast DEF cmds, f
    <2> QED BY <1>1, <2>2 DEF Knows
  <1>7. ASSUME NEW k \in Keyframes, f > k
        PROVE  Knows(c, k)' /\ ~PausedAfter(FALSE, given'[c][k])
    <2>1. Knows(c, k) /\ ~PausedAfter(FALSE, given[c][k])
      BY <1>0, <1>2, <1>7 DEF ClientInv, f
    <2>2. given'[c][k] = given[c][k]
      BY <1>1, <1>2, <1>7
    <2> QED BY <1>1, <2>1, <2>2 DEF Knows
  <1>8. ~Stranded(c)'
    BY <1>1 DEF Stranded, f
  <1>9. ClientInv(c)'
    BY <1>0, <1>1, <1>4, <1>5, <1>6, <1>7, <1>8 DEF ClientInv, f
  <1>10. ASSUME NEW d \in Clients, d # c
         PROVE  ClientInv(d)'
    <2>1. ClientInv(d) /\ d \in Hosts
      BY <1>0, ClientByClient, FrameTypes
    <2>2. received[d] <= received'[d]
      BY <1>0, <1>1 DEF TypeOK, LinkTypeOK
    <2> QED BY <1>0, <1>1, <1>10, <2>1, <2>2, ClientInvKept
  <1> QED BY <1>9, <1>10, ClientByClient

\* A client that skips a keyframe knows it: a later list says that there is nothing
\* to give there.
LEMMA KnowPhase ==
    ASSUME KnowInv, FrameInv', NEW c \in Clients,
           ClientIdleUpdate(c) \/ ClientSkip(c) \/ ClientLeave(c)
    PROVE  KnowInv'
  <1> DEFINE f == frameCount[c]
  <1>0. TypeOK /\ TypeOK' /\ FrameInv /\ ClientInv(c)
    BY ClientByClient DEF KnowInv, FrameInv, StreamInv
  <1>1. UNCHANGED <<frameCount, paused, given, broadcasts, received, loopsLeft>>
    BY DEF ClientIdleUpdate, ClientSkip, ClientLeave, worldVars, downVars, cacheVars
  <1>2. /\ \A d \in Clients \ {c} : phase'[d] = phase[d]
        /\ phase'[c] \in {"wait", "run", "left"}
        /\ phase'[c] = "wait" => ~Stranded(c)
        /\ phase'[c] = "run" =>
              /\ f \notin cachedFrames[c]
              /\ cachedLastPendingFrameCount[c] > f
    BY <1>0 DEF ClientIdleUpdate, ClientSkip, ClientLeave, Stranded, TypeOK, LoopTypeOK
  <1>3. \A d \in Clients : received[d] <= received'[d]
    BY <1>0, <1>1 DEF TypeOK, LinkTypeOK
  <1>4. ASSUME NEW k \in Keyframes, Knows(c, k)
        PROVE  Knows(c, k)'
    BY <1>1, <1>4 DEF Knows
  <1>5. ASSUME NEW k \in Keyframes, k = f, phase'[c] = "run"
        PROVE  Knows(c, k)'
    <2>1. f \in Nat /\ cachedLastPendingFrameCount[c] \in Nat
      BY <1>0, FrameTypes
    <2>2. cachedPendingCommands[c][f] = <<>>
      BY <1>0, <1>2, <1>5 DEF FrameInv, CacheFollowsLists
    <2>3. given[c][f] \o <<>> = given[c][f]
      <3>1. given[c][f] \in Seq(Commands)
        BY <1>0, <1>5, HistoryType, FrameTypes
      <3> QED BY <3>1
    <2>4. /\ received[c] \in 1 .. received[c]
          /\ broadcasts[received[c]].frame >= k
          /\ given[c][k] = broadcasts[received[c]].after[k]
      <3>1. cachedLastPendingFrameCount[c] >= k
        BY <1>2, <1>5, <2>1
      <3>2. /\ received[c] \in 1 .. received[c]
            /\ broadcasts[received[c]].frame >= k
            /\ given[c][k] \o cachedPendingCommands[c][k] = broadcasts[received[c]].after[k]
        BY <1>0, <3>1, StoredIsLast
      <3> QED BY <1>5, <2>2, <2>3, <3>2
    <2> QED BY <1>1, <2>4 DEF Knows
  <1>6. Stranded(c)' <=> Stranded(c)
    BY <1>1 DEF Stranded
  <1>7. ClientInv(c)'
    BY <1>0, <1>1, <1>2, <1>4, <1>5, <1>6 DEF ClientInv
  <1>8. ASSUME NEW d \in Clients, d # c
        PROVE  ClientInv(d)'
    <2>1. ClientInv(d)
      BY ClientByClient
    <2> QED BY <1>0, <1>1, <1>2, <1>3, <1>8, <2>1, ClientInvKept
  <1> QED BY <1>7, <1>8, ClientByClient

\* The invariant holds before the first update.
LEMMA KnowInit == Init => KnowInv
  <1> SUFFICES ASSUME Init PROVE KnowInv
    OBVIOUS
  <1>1. FrameInv /\ TypeOK
    BY FrameInit, TypeInit
  <1>2. ASSUME NEW c \in Clients
        PROVE  ClientInv(c)
    <2>1. frameCount[c] = 0 /\ ~paused[c] /\ loopsLeft[c] = 0 /\ phase[c] = "run"
      BY <1>1, FrameTypes DEF Init
    <2>2. \A k \in Keyframes : k \in Nat /\ k > 0
      BY <1>1, FrameTypes
    <2>3. 0 \notin Keyframes /\ \A k \in Keyframes : ~(0 > k) /\ 0 # k
      BY <2>2
    <2>4. ~Stranded(c)
      BY <2>1 DEF Stranded
    <2>5. ~(loopsLeft[c] > 0) /\ phase[c] # "desync"
      BY <2>1
    <2>6. /\ frameCount[c] \notin Keyframes
          /\ \A k \in Keyframes : frameCount[c] # k /\ ~(frameCount[c] > k)
      BY <2>1, <2>3
    <2> QED BY <2>4, <2>5, <2>6, Zenon DEF ClientInv
  <1> QED BY <1>1, <1>2, ClientByClient

\* Every step keeps it where a catch-up can only strand a client.
LEMMA KnowNext ==
    ASSUME CatchUpStrands
    PROVE  KnowInv /\ [Next]_vars => KnowInv'
  <1> SUFFICES ASSUME KnowInv, [Next]_vars PROVE KnowInv'
    OBVIOUS
  <1>1. FrameInv'
    BY FrameNext DEF KnowInv
  <1>2. CASE UNCHANGED frameVars
    BY <1>1, <1>2 DEF frameVars, KnowInv, ClientPause, StrandedStays, Stranded,
                      ClientsKnow, Knows, NoFalseDesync
  <1>3. CASE ServerUpdate \/ ServerKeyframe
    BY <1>1, <1>3, KnowServer
  <1>4. ASSUME NEW c \in Clients,
               \/ ClientReceive(c) \/ ClientUpdate(c) \/ ClientSecondLoop(c)
               \/ ClientTake(c) \/ ClientIdleUpdate(c) \/ ClientSkip(c)
               \/ ClientLeave(c)
        PROVE  KnowInv'
    BY <1>1, <1>4, KnowReceive, KnowWorldUpdate, KnowTake, KnowPhase
  <1>5. CASE UNCHANGED vars
    BY <1>2, <1>5 DEF vars, frameVars
  <1> QED BY <1>2, <1>3, <1>4, <1>5, FrameSteps

\* What the clients know, in every state of a match.
LEMMA KnowCorrect ==
    ASSUME CatchUpStrands
    PROVE  Spec => []KnowInv
  <1>1. Init => KnowInv
    BY KnowInit
  <1>2. KnowInv /\ [Next]_vars => KnowInv'
    BY KnowNext
  <1> QED BY <1>1, <1>2, PTL DEF Spec

\* ClientInterface::getNetworkCommand compares the checksums of the server with
\* those of its own world, which may be far behind or in a catch-up, and may have
\* stored several lists for one keyframe: it never finds a difference that is none.
THEOREM NeverDesync == CatchUpStrands => (Spec => []NoFalseDesync)
  <1> SUFFICES ASSUME CatchUpStrands PROVE Spec => []NoFalseDesync
    OBVIOUS
  <1>1. KnowInv => NoFalseDesync
    BY DEF KnowInv
  <1> QED BY <1>1, KnowCorrect, PTL

\* No client's world runs on without a command of the server's, unless a catch-up
\* carried it past the keyframe that paused it.
THEOREM NothingMissedUnlessStranded == CatchUpStrands => (Spec => []OnlyTheStrandedMiss)
  <1> SUFFICES ASSUME CatchUpStrands PROVE Spec => []OnlyTheStrandedMiss
    OBVIOUS
  <1>1. KnowInv => OnlyTheStrandedMiss
    BY ClientByClient, NothingMissed DEF OnlyTheStrandedMiss
  <1> QED BY <1>1, KnowCorrect, PTL

\* Without catch-ups nothing strands a client: every world that moved past a
\* keyframe has given all that the server ever gives there.
THEOREM NothingMissedWithoutCatchUp == MaxCatchUp = 0 => (Spec => []NothingMissedBehind)
  <1> SUFFICES ASSUME MaxCatchUp = 0 PROVE Spec => []NothingMissedBehind
    OBVIOUS
  <1>1. CatchUpStrands
    BY DEF CatchUpStrands
  <1>2. KnowInv => NothingMissedBehind
    <2> SUFFICES ASSUME KnowInv, NEW c \in Clients, NEW k \in Keyframes, k < frameCount[c]
                 PROVE  given[c][k] = given[Server][k]
      BY DEF NothingMissedBehind
    <2>1. ~Stranded(c)
      BY BoundsAssumption DEF KnowInv, StrandedStays
    <2> QED BY <2>1, ClientByClient, NothingMissed
  <1> QED BY <1>1, <1>2, KnowCorrect, PTL
-----------------------------------------------------------------------------
(* The lockstep protocol implements the replicated log.                    *)

\* An unpaused client that runs at a keyframe has given all of it.
LEMMA RunsSettled ==
    ASSUME FrameInv, NEW c \in Clients, ClientInv(c), NEW k \in Keyframes,
           frameCount[c] = k, phase[c] = "run", ~paused[c]
    PROVE  given[c][k] = given[Server][k]
  <1>1. Knows(c, k) /\ ~PausedAfter(FALSE, given[c][k])
    BY DEF ClientInv
  <1>2. PICK i \in 1 .. received[c] :
          broadcasts[i].frame >= k /\ given[c][k] = broadcasts[i].after[k]
    BY <1>1 DEF Knows
  <1>3. i \in 1 .. Len(broadcasts)
    BY HistoryType DEF FrameInv, StreamInv
  <1>4. Settles(i, k)
    BY <1>1, <1>2 DEF Settles
  <1> QED BY <1>2, <1>3, <1>4 DEF FrameInv, SettledLists

\* No client is past the frame the server's next update ends at, if that is a
\* keyframe: it would know the keyframe settled, and the server past it.
LEMMA NobodyPast ==
    ASSUME FrameInv, NEW c \in Clients, ClientInv(c), ~Stranded(c),
           ServerFrame \in Keyframes
    PROVE  frameCount[c] <= ServerFrame
  <1> DEFINE f == ServerFrame
  <1>1. /\ frameCount[c] \in Nat /\ frameCount[Server] \in Nat /\ f \in Nat
        /\ paused[Server] \in BOOLEAN
    BY FrameTypes DEF FrameInv, StreamInv
  <1>2. f = IF paused[Server] THEN frameCount[Server] ELSE frameCount[Server] + 1
    BY DEF ServerFrame
  <1> SUFFICES ASSUME f < frameCount[c] PROVE FALSE
    BY <1>1
  <1> HIDE DEF f
  <1>3. f \in Keyframes /\ f <= frameCount[Server]
    BY <1>1 DEF FrameInv, RunsBehind, f
  <1>4. Knows(c, f) /\ ~PausedAfter(FALSE, given[c][f])
    BY <1>1, <1>3 DEF ClientInv
  <1>5. PICK i \in 1 .. received[c] :
          broadcasts[i].frame >= f /\ given[c][f] = broadcasts[i].after[f]
    BY <1>4 DEF Knows
  <1>6. i \in 1 .. Len(broadcasts)
    BY HistoryType DEF FrameInv, StreamInv
  <1>7. Settles(i, f)
    BY <1>4, <1>5 DEF Settles
  <1>8. frameCount[Server] > f \/ ~paused[Server]
    BY <1>3, <1>6, <1>7 DEF FrameInv, SettledLists
  <1> QED BY <1>1, <1>2, <1>3, <1>8

\* What the machines start with is an empty log nobody has applied.
LEMMA LogInit == Init => Log!Init
  BY DEF Init, Log!Init, Log!Replicas, Hosts, NoCommands

\* The server's steps write the log: only at its clock, and where nobody is past.
LEMMA LogServer ==
    ASSUME KnowInv, KnowInv', MaxCatchUp = 0, ServerUpdate \/ ServerKeyframe
    PROVE  Log!Next
  <1> DEFINE f == ServerFrame
  <1>0. /\ TypeOK /\ TypeOK' /\ FrameInv /\ Server \in Hosts
        /\ \A c \in Clients : ClientInv(c) /\ ~Stranded(c)
    BY ClientByClient, HostsFacts, BoundsAssumption
       DEF KnowInv, FrameInv, StreamInv, StrandedStays
  <1>1. /\ frameCount[Server] \in Nat /\ f \in Nat
        /\ f = frameCount[Server] \/ f = frameCount[Server] + 1
        /\ frameCount' = [frameCount EXCEPT ![Server] = f]
    BY <1>0, ServerFrames, FrameTypes DEF ServerUpdate, ServerKeyframe
  <1>2. CASE ServerUpdate
    <2>1. UNCHANGED <<paused, given>> /\ f \in Frames \ Keyframes
      BY <1>2 DEF ServerUpdate
    <2>2. f = frameCount[Server] + 1
      BY <1>0, <2>1 DEF FrameInv, ServerPause, ServerFrame
    <2>3. frameCount[Server] < MaxFrame
      BY <1>1, <2>1, <2>2, BoundsAssumption DEF Frames
    <2> HIDE DEF f
    <2>4. Log!Advance(Server)
      BY <1>1, <2>1, <2>2, <2>3 DEF Log!Advance
    <2> QED BY <2>4 DEF Log!Next, Log!Replicas
  <1>3. CASE ServerKeyframe
    <2>1. f \in Keyframes
      BY <1>3 DEF ServerKeyframe
    <2>2. \A c \in Clients : frameCount[c] <= f
      BY <1>0, <2>1, NobodyPast
    <2>3. PICK cmds \in Seq(Commands) :
            given' = [given EXCEPT ![Server] = WithGiven(given[Server], f, cmds)]
      BY <1>0, <1>3, KeyframeStep
    <2> HIDE DEF f
    <2>4. /\ given \in [Hosts -> History]
          /\ given[Server] \in History
          /\ given[Server][f] \in Seq(Commands)
      BY <1>0, <2>1, HistoryType DEF TypeOK, WorldTypeOK
    <2>5. WithGiven(given[Server], f, cmds)
            = [given[Server] EXCEPT ![f] = given[Server][f] \o cmds]
      BY DEF WithGiven
    <2>6. given'[Server][f] = given[Server][f] \o cmds
      BY <1>0, <2>1, <2>3, <2>4, WithGivenType
    <2>7. given' = [given EXCEPT ![Server][f] = given'[Server][f]]
      BY <2>3, <2>5, <2>6
    <2>8. given'[Server][f] \in Seq(Commands)
      BY <2>4, <2>6
    <2>9. IsPrefix(given[Server][f], given'[Server][f])
      BY <2>4, <2>6, PrefixReflexive, PrefixOfLonger
    <2>10. Log!Publish(f)
      BY <1>1, <2>1, <2>2, <2>7, <2>8, <2>9 DEF Log!Publish, Log!IsPrefix, IsPrefix
    <2> QED BY <2>1, <2>10 DEF Log!Next
  <1> QED BY <1>2, <1>3

\* A client that gives its commands applies more of the log.
LEMMA LogTake ==
    ASSUME KnowInv, KnowInv', NEW c \in Clients, ClientTake(c)
    PROVE  Log!Next
  <1> DEFINE f == frameCount[c]
             n == Len(given'[c][f])
  <1>0. /\ TypeOK /\ TypeOK' /\ c \in Hosts /\ Server \in Hosts /\ c # Server
        /\ given \in [Hosts -> History]
    BY HostsFacts DEF KnowInv, FrameInv, StreamInv, TypeOK, WorldTypeOK
  <1>1. /\ f \in Keyframes
        /\ cachedPendingCommands[c][f] \in Seq(Commands)
        /\ given'[c][f] = given[c][f] \o cachedPendingCommands[c][f]
        /\ UNCHANGED frameCount
        /\ \A h \in Hosts \ {c} : given'[h] = given[h]
    BY <1>0, TakeFacts
  <1>2. given' = [given EXCEPT ![c] = WithGiven(@, f, cachedPendingCommands[c][f])]
    BY DEF ClientTake, Give
  <1>3. given' = [given EXCEPT ![c][f] = given'[c][f]]
    <2> HIDE DEF f
    <2> QED BY <1>1, <1>2 DEF WithGiven
  <1>4. /\ given[c][f] \in Seq(Commands) /\ given[Server][f] \in Seq(Commands)
        /\ given'[c][f] \in Seq(Commands)
    BY <1>0, <1>1, HistoryType
  <1>5. IsPrefix(given'[c][f], given[Server][f])
    <2>1. SameCommandsInOrder'
      <3>1. StreamInv'
        BY DEF KnowInv, FrameInv
      <3>2. (StreamInv => SameCommandsInOrder)'
        BY StreamPrefix, PTL
      <3> QED BY <3>1, <3>2
    <2>2. IsPrefix(given'[c][f], given'[Server][f])
      <3> HIDE DEF f
      <3> QED BY <1>1, <2>1 DEF SameCommandsInOrder
    <2> QED BY <1>0, <1>1, <2>2
  <1>6. n \in 0 .. Len(given[Server][f]) /\ given'[c][f] = SubSeq(given[Server][f], 1, n)
    BY <1>4, <1>5, PrefixAsSubSeq
  <1>7. n \in Len(given[c][f]) .. Len(given[Server][f])
    <2> DEFINE cmds == cachedPendingCommands[c][f]
    <2>1. n = Len(given[c][f]) + Len(cmds)
      <3>1. Len(given[c][f] \o cmds) = Len(given[c][f]) + Len(cmds)
        BY <1>1, <1>4
      <3> HIDE DEF f, cmds
      <3> QED BY <1>1, <3>1 DEF cmds
    <2>2. Len(cmds) \in Nat /\ Len(given[c][f]) \in Nat /\ Len(given[Server][f]) \in Nat
      BY <1>1, <1>4
    <2> HIDE DEF n, cmds, f
    <2> QED BY <1>6, <2>1, <2>2
  <1> HIDE DEF n
  <1>8. Log!Apply(c, n)
    BY <1>1, <1>3, <1>6, <1>7 DEF Log!Apply
  <1> QED BY <1>1, <1>6, <1>8 DEF Log!Next

\* A client's world update advances its clock, past a slot only when all of it
\* was applied.
LEMMA LogWorldUpdate ==
    ASSUME KnowInv, MaxCatchUp = 0, NEW c \in Clients,
           ClientUpdate(c) \/ ClientSecondLoop(c)
    PROVE  Log!Next
  <1>0. /\ TypeOK /\ FrameInv /\ ClientInv(c) /\ loopsLeft[c] \in {0, 1}
    BY ClientByClient DEF KnowInv, FrameInv, StreamInv, TypeOK, LoopTypeOK
  <1>1. ClientUpdate(c) /\ ~paused[c]
    <2>1. ~(loopsLeft[c] > 0)
      BY <1>0, BoundsAssumption DEF ClientInv
    <2> QED BY <2>1 DEF ClientUpdate, ClientSecondLoop
  <1>2. /\ frameCount' = [frameCount EXCEPT ![c] = @ + 1]
        /\ frameCount[c] + 1 \in Frames
        /\ phase[c] = "run"
        /\ UNCHANGED given
    BY <1>1 DEF ClientUpdate, WorldUpdate
  <1>3. frameCount[c] < MaxFrame
    BY <1>0, <1>2, FrameTypes, BoundsAssumption DEF Frames
  <1>4. frameCount[c] \in Keyframes =>
          given[c][frameCount[c]] = given[Server][frameCount[c]]
    BY <1>0, <1>1, <1>2, RunsSettled
  <1>5. Log!Advance(c)
    BY <1>2, <1>3, <1>4 DEF Log!Advance
  <1> QED BY <1>5 DEF Log!Next, Log!Replicas

\* Every step writes the log, applies it, advances a clock or is none of the log's.
LEMMA LogNext ==
    ASSUME KnowInv, KnowInv', MaxCatchUp = 0, [Next]_vars
    PROVE  [Log!Next]_(Log!vars)
  <1> USE DEF Log!vars
  <1>1. CASE ServerUpdate \/ ServerKeyframe
    BY <1>1, LogServer
  <1>2. ASSUME NEW c \in Clients, ClientUpdate(c) \/ ClientSecondLoop(c)
        PROVE  Log!Next
    BY <1>2, LogWorldUpdate
  <1>3. ASSUME NEW c \in Clients, ClientTake(c)
        PROVE  Log!Next
    BY <1>3, LogTake
  <1>4. ASSUME NEW c \in Clients,
               ClientReceive(c) \/ ClientIdleUpdate(c) \/ ClientSkip(c) \/ ClientLeave(c)
        PROVE  UNCHANGED <<frameCount, given>>
    BY <1>4 DEF ClientReceive, ClientIdleUpdate, ClientSkip, ClientLeave, worldVars
  <1>5. CASE UNCHANGED frameVars \/ UNCHANGED vars
    BY <1>5 DEF frameVars, vars
  <1> QED BY <1>1, <1>2, <1>3, <1>4, <1>5, FrameSteps

\* Without catch-ups, the exchange of commands between the threads of all machines
\* implements the replicated log: the server never adds to a keyframe that a client
\* left behind, a client's world passes a keyframe only after all of it, and what
\* it has given is at all times a prefix of the server's.
THEOREM RefinesLog == MaxCatchUp = 0 => (Spec => ImplementsLog)
  <1> SUFFICES ASSUME MaxCatchUp = 0 PROVE Spec => ImplementsLog
    OBVIOUS
  <1>1. CatchUpStrands
    BY DEF CatchUpStrands
  <1>2. Init => Log!Init
    BY LogInit
  <1>3. KnowInv /\ KnowInv' /\ [Next]_vars => [Log!Next]_(Log!vars)
    BY LogNext
  <1>4. Spec => []KnowInv
    BY <1>1, KnowCorrect
  <1> QED BY <1>2, <1>3, <1>4, PTL DEF Spec, ImplementsLog, Log!Spec
-----------------------------------------------------------------------------
(* The orders: how many copies of one there are in a queue, in lists and   *)
(* in a history.                                                           *)

LEMMA CopiesType ==
    ASSUME NEW q \in Seq(Commands), NEW o
    PROVE  Copies(q, o) \in Nat /\ IsFiniteSet({i \in DOMAIN q : q[i] = o})
<1> PICK n \in Nat : n = Len(q)
  OBVIOUS
<1>1. DOMAIN q = 1 .. n
  OBVIOUS
<1>2. IsFiniteSet(1 .. n)
  BY FS_Interval
<1>3. IsFiniteSet({i \in 1 .. n : q[i] = o})
  BY <1>2, FS_Subset
<1> QED BY <1>1, <1>3, FS_CardinalityType DEF Copies

LEMMA CopiesNone ==
    ASSUME NEW o
    PROVE  Copies(<<>>, o) = 0
<1>1. {i \in DOMAIN <<>> : <<>>[i] = o} = {}
  OBVIOUS
<1> QED BY <1>1, FS_EmptySet DEF Copies

LEMMA CopiesOne ==
    ASSUME NEW x, NEW o
    PROVE  Copies(<<x>>, o) = IF x = o THEN 1 ELSE 0
<1>1. {i \in DOMAIN <<x>> : <<x>>[i] = o} = IF x = o THEN {1} ELSE {}
  OBVIOUS
<1> QED BY <1>1, FS_EmptySet, FS_Singleton DEF Copies

\* A queue is the other with its places renamed.
SameSize(S, T, b) ==
    /\ IsFiniteSet(S) /\ IsFiniteSet(T) /\ b \in [S -> T]
    /\ (\A x, y \in S : b[x] = b[y] => x = y) /\ \A y \in T : \E x \in S : b[x] = y

LEMMA SizeSame ==
    ASSUME NEW S, NEW T, NEW b, SameSize(S, T, b)
    PROVE  Cardinality(S) = Cardinality(T)
<1>1. b \in Bijection(S, T)
  BY DEF SameSize, Bijection, Injection, Surjection, IsInjective
<1>2. ExistsBijection(S, T)
  BY <1>1 DEF ExistsBijection
<1> QED BY <1>2, FS_Bijection DEF SameSize

LEMMA CopiesConcat ==
    ASSUME NEW p \in Seq(Commands), NEW q \in Seq(Commands), NEW o
    PROVE  Copies(p \o q, o) = Copies(p, o) + Copies(q, o)
<1> PICK n \in Nat : n = Len(p)
  OBVIOUS
<1> PICK m \in Nat : m = Len(q)
  OBVIOUS
<1> PICK r : r = p \o q
  OBVIOUS
<1>1. /\ r \in Seq(Commands) /\ Len(r) = n + m
      /\ \A i \in 1 .. n + m : r[i] = IF i <= n THEN p[i] ELSE q[i - n]
  BY ConcatProperties
<1> PICK P : P = {i \in DOMAIN p : p[i] = o}
  OBVIOUS
<1> PICK Q : Q = {i \in DOMAIN q : q[i] = o}
  OBVIOUS
<1> PICK R : R = {i \in DOMAIN r : r[i] = o}
  OBVIOUS
<1> PICK S : S = {i \in R : n < i}
  OBVIOUS
<1>2. IsFiniteSet(P) /\ IsFiniteSet(Q) /\ IsFiniteSet(R)
  BY <1>1, CopiesType
<1>3. DOMAIN p = 1 .. n /\ DOMAIN q = 1 .. m /\ DOMAIN r = 1 .. n + m
  BY <1>1
<1>4. IsFiniteSet(S)
  BY <1>2, FS_Subset
<1> PICK b : b = [i \in S |-> i - n]
  OBVIOUS
<1>5. SameSize(S, Q, b)
  <2>1. \A i \in S : b[i] = i - n /\ i - n \in Q /\ i \in Nat
    BY <1>1, <1>3
  <2>2. \A x, y \in S : b[x] = b[y] => x = y
    BY <2>1
  <2>3. \A y \in Q : \E x \in S : b[x] = y
    <3> TAKE y \in Q
    <3>1. y + n \in 1 .. n + m /\ n < y + n /\ y + n - n = y /\ q[y] = o
      BY <1>3
    <3>2. r[y + n] = q[y]
      BY <1>1, <3>1
    <3>3. y + n \in S
      BY <1>3, <3>1, <3>2
    <3> QED BY <2>1, <3>1, <3>3
  <2> QED BY <1>2, <1>4, <2>1, <2>2, <2>3 DEF SameSize
<1>6. Cardinality(S) = Cardinality(Q)
  BY <1>5, SizeSame
<1>7. R = P \cup S /\ P \cap S = {}
  BY <1>1, <1>3
<1>8. Cardinality(R) = Cardinality(P) + Cardinality(S)
  <2>1. Cardinality(P \cup S) = Cardinality(P) + Cardinality(S) - Cardinality(P \cap S)
    BY <1>2, <1>4, FS_Union
  <2>2. Cardinality(P \cap S) = 0
    BY <1>7, FS_EmptySet
  <2>3. Cardinality(P) \in Nat /\ Cardinality(S) \in Nat
    BY <1>2, <1>4, FS_CardinalityType
  <2>4. Cardinality(R) = Cardinality(P) + Cardinality(S) - Cardinality(P \cap S)
    BY <1>7, <2>1
  <2> QED BY ONLY <2>2, <2>3, <2>4
<1> QED BY <1>6, <1>8 DEF Copies

LEMMA CopiesDrained ==
    ASSUME NEW q \in Seq(Commands), NEW o
    PROVE  Copies(Drained(q), o) = Copies(q, o)
<1> PICK n \in Nat : n = Len(q)
  OBVIOUS
<1> PICK r : r = Drained(q)
  OBVIOUS
<1>1. r = [i \in 1 .. n |-> q[n - i + 1]]
  BY DEF Drained, Reverse
<1>2. r \in Seq(Commands) /\ Len(r) = n /\ DOMAIN r = 1 .. n /\ DOMAIN q = 1 .. n
  BY <1>1
<1> PICK Q : Q = {i \in DOMAIN q : q[i] = o}
  OBVIOUS
<1> PICK R : R = {i \in DOMAIN r : r[i] = o}
  OBVIOUS
<1>3. IsFiniteSet(Q) /\ IsFiniteSet(R)
  BY <1>2, CopiesType
<1> PICK b : b = [i \in R |-> n - i + 1]
  OBVIOUS
<1>4. \A i \in R : b[i] = n - i + 1 /\ n - i + 1 \in Q /\ i \in Nat
  BY <1>1, <1>2
<1>5. \A y \in Q : \E x \in R : b[x] = y
  <2> TAKE y \in Q
  <2>1. n - y + 1 \in 1 .. n /\ n - (n - y + 1) + 1 = y /\ q[y] = o
    BY <1>2
  <2>2. r[n - y + 1] = q[y]
    BY <1>1, <2>1
  <2>3. n - y + 1 \in R
    BY <1>2, <2>1, <2>2
  <2> QED BY <1>4, <2>1, <2>3
<1>6. SameSize(R, Q, b)
  BY <1>3, <1>4, <1>5 DEF SameSize
<1> QED BY <1>6, SizeSame DEF Copies

LEMMA CopiesAsked ==
    ASSUME NEW q \in Seq(Commands), NEW x \in Commands, NEW b \in BOOLEAN, NEW o
    PROVE  /\ Copies(WithRequest(q, x, b), o) = Copies(q, o) + Copies(<<x>>, o)
           /\ Copies(Append(q, x), o) = Copies(q, o) + Copies(<<x>>, o)
<1>1. <<x>> \in Seq(Commands) /\ Append(q, x) = q \o <<x>>
  OBVIOUS
<1>2. /\ Copies(q \o <<x>>, o) = Copies(q, o) + Copies(<<x>>, o)
      /\ Copies(<<x>> \o q, o) = Copies(<<x>>, o) + Copies(q, o)
  BY <1>1, CopiesConcat
<1>3. Copies(<<x>>, o) \in Nat /\ Copies(q, o) \in Nat
  BY <1>1, CopiesType
<1> QED BY <1>1, <1>2, <1>3 DEF WithRequest

-----------------------------------------------------------------------------
\* The copies of an order in lists and in a history.

LEMMA ListsCounted ==
    ASSUME NEW lists \in Seq(Seq(Commands)), NEW o
    PROVE  /\ [i \in DOMAIN lists |-> Copies(lists[i], o)] \in [1 .. Len(lists) -> Nat]
           /\ CopiesInLists(lists, o) \in Nat
           /\ CopiesInLists(lists, o) = Total([i \in DOMAIN lists |-> Copies(lists[i], o)])
<1> PICK n \in Nat : n = Len(lists)
  OBVIOUS
<1> PICK g : g = [i \in DOMAIN lists |-> Copies(lists[i], o)]
  OBVIOUS
<1>1. DOMAIN lists = 1 .. n
  OBVIOUS
<1>2. \A i \in 1 .. n : lists[i] \in Seq(Commands)
  BY <1>1
<1>3. \A i \in 1 .. n : Copies(lists[i], o) \in Nat
  BY <1>2, CopiesType
<1>4. g \in [1 .. n -> Nat]
  BY <1>1, <1>3
<1>5. IsFiniteSet(1 .. n)
  BY FS_Interval
<1>6. Total(g) \in Nat
  BY <1>4, <1>5, TotalNatural
<1>7. CopiesInLists(lists, o) = Total(g)
  BY DEF CopiesInLists, SumOf, Total
<1> QED BY <1>4, <1>6, <1>7

LEMMA ListsNone ==
    ASSUME NEW o
    PROVE  CopiesInLists(<<>>, o) = 0
<1> PICK g : g = [i \in DOMAIN <<>> |-> Copies(<<>>[i], o)]
  OBVIOUS
<1>1. DOMAIN <<>> = {}
  OBVIOUS
<1>2. DOMAIN g = {} /\ g = [x \in {} |-> 0]
  BY <1>1
<1>3. Total(g) = 0
  BY <1>2, TotalOfNone
<1> QED BY <1>3 DEF CopiesInLists, SumOf, Total

LEMMA ListsLonger ==
    ASSUME NEW lists \in Seq(Seq(Commands)), NEW q \in Seq(Commands), NEW o
    PROVE  CopiesInLists(Append(lists, q), o) = CopiesInLists(lists, o) + Copies(q, o)
<1> PICK n \in Nat : n = Len(lists)
  OBVIOUS
<1> PICK longer : longer = Append(lists, q)
  OBVIOUS
<1>1. /\ longer \in Seq(Seq(Commands)) /\ Len(longer) = n + 1 /\ longer[n + 1] = q
      /\ \A i \in 1 .. n : longer[i] = lists[i]
  BY AppendProperties
<1> PICK f : f = [i \in DOMAIN lists |-> Copies(lists[i], o)]
  OBVIOUS
<1> PICK g : g = [i \in DOMAIN longer |-> Copies(longer[i], o)]
  OBVIOUS
<1>2. f \in [1 .. n -> Nat] /\ CopiesInLists(lists, o) = Total(f)
  BY ListsCounted
<1>3. g \in [1 .. n + 1 -> Nat] /\ CopiesInLists(longer, o) = Total(g)
  BY <1>1, ListsCounted
<1>4. DOMAIN lists = 1 .. n /\ DOMAIN longer = 1 .. n + 1
  BY <1>1
<1>5. g[n + 1] = Copies(q, o) /\ \A i \in 1 .. n : f[i] = g[i]
  BY <1>1, <1>4
<1>6. GoesOn(n, g, f)
  BY <1>2, <1>3, <1>5 DEF GoesOn
<1>7. Total(g) = Total(f) + g[n + 1]
  BY <1>6, TotalOfLonger
<1> QED BY <1>2, <1>3, <1>5, <1>7

LEMMA ListsShorter ==
    ASSUME NEW lists \in Seq(Seq(Commands)), lists # <<>>, NEW o
    PROVE  /\ Head(lists) \in Seq(Commands) /\ Tail(lists) \in Seq(Seq(Commands))
           /\ CopiesInLists(lists, o) = Copies(Head(lists), o) + CopiesInLists(Tail(lists), o)
<1> PICK rest : rest = Tail(lists)
  OBVIOUS
<1> PICK n \in Nat : Len(lists) = n + 1
  <2>1. Len(lists) \in Nat \ {0}
    BY EmptySeq
  <2>2. Len(lists) - 1 \in Nat /\ Len(lists) = (Len(lists) - 1) + 1
    BY <2>1
  <2> QED BY <2>2
<1>1. /\ Head(lists) \in Seq(Commands) /\ rest \in Seq(Seq(Commands)) /\ Len(rest) = n
      /\ Head(lists) = lists[1] /\ \A i \in 1 .. n : rest[i] = lists[i + 1]
  BY HeadTailProperties
<1> PICK g : g = [i \in DOMAIN lists |-> Copies(lists[i], o)]
  OBVIOUS
<1> PICK f : f = [i \in DOMAIN rest |-> Copies(rest[i], o)]
  OBVIOUS
<1>2. g \in [1 .. n + 1 -> Nat] /\ CopiesInLists(lists, o) = Total(g)
  BY ListsCounted
<1>3. f \in [1 .. n -> Nat] /\ CopiesInLists(rest, o) = Total(f)
  BY <1>1, ListsCounted
<1>4. DOMAIN lists = 1 .. n + 1 /\ DOMAIN rest = 1 .. n
  BY <1>1
<1>5. g[1] = Copies(Head(lists), o) /\ \A i \in 1 .. n : f[i] = g[i + 1]
  BY <1>1, <1>4
<1>6. BeginsWith(Copies(Head(lists), o), n, g, f)
  BY <1>2, <1>3, <1>5 DEF BeginsWith
<1>7. Total(g) = Copies(Head(lists), o) + Total(f)
  BY <1>6, TotalOfTail
<1> QED BY <1>1, <1>2, <1>3, <1>7

LEMMA KeyframesFinite == IsFiniteSet(Keyframes)
<1>1. 1 \in Int /\ MaxFrame \in Int /\ Keyframes \subseteq 1 .. MaxFrame
  BY BoundsAssumption DEF Keyframes
<1>2. IsFiniteSet(1 .. MaxFrame)
  BY <1>1, FS_Interval
<1> QED BY <1>1, <1>2, FS_Subset

LEMMA GivenCounted ==
    ASSUME NEW history \in History, NEW o
    PROVE  /\ [k \in Keyframes |-> Copies(history[k], o)] \in [Keyframes -> Nat]
           /\ CopiesGiven(history, o) \in Nat
           /\ CopiesGiven(history, o) = Total([k \in Keyframes |-> Copies(history[k], o)])
<1> PICK g : g = [k \in Keyframes |-> Copies(history[k], o)]
  OBVIOUS
<1>1. \A k \in Keyframes : Copies(history[k], o) \in Nat
  BY CopiesType DEF History
<1>2. g \in [Keyframes -> Nat]
  BY <1>1
<1>3. Total(g) \in Nat
  BY <1>2, KeyframesFinite, TotalNatural
<1>4. CopiesGiven(history, o) = Total(g)
  BY DEF CopiesGiven, SumOf, Total
<1> QED BY <1>2, <1>3, <1>4

\* What is given adds its copies.
LEMMA GivenMore ==
    ASSUME NEW history \in History, NEW f \in Keyframes, NEW cmds \in Seq(Commands), NEW o
    PROVE  CopiesGiven(WithGiven(history, f, cmds), o) = CopiesGiven(history, o) + Copies(cmds, o)
<1> PICK more : more = WithGiven(history, f, cmds)
  OBVIOUS
<1>1. /\ more \in History /\ more[f] = history[f] \o cmds
      /\ \A k \in Keyframes \ {f} : more[k] = history[k]
  BY DEF WithGiven, History
<1> PICK g : g = [k \in Keyframes |-> Copies(history[k], o)]
  OBVIOUS
<1> PICK e : e = [k \in Keyframes |-> Copies(more[k], o)]
  OBVIOUS
<1>2. g \in [Keyframes -> Nat] /\ CopiesGiven(history, o) = Total(g)
  BY GivenCounted
<1>3. e \in [Keyframes -> Nat] /\ CopiesGiven(more, o) = Total(e)
  BY <1>1, GivenCounted
<1>4. history[f] \in Seq(Commands) /\ Copies(cmds, o) \in Nat
  BY CopiesType DEF History
<1>5. e[f] = g[f] + Copies(cmds, o) /\ \A k \in Keyframes \ {f} : e[k] = g[k]
  BY <1>1, <1>4, CopiesConcat
<1>6. AllButOne(Keyframes, g, f, e)
  BY <1>2, <1>3, <1>5, KeyframesFinite DEF AllButOne
<1>7. Total(g) \in Int /\ Total(e) = Total(g) - g[f] + e[f]
  BY <1>6, TotalChanged
<1>8. g[f] \in Int
  BY <1>2
<1> QED BY <1>2, <1>3, <1>4, <1>5, <1>7, <1>8
-----------------------------------------------------------------------------
(* What each step does with the copies.                                    *)

\* Where the copies of an order are, in the types of Lockstep.
LEMMA CopiesCounted ==
    ASSUME TypeOK, NEW o
    PROVE  /\ Copies(requestedCommands[Server], o) \in Nat /\ CopiesGiven(given[Server], o) \in Nat
           /\ CopiesAtServer(o) \in Nat
           /\ \A c \in Clients :
                 /\ Copies(requestedCommands[c], o) \in Nat /\ CopiesInLists(toServer[c], o) \in Nat
                 /\ Copies(pendingNetworkCommandList[c], o) \in Nat /\ CopiesFrom(c, o) \in Nat
<1>1. Copies(requestedCommands[Server], o) \in Nat /\ CopiesGiven(given[Server], o) \in Nat
  BY HostsFacts, CopiesType, GivenCounted DEF TypeOK, WorldTypeOK
<1>2. ASSUME NEW c \in Clients
      PROVE  /\ Copies(requestedCommands[c], o) \in Nat /\ CopiesInLists(toServer[c], o) \in Nat
             /\ Copies(pendingNetworkCommandList[c], o) \in Nat
  <2>1. /\ requestedCommands[c] \in Seq(Commands) /\ toServer[c] \in Seq(Seq(Commands))
        /\ pendingNetworkCommandList[c] \in Seq(Commands)
    BY HostsFacts DEF TypeOK, WorldTypeOK, ServerTypeOK, LinkTypeOK
  <2> QED BY <2>1, CopiesType, ListsCounted
<1> QED BY <1>1, <1>2 DEF CopiesAtServer, CopiesFrom

\* The copies of an order stay where they are, or some go from a client to the server.
Stays(o) ==
    /\ CopiesAtServer(o)' = CopiesAtServer(o)
    /\ \A c \in Clients : CopiesFrom(c, o)' = CopiesFrom(c, o)
Arrives(o, c, n) ==
    /\ n \in Nat /\ n <= CopiesFrom(c, o)
    /\ CopiesAtServer(o)' = CopiesAtServer(o) + n
    /\ CopiesFrom(c, o)' = CopiesFrom(c, o) - n
    /\ \A b \in Clients \ {c} : CopiesFrom(b, o)' = CopiesFrom(b, o)

ConservedFor(o) ==
    /\ CopiesUpstream(o) <= IF o \in issued THEN 1 ELSE 0
    /\ o \in issued /\ (PlayerOf[o] = Server \/ linked[PlayerOf[o]]) => CopiesUpstream(o) = 1
    /\ \A c \in Clients \ {PlayerOf[o]} : CopiesFrom(c, o) = 0

LEMMA OrderByOrder == ConserveInv <=> TypeOK /\ \A o \in Orders : ConservedFor(o)
BY DEF ConserveInv, OrdersConserved, OnlyFromItsPlayer, ConservedFor

\* An order that only moves is conserved.
LEMMA OrderMoves ==
    ASSUME ConserveInv, NEW o \in Orders,
           issued' = issued, \A c \in Clients : linked'[c] => linked[c],
           Stays(o) \/ \E c \in Clients : \E n : Arrives(o, c, n)
    PROVE  ConservedFor(o)'
<1>1. ConservedFor(o) /\ TypeOK
  BY OrderByOrder
<1>2. PlayerOf[o] = Server \/ PlayerOf[o] \in Clients
  BY OrdersAssumption DEF Hosts
<1>3. CopiesAtServer(o) \in Nat /\ \A c \in Clients : CopiesFrom(c, o) \in Nat
  BY <1>1, CopiesCounted
<1>4. /\ CopiesUpstream(o)' = CopiesUpstream(o)
      /\ \A c \in Clients \ {PlayerOf[o]} : CopiesFrom(c, o)' = 0
  <2>1. CASE Stays(o)
    BY <1>1, <1>2, <2>1 DEF Stays, ConservedFor, CopiesUpstream
  <2>2. ASSUME NEW c \in Clients, NEW n, Arrives(o, c, n), c # PlayerOf[o]
        PROVE  n = 0
    BY <1>1, <1>3, <2>2 DEF Arrives, ConservedFor
  <2>3. ASSUME NEW c \in Clients, NEW n, Arrives(o, c, n), c # PlayerOf[o]
        PROVE  Stays(o)
    <3>1. n = 0
      BY <2>2, <2>3
    <3> QED BY <1>3, <2>3, <3>1 DEF Arrives, Stays
  <2>4. ASSUME NEW c \in Clients, NEW n, Arrives(o, c, n), c = PlayerOf[o]
        PROVE  /\ CopiesUpstream(o)' = CopiesUpstream(o)
               /\ \A b \in Clients \ {PlayerOf[o]} : CopiesFrom(b, o)' = 0
    <3>1. PlayerOf[o] # Server
      BY <2>4, HostsFacts
    <3> QED BY <1>1, <1>3, <2>4, <3>1 DEF Arrives, ConservedFor, CopiesUpstream
  <2> QED BY <2>1, <2>3, <2>4
<1>5. linked'[PlayerOf[o]] /\ PlayerOf[o] \in Clients => linked[PlayerOf[o]]
  OBVIOUS
<1> QED BY <1>1, <1>2, <1>4, <1>5 DEF ConservedFor

\* The order that a player gives is new, and the only one that is added.
LEMMA OrderAdded ==
    ASSUME ConserveInv, NEW h \in Hosts, NEW x \in Orders, GiveOrder(h, x), NEW o \in Orders
    PROVE  ConservedFor(o)'
<1> PICK d \in Nat : d = IF x = o THEN 1 ELSE 0
  OBVIOUS
<1>1. ConservedFor(o) /\ TypeOK
  BY OrderByOrder
<1>2. /\ CopiesAtServer(o) \in Nat /\ Copies(requestedCommands[Server], o) \in Nat
      /\ CopiesGiven(given[Server], o) \in Nat
      /\ \A c \in Clients : /\ Copies(requestedCommands[c], o) \in Nat
                            /\ CopiesInLists(toServer[c], o) \in Nat
                            /\ Copies(pendingNetworkCommandList[c], o) \in Nat
  BY <1>1, CopiesCounted
<1>3. PICK b \in BOOLEAN :
          requestedCommands' = [requestedCommands EXCEPT ![h] = WithRequest(@, x, b)]
  BY DEF GiveOrder
<1>4. /\ h = PlayerOf[x] /\ x \notin issued /\ issued' = issued \cup {x}
      /\ given' = given /\ toServer' = toServer /\ linked' = linked
      /\ pendingNetworkCommandList' = pendingNetworkCommandList
  BY DEF GiveOrder, worldVars, upVars
<1>5. requestedCommands \in [Hosts -> Seq(Commands)] /\ x \in Commands
  BY <1>1, HostsFacts DEF TypeOK, WorldTypeOK
<1>6. Copies(requestedCommands'[h], o) = Copies(requestedCommands[h], o) + d
  <2>1. requestedCommands'[h] = WithRequest(requestedCommands[h], x, b)
    BY <1>3, <1>5
  <2>2. Copies(<<x>>, o) = d
    BY CopiesOne
  <2>3. requestedCommands[h] \in Seq(Commands)
    BY <1>5
  <2> QED BY <1>5, <2>1, <2>2, <2>3, CopiesAsked
<1>7. \A g \in Hosts \ {h} : requestedCommands'[g] = requestedCommands[g]
  BY <1>3, <1>5
<1>8. CASE h = Server
  <2>1. CopiesAtServer(o)' = CopiesAtServer(o) + d
    BY <1>2, <1>4, <1>6, <1>8 DEF CopiesAtServer
  <2>2. \A c \in Clients : CopiesFrom(c, o)' = CopiesFrom(c, o)
    BY <1>4, <1>7, <1>8, HostsFacts DEF CopiesFrom
  <2>3. CASE x = o
    <3>1. PlayerOf[o] = Server /\ o \notin issued /\ o \in issued' /\ linked' = linked
      BY <1>4, <1>8, <2>3
    <3>2. CopiesUpstream(o)' = CopiesUpstream(o) + 1
      BY <1>2, <2>1, <2>3, <3>1 DEF CopiesUpstream
    <3>3. CopiesUpstream(o) \in Nat
      BY <1>2, <3>1 DEF CopiesUpstream
    <3>4. CopiesUpstream(o)' = 1
      BY <1>1, <3>1, <3>2, <3>3 DEF ConservedFor
    <3>5. \A c \in Clients \ {PlayerOf[o]} : CopiesFrom(c, o)' = 0
      BY <1>1, <2>2 DEF ConservedFor
    <3> QED BY <3>1, <3>4, <3>5 DEF ConservedFor
  <2>4. CASE x # o
    <3>1. Stays(o)
      BY <1>2, <2>1, <2>2, <2>4 DEF Stays
    <3>2. (o \in issued)' = (o \in issued) /\ CopiesUpstream(o)' = CopiesUpstream(o)
      BY <1>4, <2>4, <3>1, OrdersAssumption DEF Stays, CopiesUpstream, Hosts
    <3> QED BY <1>1, <1>4, <3>1, <3>2 DEF ConservedFor, Stays
  <2> QED BY <2>3, <2>4
<1>9. CASE h \in Clients
  <2>1. CopiesAtServer(o)' = CopiesAtServer(o)
    BY <1>4, <1>7, <1>9, HostsFacts DEF CopiesAtServer
  <2>2. CopiesFrom(h, o)' = CopiesFrom(h, o) + d
    BY <1>2, <1>4, <1>6, <1>9 DEF CopiesFrom
  <2>3. \A c \in Clients \ {h} : CopiesFrom(c, o)' = CopiesFrom(c, o)
    BY <1>4, <1>7, HostsFacts DEF CopiesFrom
  <2>4. CopiesFrom(h, o) \in Nat
    BY <1>2, <1>9 DEF CopiesFrom
  <2>5. CASE x = o
    <3>1. PlayerOf[o] = h /\ h # Server /\ o \notin issued
      BY <1>4, <1>9, <2>5, HostsFacts
    <3>2. CopiesUpstream(o)' = CopiesUpstream(o) + 1
      BY <1>2, <2>1, <2>2, <2>4, <2>5, <3>1 DEF CopiesUpstream
    <3>3. CopiesUpstream(o) \in Nat
      BY <1>2, <2>4, <3>1 DEF CopiesUpstream
    <3> QED BY <1>1, <1>4, <2>3, <2>5, <3>1, <3>2, <3>3 DEF ConservedFor
  <2>6. CASE x # o
    <3>1. Stays(o)
      BY <2>1, <2>2, <2>3, <2>4, <2>6 DEF Stays
    <3>2. (o \in issued)' = (o \in issued) /\ CopiesUpstream(o)' = CopiesUpstream(o)
      BY <1>4, <2>6, <3>1, OrdersAssumption DEF Stays, CopiesUpstream, Hosts
    <3> QED BY <1>1, <1>4, <3>1, <3>2 DEF ConservedFor, Stays
  <2> QED BY <2>5, <2>6
<1> QED BY <1>8, <1>9 DEF Hosts

\* A step that keeps the queues, the lists and the server's history keeps the copies.
LEMMA CopiesStay ==
    ASSUME NEW o, requestedCommands' = requestedCommands, toServer' = toServer,
           pendingNetworkCommandList' = pendingNetworkCommandList, given'[Server] = given[Server]
    PROVE  Stays(o)
BY DEF Stays, CopiesAtServer, CopiesFrom

\* Pauses are no orders.
LEMMA NoOrderIsPause ==
    ASSUME NEW o \in Orders, NEW q \in {<<>>, <<"pause">>, <<"resume">>}
    PROVE  q \in Seq(Commands) /\ Copies(q, o) = 0
<1>1. o # "pause" /\ o # "resume"
  BY OrdersAssumption DEF PauseCommands
<1>2. <<>> \in Seq(Commands) /\ <<"pause">> \in Seq(Commands) /\ <<"resume">> \in Seq(Commands)
  BY HostsFacts
<1> QED BY <1>1, <1>2, CopiesNone, CopiesOne

LEMMA PauseAsked ==
    ASSUME TypeOK, NEW h \in Hosts, TryPauseToggle(h), NEW o \in Orders
    PROVE  Stays(o)
<1> PICK cmd \in PauseCommands : requestedCommands' = [requestedCommands EXCEPT ![h] = Append(@, cmd)]
  BY DEF TryPauseToggle
<1>1. requestedCommands \in [Hosts -> Seq(Commands)] /\ cmd \in Commands
  BY DEF TypeOK, WorldTypeOK, Commands
<1>2. /\ requestedCommands'[h] = Append(requestedCommands[h], cmd)
      /\ \A g \in Hosts \ {h} : requestedCommands'[g] = requestedCommands[g]
  BY <1>1
<1>3. Copies(<<cmd>>, o) = 0
  BY OrdersAssumption, CopiesOne DEF PauseCommands
<1>4. Copies(requestedCommands'[h], o) = Copies(requestedCommands[h], o)
  <2>1. requestedCommands[h] \in Seq(Commands)
    BY <1>1
  <2>2. Copies(Append(requestedCommands[h], cmd), o) = Copies(requestedCommands[h], o) + Copies(<<cmd>>, o)
    BY <1>1, <2>1, CopiesAsked
  <2>3. Copies(requestedCommands[h], o) \in Nat
    BY <2>1, CopiesType
  <2> QED BY <1>2, <1>3, <2>2, <2>3
<1>5. \A g \in Hosts : Copies(requestedCommands'[g], o) = Copies(requestedCommands[g], o)
  BY <1>2, <1>4
<1>6. given' = given /\ toServer' = toServer /\ pendingNetworkCommandList' = pendingNetworkCommandList
  BY DEF TryPauseToggle, worldVars, upVars
<1> QED BY <1>5, <1>6, HostsFacts DEF Stays, CopiesAtServer, CopiesFrom

\* What the server asks for at the end of an update is no order.
LEMMA LagAnswer ==
    ASSUME TypeOK, NEW queue \in Seq(Commands), NEW isPaused, AnswerLagRequest(queue, isPaused),
           NEW o \in Orders
    PROVE  /\ Copies(requestedCommands'[Server], o) = Copies(queue, o)
           /\ \A h \in Hosts \ {Server} : requestedCommands'[h] = requestedCommands[h]
<1> PICK answer : answer = CASE lagRequest = "pause" /\ ~isPaused -> <<"pause">>
                             [] lagRequest = "resume" /\ isPaused -> <<"resume">>
                             [] OTHER -> <<>>
  OBVIOUS
<1>1. answer \in {<<>>, <<"pause">>, <<"resume">>}
  OBVIOUS
<1>2. requestedCommands' = [requestedCommands EXCEPT ![Server] = queue \o answer]
  BY DEF AnswerLagRequest
<1>3. /\ requestedCommands'[Server] = queue \o answer
      /\ \A h \in Hosts \ {Server} : requestedCommands'[h] = requestedCommands[h]
  BY <1>2, HostsFacts DEF TypeOK, WorldTypeOK
<1>4. answer \in Seq(Commands) /\ Copies(answer, o) = 0
  BY <1>1, NoOrderIsPause
<1>5. Copies(queue \o answer, o) = Copies(queue, o) + Copies(answer, o) /\ Copies(queue, o) \in Nat
  BY <1>4, CopiesConcat, CopiesType
<1> QED BY <1>3, <1>4, <1>5

LEMMA ServerKeeps ==
    ASSUME TypeOK, ServerUpdate \/ ServerKeyframe, NEW o \in Orders
    PROVE  Stays(o)
<1>1. requestedCommands[Server] \in Seq(Commands) /\ given[Server] \in History
  BY HostsFacts DEF TypeOK, WorldTypeOK
<1>2. toServer' = toServer /\ pendingNetworkCommandList' = pendingNetworkCommandList
  BY DEF ServerUpdate, ServerKeyframe, upVars
<1>3. CASE ServerUpdate
  <2>1. AnswerLagRequest(requestedCommands[Server], paused[Server]) /\ given' = given
    BY <1>3 DEF ServerUpdate
  <2>2. /\ Copies(requestedCommands'[Server], o) = Copies(requestedCommands[Server], o)
        /\ \A h \in Hosts \ {Server} : requestedCommands'[h] = requestedCommands[h]
    BY <1>1, <2>1, LagAnswer
  <2> QED BY <1>2, <2>1, <2>2, HostsFacts DEF Stays, CopiesAtServer, CopiesFrom
<1>4. CASE ServerKeyframe
  <2> PICK cmds : cmds = Drained(requestedCommands[Server])
    OBVIOUS
  <2>1. cmds \in Seq(Commands) /\ Copies(cmds, o) = Copies(requestedCommands[Server], o)
    BY <1>1, DrainedType, CopiesDrained
  <2>2. /\ ServerFrame \in Keyframes /\ AnswerLagRequest(<<>>, PausedAfter(paused[Server], cmds))
        /\ given' = [given EXCEPT ![Server] = WithGiven(@, ServerFrame, cmds)]
    BY <1>4 DEF ServerKeyframe, Give
  <2>3. <<>> \in Seq(Commands)
    OBVIOUS
  <2>4. /\ Copies(requestedCommands'[Server], o) = Copies(<<>>, o)
        /\ \A h \in Hosts \ {Server} : requestedCommands'[h] = requestedCommands[h]
    BY <2>2, <2>3, LagAnswer
  <2>5. given'[Server] = WithGiven(given[Server], ServerFrame, cmds)
    BY <2>2, HostsFacts DEF TypeOK, WorldTypeOK
  <2>6. CopiesGiven(given'[Server], o) = CopiesGiven(given[Server], o) + Copies(cmds, o)
    BY <1>1, <2>1, <2>2, <2>5, GivenMore
  <2>7. CopiesAtServer(o)' = CopiesAtServer(o)
    BY <2>1, <2>4, <2>6, CopiesNone, CopiesCounted DEF CopiesAtServer
  <2>8. \A c \in Clients : CopiesFrom(c, o)' = CopiesFrom(c, o)
    BY <1>2, <2>4, HostsFacts DEF CopiesFrom
  <2> QED BY <2>7, <2>8 DEF Stays
<1> QED BY <1>3, <1>4

\* The commands a slot has read are collected.
LEMMA Collected ==
    ASSUME TypeOK, NEW c \in Clients, ExecuteNetworkCommandsFromClient(c), NEW o \in Orders
    PROVE  \E n : Arrives(o, c, n)
<1> PICK n : n = Copies(pendingNetworkCommandList[c], o)
  OBVIOUS
<1>1. /\ requestedCommands' = [requestedCommands EXCEPT ![Server] = @ \o pendingNetworkCommandList[c]]
      /\ pendingNetworkCommandList' = [pendingNetworkCommandList EXCEPT ![c] = <<>>]
      /\ given' = given /\ toServer' = toServer
  BY DEF ExecuteNetworkCommandsFromClient, worldVars
<1>2. /\ requestedCommands \in [Hosts -> Seq(Commands)]
      /\ pendingNetworkCommandList \in [Clients -> Seq(Commands)]
  BY DEF TypeOK, WorldTypeOK, ServerTypeOK
<1>3. /\ requestedCommands'[Server] = requestedCommands[Server] \o pendingNetworkCommandList[c]
      /\ \A b \in Clients : requestedCommands'[b] = requestedCommands[b]
      /\ pendingNetworkCommandList'[c] = <<>>
      /\ \A b \in Clients \ {c} : pendingNetworkCommandList'[b] = pendingNetworkCommandList[b]
  BY <1>1, <1>2, HostsFacts
<1>4. requestedCommands[Server] \in Seq(Commands) /\ pendingNetworkCommandList[c] \in Seq(Commands)
  BY <1>2, HostsFacts
<1>5. Copies(requestedCommands'[Server], o) = Copies(requestedCommands[Server], o) + n
  BY <1>3, <1>4, CopiesConcat
<1>6. Copies(pendingNetworkCommandList'[c], o) = 0
  BY <1>3, CopiesNone
<1>7. /\ Copies(requestedCommands[Server], o) \in Nat /\ CopiesGiven(given[Server], o) \in Nat
      /\ n \in Nat /\ Copies(requestedCommands[c], o) \in Nat /\ CopiesInLists(toServer[c], o) \in Nat
  BY CopiesCounted
<1>8. CopiesAtServer(o)' = CopiesAtServer(o) + n
  BY <1>1, <1>5, <1>7 DEF CopiesAtServer
<1>9. CopiesFrom(c, o)' = CopiesFrom(c, o) - n /\ n <= CopiesFrom(c, o)
  BY <1>1, <1>3, <1>6, <1>7 DEF CopiesFrom
<1>10. \A b \in Clients \ {c} : CopiesFrom(b, o)' = CopiesFrom(b, o)
  BY <1>1, <1>3 DEF CopiesFrom
<1> QED BY <1>7, <1>8, <1>9, <1>10 DEF Arrives

\* A list on its way between a client and the slot's thread.
LEMMA ListMoves ==
    ASSUME TypeOK, NEW c \in Clients, SlotReceive(c) \/ ClientSend(c), NEW o \in Orders
    PROVE  Stays(o)
<1>1. /\ requestedCommands \in [Hosts -> Seq(Commands)] /\ toServer \in [Clients -> Seq(Seq(Commands))]
      /\ pendingNetworkCommandList \in [Clients -> Seq(Commands)]
  BY DEF TypeOK, WorldTypeOK, ServerTypeOK, LinkTypeOK
<1>2. /\ Copies(requestedCommands[c], o) \in Nat /\ CopiesInLists(toServer[c], o) \in Nat
      /\ Copies(pendingNetworkCommandList[c], o) \in Nat
  BY CopiesCounted
<1>3. /\ requestedCommands[c] \in Seq(Commands) /\ toServer[c] \in Seq(Seq(Commands))
      /\ pendingNetworkCommandList[c] \in Seq(Commands)
  BY <1>1, HostsFacts
<1>4. CASE SlotReceive(c)
  <2>1. /\ toServer[c] # <<>> /\ toServer' = [toServer EXCEPT ![c] = Tail(@)]
        /\ pendingNetworkCommandList' = [pendingNetworkCommandList EXCEPT ![c] = @ \o Head(toServer[c])]
        /\ given' = given /\ requestedCommands' = requestedCommands
    BY <1>4 DEF SlotReceive, worldVars
  <2>2. /\ toServer'[c] = Tail(toServer[c])
        /\ pendingNetworkCommandList'[c] = pendingNetworkCommandList[c] \o Head(toServer[c])
        /\ \A b \in Clients \ {c} : /\ toServer'[b] = toServer[b]
                                    /\ pendingNetworkCommandList'[b] = pendingNetworkCommandList[b]
    BY <1>1, <2>1
  <2>3. /\ Head(toServer[c]) \in Seq(Commands) /\ Tail(toServer[c]) \in Seq(Seq(Commands))
        /\ CopiesInLists(toServer[c], o) = Copies(Head(toServer[c]), o) + CopiesInLists(Tail(toServer[c]), o)
    BY <1>3, <2>1, ListsShorter
  <2>4. /\ Copies(pendingNetworkCommandList'[c], o)
              = Copies(pendingNetworkCommandList[c], o) + Copies(Head(toServer[c]), o)
        /\ Copies(Head(toServer[c]), o) \in Nat
    BY <1>3, <2>2, <2>3, CopiesConcat, CopiesType
  <2>5. CopiesInLists(Tail(toServer[c]), o) \in Nat
    BY <2>3, ListsCounted
  <2>6. CopiesFrom(c, o)' = CopiesFrom(c, o)
    BY <1>2, <2>1, <2>2, <2>3, <2>4, <2>5 DEF CopiesFrom
  <2>7. \A b \in Clients \ {c} : CopiesFrom(b, o)' = CopiesFrom(b, o)
    BY <2>1, <2>2 DEF CopiesFrom
  <2> QED BY <2>1, <2>6, <2>7 DEF Stays, CopiesAtServer
<1>5. CASE ClientSend(c)
  <2>1. /\ toServer' = [toServer EXCEPT ![c] = Append(@, Drained(requestedCommands[c]))]
        /\ requestedCommands' = [requestedCommands EXCEPT ![c] = <<>>]
        /\ given' = given /\ pendingNetworkCommandList' = pendingNetworkCommandList
    BY <1>5 DEF ClientSend, worldVars
  <2>2. /\ toServer'[c] = Append(toServer[c], Drained(requestedCommands[c]))
        /\ requestedCommands'[c] = <<>> /\ requestedCommands'[Server] = requestedCommands[Server]
        /\ \A b \in Clients \ {c} : /\ toServer'[b] = toServer[b]
                                    /\ requestedCommands'[b] = requestedCommands[b]
    BY <1>1, <2>1, HostsFacts
  <2>3. /\ Drained(requestedCommands[c]) \in Seq(Commands)
        /\ Copies(Drained(requestedCommands[c]), o) = Copies(requestedCommands[c], o)
    BY <1>3, DrainedType, CopiesDrained
  <2>4. CopiesInLists(toServer'[c], o) = CopiesInLists(toServer[c], o) + Copies(requestedCommands[c], o)
    BY <1>3, <2>2, <2>3, ListsLonger
  <2>5. Copies(requestedCommands'[c], o) = 0
    BY <2>2, CopiesNone
  <2>6. CopiesFrom(c, o)' = CopiesFrom(c, o)
    BY <1>2, <2>1, <2>4, <2>5 DEF CopiesFrom
  <2>7. \A b \in Clients \ {c} : CopiesFrom(b, o)' = CopiesFrom(b, o)
    BY <2>1, <2>2 DEF CopiesFrom
  <2> QED BY <2>1, <2>2, <2>6, <2>7 DEF Stays, CopiesAtServer
<1> QED BY <1>4, <1>5

LEMMA ConserveInit == Init => ConserveInv
<1> SUFFICES ASSUME Init PROVE ConserveInv
  OBVIOUS
<1>1. TypeOK
  BY TypeInit
<1>2. ASSUME NEW o \in Orders PROVE ConservedFor(o)
  <2>1. CopiesGiven(given[Server], o) = 0
    <3> PICK g : g = [k \in Keyframes |-> Copies(NoCommands[k], o)]
      OBVIOUS
    <3>1. given[Server] = NoCommands
      BY HostsFacts DEF Init
    <3>2. g = [k \in Keyframes |-> 0]
      BY CopiesNone DEF NoCommands
    <3>3. Total(g) = 0
      <4>1. IsFiniteSet(Keyframes) /\ g \in [Keyframes -> {0, 1}]
        BY <3>2, KeyframesFinite
      <4>2. {k \in Keyframes : g[k] = 1} = {}
        BY <3>2
      <4>3. Total(g) = Cardinality({k \in Keyframes : g[k] = 1})
        BY <4>1, TotalOfMarks
      <4> QED BY <4>2, <4>3, FS_EmptySet
    <3>4. CopiesGiven(NoCommands, o) = Total(g)
      BY EmptyHistory, GivenCounted
    <3> QED BY <3>1, <3>3, <3>4
  <2>2. Copies(requestedCommands[Server], o) = 0
    BY HostsFacts, CopiesNone DEF Init
  <2>3. \A c \in Clients : CopiesFrom(c, o) = 0
    BY HostsFacts, CopiesNone, ListsNone DEF Init, CopiesFrom
  <2>4. CopiesUpstream(o) = 0
    BY <2>1, <2>2, <2>3, OrdersAssumption DEF CopiesUpstream, CopiesAtServer, Hosts
  <2>5. issued = {}
    BY DEF Init
  <2> QED BY <2>3, <2>4, <2>5 DEF ConservedFor
<1> QED BY <1>1, <1>2, OrderByOrder

LEMMA ConserveNext == ConserveInv /\ [Next]_vars => ConserveInv'
<1> SUFFICES ASSUME ConserveInv, [Next]_vars PROVE ConserveInv'
  OBVIOUS
<1>1. TypeOK /\ TypeOK'
  BY TypeNext DEF ConserveInv
<1>2. ASSUME NEW o \in Orders PROVE ConservedFor(o)'
  <2>1. ASSUME NEW h \in Hosts, NEW x \in Orders, GiveOrder(h, x) PROVE ConservedFor(o)'
    BY <2>1, OrderAdded
  <2>2. ASSUME NEW h \in Hosts, TryPauseToggle(h) PROVE ConservedFor(o)'
    <3>1. issued' = issued /\ linked' = linked
      BY <2>2 DEF TryPauseToggle
    <3> QED BY <1>1, <2>2, <3>1, PauseAsked, OrderMoves
  <2>3. CASE ServerUpdate \/ ServerKeyframe
    <3>1. issued' = issued /\ linked' = linked
      BY <2>3 DEF ServerUpdate, ServerKeyframe, playerVars
    <3> QED BY <1>1, <2>3, <3>1, ServerKeeps, OrderMoves
  <2>4. ASSUME NEW c \in Clients, ExecuteNetworkCommandsFromClient(c) PROVE ConservedFor(o)'
    <3>1. issued' = issued /\ linked' = linked
      BY <2>4 DEF ExecuteNetworkCommandsFromClient, playerVars
    <3> QED BY <1>1, <2>4, <3>1, Collected, OrderMoves
  <2>5. ASSUME NEW c \in Clients, SlotReceive(c) \/ ClientSend(c) PROVE ConservedFor(o)'
    <3>1. issued' = issued /\ linked' = linked
      BY <2>5 DEF SlotReceive, ClientSend, playerVars
    <3> QED BY <1>1, <2>5, <3>1, ListMoves, OrderMoves
  <2>6. ASSUME \/ CheckForAutoResume
               \/ \E c \in Clients :
                     \/ CheckForAutoPause(c) \/ ClientReceive(c) \/ ClientUpdate(c)
                     \/ ClientSecondLoop(c) \/ ClientIdleUpdate(c) \/ ClientSkip(c)
                     \/ ClientLeave(c) \/ LinkLost(c)
               \/ UNCHANGED vars
        PROVE  ConservedFor(o)'
    <3>1. /\ issued' = issued /\ given' = given /\ requestedCommands' = requestedCommands
          /\ toServer' = toServer /\ pendingNetworkCommandList' = pendingNetworkCommandList
      BY <2>6 DEF CheckForAutoResume, CheckForAutoPause, ClientReceive, ClientUpdate,
                  ClientSecondLoop, WorldUpdate, ClientIdleUpdate, ClientSkip, ClientLeave,
                  LinkLost, vars, worldVars, playerVars, upVars
    <3>2. \A c \in Clients : linked'[c] => linked[c]
      BY <1>1, <2>6 DEF CheckForAutoResume, CheckForAutoPause, ClientReceive, ClientUpdate,
                  ClientSecondLoop, WorldUpdate, ClientIdleUpdate, ClientSkip, ClientLeave,
                  LinkLost, vars, TypeOK, LinkTypeOK
    <3> QED BY <3>1, <3>2, CopiesStay, OrderMoves
  <2>7. ASSUME NEW c \in Clients, ClientTake(c) PROVE ConservedFor(o)'
    <3>1. /\ issued' = issued /\ requestedCommands' = requestedCommands
          /\ toServer' = toServer /\ pendingNetworkCommandList' = pendingNetworkCommandList
      BY <2>7 DEF ClientTake, playerVars, upVars
    <3>2. \A d \in Clients : linked'[d] => linked[d]
      BY <1>1, <2>7 DEF ClientTake, TypeOK, LinkTypeOK
    <3>3. given'[Server] = given[Server]
      BY <1>1, <2>7, HostsFacts DEF ClientTake, Give, TypeOK, WorldTypeOK
    <3> QED BY <3>1, <3>2, <3>3, CopiesStay, OrderMoves
  <2> QED BY <2>1, <2>2, <2>3, <2>4, <2>5, <2>6, <2>7
          DEF Next, PlayerNext, ServerNext, ClientNext
<1> QED BY <1>1, <1>2 DEF ConserveInv, OrdersConserved, OnlyFromItsPlayer, ConservedFor

\* Commander::pushNetworkCommand, ClientInterface::update, ConnectionSlot::update and
\* executeNetworkCommandsFromClients pass an order through five queues that two threads
\* and three main loops share: as long as the player is connected it is in exactly one of
\* them or given to the server's world, and at no time twice.
THEOREM NoOrderLostOrDoubled == Spec => []OrdersConserved
<1>1. ConserveInv => OrdersConserved
  BY DEF ConserveInv
<1> QED BY <1>1, ConserveInit, ConserveNext, PTL DEF Spec
=============================================================================
