# A TLA+ verification of the network game of Zetaglest

Zetaglest is a real-time strategy game in C++.  A network match is a *lockstep*
simulation: every machine simulates the whole world, and the worlds stay equal
because every machine gives the same commands at the same world frame.  This
project models that core, and the code around it that has to be right when
threads, messages, pauses, time limits and broken connections mix.  All paths
below are relative to `src/source/glest_game/` unless they begin with `src/`.

## 1. Inventory

| Component | Where | State | Operations |
|---|---|---|---|
| Lockstep exchange of commands | `game/commander.cpp`, `network/server_interface.cpp`, `network/client_interface.cpp`, `network/connection_slot.cpp`, `game/game.cpp` | requested commands on each machine, pending list of each slot, the client's cache of lists and checksums by frame, frame and pause state of each world | `requestCommand`, `ClientInterface::update`, `ConnectionSlot::update`, `executeNetworkCommandsFromClients`, `ServerInterface::updateKeyframe`, `broadcastMessage`, `updateFrame`, `getNetworkCommand`, `Commander::updateNetwork`, `Game::update`, `Game::setPaused` |
| Threads of the client's connection | `network/client_interface.cpp` | the cache and its mutex, `quit`, `quitThread`, the socket | `updateFrame` on the network thread, `getNetworkCommand` on the main thread, `close` on both |
| Start of a match | `waitUntilReady` of both interfaces | ready slots, messages left from the lobby, time limits | the loop of the server over its slots, answers, cancelling; the client's wait |
| Lag control | `ServerInterface::update`, `clientLagCheck` | `clientsAutoPausedDueToLag`, a counter per slot | pause and resume requested from `Game::update`, disconnecting |
| Joining a match in progress | `connection_slot.cpp`, `game.cpp` 3403-3735, `client_interface.cpp`, `menu/menu_state_connected_game.cpp` | flags of the slot, of the client and of `Game`, the saved game, the AIs that stand in | connect, introduce, launch, pause, save and send the world, load, answer, resume, reuse and swap slots |
| Slots and lobby | `addSlot`, `removeSlot`, `switchSlot`, listener | `slots`, `switchSetupRequests`, the settings | connecting, leaving, moving to another slot, launching |
| Slot threads and broadcast queue | `ConnectionSlotThread`, `signalClientsToRecieveData`, `queueBroadcastMessage` | event list per slot, `inBroadcastMessage` | signalling, waiting for completion, queueing |
| Other network commands | `Commander::giveNetworkCommand` | votes, player states | switching teams, replacing players by the computer |
| Messages on the wire | `network_message.cpp`, `network_protocol.cpp` | - | packing, byte order |
| File transfer | `network_interface.cpp` 433-580, `src/source/shared_lib/sources/platform/posix/minift*.cpp` | files, acknowledgements | sending a map or a techtree |
| Shared library | `base_thread.cpp`, `simple_threads.cpp`, `thread.cpp`, `socket.cpp` | quit and running flags, mutexes, sockets | starting and stopping threads, sending and receiving |
| Economy and technology of a faction | `type_instances/faction.cpp`, `upgrade.cpp`, `resource.cpp`, `unit.cpp`, `world/unit_updater.cpp` | resources and stores, the commands of each unit, the upgrades and the map of their places | `giveCommand`, `cancelCommand`, `applyCosts` and its relatives, the updates of a unit's command, `kill`, `applyCostsOnInterval` |
| World, path finder, AI, scripts | `world/`, `ai/`, `game/script_manager.cpp` | the simulated world | `World::update` and all beneath |
| Presentation, tools, masterserver, saving | `menu/`, `graphics/`, `gui/`, `sound/`, the editor and the viewer | - | - |

How they interact.  The main thread of every machine runs `Game::update`, which
updates the world and at every keyframe (every `networkFramePeriod` frames) calls
`Commander::updateNetwork`.  On the server that drains the requested commands,
broadcasts them and gives them to the server's own world; on a client it waits in
`getNetworkCommand` for the list of the frame.  The server has one thread per
slot, which reads what the client sends; `ServerInterface::update` wakes them and
collects what they read.  A client has one network thread, which reads lists into
a cache under a mutex.  Connections are TCP streams: nothing is reordered or
doubled, but a connection may break at any byte, seen early by one side and late
by the other.

What is hard, and what makes each part correct:

* *Lockstep*: several lists for one keyframe while the game is paused; a client
  behind, ahead, or catching up; lists withheld while the server believes clients
  are paused.  Correct if worlds give equal commands in equal order at equal
  frames, miss none, report no difference of checksums that is none, lose or
  double no order, and never stall.
* *Client threads*: two threads that may both end the match, one waiting for the
  other while holding the mutex it needs.  Correct if lists are taken whole, the
  socket outlives its reader, and a match that is over ends both threads.
* *Start*: a barrier built from messages and two time limits.  Correct if nobody
  plays before everybody loaded and every wait ends.
* *Joining*: flags of slots, of the server's `Game` and of the client, set by the
  slot's thread and answered by the main thread, in slots that are reused and
  change places.  Correct if no flag answers for another client, the world stands
  still while a client loads it, and everybody gets in and goes on.
* *Slot threads*: events, signals, a flag for broadcasts under way and a queue
  behind it, shared by all slots' threads and the main thread.  Correct if no
  wake-up is lost, texts are relayed once and in order, and all that is sent is
  read.
* *Economy*: what an order charges is returned when it is undone, by the life it
  had in between: replaced by another, cut short by a death, half carried out.
  Correct if nothing is gained, stores and maxima are kept, and the upgrade
  manager's map and list agree.
* *Lag control, votes, file transfer*: see the hazards in `PROJECT.json` and the
  plan.

## 2. The modules

### Lockstep

One module for the exchange on all machines.  Frames are world frames; keyframes
are the multiples of `FramePeriod` (frame 0 is none, because the first
`Game::update` moves the world to frame 1).  An action is one call of a handler:

| Action | Code |
|---|---|
| `GiveOrder`, `TryPauseToggle` | `Commander::pushNetworkCommand` and `Game::tryPauseToggle` on a player's machine, which only request a command |
| `ServerUpdate`, `ServerKeyframe` | one `Game::update` of the server, the latter with `ServerInterface::updateKeyframe` and `Commander::updateNetwork`; both end with the answer to the lag check's request |
| `SlotReceive`, `ExecuteNetworkCommandsFromClient` | the slot's thread, and the collection of what it read |
| `CheckForAutoPause`, `CheckForAutoResume` | the lag pause of `ServerInterface::update` |
| `ClientSend` | `ClientInterface::update` |
| `ClientReceive` | one list read by `updateFrame` on the network thread |
| `ClientUpdate`, `ClientSecondLoop`, `ClientIdleUpdate` | `Game::update` of a client: with a world update, its second pass in a catch-up, and without a world update |
| `ClientTake`, `ClientSkip` | the two ways out of `getNetworkCommand` |
| `LinkLost`, `ClientLeave` | the connection breaks; the client notices |

The world is abstracted to what its commands made it: `given` records the
commands given at each keyframe, and a checksum is what was given before its
frame.  That is exact for a deterministic simulation, which the lockstep relies
on.  Pausing is a command like any other, so `paused` follows from what is given
(`Game::setPaused`).  Both places that drain a queue take the vector from its
back, hence `Drained == Reverse`; unit moves are put in front.  How far a client
lags at each of a series of keyframes decides when it catches up; the model lets
it begin a catch-up at any update at which it lags at all (`FramesToCatchUp`),
which allows more than the code does.  A slow-down is an idle update.

While the server believes that it paused the clients for lag it holds empty lists
back (`HoldBack`), but never the first list of the match, which starts
`lastBroadcastCommandsTimer`, nor one at which that timer is due; whether it is due
is a free choice at each later keyframe.  The flag is set before the pause is a
command that worlds give and reset before the resume is, so keyframes at which
nobody is paused go without a list too, and a client there waits until a later
list lets it skip the keyframe (`ClientSkip`).

### ReplicatedLog

What the exchange promises: a leader writes a log for each slot of a clock, every
replica applies it in step with its own clock, and nobody passes a slot before it
applied all that is ever written there.  `Lockstep!ImplementsLog` maps
`frameCount` to the clock and `given` to the log.

### LockstepInvariant and LockstepProofs

The inductive invariants in named parts, and the proofs; see section 5.
`OnlyTheStrandedMiss` stands there too, because it needs a notion of the
invariant: what is still true of commands that are missed when clients catch up.
In the same way `ClientLinkProofs`, `StartBarrierProofs`, `InGameJoinProofs`,
`SlotThreadsProofs`, `SlotTextsProofs` (which builds on the one before) and
`EconomyProofs` go with the modules of those names below.  `FoldTheorems` has what
several of them need to know of folds and sums.

### ClientLink

`ClientInterface` in a match, thread by thread.  The network thread goes through
the guard of `updateFrame`, `waitForMessage`, the storing of a list under
`networkCommandListThreadAccessor`, and perhaps `close`; the main thread plays,
polls, takes a list under the mutex, and perhaps finds a difference and calls
`close` with the mutex held.  `shutdownNetworkCommandListThread` waits at most ten
seconds; the model lets it give up only when the other thread cannot end by
itself (`NetNeedsMutex`), because ten seconds are enough for a thread that is not
blocked.  `Connected` is `Socket::isConnected`, which stays true while something
is left to read.

### StartBarrier

Both `waitUntilReady` loops.  The server visits its slots one at a time under
each slot's mutex, so clients move between two visits; `allReady` is the local
variable of the code.  After a time limit, an error or a cancellation the code of
`Game::init` goes on (`game/game.cpp` 2167), so the server's match runs and sends
lists in all three cases; `SendList` is that match.  `linked` is the connection
as `isConnected` reports it; a broken connection that is noticed late is one that
breaks late.  A list whose message cannot be read makes the client's wait return
as if it were over (`ClientReadFails`); such a client plays without a connection,
and the properties speak of those that have one.

### InGameJoin

A client that joins a match, and a player that comes back to it, on the three
sides that take part.  Slot *i* is that of the faction player *i* plays.

| Action | Code |
|---|---|
| `Connect`, `Launch`, `LobbyReady`, `LoadSavedGame`, `EnterMatch`, `Leave` | the client: accepted by a slot and introduced, "play now", the ready message in the menu, the saved game, the end of `waitUntilReady` with the resume message, `close` |
| `HandleIntro`, `HandleLaunch`, `HandleReady`, `Close` | `ConnectionSlot::update` on the slot's thread, with `setJoinGameInProgressFlags`, `findSlotForUUID` and the exchange of two slots |
| `UpdateAsksPause`, `UpdateAsksResume`, `UpdateSaves`, `UpdateOnly` | the ways through the end of `Game::update` (3403-3735) |
| `GiveRequests`, `TryPauseToggle` | the pause commands of a keyframe through `Game::setPaused`, and one asked for by the host |
| `ReplaceDisconnected` | `ReplaceDisconnectedNetworkPlayersWithAI` |

A saved game is the frame it was saved at and whether a join's resume had been
asked for by then.  Messages are kept per connection in order (`inq`); what the
server tells the client is a counter, because only ready messages matter here.
What `close` and accepting do not reset stays in the slot's record.

### SlotThreads

The server's slots with their threads, in the lobby, at the launch and in the
match.  A `ConnectionSlot` takes its thread along when slots change places, so
`slot` is indexed by the object and `place` says which object is at an index.

| Action | Code |
|---|---|
| `Wake`, `Poll`, `Read`, `EndBroadcast`, `Finish` | `ConnectionSlotThread::execute` and `ConnectionSlot::update`: a signal taken, the match's own polling, one message, the end of a broadcast begun on this thread, the end of the task |
| `ProcessQueue`, `SignalSlots`, `Wait`, `Timeout`, `Dispatch`, `Relay`, `RelayEnd` | `ServerInterface::update` step by step |
| `SwitchSlot`, `LaunchGame`, `StartSlot` | `switchSlot` between two updates of the menu, and the launch |
| `SendText`, `SendOther`, `Leave` | the clients |

A request to change slots names the index the client was at when it sent it and is
kept at that index (`Asked`), so a second request that is read after the first was
carried out moves whatever slot is there by then.

`inBroadcast` is one flag for all threads, as in the code, so that a broadcast
that ends resets it for another that is still under way.  A critical section
under a mutex is one step.

Three properties say what becomes of texts, each under what it needs.
`NeverTwice` holds always.  `TextsRelayed` follows a text from its author's
connection to the server's player, and holds until the match is launched or a
wait times out.  `SameTextsEverywhere` goes on to the other clients, and holds as
long as nobody leaves besides: when a client leaves while its slot's thread
broadcasts the settings, the wait passes over that slot, so the server relays the
next text while the broadcast lasts; that text is queued, the one behind it is
not, and with a third client in the lobby it arrives there first.  TLC found
this with three slots.

### UpgradeManager, Economy and MCEconomy

`UpgradeManager` translates the methods of the class of that name as operators
on its two fields: the list of upgrades and the map from a type to its place.
`Economy` is one faction around it.  Its operators carry the names of what they
translate: `CostsApplied`, `CostsDeapplied`, `StaticCostsDeapplied` and the like
for `Faction`, `Given`, `Undone`, `Cleared`, `LowerDeleted` for `Unit`,
`ProduceUpdates`, `BuildUpdates`, `MorphUpdates`, `UpgradeUpdates` for
`UnitUpdater`.  The simulation is one thread, so an action is a call from it:
`GiveCommand`, `CancelCommand`, `UpdateUnit` (with the killing of a unit whose
health is gone), `Die`, `Harvest`, `FinishBuilding`, `Consume`.  Where units stand
is left out, so whether a place is free, reached or taken is a choice
(`ApproachUpdates`, `Other`).

## 3. What is checked

`MCLockstep` and `MCStartBarrier` name the players and who gives which order, and
`MCEconomy` the units, their costs and orders; `ClientLink`, `InGameJoin` and
`SlotThreads` take numbers and names only and are run as they are.

| Run | Instance | Shows |
|---|---|---|
| `lockstep_pause` | one client, one order, one pause by the client's player, one pause for lag, catch-ups of up to 2 updates, 7 frames, 4 lists | `TypeOK`, `SameCommandsInOrder`, `NoFalseDesync`, `ChecksumsBesideCommands`, `OnlyTheStrandedMiss` |
| `lockstep_clients` | two clients of which one gives an order, a pause by the host, 4 frames, 3 lists, no catch-up | `ServerReachesFirst`, `OrdersConserved`, `ImplementsLog` |
| `lockstep_held_back` | one client, one order, a pause by the host and one for lag, 7 frames, 4 lists, no catch-up | `NothingMissedBehind` |
| `lockstep_live` | one client, one order, a pause for lag, 7 frames, fairness | `OrdersReachEveryClient`, `ClientsFollow` |
| `start_barrier` | two clients with and without the server's data | `TypeOK`, `NoOneStartsAlone`, `PlayersDiscardNothing`, `WaitsEnd` |
| `client_link` | four lists of two commands | `TypeOK`, `ListsTakenWhole`, `SocketOutlivesReads`, `QuitEndsBoth` |
| `in_game_join` | two players of which one is absent at first, two connections, one pause or resume by the host, one frame, fairness | `TypeOK`, `FlagsAreOfTheClient`, `SavedWorldStandsStill`, `LaunchedPlayersGetIn`, `EveryoneInResumes` |
| `slot_threads` | two slots, a client that may leave and one that knocks, two messages, one wait that times out, fairness | `TypeOK`, `TextsRelayed`, `SameTextsEverywhere`, `NeverTwice`, `SleepsOnlyWhenDone`, `MessagesAreRead`, `KnockersGetIn`, `QueueDrains` |
| `economy` | a castle and a worker, room for a third unit, two commands per unit, three kinds of resources, one upgrade | `TypeOK`, `WithinStore`, `PopulationNeverGained`, `MaxUnitCountKept`, `OneCommandPerUpgrade` |
| `upgrade_cancelled` | two castles, three upgrades | the third disagreement of section 4 |
| `lockstep_catchup_pause`, `client_link_lost` | as above | the first two disagreements of section 4 |

Bounds.  With a period of 2, seven frames hold three keyframes: one to pause at,
one to resume at or to run past, and one behind it.  Four lists are two for a
paused keyframe and one on either side of it.  One order is enough for the
conservation of orders, because nothing in the code treats two orders apart
except their order, which the pause commands beside it exercise.  Two clients
interact only through the server.  `lockstep_clients` has no catch-up because its
properties do not survive one (section 4, first finding); `lockstep_pause` has,
and shows which properties do.  A list that is held back at a keyframe at which the
world runs takes three keyframes: one whose list starts the timer, the one without a
list, and one whose list lets the client go on.  `lockstep_held_back`,
`lockstep_live` and `lockstep_pause` have them.  In `ClientLink` two commands make a list that can
be seen half-stored, and four lists let the reader be ahead of the player.

In `InGameJoin` the absent player's slot and the other one are the two that can be
reused by another client and change places: two connections let a client join
twice, or a second one while the first is still in its way, and a playing client
leave and come back.  One frame is all a world has to move to differ from a saved
one.  In `SlotThreads` a slot that is not connected may hold one unfinished event
(`MaxBacklog`; the code signals it again at every update, to no other effect),
and a vacant slot is only signalled when somebody knocks, because otherwise its
thread finds nothing.  Two messages are the least that can be out of order, and
one time-out shows what a late thread does.  In `Economy` the three units are one
that gives orders, one that receives them and one that is made; a house needs
none of the population, which `PopulationNeverGained` asks for.  Three upgrades
are the fewest that can go wrong, as `LateCancelKeepsPlaces` proves.
`SlotThreads` is checked for deadlock: it has none, because the server's main
thread always goes on.  Elsewhere deadlock is not checked: a bounded match ends.

Fairness.  Every thread keeps running its loop, so each step of a loop is weakly
fair while it can be taken.  Strong fairness is asked for where a step is disabled
again and again for a reason that passes: a client's world update between idle
updates (slow-downs are finite), a thread that polls for a mutex the other
releases again and again, and a time limit looked at once per turn of a loop.  In
`InGameJoin` the slots' threads, the server's `Game::update` with its commands,
and a client that has begun to join go on; in `SlotThreads` every thread does.
`Economy` has no liveness property.  No fairness is asked of players, of the lag
check, of the connection, or of the server's sending in `ClientLink`.

## 4. Where code and text disagree

1. `PausedWorldStandsStill`.  "if game is paused don't try to catch up"
   (`game/game.cpp` 2813).  The pause is looked at once per `Game::update`; a
   client catching up does two world updates in one, and a pause given in the
   first does not stop the second.  The paused world then stands at a frame that
   is no keyframe, where no commands are looked for, so the resume never comes.
2. `LostLinkEndsWait`.  "Proper network disconnect detection when connection
   drops in an abnormal way" (`src/ChangeLog.md` 270).  If the connection breaks
   in the middle of a list, or between two messages, the network thread's guard
   hides it from `waitForMessage`, nobody sets `quit`, and the main thread polls
   for ever.
3. `IsUpgradedAsDocumented`.  "Returns true if an Upgrade of the desired type has
   state UpgradeState::usUpgraded" (`type_instances/upgrade.h` 165).
   `cancelUpgrade` erases an element of the vector and lowers only the places that
   now lie beyond its end (`upgrade.cpp` 150), not all those behind the erased
   one.  With three upgrades in progress and the first cancelled, two types share
   a place, and finishing one makes the other count as finished.

What else was met while modelling, without a line of text that it contradicts
and so without a run:

* Joining.  With another client in the match the joiner's match stays paused until
  every client has sent a resume message of its own, which the other one does only
  when it also joined (`server_interface.cpp` 3191).  A pause that is no join's is
  refused by the server while a client joins, but applied by the other clients
  (`game.cpp` 8268).  The request to be launched survives `close` of its slot
  (`connection_slot.cpp` 1417), so the match may be paused for the slot's next
  client before it asked.  The flags of a rejoining player are lost when the
  player moves through `switchSlot` (`connection_slot.cpp` 919).  A player that
  drops after the match was saved for it leaves its faction without an AI until
  the next launch (`game.cpp` 3548-3553).  A launch between the request of a
  resume and its keyframe is served the running world, which
  `SavedWorldStandsStill` excepts; and `resumeRequestSent` may stay set (the early
  return at 3567), which `EveryoneInResumes` excepts.  A resume for lag that is
  asked for while a client joins is ignored.
* Slot threads.  Texts are lost when a match begins or a wait has timed out: each
  `update` of the slot clears what the last one read (`connection_slot.cpp` 644).
  A text that was queued and whose author has changed slots since is sent back to
  its author, because the excluded index is kept and not the client.
* Economy.  A queued build command that is cancelled while the unit builds
  something else is not refunded (`unit.cpp` 4950): what is looked at is the
  unit's skill, not the command.  `maxUnitCount` does not count buildings that are
  not finished (`faction.cpp` 1147), so `MaxUnitCountKept` speaks of types that
  are produced.  A unit that receives a new build order while its skill is still
  to build, and whose old building is gone, finishes the new order without having
  built (`unit_updater.cpp` 1247).  A builder whose building was destroyed, with
  another unit standing there since, stops and is refunded when its order is
  cancelled (1237).  The discount of a morph returns a part of the static costs
  too (`faction.cpp` 1246-1257), which the unit returns again as a whole when it
  dies: a morph whose discount is not rounded off gains population, so
  `PopulationNeverGained` asks for `Undiscounted`.  `cancelCommand`, called for an
  order that is blocked, cancels the unit's last command and not the blocked one
  (1195, 2467).  A produced unit that finds no place is deleted with what it cost
  (2335).

## 5. What is proved

Every invariant and every refinement of the runs has a theorem, which holds for
every value of the constants that the assumptions of its module allow (bounds are
naturals, the server is no client, pause commands are no orders, and the like).
Where a theorem has a hypothesis besides, it is named below with the reason.
Every inductive invariant was checked with TLC before it was proved.

### The lockstep (`LockstepProofs`, invariants in `LockstepInvariant`)

* `TypeCorrect` (`TypeOK`): one lemma per action.
* `CommandsInOrder` (`SameCommandsInOrder`).  Not inductive: what a client gives
  next comes from its cache, and that from the stream.  `StreamInv` says that
  every list carries, in a history field nothing reads, all that the server has
  given once it gave the commands of the list (`ListsAddUp`,
  `ListsArePrefixes`), and that what a client gave followed by what it stored for
  a frame is what the lists it received carry for that frame (`CacheAddsUp`).
  The argument needs no order of frames and no pause state, so it holds for a
  client that catches up or runs on while paused.
* `ChecksumsAlwaysBeside` (`ChecksumsBesideCommands`) and `NeverAhead`
  (`ServerReachesFirst`), from `FrameInv`: lists are sent in the order of their
  frames, the server is paused exactly at a keyframe whose commands leave it
  paused, a list that leaves its keyframe unpaused settles that keyframe
  (`SettledLists`), checksums stored or sent are those of a past that no longer
  changes (`ChecksumsAreFinal`), and a client only passes keyframes that the
  server reached (`RunsBehind`).
* `NeverDesync` (`NoFalseDesync`) and `NothingMissedUnlessStranded`
  (`OnlyTheStrandedMiss`), from `KnowInv`: a client that runs at a keyframe, or
  left it, gave there what some list at or past the keyframe says
  (`ClientsKnow`), and left it unpaused unless a catch-up carried it past its own
  pause (`StrandedStays`).  Their hypothesis `CatchUpStrands` is that clients do not
  catch up or keyframes are more than one frame apart.  It is needed: with
  `FramePeriod = 1` and a catch-up of two updates the frame behind a pause is a
  keyframe again, where the client takes commands in a state the server never
  had, and TLC finds `NoFalseDesync` violated in 31 steps.  The period is 10
  unless configured otherwise (`src/source/glest_game/global/config.cpp` 38).
* `NothingMissedWithoutCatchUp` (`NothingMissedBehind`) and `RefinesLog`
  (`ImplementsLog`), for `MaxCatchUp = 0`, which the first finding shows to be
  needed.  The refinement has one lemma per kind of step: the server appends to
  the log and moves its clock, a client applies the next entries, its world
  moves on, everything else stutters.
* `NoOrderLostOrDoubled` (`OrdersConserved`), from `ConserveInv`: besides, an
  order is in no queue of a client other than its player's.  The lemmas say how
  many copies of an order there are in a queue that is drained, appended to or
  concatenated, in a list of lists and in a history.

### The client's threads, the start, joining

* `LinkTypeCorrect`, `ListsWhole`, `SocketKept` (`TypeOK`, `ListsTakenWhole`,
  `SocketOutlivesReads`), from `LinkInv` of `ClientLinkProofs`: `PlacesInv` says
  which thread holds the mutex at which place of its code, `CacheInv` that a list
  is incomplete only while the network thread holds the mutex to store it, and
  `TakenInv` that everything taken was whole.
* `BarrierTypeCorrect`, `BarrierHolds`, `NothingDiscarded` (`TypeOK`,
  `NoOneStartsAlone`, `PlayersDiscardNothing`), from `BarrierInv` of
  `StartBarrierProofs`.  A slot counts as ready only once its client loaded
  (`ReadyMeansLoaded`), and the server decides only after a whole round over the
  slots (`RoundsAreComplete`), although clients move between two visits.  Answers
  follow the decision (`AnswersFollowDecision`), and a list is sent to a client
  only behind its answer (`ListsFollowAnswers`), so a wait that ends well has
  nothing behind it to throw away.
* `FlagsOfTheClient` (`FlagsAreOfTheClient`), from `JoinInv` of
  `InGameJoinProofs`.  The flags of a slot follow from messages that were on their
  way before, so they are tied to how far the client is: a client that has not
  loaded has sent no ready message and was told of the saved game only through a
  slot that is joining (`NotLoaded`); the one ready message of a client that
  waits is the last in its slot and finds it joining (`Loaded`); a free slot
  holds no resume message (`FreeSlots`); a client that is away has nothing left
  to read (`AwayClients`).  `Connections` makes the slot of a client unique.
* `JoinTypeCorrect` (`TypeOK`) and `WorldAwaitsJoiner` (`SavedWorldStandsStill`),
  from `JoinInv` and `SaveInv`.  A match paused for a join is paused; a joining
  slot is not ready; a client that waits unanswered has its slot joining; and as
  long as a client was told of a saved game, or waits with it, the match is paused
  for the join, no resume is requested and the game is of the present frame,
  unless a resume was under way when it was saved.  What a keyframe's pause
  commands do to `game` is a fold over a queue of any length.

### The slots' threads (`SlotThreadsProofs`, `SlotTextsProofs`)

* `SlotTypeCorrect` (`TypeOK`) and `NoWakeUpLost` (`SleepsOnlyWhenDone`), from
  `ThreadInv`: the event a thread is at is the first unfinished one of its list,
  and its semaphore counts at least the other unfinished events, and one more for
  the start of the match.
* `NoTextTwice` (`NeverTwice`), from `OrderInv`: the texts of a client that are
  shown at the server, being relayed, read and unread have numbers that rise in
  this order; and `QueueInv`: a queued text has been shown at the server once and
  to no client.
* `NoTextLost` (`TextsRelayed`), from `CalmInv`: until a wait times out or the
  match is launched nothing is missing between these stages, because a slot that
  has read texts is one that the server has still to dispatch.
* `EverybodySeesTheSame` (`SameTextsEverywhere`), from `TogetherInv`: as long as
  nobody leaves besides, no text is ever queued, and each client is shown what the
  server's player is shown from some text on.

### The economy (`EconomyProofs`)

One invariant, `EcoInv`, of a faction: its units are sound; a store is what the
units can store (`StoreRight`); what a unit and its orders count for is within
the maximum (`CountsKept`); an upgrade that is worked at is known and worked at
once (`ResearchKnown`); what is left of a static resource and what is in use are
no more than at the start (`NothingGained`).  Each of these is a sum over all
units of what the unit and each of its orders counts for, and the lemmas say what
every function of the model changes in the sums.  Morphs and refunds meet in
`Undone`, and a death in the midst of an update in `Killed`.

* `EconomyTypeCorrect` (`TypeOK`), `OneWorksAtAnUpgrade`
  (`OneCommandPerUpgrade`), `NoPopulationGained` (`PopulationNeverGained`): from
  the assumptions of `Economy` alone.
* `NeverOverspentOrOverfull` (`WithinStore`), if no type and no upgrade has a
  negative cost of a tech resource (`TechPaid`): such a cost is paid out when
  something is ordered, and taken back from an amount that may be spent by then.
* `MaximumKept` (`MaxUnitCountKept`), if the units at the start keep their maximum
  (`StartWithinMaximum`): the code does not look at the maximum for them.
* `PlacesAlwaysExist`, `ThrowsOnlyForUnknown`, `LateCancelKeepsPlaces`: the places
  of the manager's map exist in its list in spite of the third finding; a method
  throws exactly for an unknown upgrade; cancelling one of the last two upgrades
  leaves every other its own place.

### Folds and sums (`FoldTheorems`)

`FoldLeft` and `MapThenSumSet` are recursive functions on the subsets of a set.
That there is such a function, that its values stay in a set that each step
keeps, and that a sum does not depend on the order in which it is taken is shown
by a least exception, since an induction rule cannot be cited.  The modules above
use what follows: a sum with one value changed, added or taken away, two sums
added, and a sum of marks as the size of a set.

### What is only model-checked

Liveness (`OrdersReachEveryClient`, `ClientsFollow`, `WaitsEnd`, `QuitEndsBoth`,
`LaunchedPlayersGetIn`, `EveryoneInResumes`, `MessagesAreRead`, `KnockersGetIn`,
`QueueDrains`), because the prover has no rule for fairness; and the three
violations of section 4, each of which is a trace.

## 6. What is not modelled, and why

For the network models the world is a deterministic function of the commands.
Of the world's own rules only a faction's economy is modelled: computer players
are heuristics without a promise to check, and movement and the path finder are
geometry over a large map.  Presentation, the editor, the viewer and the clients
of external services (masterserver, IRC) hold no state a match depends on; they,
the vendored headers and the serialisation of a saved game make up most of the
repository's lines, and the map of the models is small beside them.  Packing and
byte order of messages are left out: lists are records, sent as a unit, which is
what the code makes of its stream.  Client lists without commands are left out of
`Lockstep`, since they only feed the measure of lag, and that measure is a free
choice.  The destructor of `ClientInterface` is not in `ClientLink`.

`InGameJoin` has no orders beside pauses, so an order on its way while the world
is saved is not in it.  `SlotThreads` leaves out the thread manager that
`EnableNewThreadManager` would switch on (off by default), the texts a slot's
thread sends by itself, and clients that are let in during a match, which
`InGameJoin` has; a socket that is deleted between two tests in the loop of a
slot's thread is not in it.  `Economy` leaves out
resources shared in a team, morphs that ignore resource requirements,
requirements of a command type itself, locked units, loot and units spawned by an
attack, energy, meeting points, and how much health a hit takes.

## 7. Plan

In this order:

1. `LagControl`: `clientLagCheck`, the list of lagging clients, the pause counter,
   the resume that may end a player's pause.
2. `NetworkCommands`: votes to switch teams, players that leave.
3. `FileTransfer` and the shutdown protocol of `BaseThread`.
4. The order in which `switchSlot` and the slots' threads take mutexes.
5. Cells of the map and the units' places in them.

Proofs: every invariant and every refinement that a run checks has its theorem.
What is left is to follow the model: the invariants of the modules above as they
are written.
