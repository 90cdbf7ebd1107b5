-------------------------- MODULE LockstepInvariant --------------------------
(***************************************************************************)
(* The inductive invariants behind the safety properties of Lockstep.  Each *)
(* of the first three is built on the one before it: StreamInv is about what *)
(* the lists carry, FrameInv about the frames they carry it for, and KnowInv *)
(* about what a client must know before its world may move on.  ConserveInv *)
(* is about the orders on their way to the server.                         *)
(***************************************************************************)
EXTENDS Lockstep

\* All that the first n of lists carry.
Delivered(lists, n) == IF n = 0 THEN NoCommands ELSE lists[n].after

\* Every list adds its commands to what the lists before it carry, and all lists
\* together carry what the server gave: no keyframe with commands is held back.
ListsAddUp ==
    /\ \A i \in 1 .. Len(broadcasts) :
          broadcasts[i].after = WithGiven(Delivered(broadcasts, i - 1),
                                          broadcasts[i].frame, broadcasts[i].commands)
    /\ Delivered(broadcasts, Len(broadcasts)) = given[Server]

\* What any first lists carry is a prefix of what the server gave.
ListsArePrefixes ==
    \A i \in 1 .. Len(broadcasts), k \in Keyframes :
        IsPrefix(broadcasts[i].after[k], given[Server][k])

\* What a client gave, followed by what it stored, is what it received.
CacheAddsUp ==
    \A c \in Clients, k \in Keyframes :
        given[c][k] \o cachedPendingCommands[c][k] = Delivered(broadcasts, received[c])[k]

StreamInv == TypeOK /\ ListsAddUp /\ ListsArePrefixes /\ CacheAddsUp
-----------------------------------------------------------------------------
\* Lists are sent in the order of their frames, none from the server's future.
ListsInOrder ==
    /\ \A i \in 1 .. Len(broadcasts) : broadcasts[i].frame <= frameCount[Server]
    /\ \A i, j \in 1 .. Len(broadcasts) :
          i <= j => broadcasts[i].frame <= broadcasts[j].frame

\* Nothing is given ahead of the frame a world stands at.
NothingGivenAhead ==
    \A h \in Hosts, k \in Keyframes : k > frameCount[h] => given[h][k] = <<>>

\* The server is paused exactly while it stands at a keyframe whose commands
\* leave it paused.
ServerPause ==
    paused[Server] <=> /\ frameCount[Server] \in Keyframes
                       /\ PausedAfter(FALSE, given[Server][frameCount[Server]])

\* A list at or past keyframe k that leaves k unpaused settles it: the server is
\* past it, and has given there what the list says.
Settles(i, k) ==
    broadcasts[i].frame >= k /\ ~PausedAfter(FALSE, broadcasts[i].after[k])
SettledLists ==
    \A i \in 1 .. Len(broadcasts), k \in Keyframes :
        Settles(i, k) =>
            /\ given[Server][k] = broadcasts[i].after[k]
            /\ frameCount[Server] > k \/ ~paused[Server]

\* What a client knows of the lists it received.
CacheFollowsLists ==
    \A c \in Clients :
        /\ cachedLastPendingFrameCount[c] =
              IF received[c] = 0 THEN 0 ELSE broadcasts[received[c]].frame
        /\ \A k \in cachedFrames[c] : k <= cachedLastPendingFrameCount[c]
        /\ \A k \in Keyframes \ cachedFrames[c] : cachedPendingCommands[c][k] = <<>>

\* The checksums of a list, sent or stored, are those of the server's final
\* state before the list's frame, which is no frame of the server's future.
ChecksumsAreFinal ==
    /\ \A i \in 1 .. Len(broadcasts) :
          broadcasts[i].crc = WorldCRC(given[Server], broadcasts[i].frame)
    /\ \A c \in Clients, k \in Keyframes :
          cachedPendingCommandCRCs[c][k] # <<>> =>
              /\ k <= frameCount[Server]
              /\ cachedPendingCommandCRCs[c][k] = <<WorldCRC(given[Server], k)>>

\* A client runs only past keyframes that the server has reached.
RunsBehind ==
    \A c \in Clients, k \in Keyframes :
        frameCount[c] > k \/ (frameCount[c] = k /\ phase[c] = "run")
            => k <= frameCount[Server]

FrameInv ==
    /\ StreamInv
    /\ ListsInOrder
    /\ NothingGivenAhead
    /\ ServerPause
    /\ SettledLists
    /\ CacheFollowsLists
    /\ ChecksumsBesideCommands
    /\ ChecksumsAreFinal
    /\ RunsBehind
-----------------------------------------------------------------------------
\* A client in the second loop of a catch-up update leaves a keyframe although the
\* commands it gave there paused it.  If the next frame is no keyframe, the client
\* is stranded there: paused at a frame at which it takes no commands any more.
Stranded(c) == paused[c] /\ frameCount[c] \notin Keyframes

\* Clients that may catch up only strand where keyframes are apart.
CatchUpStrands == MaxCatchUp = 0 \/ FramePeriod > 1

\* The pause state of a client at a keyframe is the one its commands leave behind.
ClientPause ==
    \A c \in Clients :
        frameCount[c] \in Keyframes =>
            (paused[c] <=> PausedAfter(FALSE, given[c][frameCount[c]]))

\* Only a catch-up strands a client, and a stranded client stays where it is.
StrandedStays ==
    \A c \in Clients :
        /\ loopsLeft[c] > 0 => MaxCatchUp > 0
        /\ Stranded(c) => MaxCatchUp > 0 /\ loopsLeft[c] = 0 /\ phase[c] # "wait"

\* What client c gave at keyframe k is what a list at or past k says.
Knows(c, k) ==
    \E i \in 1 .. received[c] :
        broadcasts[i].frame >= k /\ given[c][k] = broadcasts[i].after[k]

\* A client that runs at a keyframe knows it; one that left it did so unpaused,
\* or it is stranded right behind it.
ClientsKnow ==
    \A c \in Clients, k \in Keyframes :
        /\ frameCount[c] = k /\ phase[c] = "run" => Knows(c, k)
        /\ frameCount[c] > k =>
              /\ Knows(c, k)
              /\ ~PausedAfter(FALSE, given[c][k]) \/ Stranded(c)

KnowInv ==
    /\ FrameInv
    /\ ClientPause
    /\ StrandedStays
    /\ ClientsKnow
    /\ NoFalseDesync
-----------------------------------------------------------------------------
\* A world that moved past a keyframe has given all that the server ever gives there,
\* with catch-ups too, unless a catch-up carried it past the pause it took there.
OnlyTheStrandedMiss ==
    \A c \in Clients, k \in Keyframes :
        k < frameCount[c] /\ ~Stranded(c) => given[c][k] = given[Server][k]
-----------------------------------------------------------------------------
\* An order is on its way from the machine of its player only.
OnlyFromItsPlayer ==
    \A o \in Orders : \A c \in Clients \ {PlayerOf[o]} : CopiesFrom(c, o) = 0

ConserveInv == TypeOK /\ OrdersConserved /\ OnlyFromItsPlayer
=============================================================================
