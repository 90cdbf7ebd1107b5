----------------------------- MODULE ClientLink -----------------------------
(***************************************************************************)
(* The two threads of ClientInterface during a match.  The network thread  *)
(* (ClientInterfaceThread) calls updateFrame again and again: it waits for *)
(* a message and stores the commands of a list.  The main thread, at every *)
(* keyframe, polls in getNetworkCommand until the list of the frame is     *)
(* stored.  They share the cache, under networkCommandListThreadAccessor,  *)
(* and the flags quit and quitThread.  Either of them may find that the    *)
(* match is over and call close, which stops the network thread (waiting   *)
(* for it at most ten seconds) and deletes the socket; the network thread  *)
(* then waits for itself.                                                  *)
(***************************************************************************)
EXTENDS Integers, FiniteSets

CONSTANTS
    MaxLists,   \* bound: lists the server sends
    ListSize    \* commands in a list

ASSUME LinkBounds == MaxLists \in Nat \ {0} /\ ListSize \in Nat \ {0}

VARIABLES
    \* the connection
    linkUp,     \* the server's end is there
    sent,       \* complete lists that arrive, or have arrived, at the socket
    partial,    \* what follows them is the beginning of a list
    read,       \* lists read from the socket
    socketOpen, \* ClientInterface::clientSocket is not deleted
    \* shared by the threads
    lockedBy,   \* holder of networkCommandListThreadAccessor
    quit, quitThread,
    entries,    \* frames in cachedPendingCommands
    stored,     \* commands stored for each frame
    \* the threads
    netAt,      \* where the network thread is, see NetPlaces
    mainAt,     \* where the main thread is, see MainPlaces
    frame,      \* keyframe the main thread is at
    taken       \* commands the main thread took at each keyframe

linkVars == <<linkUp, sent, partial, read>>
cacheVars == <<entries, stored>>
mainVars == <<mainAt, frame, taken>>
flags == <<quit, quitThread>>
vars == <<linkUp, sent, partial, read, socketOpen, lockedBy, quit, quitThread,
          entries, stored, netAt, mainAt, frame, taken>>

\* begin:    the guard of updateFrame, and the loop of the thread around it
\* waiting:  in waitForMessage
\* storing:  a list is read, the mutex is not held yet; pushing: with the mutex
\* closing:  about to enter close; selfWait: in shutdownNetworkCommandListThread
NetPlaces == {"begin", "waiting", "storing", "pushing", "closing", "selfWait", "ended"}

\* polling: the loop of getNetworkCommand; taking: there, with the mutex
\* closing: in close, called with the mutex held
MainPlaces == {"playing", "polling", "taking", "closing", "left"}

Keyframes == 1 .. MaxLists

\* Socket::isConnected: false once nothing is left to read on a dead connection.
Connected == socketOpen /\ (linkUp \/ read < sent \/ partial)

Init ==
    /\ linkUp = TRUE /\ sent = 0 /\ partial = FALSE /\ read = 0
    /\ socketOpen = TRUE
    /\ lockedBy = "none"
    /\ quit = FALSE /\ quitThread = FALSE
    /\ entries = {}
    /\ stored = [f \in Keyframes |-> 0]
    /\ netAt = "begin"
    /\ mainAt = "playing" /\ frame = 0
    /\ taken = [f \in Keyframes |-> 0]
-----------------------------------------------------------------------------
(* The other end of the connection.                                        *)

ServerSends ==
    /\ linkUp /\ sent < MaxLists
    /\ sent' = sent + 1
    /\ UNCHANGED <<linkUp, partial, read, socketOpen, lockedBy, flags, cacheVars,
                   netAt, mainVars>>

\* The connection ends, in an orderly way or not: some of what was sent still
\* arrives, perhaps cut off in the middle of a list.
LinkLost ==
    /\ linkUp
    /\ linkUp' = FALSE
    /\ sent' \in read .. sent
    /\ partial' \in BOOLEAN
    /\ UNCHANGED <<read, socketOpen, lockedBy, flags, cacheVars, netAt, mainVars>>
-----------------------------------------------------------------------------
(* The network thread.                                                     *)

\* The guard of updateFrame.  If it fails for the connection, updateFrame returns
\* and is called again at once, to no other effect.
NetBegin ==
    /\ netAt = "begin"
    /\ ~quitThread /\ Connected
    /\ netAt' = "waiting"
    /\ UNCHANGED <<linkVars, socketOpen, lockedBy, flags, cacheVars, mainVars>>

NetEnds ==
    /\ netAt = "begin" /\ quitThread
    /\ netAt' = "ended"
    /\ UNCHANGED <<linkVars, socketOpen, lockedBy, flags, cacheVars, mainVars>>

NetReads ==
    /\ netAt = "waiting" /\ ~quitThread
    /\ read < sent
    /\ read' = read + 1
    /\ netAt' = "storing"
    /\ UNCHANGED <<linkUp, sent, partial, socketOpen, lockedBy, flags, cacheVars, mainVars>>

\* receiveMessage fails in the middle of a list; the thread just returns.
NetReadFails ==
    /\ netAt = "waiting" /\ ~quitThread
    /\ read = sent /\ partial
    /\ partial' = FALSE
    /\ netAt' = "begin"
    /\ UNCHANGED <<linkUp, sent, read, socketOpen, lockedBy, flags, cacheVars, mainVars>>

\* waitForMessage: no message, and the connection is gone or messageWaitTimeout over.
NetGivesUp ==
    /\ netAt = "waiting" /\ ~quitThread
    /\ read = sent /\ ~partial
    /\ quit' = TRUE
    /\ netAt' = "closing"
    /\ UNCHANGED <<linkVars, socketOpen, lockedBy, quitThread, cacheVars, mainVars>>

NetLeavesWait ==
    /\ netAt = "waiting" /\ quitThread
    /\ netAt' = "begin"
    /\ UNCHANGED <<linkVars, socketOpen, lockedBy, flags, cacheVars, mainVars>>

\* Mutant of NetLocks: the cache is written without the mutex.
NetDoesNotLock ==
    /\ netAt = "storing"
    /\ entries' = entries \cup {read}
    /\ netAt' = "pushing"
    /\ UNCHANGED <<linkVars, socketOpen, lockedBy, flags, stored, mainVars>>

NetLocks ==
    /\ netAt = "storing" /\ lockedBy = "none"
    /\ lockedBy' = "net"
    /\ entries' = entries \cup {read}
    /\ netAt' = "pushing"
    /\ UNCHANGED <<linkVars, socketOpen, flags, stored, mainVars>>

\* Mutant of NetPushes: one command too many.
NetPushesTooMany ==
    /\ netAt = "pushing" /\ stored[read] <= ListSize
    /\ stored' = [stored EXCEPT ![read] = @ + 1]
    /\ UNCHANGED <<linkVars, socketOpen, lockedBy, flags, entries, netAt, mainVars>>

NetPushes ==
    /\ netAt = "pushing" /\ stored[read] < ListSize
    /\ stored' = [stored EXCEPT ![read] = @ + 1]
    /\ UNCHANGED <<linkVars, socketOpen, lockedBy, flags, entries, netAt, mainVars>>

NetUnlocks ==
    /\ netAt = "pushing" /\ stored[read] = ListSize
    /\ lockedBy' = "none"
    /\ netAt' = "begin"
    /\ UNCHANGED <<linkVars, socketOpen, flags, cacheVars, mainVars>>

\* close, called by the network thread: it tells itself to quit ...
NetCloses ==
    /\ netAt = "closing" /\ lockedBy = "none"
    /\ quitThread' = TRUE
    /\ netAt' = "selfWait"
    /\ UNCHANGED <<linkVars, socketOpen, lockedBy, quit, cacheVars, mainVars>>

\* ... waits the ten seconds for itself, then deletes the socket.
NetSelfWaitEnds ==
    /\ netAt = "selfWait" /\ lockedBy = "none"
    /\ socketOpen' = FALSE
    /\ netAt' = "begin"
    /\ UNCHANGED <<linkVars, lockedBy, flags, cacheVars, mainVars>>
-----------------------------------------------------------------------------
(* The main thread.                                                        *)

\* ClientInterface::updateKeyframe.
MainReachesKeyframe ==
    /\ mainAt = "playing"
    /\ ~quit /\ ~quitThread
    /\ frame < MaxLists
    /\ frame' = frame + 1
    /\ mainAt' = "polling"
    /\ UNCHANGED <<linkVars, socketOpen, lockedBy, flags, cacheVars, netAt, taken>>

\* One turn of the loop in getNetworkCommand that finds an entry for the frame.
MainFindsEntry ==
    /\ mainAt = "polling"
    /\ ~quit /\ ~quitThread
    /\ lockedBy = "none" /\ frame \in entries
    /\ lockedBy' = "main"
    /\ mainAt' = "taking"
    /\ UNCHANGED <<linkVars, socketOpen, flags, cacheVars, netAt, frame, taken>>

MainTakes ==
    /\ mainAt = "taking" /\ taken[frame] < stored[frame]
    /\ taken' = [taken EXCEPT ![frame] = @ + 1]
    /\ UNCHANGED <<linkVars, socketOpen, lockedBy, flags, cacheVars, netAt, mainAt, frame>>

\* All commands are taken.  If the checksums differ, close is called with the mutex
\* held: the network thread is told to quit, but cannot get the mutex.
MainDone ==
    /\ mainAt = "taking" /\ taken[frame] = stored[frame]
    /\ \/ /\ lockedBy' = "none"
          /\ mainAt' = "playing"
          /\ UNCHANGED flags
       \/ /\ quit' = TRUE /\ quitThread' = TRUE
          /\ mainAt' = "closing"
          /\ UNCHANGED lockedBy
    /\ UNCHANGED <<linkVars, socketOpen, cacheVars, netAt, frame, taken>>

\* The network thread cannot go on without the mutex.
NetNeedsMutex == netAt \in {"storing", "closing", "selfWait"}

\* Mutants of MainCloses: the network thread is waited for without a time limit; it
\* is not waited for.
MainClosesPatiently ==
    /\ mainAt = "closing"
    /\ netAt = "ended"
    /\ socketOpen' = FALSE
    /\ lockedBy' = "none"
    /\ mainAt' = "playing"
    /\ UNCHANGED <<linkVars, flags, cacheVars, netAt, frame, taken>>
MainClosesAtOnce ==
    /\ mainAt = "closing"
    /\ socketOpen' = FALSE
    /\ lockedBy' = "none"
    /\ mainAt' = "playing"
    /\ UNCHANGED <<linkVars, flags, cacheVars, netAt, frame, taken>>

\* The thread has ended, or the ten seconds are over, which is time enough for it
\* to end unless it needs the mutex.
MainCloses ==
    /\ mainAt = "closing"
    /\ netAt = "ended" \/ NetNeedsMutex
    /\ socketOpen' = FALSE
    /\ lockedBy' = "none"
    /\ mainAt' = "playing"
    /\ UNCHANGED <<linkVars, flags, cacheVars, netAt, frame, taken>>

\* getNetworkCommand stops polling once quit is set, and Game::update ends the match.
MainLeaves ==
    /\ mainAt \in {"playing", "polling"}
    /\ quit
    /\ mainAt' = "left"
    /\ UNCHANGED <<linkVars, socketOpen, lockedBy, flags, cacheVars, netAt, frame, taken>>
-----------------------------------------------------------------------------
NetNext ==
    \/ NetBegin \/ NetEnds \/ NetReads \/ NetReadFails \/ NetGivesUp \/ NetLeavesWait
    \/ NetLocks \/ NetPushes \/ NetUnlocks \/ NetCloses \/ NetSelfWaitEnds

MainNext ==
    \/ MainReachesKeyframe \/ MainFindsEntry \/ MainTakes \/ MainDone
    \/ MainCloses \/ MainLeaves

Next == ServerSends \/ LinkLost \/ NetNext \/ MainNext

Spec == Init /\ [][Next]_vars

\* Both threads go on.  A thread that polls for the mutex gets it in the end.
Fairness ==
    /\ WF_vars(NetNext)
    /\ WF_vars(MainNext)
    /\ SF_vars(NetLocks) /\ SF_vars(NetCloses) /\ SF_vars(NetSelfWaitEnds)
    /\ SF_vars(MainFindsEntry)

FairSpec == Spec /\ Fairness
-----------------------------------------------------------------------------
(* Properties.                                                             *)

\* Type invariant; the mutex is held exactly where the code holds it.
TypeOK ==
    /\ linkUp \in BOOLEAN /\ partial \in BOOLEAN /\ socketOpen \in BOOLEAN
    /\ sent \in 0 .. MaxLists /\ read \in 0 .. sent
    /\ quit \in BOOLEAN /\ quitThread \in BOOLEAN
    /\ entries \subseteq Keyframes
    /\ stored \in [Keyframes -> 0 .. ListSize]
    /\ taken \in [Keyframes -> 0 .. ListSize]
    /\ netAt \in NetPlaces /\ mainAt \in MainPlaces
    /\ frame \in 0 .. MaxLists
    /\ lockedBy \in {"none", "net", "main"}
    /\ lockedBy = "main" <=> mainAt \in {"taking", "closing"}

\* The commands of a list are given together: a main thread that left the cache
\* behind at a keyframe took none of the frame's commands or all of them.
ListsTakenWhole ==
    \A f \in Keyframes :
        mainAt \in {"playing", "left"} \/ f < frame => taken[f] \in {0, ListSize}

\* The network thread does not read from a socket that is deleted.
SocketOutlivesReads == netAt = "waiting" => socketOpen

\* Once either thread decided that the match is over, both come to an end, whoever
\* holds the mutex and whoever waits for whom in close.
QuitEndsBoth == quit ~> mainAt = "left" /\ netAt = "ended"

\* When the connection drops, however it drops, a main thread that waits for the
\* server does not wait for ever.
LostLinkEndsWait == ~linkUp /\ mainAt = "polling" ~> mainAt # "polling"
=============================================================================
