---------------------------- MODULE SlotThreads -----------------------------
(***************************************************************************)
(* The threads of the server's slots and the texts they relay.  In the     *)
(* lobby the main thread hands every slot whose socket has something to    *)
(* read an event, waits for the events to be completed, and then relays    *)
(* the texts the slots have read.  In the match every slot's thread polls  *)
(* its socket on its own.  Each slot has one thread; a ConnectionSlot      *)
(* takes its thread along when two slots change places.                    *)
(***************************************************************************)
EXTENDS Integers, Sequences, FiniteSets, SequencesExt

CONSTANTS
    NumSlots,     \* GameConstants::maxPlayers
    Clients,      \* who may be connected
    Early,        \* those that are connected at the start
    Server,       \* stands for the server's own player
    Nobody,
    MaxMessages,  \* bound: messages the clients send
    Leavers,      \* bound: those that may leave
    MaxTimeouts,  \* bound: waits for the slots that time out
    MaxBacklog    \* bound: unfinished events of a slot that is not connected

Slots == 1 .. NumSlots

ASSUME ThreadBounds ==
    /\ NumSlots \in Nat \ {0} /\ IsFiniteSet(Clients) /\ Early \subseteq Clients
    /\ Cardinality(Early) <= NumSlots
    /\ Server \notin Clients /\ Nobody \notin Clients \cup {Server}
    /\ MaxMessages \in Nat /\ MaxTimeouts \in Nat
    /\ Leavers \subseteq Clients
    /\ MaxBacklog \in Nat \ {0}

VARIABLES
    slot,       \* the ConnectionSlots, each with its thread
    place,      \* ServerInterface::slots: which of them is at each index
    request,    \* switchSetupRequests: the index that was asked for, or 0
    inBroadcast,  \* ServerInterface::inBroadcastMessage
    queue,      \* broadcastMessageQueue: texts and the index to exclude
    launched,   \* gameHasBeenInitiated
    main,       \* where the main thread is: at, i (index), todo (texts to relay)
    knocking,   \* clients that wait to be accepted
    sent,       \* texts a client has sent
    recv,       \* texts shown to a client or to the server's player
    messages, timeouts   \* bounds

threadVars == <<slot, place, request, inBroadcast, queue, launched, main>>
clientVars == <<knocking, sent, recv, messages>>
vars == <<slot, place, request, inBroadcast, queue, launched, main,
          knocking, sent, recv, messages, timeouts>>

Vacant(c) ==
    [client |-> c, up |-> c # Nobody, inq |-> <<>>, chat |-> <<>>, events |-> <<>>,
     signals |-> 0, started |-> FALSE, pc |-> "waiting", task |-> 0]

Init ==
    /\ LET seats == SetToSeq(Early)
       IN  slot = [s \in Slots |-> Vacant(IF s <= Len(seats) THEN seats[s] ELSE Nobody)]
    /\ place = [i \in Slots |-> i]
    /\ request = [i \in Slots |-> 0]
    /\ inBroadcast = FALSE /\ queue = <<>> /\ launched = FALSE
    /\ main = [at |-> "menu", i |-> 1, todo |-> <<>>]
    /\ knocking = Clients \ Early
    /\ sent = [c \in Clients |-> 0]
    /\ recv = [c \in Clients \cup {Server} |-> <<>>]
    /\ messages = 0 /\ timeouts = 0

At(i) == slot[place[i]]

\* Socket::isConnected: true while something is left to read.
Connected(r) == r.client # Nobody /\ (r.up \/ r.inq # <<>>)
\* What select reports: data, or the end of the connection.
Readable(r) == r.client # Nobody /\ (~r.up \/ r.inq # <<>>)
-----------------------------------------------------------------------------
(* The clients.                                                            *)

Text(c, n) == [kind |-> "text", from |-> c, n |-> n]
Switch(at, to) == [kind |-> "switch", at |-> at, to |-> to]
Requests == {Switch(at, to) : at \in Slots, to \in Slots}
Setup == [kind |-> "setup"]
Command == [kind |-> "command"]

SendText(s) ==
    LET c == slot[s].client
    IN  /\ c # Nobody /\ slot[s].up /\ messages < MaxMessages
        /\ messages' = messages + 1
        /\ sent' = [sent EXCEPT ![c] = @ + 1]
        /\ slot' = [slot EXCEPT ![s].inq = Append(@, Text(c, sent[c] + 1))]
        /\ UNCHANGED <<place, request, inBroadcast, queue, launched, main,
                       knocking, recv, timeouts>>

\* A client names the index it is at.  That it hears late of its own move is a request
\* that was sent before the move.
RequestsFrom(s) == {m \in Requests : place[m.at] = s}

\* In the lobby a client may ask for another slot or, as its administrator, send the
\* settings; in the match it sends commands.
SendOther(s) ==
    /\ slot[s].client # Nobody /\ slot[s].up /\ messages < MaxMessages
    /\ messages' = messages + 1
    /\ \E m \in IF slot[s].started THEN {Command}
                ELSE {Setup} \cup RequestsFrom(s) :
        slot' = [slot EXCEPT ![s].inq = Append(@, m)]
    /\ UNCHANGED <<place, request, inBroadcast, queue, launched, main,
                   knocking, sent, recv, timeouts>>

Leave(s) ==
    /\ slot[s].client \in Leavers /\ slot[s].up
    /\ slot' = [slot EXCEPT ![s].up = FALSE]
    /\ UNCHANGED <<place, request, inBroadcast, queue, launched, main,
                   knocking, sent, recv, messages, timeouts>>
-----------------------------------------------------------------------------
(* The thread of a slot.                                                   *)

Unfinished(r) == {e \in DOMAIN r.events : ~r.events[e].done}

\* purgeCompletedEvents: the thread takes its events in the order of the list, so the
\* completed ones come first (CompletedFirst).
Purged(r) ==
    IF Unfinished(r) = {} THEN <<>>
    ELSE SubSeq(r.events, Min(Unfinished(r)), Len(r.events))

AllCompleted(events) == [e \in DOMAIN events |-> [events[e] EXCEPT !.done = TRUE]]

\* setTaskCompleted, and back to the top of the thread's loop: wait at semTaskSignalled,
\* unless the match has started.
Done(r) ==
    [r EXCEPT !.events = IF r.task = 0 THEN @ ELSE [@ EXCEPT ![r.task].done = TRUE],
              !.task = 0, !.pc = IF r.started THEN "polling" ELSE "waiting"]

\* Mutant of WithEvent: only the first event of the list wakes the thread.
WithEventUnsignalled(r, event) ==
    [r EXCEPT !.events = Append(@, event), !.signals = IF r.events = <<>> THEN @ + 1 ELSE @]

\* signalUpdate
WithEvent(r, event) == [r EXCEPT !.events = Append(@, event), !.signals = @ + 1]

\* The start of ConnectionSlot::update: completed events are purged and the texts of
\* the last update forgotten; without a socket the thread looks for a new client.
Update(s, r) ==
    LET purged == [r EXCEPT !.events = Purged(r), !.task = IF @ = 0 THEN 0 ELSE 1]
    IN  IF r.client = Nobody
        THEN \/ \E c \in knocking :
                /\ ~launched
                /\ slot' = [slot EXCEPT ![s] =
                      Done([purged EXCEPT !.client = c, !.up = TRUE, !.chat = <<>>])]
                /\ knocking' = knocking \ {c}
             \/ /\ launched \/ knocking = {}
                /\ slot' = [slot EXCEPT ![s] = Done(purged)]
                /\ UNCHANGED knocking
        ELSE /\ slot' = [slot EXCEPT ![s] =
                  IF Connected(r) THEN [purged EXCEPT !.chat = <<>>, !.pc = "reading"]
                  ELSE Done([purged EXCEPT !.client = Nobody,
                                           !.events = AllCompleted(@)])]
             /\ UNCHANGED knocking

\* A signal: take the first unfinished event.
Wake(s) ==
    LET r == [slot[s] EXCEPT !.signals = @ - 1]
    IN  /\ slot[s].pc = "waiting" /\ slot[s].signals > 0
        /\ IF r.started \/ Unfinished(r) = {}
           THEN slot' = [slot EXCEPT ![s] = Done(r)] /\ UNCHANGED knocking
           ELSE LET first == Min(Unfinished(r))
                    busy == [r EXCEPT !.task = first]
                IN  IF r.events[first].triggered \/ (~launched /\ ~Connected(r))
                    THEN Update(s, busy)
                    ELSE slot' = [slot EXCEPT ![s] = Done(busy)] /\ UNCHANGED knocking
        /\ UNCHANGED <<place, request, inBroadcast, queue, launched, main, sent,
                       recv, messages, timeouts>>

\* The match: poll the socket; a lost connection ends the thread.
Poll(s) ==
    /\ slot[s].pc = "polling"
    /\ \/ /\ slot[s].client = Nobody
          /\ slot' = [slot EXCEPT ![s].pc = "ended"]
          /\ UNCHANGED knocking
       \/ Readable(slot[s]) /\ Update(s, slot[s])
    /\ UNCHANGED <<place, request, inBroadcast, queue, launched, main, sent,
                   recv, messages, timeouts>>

\* A request to change slots is kept at the index that the message names, whatever the
\* slot's own index is by now.
Asked(m) == [request EXCEPT ![m.at] = m.to]

\* One message after the other, as long as they are texts.  Settings are broadcast.
Read(s) ==
    LET r == slot[s]
        m == Head(r.inq)
        taken == [r EXCEPT !.inq = Tail(@)]
    IN  /\ r.pc = "reading" /\ r.inq # <<>>
        /\ slot' = [slot EXCEPT ![s] =
              CASE m.kind = "text"  -> [taken EXCEPT !.chat = Append(@, m)]
                [] m.kind = "setup" -> [taken EXCEPT !.pc = "setup"]
                [] OTHER            -> Done(taken)]
        /\ request' = IF m.kind = "switch" THEN Asked(m) ELSE request
        /\ inBroadcast' = (inBroadcast \/ m.kind = "setup")
        /\ UNCHANGED <<place, queue, launched, main, clientVars, timeouts>>

\* Mutant of EndBroadcast: the flag stays.
EndBroadcastFlagged(s) ==
    /\ slot[s].pc = "setup"
    /\ slot' = [slot EXCEPT ![s] = Done(@)]
    /\ UNCHANGED <<place, request, inBroadcast, queue, launched, main, clientVars, timeouts>>

\* broadcastGameSetup has reached the last slot.
EndBroadcast(s) ==
    /\ slot[s].pc = "setup"
    /\ slot' = [slot EXCEPT ![s] = Done(@)]
    /\ inBroadcast' = FALSE
    /\ UNCHANGED <<place, request, queue, launched, main, clientVars, timeouts>>

\* Mutant of Finish: the task is not marked as completed.
FinishSilently(s) ==
    /\ slot[s].pc = "reading" /\ slot[s].inq = <<>>
    /\ slot' = [slot EXCEPT ![s] = Done([@ EXCEPT !.task = 0])]
    /\ UNCHANGED <<place, request, inBroadcast, queue, launched, main, clientVars, timeouts>>

Finish(s) ==
    /\ slot[s].pc = "reading" /\ slot[s].inq = <<>>
    /\ slot' = [slot EXCEPT ![s] = Done(@)]
    /\ UNCHANGED <<place, request, inBroadcast, queue, launched, main, clientVars, timeouts>>
-----------------------------------------------------------------------------
(* The main thread: ServerInterface::update, again and again.              *)

Goto(at, i) == [main EXCEPT !.at = at, !.i = i]
NextSlot(at) == IF main.i < NumSlots THEN Goto(at, main.i + 1) ELSE Goto("menu", 1)

\* Mutant of Relayed: the author is sent its own text.
RelayedToAll(text, exclude) ==
    [c \in DOMAIN recv |->
        IF \E i \in Slots : At(i).client = c /\ Connected(At(i)) /\ At(i).up
        THEN Append(recv[c], text) ELSE recv[c]]

\* broadcastMessage of a text: queued while a message is being broadcast, otherwise
\* sent to every connected slot but the excluded one.
Relayed(text, exclude) ==
    [c \in DOMAIN recv |->
        IF \E i \in Slots \ {exclude} : At(i).client = c /\ Connected(At(i)) /\ At(i).up
        THEN Append(recv[c], text) ELSE recv[c]]

Broadcast(text, exclude, rest, shown) ==
    IF inBroadcast
    THEN queue' = Append(rest, [text |-> text, exclude |-> exclude]) /\ recv' = shown
    ELSE queue' = rest /\ recv' = [c \in DOMAIN recv |->
                                      IF c = Server THEN shown[c]
                                      ELSE Relayed(text, exclude)[c]]

\* Mutant of ProcessQueue: a text that is sent is not taken from the queue.
ProcessQueueKeeping ==
    /\ main.at \in {"menu", "queue"} /\ queue # <<>> /\ Len(recv[Server]) < 3
    /\ IF inBroadcast THEN UNCHANGED <<queue, recv>>
       ELSE Broadcast(Head(queue).text, Head(queue).exclude, queue, recv)
    /\ main' = Goto("queue", 1)
    /\ UNCHANGED <<slot, place, request, inBroadcast, launched, knocking, sent,
                   messages, timeouts>>

\* processBroadCastMessageQueue goes on until the queue is empty.
ProcessQueue ==
    /\ main.at \in {"menu", "queue"} /\ queue # <<>>
    /\ Broadcast(Head(queue).text, Head(queue).exclude, Tail(queue), recv)
    /\ main' = Goto("queue", 1)
    /\ UNCHANGED <<slot, place, request, inBroadcast, launched, knocking, sent,
                   messages, timeouts>>

\* Mutant of Signalled: slots without a client get no events.
SignalledReadable(s) ==
    LET r == [slot[s] EXCEPT !.events =
                 [e \in DOMAIN @ |-> [@[e] EXCEPT !.awaited = FALSE]]]
    IN  IF Readable(r) /\ (Connected(r) \/ Cardinality(Unfinished(r)) < MaxBacklog)
        THEN WithEvent(r, [triggered |-> TRUE, awaited |-> TRUE, done |-> FALSE]) ELSE r

\* signalClientsToRecieveData: an event for a slot that can be read or is not connected
\* (for a vacant one it has no effect unless a client knocks).
\* The events of the last update are not waited for any more.
Signalled(s) ==
    LET r == [slot[s] EXCEPT !.events =
                 [e \in DOMAIN @ |-> [@[e] EXCEPT !.awaited = FALSE]]]
        event == [triggered |-> Readable(r), awaited |-> Readable(r), done |-> FALSE]
    IN  IF IF Connected(r) THEN Readable(r)
           ELSE Cardinality(Unfinished(r)) < MaxBacklog /\ (Readable(r) \/ knocking # {})
        THEN WithEvent(r, event) ELSE r

\* In the match the threads are left to themselves.
SignalSlots ==
    /\ main.at \in {"menu", "queue"} /\ queue = <<>>
    /\ IF launched
       THEN main' = Goto("dispatch", 1) /\ UNCHANGED slot
       ELSE main' = Goto("wait", 1) /\ slot' = [s \in Slots |-> Signalled(s)]
    /\ UNCHANGED <<place, request, inBroadcast, queue, launched, clientVars, timeouts>>

\* Mutant of Awaited: a thread that has begun with its event counts as done.
AwaitedUntilBegun(r) ==
    Connected(r) /\ r.pc # "ended"
        /\ \E e \in Unfinished(r) : r.events[e].awaited /\ r.task # e

\* checkForCompletedClientsUsingLoop
Awaited(r) ==
    Connected(r) /\ r.pc # "ended" /\ \E e \in Unfinished(r) : r.events[e].awaited

Wait ==
    /\ main.at = "wait" /\ \A i \in Slots : ~Awaited(At(i))
    /\ main' = Goto("dispatch", 1)
    /\ UNCHANGED <<slot, place, request, inBroadcast, queue, launched, clientVars, timeouts>>

\* MAX_SLOT_THREAD_WAIT_TIME_MILLISECONDS have passed.
Timeout ==
    /\ main.at = "wait" /\ (\E i \in Slots : Awaited(At(i))) /\ timeouts < MaxTimeouts
    /\ timeouts' = timeouts + 1
    /\ main' = Goto("dispatch", 1)
    /\ UNCHANGED <<slot, place, request, inBroadcast, queue, launched, clientVars>>

\* dispatchPendingChatMessages takes the texts a slot has read,
Dispatch ==
    LET s == place[main.i]
    IN  /\ main.at = "dispatch"
        /\ IF slot[s].chat = <<>>
           THEN main' = NextSlot("dispatch") /\ UNCHANGED slot
           ELSE /\ main' = [main EXCEPT !.at = "relay", !.todo = slot[s].chat]
                /\ slot' = [slot EXCEPT ![s].chat = <<>>]
        /\ UNCHANGED <<place, request, inBroadcast, queue, launched, clientVars, timeouts>>

\* shows each to the server's player and sends it to the others,
Relay ==
    LET text == Head(main.todo)
    IN  /\ main.at = "relay" /\ main.todo # <<>>
        /\ Broadcast(text, main.i, queue, [recv EXCEPT ![Server] = Append(@, text)])
        /\ main' = [main EXCEPT !.todo = Tail(@)]
        /\ UNCHANGED <<slot, place, request, inBroadcast, launched, knocking, sent,
                       messages, timeouts>>

\* and clears the slot's texts.
RelayEnd ==
    /\ main.at = "relay" /\ main.todo = <<>>
    /\ slot' = [slot EXCEPT ![place[main.i]].chat = <<>>]
    /\ main' = NextSlot("dispatch")
    /\ UNCHANGED <<place, request, inBroadcast, queue, launched, clientVars, timeouts>>

\* Mutant of SwitchSlot: the second half of the exchange is missing.
SwitchSlotHalf(i) ==
    LET to == request[i]
    IN  /\ main.at = "menu" /\ ~launched /\ to # 0
        /\ request' = [request EXCEPT ![i] = 0]
        /\ place' = IF to # i /\ At(to).client = Nobody
                    THEN [place EXCEPT ![to] = place[i]] ELSE place
        /\ UNCHANGED <<slot, inBroadcast, queue, launched, main, clientVars, timeouts>>

\* Between two updates the menu carries out the requests to change slots.
SwitchSlot(i) ==
    LET to == request[i]
    IN  /\ main.at = "menu" /\ ~launched /\ to # 0
        /\ request' = [request EXCEPT ![i] = 0]
        /\ place' = IF to # i /\ At(to).client = Nobody
                    THEN [place EXCEPT ![i] = place[to], ![to] = place[i]] ELSE place
        /\ UNCHANGED <<slot, inBroadcast, queue, launched, main, clientVars, timeouts>>

LaunchGame ==
    /\ main.at = "menu" /\ ~launched
    /\ launched' = TRUE
    /\ main' = Goto("start", 1)
    /\ UNCHANGED <<slot, place, request, inBroadcast, queue, clientVars, timeouts>>

\* waitUntilReady discards what a connected client sent in the lobby, and the slot's
\* thread is told that the match has started.
StartSlot ==
    LET s == place[main.i]
    IN  /\ main.at = "start"
        /\ slot' = IF Connected(slot[s])
                   THEN [slot EXCEPT ![s].inq = <<>>, ![s].started = TRUE, ![s].signals = @ + 1]
                   ELSE slot
        /\ main' = NextSlot("start")
        /\ UNCHANGED <<place, request, inBroadcast, queue, launched, clientVars, timeouts>>
-----------------------------------------------------------------------------
ThreadNext(s) == Wake(s) \/ Poll(s) \/ Read(s) \/ EndBroadcast(s) \/ Finish(s)

UpdateNext ==
    ProcessQueue \/ SignalSlots \/ Wait \/ Dispatch \/ Relay \/ RelayEnd \/ StartSlot

Next ==
    \/ \E s \in Slots : SendText(s) \/ SendOther(s) \/ Leave(s) \/ ThreadNext(s)
    \/ \E i \in Slots : SwitchSlot(i)
    \/ UpdateNext \/ Timeout \/ LaunchGame

Spec == Init /\ [][Next]_vars

\* Every thread goes on; a wait need not time out, nor need the match be launched.
Fairness == WF_vars(UpdateNext) /\ \A s \in Slots : WF_vars(ThreadNext(s))

FairSpec == Spec /\ Fairness
-----------------------------------------------------------------------------
(* Properties.                                                             *)

Texts == {Text(c, n) : c \in Clients, n \in 1 .. MaxMessages}
Messages == Texts \cup {Setup, Command} \cup Requests
Event == [triggered : BOOLEAN, awaited : BOOLEAN, done : BOOLEAN]
SlotRecord ==
    [client : Clients \cup {Nobody}, up : BOOLEAN, inq : Seq(Messages), chat : Seq(Texts),
     events : Seq(Event), signals : Nat, started : BOOLEAN,
     pc : {"waiting", "polling", "reading", "setup", "ended"}, task : Nat]

CompletedFirst(events) ==
    \A e, f \in DOMAIN events : e < f /\ events[f].done => events[e].done

\* Type invariant; the slots are all at some index, a client is at one place, and the
\* completed events of a slot are the first of its list.
TypeOK ==
    /\ slot \in [Slots -> SlotRecord]
    /\ place \in [Slots -> Slots] /\ \A s \in Slots : \E i \in Slots : place[i] = s
    /\ request \in [Slots -> Slots \cup {0}]
    /\ inBroadcast \in BOOLEAN /\ launched \in BOOLEAN
    /\ queue \in Seq([text : Texts, exclude : Slots])
    /\ main \in [at : {"menu", "queue", "wait", "dispatch", "relay", "start"},
                 i : Slots, todo : Seq(Texts)]
    /\ knocking \subseteq Clients
    /\ sent \in [Clients -> 0 .. MaxMessages]
    /\ recv \in [Clients \cup {Server} -> Seq(Texts)]
    /\ messages \in 0 .. MaxMessages /\ timeouts \in 0 .. MaxTimeouts
    /\ \A s \in Slots : \A t \in Slots \ {s} :
        slot[s].client # Nobody => slot[t].client # slot[s].client
    /\ \A s \in Slots : slot[s].task \in 0 .. Len(slot[s].events)
    /\ \A s \in Slots : CompletedFirst(slot[s].events)

\* The numbers of the texts of client c in a sequence, and their order.
Numbers(texts, c) ==
    {texts[j].n : j \in {k \in DOMAIN texts : texts[k].kind = "text" /\ texts[k].from = c}}
InOrder(texts, c) ==
    \A j, k \in DOMAIN texts :
        /\ j < k
        /\ texts[j].kind = "text" /\ texts[j].from = c
        /\ texts[k].kind = "text" /\ texts[k].from = c
        => texts[j].n < texts[k].n

\* No wait for the slots has timed out, and the match is not launched.
Undisturbed == timeouts = 0 /\ ~launched
NobodyLeft ==
    \A c \in Clients : c \in knocking \/ \E s \in Slots : slot[s].client = c /\ slot[s].up

\* The texts of slot s that are shown at the server, being relayed, read and unread.
Pipeline(s) ==
    recv[Server] \o (IF main.at = "relay" THEN main.todo ELSE <<>>)
        \o slot[s].chat \o slot[s].inq

\* Unless a wait for the slots times out, no text that was sent in the lobby is lost,
\* shown twice or out of order: what is shown at the server, being relayed, read and
\* unread is what was sent.
TextsRelayed ==
    Undisturbed =>
        \A s \in Slots : slot[s].up =>
            LET c == slot[s].client
            IN  InOrder(Pipeline(s), c) /\ Numbers(Pipeline(s), c) = 1 .. sent[c]

\* As long as nobody leaves, the other clients are shown the same as the server's
\* player from the moment they are connected, in the same order, and nobody is shown
\* its own texts.  (The wait for the slots passes over a client that has left while its
\* slot's thread still broadcasts settings; a text is then queued, and the next one may
\* overtake it.)
SameTextsEverywhere ==
    Undisturbed /\ NobodyLeft =>
        \A s \in Slots : slot[s].up =>
            LET c == slot[s].client
                shown == Numbers(recv[Server], c)
            IN  /\ Numbers(recv[c], c) = {}
                /\ \A t \in Slots \ {s} : slot[t].up =>
                      LET d == slot[t].client
                      IN  /\ InOrder(recv[d], c)
                          /\ \E n \in 0 .. IF d \in Early THEN 0 ELSE MaxMessages :
                                Numbers(recv[d], c) = {m \in shown : m > n}

\* Even when waits time out, broadcasts overlap, texts are queued or the match begins,
\* nobody is shown a text twice, and the server's player sees those of each client in
\* the order in which they were sent.
NeverTwice ==
    /\ \A c \in Clients : IsInjective(recv[c])
    /\ \A c \in Clients : InOrder(recv[Server], c)

\* No wake-up is lost: a thread that waits without a signal has no unfinished event,
\* nor has the match started for it.
SleepsOnlyWhenDone ==
    \A s \in Slots : slot[s].pc = "waiting" /\ slot[s].signals = 0
        => Unfinished(slot[s]) = {} /\ ~slot[s].started

\* What a client sends is read in the end, in the lobby, in the match and when the one
\* turns into the other while the slot's thread is at work.
MessagesAreRead == \A s \in Slots : slot[s].inq # <<>> ~> slot[s].inq = <<>>

\* A client that knocks while there is a slot for it gets in, unless the match begins.
KnockersGetIn ==
    \A c \in Clients :
        c \in knocking ~> c \notin knocking \/ launched \/ \A s \in Slots : slot[s].client # Nobody

\* A text that was queued behind a broadcast is sent after it.
QueueDrains == queue # <<>> ~> queue = <<>>
=============================================================================
