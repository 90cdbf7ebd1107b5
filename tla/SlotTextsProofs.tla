-------------------------- MODULE SlotTextsProofs ---------------------------
(***************************************************************************)
(* Proofs about the texts that the slots relay, for any number of slots,   *)
(* clients and messages: no text is shown twice; in a lobby whose waits do *)
(* not time out none is lost, and if nobody leaves everybody is shown the  *)
(* same.                                                                   *)
(***************************************************************************)
EXTENDS SlotThreadsProofs

Before(M, N) == \A m \in M, n \in N : m < n

\* The texts of a client that are shown at the server, being relayed, read and unread.
Shown(c) == Numbers(recv[Server], c)
Relaying(c) == Numbers(main.todo, c)
ReadAt(s, c) == Numbers(slot[s].chat, c)
Unread(s, c) == Numbers(slot[s].inq, c)

\* The texts of a slot are of one client, which is in no other slot and does not knock.
OwnTexts(s) ==
    /\ \A c \in Clients \ {slot[s].client} : Unread(s, c) = {}
    /\ \A c \in Clients : ReadAt(s, c) # {} =>
          /\ c \notin knocking
          /\ \A t \in Slots \ {s} : slot[t].client # c /\ ReadAt(t, c) = {}

\* On its way from the socket over the slot and the main thread to the server's player
\* no text overtakes another of the same client.
InLine(s, c) ==
    /\ InOrder(slot[s].chat, c) /\ InOrder(slot[s].inq, c)
    /\ ReadAt(s, c) \cup Unread(s, c) \subseteq 1 .. sent[c]
    /\ Before(Shown(c) \cup Relaying(c), ReadAt(s, c) \cup Unread(s, c))
    /\ Before(ReadAt(s, c), Unread(s, c))

OrderInv ==
    /\ main.todo # <<>> => main.at = "relay"
    /\ \A s \in Slots : OwnTexts(s)
    /\ \A c \in Clients :
          /\ InOrder(recv[Server], c) /\ InOrder(main.todo, c)
          /\ Shown(c) \cup Relaying(c) \subseteq 1 .. sent[c]
          /\ Before(Shown(c), Relaying(c))
          /\ \A s \in Slots : InLine(s, c)

\* A queued text has been shown at the server once and at no client.
QueueInv ==
    /\ \A j, k \in DOMAIN queue : queue[j].text = queue[k].text => j = k
    /\ \A j \in DOMAIN queue :
          /\ \E k \in DOMAIN recv[Server] : recv[Server][k] = queue[j].text
          /\ \A c \in Clients : \A k \in DOMAIN recv[c] : recv[c][k] # queue[j].text
    /\ \A c \in Clients :
          /\ IsInjective(recv[c])
          /\ \A k \in DOMAIN recv[c] :
                \E j \in DOMAIN recv[Server] : recv[Server][j] = recv[c][k]
-----------------------------------------------------------------------------
\* The unfinished events that say that a slot can be read.
ToRead(r) == {e \in Unfinished(r) : r.events[e].triggered}

\* Slots whose texts the main thread has not taken in this update.
From(i) == {place[j] : j \in i .. NumSlots}
NotDispatched ==
    CASE main.at = "dispatch" -> From(main.i)
      [] main.at = "relay"    -> From(main.i + 1)
      [] main.at = "wait"     -> Slots
      [] OTHER                -> {}

\* While no wait times out, a connected slot is read only while the main thread waits
\* for it, and only when the texts of the last reading are dispatched.
Calm(r, at) ==
    /\ r.client = Nobody => ToRead(r) = {}
    /\ r.up =>
          /\ at # "wait" => ToRead(r) = {}
          /\ \A e, f \in ToRead(r) : e = f /\ r.events[e].awaited
          /\ r.pc \in {"reading", "setup"} => ToRead(r) = {r.task}
          /\ r.pc = "waiting" /\ ToRead(r) # {} => r.chat = <<>>

Complete(s) ==
    LET c == slot[s].client
    IN  1 .. sent[c] \subseteq Shown(c) \cup Relaying(c) \cup ReadAt(s, c) \cup Unread(s, c)

CalmSlot(s) ==
    /\ Calm(slot[s], main.at)
    /\ slot[s].up => Complete(s) /\ (slot[s].chat # <<>> => s \in NotDispatched)

CalmInv ==
    /\ IsInjective(place)
    /\ \A c \in knocking : sent[c] = 0
    /\ Undisturbed => \A s \in Slots : CalmSlot(s)

\* Client d is shown in q, in order, those of the texts of c that are shown at the server
\* from some point on.
SeenOf(q, c, d, shown) ==
    /\ InOrder(q, c)
    /\ \E n \in 0 .. IF d \in Early THEN 0 ELSE MaxMessages :
          Numbers(q, c) = {m \in shown : m > n}

ShownAlike(s) ==
    LET c == slot[s].client
    IN  /\ Numbers(recv[c], c) = {}
        /\ \A t \in Slots \ {s} : slot[t].up =>
              SeenOf(recv[slot[t].client], c, slot[t].client, Numbers(recv[Server], c))

\* The texts of a slot, and those being relayed, are their client's own.
OwnOnly ==
    /\ \A s \in Slots : \A j \in DOMAIN slot[s].chat : slot[s].chat[j].from = slot[s].client
    /\ \A j \in DOMAIN main.todo : main.todo[j].from = At(main.i).client

Alike ==
    /\ queue = <<>> /\ OwnOnly
    /\ \A s \in Slots : slot[s].up => ShownAlike(s)

TogetherInv ==
    /\ inBroadcast => \E s \in Slots : slot[s].pc = "setup"
    /\ \A d \in knocking : recv[d] = <<>> /\ d \notin Early
    /\ Undisturbed /\ NobodyLeft => Alike
-----------------------------------------------------------------------------
(* The numbers of the texts in a sequence.                                 *)

IsOf(x, c) == x.kind = "text" /\ x.from = c

LEMMA InNumbers ==
    ASSUME NEW q, NEW c, NEW m
    PROVE  m \in Numbers(q, c) <=> \E j \in DOMAIN q : IsOf(q[j], c) /\ m = q[j].n
BY DEF Numbers, IsOf

LEMMA EmptyNumbers == \A c : Numbers(<<>>, c) = {} /\ InOrder(<<>>, c)
  BY DEF Numbers, InOrder

LEMMA NumbersAppend ==
    ASSUME NEW M, NEW q \in Seq(M), NEW x \in M, NEW c
    PROVE  /\ Numbers(Append(q, x), c) = Numbers(q, c) \cup (IF IsOf(x, c) THEN {x.n} ELSE {})
           /\ InOrder(q, c) /\ (IsOf(x, c) => \A m \in Numbers(q, c) : m < x.n)
                 => InOrder(Append(q, x), c)
<1>1. PICK p : p = Append(q, x)
  OBVIOUS
<1>2. PICK k \in Nat : k = Len(q)
  OBVIOUS
<1>3. /\ DOMAIN q = 1 .. k /\ DOMAIN p = 1 .. k + 1 /\ p[k + 1] = x
      /\ \A j \in 1 .. k : p[j] = q[j]
  BY <1>1, <1>2
<1>4. ASSUME NEW m PROVE m \in Numbers(p, c) <=> m \in Numbers(q, c) \/ (IsOf(x, c) /\ m = x.n)
  <2>1. (\E j \in 1 .. k + 1 : IsOf(p[j], c) /\ m = p[j].n)
           <=> (\E j \in 1 .. k : IsOf(p[j], c) /\ m = p[j].n) \/ (IsOf(p[k + 1], c) /\ m = p[k + 1].n)
    BY <1>2
  <2>2. (\E j \in 1 .. k : IsOf(p[j], c) /\ m = p[j].n) <=> (\E j \in 1 .. k : IsOf(q[j], c) /\ m = q[j].n)
    BY <1>3
  <2> QED BY <2>1, <2>2, <1>3, InNumbers
<1>5. ASSUME InOrder(q, c), IsOf(x, c) => \A m \in Numbers(q, c) : m < x.n
      PROVE  InOrder(p, c)
  <2> SUFFICES ASSUME NEW i \in 1 .. k + 1, NEW j \in 1 .. k + 1, i < j, IsOf(p[i], c), IsOf(p[j], c)
               PROVE  p[i].n < p[j].n
    BY <1>3 DEF InOrder, IsOf
  <2>1. i \in 1 .. k /\ p[i] = q[i]
    BY <1>2, <1>3
  <2>2. CASE j \in 1 .. k
    <3>1. p[j] = q[j] /\ i \in DOMAIN q /\ j \in DOMAIN q
      BY <2>1, <2>2, <1>3
    <3> QED BY <2>1, <3>1, <1>5 DEF InOrder, IsOf
  <2>3. CASE j = k + 1
    <3>1. q[i].n \in Numbers(q, c)
      BY <2>1, <1>3, InNumbers
    <3>2. p[j] = x /\ IsOf(x, c)
      BY <2>3, <1>3
    <3> QED BY <2>1, <3>1, <3>2, <1>5
  <2> QED BY <2>2, <2>3, <1>2
<1> QED BY <1>1, <1>4, <1>5

LEMMA NumbersTail ==
    ASSUME NEW M, NEW q \in Seq(M), q # <<>>, NEW c
    PROVE  /\ Numbers(q, c) = Numbers(Tail(q), c) \cup (IF IsOf(Head(q), c) THEN {Head(q).n} ELSE {})
           /\ InOrder(q, c) => /\ InOrder(Tail(q), c)
                               /\ IsOf(Head(q), c) => \A m \in Numbers(Tail(q), c) : Head(q).n < m
<1>1. PICK p : p = Tail(q)
  OBVIOUS
<1>2. PICK k \in Nat : k = Len(q) - 1
  OBVIOUS
<1>3. /\ DOMAIN q = 1 .. k + 1 /\ DOMAIN p = 1 .. k /\ Head(q) = q[1]
      /\ \A j \in 1 .. k : p[j] = q[j + 1]
  BY <1>1, <1>2
<1>4. ASSUME NEW m PROVE m \in Numbers(q, c) <=> m \in Numbers(p, c) \/ (IsOf(q[1], c) /\ m = q[1].n)
  <2>1. (\E j \in 1 .. k + 1 : IsOf(q[j], c) /\ m = q[j].n)
           <=> (\E j \in 1 .. k : IsOf(q[j + 1], c) /\ m = q[j + 1].n) \/ (IsOf(q[1], c) /\ m = q[1].n)
    <3>1. ASSUME NEW j \in 1 .. k + 1 PROVE j = 1 \/ \E i \in 1 .. k : j = i + 1
      <4>1. CASE j # 1
        <5>1. j - 1 \in 1 .. k /\ j = (j - 1) + 1
          BY <4>1, <1>2
        <5> QED BY <5>1
      <4> QED BY <4>1
    <3>2. 1 \in 1 .. k + 1 /\ \A i \in 1 .. k : i + 1 \in 1 .. k + 1
      BY <1>2
    <3> QED BY <3>1, <3>2
  <2>2. (\E j \in 1 .. k : IsOf(p[j], c) /\ m = p[j].n)
           <=> (\E j \in 1 .. k : IsOf(q[j + 1], c) /\ m = q[j + 1].n)
    BY <1>3
  <2> QED BY <2>1, <2>2, <1>3, InNumbers
<1>5. ASSUME InOrder(q, c) PROVE InOrder(p, c)
  <2> SUFFICES ASSUME NEW i \in 1 .. k, NEW j \in 1 .. k, i < j, IsOf(p[i], c), IsOf(p[j], c)
               PROVE  p[i].n < p[j].n
    BY <1>3 DEF InOrder, IsOf
  <2>1. i + 1 \in DOMAIN q /\ j + 1 \in DOMAIN q /\ i + 1 < j + 1
    BY <1>2, <1>3
  <2>2. p[i] = q[i + 1] /\ p[j] = q[j + 1]
    BY <1>3
  <2> QED BY <2>1, <2>2, <1>5 DEF InOrder, IsOf
<1>6. ASSUME InOrder(q, c), IsOf(q[1], c), NEW m \in Numbers(p, c) PROVE q[1].n < m
  <2>1. PICK j \in 1 .. k : IsOf(p[j], c) /\ m = p[j].n
    BY <1>3, <1>6, InNumbers
  <2>2. j + 1 \in DOMAIN q /\ 1 \in DOMAIN q /\ 1 < j + 1 /\ p[j] = q[j + 1]
    BY <1>2, <1>3
  <2> QED BY <2>1, <2>2, <1>6 DEF InOrder, IsOf
<1> QED BY <1>1, <1>3, <1>4, <1>5, <1>6

LEMMA NumbersConcat ==
    ASSUME NEW M, NEW p \in Seq(M), NEW q \in Seq(M), NEW c
    PROVE  /\ Numbers(p \o q, c) = Numbers(p, c) \cup Numbers(q, c)
           /\ InOrder(p, c) /\ InOrder(q, c) /\ Before(Numbers(p, c), Numbers(q, c))
                 => InOrder(p \o q, c)
<1>1. PICK w : w = p \o q
  OBVIOUS
<1>2. PICK k \in Nat, l \in Nat : k = Len(p) /\ l = Len(q)
  OBVIOUS
<1>3. /\ DOMAIN p = 1 .. k /\ DOMAIN q = 1 .. l /\ DOMAIN w = 1 .. k + l
      /\ \A j \in 1 .. k : w[j] = p[j]
      /\ \A j \in k + 1 .. k + l : w[j] = q[j - k]
  BY <1>1, <1>2
<1>4. \A j \in 1 .. k + l : j \in 1 .. k \/ (j \in k + 1 .. k + l /\ j - k \in 1 .. l)
  BY <1>2
<1>5. \A i \in 1 .. l : i + k \in k + 1 .. k + l /\ i + k \in 1 .. k + l /\ (i + k) - k = i
  BY <1>2
<1>6. \A j \in 1 .. k : j \in 1 .. k + l
  BY <1>2
<1>7. ASSUME NEW m PROVE m \in Numbers(w, c) <=> m \in Numbers(p, c) \/ m \in Numbers(q, c)
  <2>1. ASSUME m \in Numbers(w, c) PROVE m \in Numbers(p, c) \/ m \in Numbers(q, c)
    <3>1. PICK j \in 1 .. k + l : IsOf(w[j], c) /\ m = w[j].n
      BY <1>3, <2>1, InNumbers
    <3>2. CASE j \in 1 .. k
      BY <1>3, <3>1, <3>2, InNumbers
    <3>3. CASE j \in k + 1 .. k + l /\ j - k \in 1 .. l
      <4>1. w[j] = q[j - k] /\ j - k \in DOMAIN q
        BY <1>3, <3>3
      <4> QED BY <3>1, <4>1, InNumbers
    <3> QED BY <3>2, <3>3, <1>4
  <2>2. ASSUME m \in Numbers(p, c) PROVE m \in Numbers(w, c)
    <3>1. PICK j \in 1 .. k : IsOf(p[j], c) /\ m = p[j].n
      BY <1>3, <2>2, InNumbers
    <3>2. w[j] = p[j] /\ j \in DOMAIN w
      BY <1>3, <1>6
    <3> QED BY <3>1, <3>2, InNumbers
  <2>3. ASSUME m \in Numbers(q, c) PROVE m \in Numbers(w, c)
    <3>1. PICK j \in 1 .. l : IsOf(q[j], c) /\ m = q[j].n
      BY <1>3, <2>3, InNumbers
    <3>2. w[j + k] = q[j] /\ j + k \in DOMAIN w
      BY <1>3, <1>5
    <3> QED BY <3>1, <3>2, InNumbers
  <2> QED BY <2>1, <2>2, <2>3
<1>8. ASSUME InOrder(p, c), InOrder(q, c), Before(Numbers(p, c), Numbers(q, c))
      PROVE  InOrder(w, c)
  <2> SUFFICES ASSUME NEW i \in 1 .. k + l, NEW j \in 1 .. k + l, i < j, IsOf(w[i], c), IsOf(w[j], c)
               PROVE  w[i].n < w[j].n
    BY <1>3 DEF InOrder, IsOf
  <2>1. CASE i \in 1 .. k /\ j \in 1 .. k
    <3>1. w[i] = p[i] /\ w[j] = p[j] /\ i \in DOMAIN p /\ j \in DOMAIN p
      BY <1>3, <2>1
    <3> QED BY <3>1, <1>8 DEF InOrder, IsOf
  <2>2. CASE i \in 1 .. k /\ (j \in k + 1 .. k + l /\ j - k \in 1 .. l)
    <3>1. w[i] = p[i] /\ w[j] = q[j - k] /\ i \in DOMAIN p /\ j - k \in DOMAIN q
      BY <1>3, <2>2
    <3>2. p[i].n \in Numbers(p, c) /\ q[j - k].n \in Numbers(q, c)
      BY <3>1, InNumbers
    <3> QED BY <3>1, <3>2, <1>8 DEF Before
  <2>3. CASE (i \in k + 1 .. k + l /\ i - k \in 1 .. l) /\ (j \in k + 1 .. k + l /\ j - k \in 1 .. l)
    <3>1. /\ w[i] = q[i - k] /\ w[j] = q[j - k] /\ i - k \in DOMAIN q /\ j - k \in DOMAIN q
          /\ i - k < j - k
      BY <1>2, <1>3, <2>3
    <3> QED BY <3>1, <1>8 DEF InOrder, IsOf
  <2>4. ~(i \in k + 1 .. k + l /\ j \in 1 .. k)
    BY <1>2
  <2> QED BY <2>1, <2>2, <2>3, <2>4, <1>4
<1> QED BY <1>1, <1>7, <1>8
-----------------------------------------------------------------------------
(* The order of the texts.                                                 *)

\* What a thread may do with the texts of its slot: forget some, or take the next.
Thinned(s, q) ==
    /\ q.client = slot[s].client \/ q.inq = <<>>
    /\ q.chat = <<>> \/ q.client = slot[s].client \/ q.client = Nobody
    /\ \A c \in Clients :
          /\ InOrder(q.chat, c) /\ InOrder(q.inq, c)
          /\ Numbers(q.chat, c) \cup Numbers(q.inq, c) \subseteq ReadAt(s, c) \cup Unread(s, c)
          /\ Before(Numbers(q.chat, c), Numbers(q.inq, c))
          /\ Numbers(q.inq, c) \subseteq Unread(s, c)
          /\ Numbers(q.chat, c) \subseteq ReadAt(s, c) \/ (c = q.client /\ q.client = slot[s].client)

LEMMA ThinnedOrder ==
    ASSUME SlotsInv, OrderInv, NEW s \in Slots, NEW q, slot' = [slot EXCEPT ![s] = q],
           Seated(s, slot[s].client, q.client), Thinned(s, q),
           sent' = sent, recv'[Server] = recv[Server], main'.todo = main.todo,
           main.todo # <<>> => main'.at = "relay"
    PROVE  OrderInv'
<1>1. \A t \in Slots : slot'[t] = IF t = s THEN q ELSE slot[t]
  BY DEF SlotsInv
<1>2. \A c \in Clients : Shown(c)' = Shown(c) /\ Relaying(c)' = Relaying(c)
  BY DEF Shown, Relaying
<1>3. \A t \in Slots \ {s}, c \in Clients : ReadAt(t, c)' = ReadAt(t, c) /\ Unread(t, c)' = Unread(t, c)
  BY <1>1 DEF ReadAt, Unread
<1>4. \A c \in Clients : ReadAt(s, c)' = Numbers(q.chat, c) /\ Unread(s, c)' = Numbers(q.inq, c)
  BY <1>1 DEF ReadAt, Unread
<1>5. knocking' \subseteq knocking
  BY DEF Seated
<1>6. ASSUME NEW t \in Slots PROVE OwnTexts(t)'
  <2>1. ASSUME NEW c \in Clients, c # slot'[t].client PROVE Unread(t, c)' = {}
    <3>1. CASE t # s
      BY <1>1, <1>3, <2>1, <3>1 DEF OrderInv, OwnTexts
    <3>2. CASE t = s /\ q.inq = <<>>
      BY <1>4, <3>2, EmptyNumbers
    <3>3. CASE t = s /\ q.client = slot[s].client
      <4>1. Unread(s, c) = {}
        BY <1>1, <2>1, <3>3 DEF OrderInv, OwnTexts
      <4> QED BY <4>1, <1>4, <3>3 DEF Thinned
    <3> QED BY <3>1, <3>2, <3>3 DEF Thinned
  <2>2. ASSUME NEW c \in Clients, ReadAt(t, c)' # {}
        PROVE  /\ c \notin knocking'
               /\ \A u \in Slots \ {t} : slot'[u].client # c /\ ReadAt(u, c)' = {}
    <3>1. CASE t = s
      <4>1. CASE ReadAt(s, c) # {}
        BY <4>1, <1>1, <1>3, <1>5, <3>1 DEF OrderInv, OwnTexts
      <4>2. CASE c = q.client /\ q.client = slot[s].client
        <5>1. c \notin knocking /\ \A u \in Slots \ {s} : slot[u].client # c
          BY <4>2, ThreadBounds DEF SlotsInv
        <5>2. \A u \in Slots \ {s} : ReadAt(u, c) = {}
          BY <4>2 DEF OrderInv, OwnTexts
        <5> QED BY <5>1, <5>2, <1>1, <1>3, <1>5, <3>1
      <4> QED BY <4>1, <4>2, <1>4, <2>2, <3>1 DEF Thinned
    <3>2. CASE t # s
      <4>1. /\ c \notin knocking
            /\ \A u \in Slots \ {t} : slot[u].client # c /\ ReadAt(u, c) = {}
        BY <1>3, <2>2, <3>2 DEF OrderInv, OwnTexts
      <4>2. slot[s].client # c /\ ReadAt(s, c) = {}
        BY <3>2, <4>1
      <4>3. q.client # c
        BY <4>1, <4>2, ThreadBounds DEF Seated
      <4>4. ReadAt(s, c)' = {}
        BY <1>4, <4>2, <4>3 DEF Thinned
      <4> QED BY <1>1, <1>3, <1>5, <4>1, <4>3, <4>4
    <3> QED BY <3>1, <3>2
  <2> QED BY <2>1, <2>2 DEF OwnTexts
<1>7. ASSUME NEW c \in Clients, NEW t \in Slots PROVE InLine(t, c)'
  <2>1. InLine(t, c)
    BY DEF OrderInv
  <2>2. CASE t # s
    BY <1>1, <1>2, <1>3, <2>1, <2>2 DEF InLine
  <2>3. CASE t = s
    <3>1. InOrder(slot'[t].chat, c) /\ InOrder(slot'[t].inq, c)
      BY <1>1, <2>3 DEF Thinned
    <3>2. ReadAt(t, c)' \cup Unread(t, c)' \subseteq ReadAt(t, c) \cup Unread(t, c)
      BY <1>4, <2>3 DEF Thinned
    <3>3. Before(ReadAt(t, c)', Unread(t, c)')
      BY <1>4, <2>3 DEF Thinned
    <3>4. ReadAt(t, c)' \cup Unread(t, c)' \subseteq 1 .. sent'[c]
      BY <2>1, <3>2 DEF InLine
    <3>5. Before(Shown(c)' \cup Relaying(c)', ReadAt(t, c)' \cup Unread(t, c)')
      BY <1>2, <2>1, <3>2 DEF InLine, Before
    <3> QED BY <3>1, <3>3, <3>4, <3>5 DEF InLine, Before
  <2> QED BY <2>2, <2>3
<1>8. ASSUME NEW c \in Clients
      PROVE  /\ InOrder(recv'[Server], c) /\ InOrder(main'.todo, c)
             /\ Shown(c)' \cup Relaying(c)' \subseteq 1 .. sent'[c]
             /\ Before(Shown(c)', Relaying(c)')
  BY <1>2 DEF OrderInv
<1> QED BY <1>6, <1>7, <1>8 DEF OrderInv, Before

\* A step that moves no text.
LEMMA FramedOrder ==
    ASSUME OrderInv, sent' = sent, recv'[Server] = recv[Server], main'.todo = main.todo,
           main.todo # <<>> => main'.at = "relay", knocking' = knocking,
           \A s \in Slots : /\ slot'[s].client = slot[s].client
                            /\ slot'[s].chat = slot[s].chat /\ slot'[s].inq = slot[s].inq
    PROVE  OrderInv'
<1>1. \A c \in Clients : Shown(c)' = Shown(c) /\ Relaying(c)' = Relaying(c)
  BY DEF Shown, Relaying
<1>2. \A s \in Slots, c \in Clients : ReadAt(s, c)' = ReadAt(s, c) /\ Unread(s, c)' = Unread(s, c)
  BY DEF ReadAt, Unread
<1>3. \A s \in Slots : OwnTexts(s)'
  BY <1>2 DEF OrderInv, OwnTexts
<1>4. \A c \in Clients, s \in Slots : InLine(s, c)'
  BY <1>1, <1>2 DEF OrderInv, InLine, Before
<1>5. \A c \in Clients : /\ InOrder(recv'[Server], c) /\ InOrder(main'.todo, c)
                         /\ Shown(c)' \cup Relaying(c)' \subseteq 1 .. sent'[c]
                         /\ Before(Shown(c)', Relaying(c)')
  BY <1>1 DEF OrderInv
<1> QED BY <1>3, <1>4, <1>5 DEF OrderInv, Before

LEMMA ForgetTexts ==
    ASSUME SlotsInv, OrderInv, NEW s \in Slots, NEW q,
           q.chat \in {slot[s].chat, <<>>}, q.inq \in {slot[s].inq, <<>>},
           q.client = slot[s].client \/ (q.client = Nobody /\ q.inq = <<>>)
               \/ (q.chat = <<>> /\ q.inq = <<>>)
    PROVE  Thinned(s, q)
<1>1. ASSUME NEW c \in Clients
      PROVE  /\ InOrder(q.chat, c) /\ InOrder(q.inq, c)
             /\ Before(Numbers(q.chat, c), Numbers(q.inq, c))
             /\ Numbers(q.inq, c) \subseteq Unread(s, c)
             /\ Numbers(q.chat, c) \subseteq ReadAt(s, c)
  <2>1. InLine(s, c)
    BY DEF OrderInv
  <2> QED BY <2>1, EmptyNumbers DEF InLine, Before, ReadAt, Unread
<1> QED BY <1>1 DEF Thinned

LEMMA SendTextOrder ==
    ASSUME SlotsInv, OthersInv, OrderInv, NEW s \in Slots, SendText(s)
    PROVE  /\ OrderInv'
           /\ \A t \in Slots, c \in Clients :
                 /\ ReadAt(t, c)' = ReadAt(t, c) /\ Shown(c)' = Shown(c) /\ Relaying(c)' = Relaying(c)
                 /\ t # s \/ c # slot[s].client => Unread(t, c)' = Unread(t, c)
           /\ LET c == slot[s].client
              IN  Unread(s, c)' = Unread(s, c) \cup {sent[c] + 1}
<1>1. PICK c \in Clients : c = slot[s].client
  BY SendTextStep
<1>2. PICK x \in Texts : x = Text(c, sent[c] + 1)
  <2>1. Text(slot[s].client, sent[slot[s].client] + 1) \in Texts
    BY SendTextStep
  <2> QED BY <1>1, <2>1
<1>3. slot[s].inq \in Seq(Messages) /\ x \in Messages /\ sent[c] \in Nat
  <2>1. slot[s].inq \in Seq(Messages)
    BY DEF SlotsInv, SlotRecord
  <2>2. x \in Messages
    BY DEF Messages
  <2> QED BY <2>1, <2>2 DEF OthersInv
<1>4. /\ \A t \in Slots \ {s} : slot'[t] = slot[t]
      /\ slot'[s].inq = Append(slot[s].inq, x) /\ slot'[s].chat = slot[s].chat
      /\ slot'[s].client = c
      /\ sent'[c] = sent[c] + 1 /\ \A d \in Clients \ {c} : sent'[d] = sent[d]
      /\ recv' = recv /\ main' = main /\ knocking' = knocking
  <2>1. slot[s] \in SlotRecord
    BY DEF SlotsInv
  <2> QED BY <1>1, <1>2, <2>1 DEF SendText, SlotsInv, OthersInv, SlotRecord
<1>5. IsOf(x, c) /\ x.n = sent[c] + 1 /\ \A d \in Clients \ {c} : ~IsOf(x, d)
  BY <1>2 DEF IsOf, Text
<1>6. \A t \in Slots, d \in Clients :
          ReadAt(t, d)' = ReadAt(t, d) /\ Shown(d)' = Shown(d) /\ Relaying(d)' = Relaying(d)
  BY <1>4 DEF ReadAt, Shown, Relaying
<1>70. \A d \in Clients : Unread(s, d)' = Unread(s, d) \cup (IF IsOf(x, d) THEN {x.n} ELSE {})
  BY <1>3, <1>4, NumbersAppend DEF Unread
<1>7. ASSUME NEW t \in Slots, NEW d \in Clients, t # s \/ d # c
      PROVE  Unread(t, d)' = Unread(t, d)
  <2>1. CASE t # s
    BY <2>1, <1>4 DEF Unread
  <2>2. CASE t = s /\ d # c
    BY <2>2, <1>5, <1>70
  <2> QED BY <2>1, <2>2, <1>7
<1>71. Unread(s, c)' = Unread(s, c) \cup {sent[c] + 1}
  BY <1>5, <1>70
<1>8. ASSUME NEW t \in Slots PROVE OwnTexts(t)'
  <2>1. OwnTexts(t) /\ slot'[t].client = slot[t].client
    BY <1>1, <1>4 DEF OrderInv
  <2>2. \A d \in Clients \ {slot[t].client} : Unread(t, d)' = {}
    BY <1>1, <1>7, <2>1 DEF OwnTexts
  <2>3. \A u \in Slots : slot'[u].client = slot[u].client
    BY <1>1, <1>4
  <2> QED BY <1>4, <1>6, <2>1, <2>2, <2>3 DEF OwnTexts
<1>9. ASSUME NEW d \in Clients, NEW t \in Slots PROVE InLine(t, d)'
  <2>1. /\ InLine(t, d) /\ Shown(d) \cup Relaying(d) \subseteq 1 .. sent[d]
        /\ sent[d] \in Nat
    BY DEF OrderInv, OthersInv
  <2>2. CASE d # c
    <3>1. Unread(t, d)' = Unread(t, d)
      BY <2>2, <1>7
    <3>2. InOrder(slot'[t].chat, d) /\ InOrder(slot'[t].inq, d)
      <4>1. CASE t # s
        BY <4>1, <2>1, <1>4 DEF InLine
      <4>2. CASE t = s
        <5>1. InOrder(Append(slot[s].inq, x), d)
          BY <1>3, <1>5, <2>1, <2>2, <4>2, NumbersAppend DEF InLine
        <5> QED BY <5>1, <1>4, <2>1, <4>2 DEF InLine
      <4> QED BY <4>1, <4>2
    <3>3. /\ ReadAt(t, d)' = ReadAt(t, d) /\ Shown(d)' = Shown(d) /\ Relaying(d)' = Relaying(d)
          /\ sent'[d] = sent[d]
      BY <2>2, <1>4, <1>6
    <3> QED BY <3>1, <3>2, <3>3, <2>1 DEF InLine
  <2>3. CASE d = c /\ t # s
    <3>1. Unread(t, d)' = Unread(t, d) /\ slot'[t] = slot[t] /\ sent'[d] = sent[d] + 1
      BY <2>3, <1>4, <1>7
    <3>2. ReadAt(t, d) \cup Unread(t, d) \subseteq 1 .. sent[d] + 1
      <4>1. 1 .. sent[d] \subseteq 1 .. sent[d] + 1
        BY <2>1
      <4> QED BY <4>1, <2>1 DEF InLine
    <3>3. ReadAt(t, d)' = ReadAt(t, d) /\ Shown(d)' = Shown(d) /\ Relaying(d)' = Relaying(d)
      BY <1>6
    <3> QED BY <3>1, <3>2, <3>3, <2>1 DEF InLine
  <2>4. CASE d = c /\ t = s
    <3>1. Unread(s, c)' = Unread(s, c) \cup {sent[c] + 1} /\ sent'[c] = sent[c] + 1
      BY <1>4, <1>71
    <3>2. /\ ReadAt(s, c) \cup Unread(s, c) \subseteq 1 .. sent[c]
          /\ Shown(c) \cup Relaying(c) \subseteq 1 .. sent[c]
      BY <2>1, <2>4 DEF InLine
    <3>3. InOrder(Append(slot[s].inq, x), c)
      <4>1. \A m \in Unread(s, c) : m < x.n
        BY <1>3, <1>5, <3>2
      <4> QED BY <4>1, <1>3, <1>5, <2>1, <2>4, NumbersAppend DEF InLine, Unread
    <3>4. \A m \in 1 .. sent[c] : m < sent[c] + 1 /\ m \in 1 .. sent[c] + 1
      BY <1>3
    <3>5. Before(ReadAt(s, c), Unread(s, c) \cup {sent[c] + 1})
      BY <2>1, <2>4, <3>2, <3>4 DEF InLine, Before
    <3>6. Before(Shown(c) \cup Relaying(c), ReadAt(s, c) \cup (Unread(s, c) \cup {sent[c] + 1}))
      BY <2>1, <2>4, <3>2, <3>4 DEF InLine, Before
    <3>7. ReadAt(s, c) \cup (Unread(s, c) \cup {sent[c] + 1}) \subseteq 1 .. sent[c] + 1
      BY <1>3, <3>2, <3>4
    <3>8. /\ ReadAt(s, c)' = ReadAt(s, c) /\ Shown(c)' = Shown(c) /\ Relaying(c)' = Relaying(c)
          /\ InOrder(slot'[s].chat, c) /\ InOrder(slot'[s].inq, c)
      BY <1>4, <1>6, <2>1, <2>4, <3>3 DEF InLine
    <3>9. InLine(s, c)'
      BY <3>1, <3>5, <3>6, <3>7, <3>8 DEF InLine
    <3> QED BY <2>4, <3>9
  <2> QED BY <2>2, <2>3, <2>4
<1>10. ASSUME NEW d \in Clients
       PROVE  /\ InOrder(recv'[Server], d) /\ InOrder(main'.todo, d)
              /\ Shown(d)' \cup Relaying(d)' \subseteq 1 .. sent'[d]
              /\ Before(Shown(d)', Relaying(d)')
  <2>1. Shown(d) \cup Relaying(d) \subseteq 1 .. sent[d] /\ sent[d] \in Nat
    BY DEF OrderInv, OthersInv
  <2>2. sent'[d] \in {sent[d], sent[d] + 1}
    BY <1>4
  <2>3. Shown(d) \cup Relaying(d) \subseteq 1 .. sent'[d]
    BY <2>1, <2>2
  <2> QED BY <1>4, <1>6, <2>3 DEF OrderInv, Before
<1> QED BY <1>1, <1>4, <1>6, <1>7, <1>71, <1>8, <1>9, <1>10 DEF OrderInv, Before

LEMMA SendOtherOrder ==
    ASSUME SlotsInv, OrderInv, NEW s \in Slots, SendOther(s)
    PROVE  /\ OrderInv'
           /\ \A t \in Slots, c \in Clients :
                 /\ ReadAt(t, c)' = ReadAt(t, c) /\ Shown(c)' = Shown(c) /\ Relaying(c)' = Relaying(c)
                 /\ Unread(t, c)' = Unread(t, c)
<1>1. PICK m \in {Setup, Command} \cup Requests :
          slot' = [slot EXCEPT ![s].inq = Append(@, m)]
  BY DEF SendOther, RequestsFrom
<1>2. m \in Messages /\ \A c : ~IsOf(m, c)
  BY DEF Messages, Setup, Command, Requests, Switch, IsOf
<1>3. slot[s] \in SlotRecord /\ slot[s].inq \in Seq(Messages)
  BY DEF SlotsInv, SlotRecord
<1>4. PICK q : q = [slot[s] EXCEPT !.inq = Append(slot[s].inq, m)]
  OBVIOUS
<1>5. slot' = [slot EXCEPT ![s] = q]
  BY <1>1, <1>4 DEF SlotsInv
<1>6. q.inq = Append(slot[s].inq, m) /\ q.chat = slot[s].chat /\ q.client = slot[s].client
  BY <1>3, <1>4 DEF SlotRecord
<1>7. ASSUME NEW c \in Clients
      PROVE  Numbers(q.inq, c) = Unread(s, c) /\ (InOrder(slot[s].inq, c) => InOrder(q.inq, c))
  <2>1. PICK inq : inq = slot[s].inq
    OBVIOUS
  <2>2. inq \in Seq(Messages) /\ q.inq = Append(inq, m) /\ Unread(s, c) = Numbers(inq, c)
    BY <1>3, <1>6, <2>1 DEF Unread
  <2>3. m \in Messages /\ ~IsOf(m, c)
    BY <1>2
  <2>4. Numbers(Append(inq, m), c) = Numbers(inq, c) \cup (IF IsOf(m, c) THEN {m.n} ELSE {})
    BY <2>2, <2>3, NumbersAppend
  <2>5. InOrder(inq, c) => InOrder(Append(inq, m), c)
    BY <2>2, <2>3, NumbersAppend
  <2> QED BY <2>1, <2>2, <2>3, <2>4, <2>5
<1>8. Thinned(s, q)
  <2>1. \A c \in Clients : InLine(s, c)
    BY DEF OrderInv
  <2> QED BY <1>6, <1>7, <2>1 DEF Thinned, InLine, ReadAt
<1>9. Seated(s, slot[s].client, q.client)
  BY <1>6 DEF Seated, SendOther
<1>10. /\ sent' = sent /\ recv'[Server] = recv[Server] /\ main'.todo = main.todo
       /\ main.todo # <<>> => main'.at = "relay"
  BY DEF SendOther, OrderInv
<1>11. OrderInv'
  BY <1>5, <1>8, <1>9, <1>10, ThinnedOrder
<1>12. \A t \in Slots : slot'[t].chat = slot[t].chat /\ (t # s => slot'[t] = slot[t]) /\ slot'[s] = q
  BY <1>5, <1>6 DEF SlotsInv
<1>13. \A t \in Slots, c \in Clients :
          /\ ReadAt(t, c)' = ReadAt(t, c) /\ Shown(c)' = Shown(c) /\ Relaying(c)' = Relaying(c)
          /\ Unread(t, c)' = Unread(t, c)
  BY <1>7, <1>10, <1>12 DEF ReadAt, Shown, Relaying, Unread
<1> QED BY <1>11, <1>13

LEMMA RestedOrder ==
    ASSUME SlotsInv, OrderInv, NEW s \in Slots, NEW q, Rested(s, q),
           sent' = sent, recv' = recv, main' = main
    PROVE  OrderInv'
<1>1. slot' = [slot EXCEPT ![s] = q] /\ Seated(s, slot[s].client, q.client)
  BY DEF Rested, Seated
<1>2. Thinned(s, q)
  BY ForgetTexts DEF Rested
<1>3. /\ recv'[Server] = recv[Server] /\ main'.todo = main.todo
      /\ main.todo # <<>> => main'.at = "relay"
  BY DEF OrderInv
<1> QED BY <1>1, <1>2, <1>3, ThinnedOrder

LEMMA UpdateOrder ==
    ASSUME SlotsInv, OrderInv, NEW s \in Slots, NEW r, NEW q, UpdateOutcome(s, r, q),
           r.client = slot[s].client, r.chat = slot[s].chat, r.inq = slot[s].inq,
           sent' = sent, recv' = recv, main' = main
    PROVE  OrderInv'
<1>1. slot' = [slot EXCEPT ![s] = q] /\ Seated(s, slot[s].client, q.client)
  BY DEF UpdateOutcome
<1>2. Thinned(s, q)
  <2>1. q.chat \in {slot[s].chat, <<>>} /\ q.inq \in {slot[s].inq, <<>>}
    BY DEF UpdateOutcome
  <2>2. q.client = slot[s].client \/ (q.client = Nobody /\ q.inq = <<>>)
            \/ (q.chat = <<>> /\ q.inq = <<>>)
    BY DEF UpdateOutcome
  <2> QED BY <2>1, <2>2, ForgetTexts
<1>3. /\ recv'[Server] = recv[Server] /\ main'.todo = main.todo
      /\ main.todo # <<>> => main'.at = "relay"
  BY DEF OrderInv
<1> QED BY <1>1, <1>2, <1>3, ThinnedOrder

LEMMA WakeOrder ==
    ASSUME SlotsInv, OrderInv, NEW s \in Slots, Wake(s)
    PROVE  OrderInv'
<1>1. sent' = sent /\ recv' = recv /\ main' = main
  BY DEF Wake
<1>2. ASSUME NEW q, Rested(s, q) PROVE OrderInv'
  BY <1>1, <1>2, RestedOrder
<1>3. ASSUME NEW b, NEW q, BusyWith(s, b), UpdateOutcome(s, b, q) PROVE OrderInv'
  <2>1. b.client = slot[s].client /\ b.chat = slot[s].chat /\ b.inq = slot[s].inq
    BY <1>3 DEF BusyWith
  <2> QED BY <1>1, <1>3, <2>1, UpdateOrder
<1> QED BY <1>2, <1>3, WakeStep

LEMMA PollOrder ==
    ASSUME SlotsInv, OrderInv, NEW s \in Slots, Poll(s)
    PROVE  OrderInv'
<1>1. sent' = sent /\ recv' = recv /\ main' = main
  BY DEF Poll
<1>2. ASSUME NEW q, UpdateOutcome(s, slot[s], q) PROVE OrderInv'
  BY <1>1, <1>2, UpdateOrder
<1>3. ASSUME NEW q, slot' = [slot EXCEPT ![s] = q], knocking' = knocking,
             q.client = slot[s].client, q.chat = slot[s].chat, q.inq = slot[s].inq
      PROVE  OrderInv'
  <2>1. \A t \in Slots : /\ slot'[t].client = slot[t].client /\ slot'[t].chat = slot[t].chat
                         /\ slot'[t].inq = slot[t].inq
    BY <1>3 DEF SlotsInv
  <2>2. /\ recv'[Server] = recv[Server] /\ main'.todo = main.todo
        /\ main.todo # <<>> => main'.at = "relay"
    BY <1>1 DEF OrderInv
  <2> QED BY <1>1, <1>3, <2>1, <2>2, FramedOrder
<1> QED BY <1>2, <1>3, PollStep

\* The next text goes from the socket to the slot.
LEMMA TakenTexts ==
    ASSUME SlotsInv, OrderInv, NEW s \in Slots, NEW q, Taken(s, q)
    PROVE  /\ Thinned(s, q)
           /\ \A c \in Clients : Numbers(q.chat, c) \cup Numbers(q.inq, c) = ReadAt(s, c) \cup Unread(s, c)
<1>1. PICK h, rest : h = Head(slot[s].inq) /\ rest = Tail(slot[s].inq)
  OBVIOUS
<1>2. /\ slot[s].inq \in Seq(Messages) /\ slot[s].inq # <<>> /\ slot[s].chat \in Seq(Texts)
      /\ q.inq = rest /\ q.client = slot[s].client
  BY <1>1 DEF Taken, SlotsInv, SlotRecord
<1>3. ASSUME NEW c \in Clients
      PROVE  /\ Unread(s, c) = Numbers(rest, c) \cup (IF IsOf(h, c) THEN {h.n} ELSE {})
             /\ InOrder(rest, c) /\ (IsOf(h, c) => \A m \in Numbers(rest, c) : h.n < m)
             /\ InLine(s, c) /\ (c # slot[s].client => ~IsOf(h, c))
  <2>1. InLine(s, c) /\ InOrder(slot[s].inq, c)
    BY DEF OrderInv, InLine
  <2>2. Unread(s, c) = Numbers(rest, c) \cup (IF IsOf(h, c) THEN {h.n} ELSE {})
    BY <1>1, <1>2, NumbersTail DEF Unread
  <2>3. InOrder(rest, c) /\ (IsOf(h, c) => \A m \in Numbers(rest, c) : h.n < m)
    BY <1>1, <1>2, <2>1, NumbersTail
  <2>4. c # slot[s].client => Unread(s, c) = {}
    BY DEF OrderInv, OwnTexts
  <2> QED BY <2>1, <2>2, <2>3, <2>4
<1>4. CASE h.kind = "text"
  <2>1. q.chat = Append(slot[s].chat, h) /\ h \in Texts
    BY <1>1, <1>4 DEF Taken
  <2>2. ASSUME NEW c \in Clients
        PROVE  /\ Numbers(q.chat, c) = ReadAt(s, c) \cup (IF IsOf(h, c) THEN {h.n} ELSE {})
               /\ InOrder(q.chat, c)
    <3>1. Numbers(q.chat, c) = ReadAt(s, c) \cup (IF IsOf(h, c) THEN {h.n} ELSE {})
      BY <1>2, <2>1, NumbersAppend DEF ReadAt
    <3>2. InOrder(slot[s].chat, c) /\ (IsOf(h, c) => \A m \in ReadAt(s, c) : m < h.n)
      BY <1>3 DEF InLine, Before
    <3>3. InOrder(q.chat, c)
      BY <1>2, <2>1, <3>2, NumbersAppend DEF ReadAt
    <3> QED BY <3>1, <3>3
  <2>3. ASSUME NEW c \in Clients
        PROVE  /\ InOrder(q.chat, c) /\ InOrder(q.inq, c)
               /\ Numbers(q.chat, c) \cup Numbers(q.inq, c) = ReadAt(s, c) \cup Unread(s, c)
               /\ Before(Numbers(q.chat, c), Numbers(q.inq, c))
               /\ Numbers(q.inq, c) \subseteq Unread(s, c)
               /\ Numbers(q.chat, c) \subseteq ReadAt(s, c) \/ c = slot[s].client
    BY <1>2, <1>3, <2>2 DEF InLine, Before
  <2> QED BY <1>2, <2>3 DEF Thinned
<1>5. CASE h.kind # "text"
  <2>1. q.chat = slot[s].chat
    BY <1>1, <1>5 DEF Taken
  <2>2. ASSUME NEW c \in Clients
        PROVE  /\ InOrder(q.chat, c) /\ InOrder(q.inq, c)
               /\ Numbers(q.chat, c) \cup Numbers(q.inq, c) = ReadAt(s, c) \cup Unread(s, c)
               /\ Before(Numbers(q.chat, c), Numbers(q.inq, c))
               /\ Numbers(q.inq, c) \subseteq Unread(s, c)
               /\ Numbers(q.chat, c) \subseteq ReadAt(s, c)
    <3>1. Unread(s, c) = Numbers(q.inq, c) /\ Numbers(q.chat, c) = ReadAt(s, c)
      BY <1>2, <1>3, <1>5, <2>1 DEF IsOf, ReadAt
    <3> QED BY <3>1, <1>2, <1>3, <2>1 DEF InLine
  <2> QED BY <1>2, <2>2 DEF Thinned
<1> QED BY <1>4, <1>5

LEMMA ReadOrder ==
    ASSUME SlotsInv, OrderInv, NEW s \in Slots, Read(s)
    PROVE  OrderInv'
<1>1. PICK q : Taken(s, q)
  BY ReadStep
<1>2. slot' = [slot EXCEPT ![s] = q] /\ Seated(s, slot[s].client, q.client)
  BY <1>1 DEF Taken, Seated, Read, clientVars
<1>3. Thinned(s, q)
  BY <1>1, TakenTexts
<1>4. /\ sent' = sent /\ recv'[Server] = recv[Server] /\ main'.todo = main.todo
      /\ main.todo # <<>> => main'.at = "relay"
  BY DEF Read, OrderInv, clientVars
<1> QED BY <1>2, <1>3, <1>4, ThinnedOrder

\* The texts of a slot go to the main thread.
LEMMA DispatchOrder ==
    ASSUME SlotsInv, OthersInv, OrderInv, Dispatch, slot[place[main.i]].chat # <<>>
    PROVE  /\ OrderInv'
           /\ \A c \in Clients :
                 /\ Relaying(c) = {} /\ Relaying(c)' = ReadAt(place[main.i], c)
                 /\ Shown(c)' = Shown(c)
                 /\ \A t \in Slots : Unread(t, c)' = Unread(t, c)
                 /\ \A t \in Slots \ {place[main.i]} : ReadAt(t, c)' = ReadAt(t, c)
<1>1. PICK s \in Slots : s = place[main.i]
  BY DEF OthersInv
<1>2. /\ main'.at = "relay" /\ main'.todo = slot[s].chat /\ main.todo = <<>>
      /\ \A t \in Slots \ {s} : slot'[t] = slot[t]
      /\ slot'[s].chat = <<>> /\ slot'[s].inq = slot[s].inq /\ slot'[s].client = slot[s].client
      /\ recv' = recv /\ sent' = sent /\ knocking' = knocking
  <2>1. slot[s] \in SlotRecord
    BY DEF SlotsInv
  <2>2. main.todo = <<>>
    BY DEF Dispatch, OrderInv
  <2>3. main'.at = "relay" /\ main'.todo = slot[s].chat
    BY <1>1 DEF Dispatch, OthersInv
  <2>4. slot' = [slot EXCEPT ![s].chat = <<>>] /\ slot \in [Slots -> SlotRecord]
    BY <1>1 DEF Dispatch, SlotsInv
  <2>5. \A t \in Slots \ {s} : slot'[t] = slot[t]
    BY <2>4
  <2>6. slot'[s] = [slot[s] EXCEPT !.chat = <<>>]
    BY <2>4
  <2>7. slot'[s].chat = <<>> /\ slot'[s].inq = slot[s].inq /\ slot'[s].client = slot[s].client
    BY <2>1, <2>6 DEF SlotRecord
  <2>8. recv' = recv /\ sent' = sent /\ knocking' = knocking
    BY DEF Dispatch, clientVars
  <2> QED BY <2>2, <2>3, <2>5, <2>7, <2>8
<1>3. \A c \in Clients :
          /\ Relaying(c) = {} /\ Relaying(c)' = ReadAt(s, c) /\ Shown(c)' = Shown(c)
          /\ ReadAt(s, c)' = {}
          /\ \A t \in Slots : Unread(t, c)' = Unread(t, c)
          /\ \A t \in Slots \ {s} : ReadAt(t, c)' = ReadAt(t, c)
  BY <1>2, EmptyNumbers DEF Relaying, ReadAt, Shown, Unread
<1>4. ASSUME NEW t \in Slots PROVE OwnTexts(t)'
  <2>1. \A u \in Slots : slot'[u].client = slot[u].client
    BY <1>2
  <2> QED BY <1>2, <1>3, <2>1 DEF OrderInv, OwnTexts
<1>5. ASSUME NEW c \in Clients, NEW t \in Slots PROVE InLine(t, c)'
  <2>1. InLine(t, c) /\ InLine(s, c)
    BY DEF OrderInv
  <2>2. CASE t = s
    <3>1. InOrder(slot'[t].chat, c) /\ InOrder(slot'[t].inq, c)
      BY <1>2, <2>1, <2>2, EmptyNumbers DEF InLine
    <3> QED BY <1>2, <1>3, <2>1, <2>2, <3>1 DEF InLine, Before
  <2>3. CASE t # s
    <3>1. ReadAt(s, c) = {} \/ (ReadAt(t, c) = {} /\ Unread(t, c) = {})
      BY <2>3 DEF OrderInv, OwnTexts
    <3> QED BY <1>2, <1>3, <2>1, <2>3, <3>1 DEF InLine, Before
  <2> QED BY <2>2, <2>3
<1>6. ASSUME NEW c \in Clients
      PROVE  /\ InOrder(recv'[Server], c) /\ InOrder(main'.todo, c)
             /\ Shown(c)' \cup Relaying(c)' \subseteq 1 .. sent'[c]
             /\ Before(Shown(c)', Relaying(c)')
  <2>1. InLine(s, c) /\ InOrder(recv[Server], c) /\ Shown(c) \subseteq 1 .. sent[c]
    BY DEF OrderInv
  <2> QED BY <1>2, <1>3, <2>1 DEF InLine, Before
<1>7. OrderInv'
  BY <1>2, <1>4, <1>5, <1>6 DEF OrderInv, Before
<1> QED BY <1>1, <1>3, <1>7

\* The next of the texts the main thread relays is shown at the server.
LEMMA RelayOrder ==
    ASSUME SlotsInv, OthersInv, OrderInv, Relay, NEW h, h = Head(main.todo)
    PROVE  /\ OrderInv' /\ recv'[Server] = Append(recv[Server], h)
           /\ \A c \in Clients :
                 /\ Shown(c)' = Shown(c) \cup (IF IsOf(h, c) THEN {h.n} ELSE {})
                 /\ Shown(c)' \cup Relaying(c)' = Shown(c) \cup Relaying(c)
                 /\ \A t \in Slots : ReadAt(t, c)' = ReadAt(t, c) /\ Unread(t, c)' = Unread(t, c)
                 /\ IsOf(h, c) => \A m \in Shown(c) : m < h.n
<1>1. PICK rest : rest = Tail(main.todo)
  OBVIOUS
<1>2. /\ main'.todo = rest /\ main'.at = "relay" /\ main.todo \in Seq(Texts) /\ main.todo # <<>>
      /\ h \in Texts /\ recv[Server] \in Seq(Texts)
  BY <1>1, RelayKeeps DEF Relay, OthersInv
<1>3. recv'[Server] = Append(recv[Server], h)
  <2>1. PICK shown : shown = [recv EXCEPT ![Server] = Append(@, h)]
    OBVIOUS
  <2>2. shown[Server] = Append(recv[Server], h) /\ DOMAIN recv = Clients \cup {Server}
    BY <2>1 DEF OthersInv
  <2>3. Broadcast(h, main.i, queue, shown)
    BY <2>1 DEF Relay
  <2> QED BY <2>2, <2>3 DEF Broadcast
<1>4. slot' = slot /\ sent' = sent /\ knocking' = knocking
  BY DEF Relay
<1>5. ASSUME NEW c \in Clients
      PROVE  /\ Shown(c)' = Shown(c) \cup (IF IsOf(h, c) THEN {h.n} ELSE {})
             /\ Relaying(c) = Relaying(c)' \cup (IF IsOf(h, c) THEN {h.n} ELSE {})
             /\ InOrder(recv'[Server], c) /\ InOrder(main'.todo, c)
             /\ Before(Shown(c)', Relaying(c)')
             /\ IsOf(h, c) => \A m \in Shown(c) : m < h.n
  <2>1. InOrder(recv[Server], c) /\ InOrder(main.todo, c) /\ Before(Shown(c), Relaying(c))
    BY DEF OrderInv
  <2>2. Shown(c)' = Shown(c) \cup (IF IsOf(h, c) THEN {h.n} ELSE {})
    BY <1>2, <1>3, NumbersAppend DEF Shown
  <2>3. Relaying(c) = Numbers(rest, c) \cup (IF IsOf(h, c) THEN {h.n} ELSE {})
    BY <1>1, <1>2, NumbersTail DEF Relaying
  <2>4. InOrder(rest, c) /\ (IsOf(h, c) => \A m \in Numbers(rest, c) : h.n < m)
    BY <1>1, <1>2, <2>1, NumbersTail
  <2>5. Relaying(c)' = Numbers(rest, c)
    BY <1>2 DEF Relaying
  <2>6. IsOf(h, c) => \A m \in Shown(c) : m < h.n
    BY <2>1, <2>3 DEF Before
  <2>7. InOrder(recv'[Server], c)
    BY <1>2, <1>3, <2>1, <2>6, NumbersAppend DEF Shown
  <2>8. Before(Shown(c)', Relaying(c)')
    BY <2>1, <2>2, <2>3, <2>4, <2>5 DEF Before
  <2> QED BY <1>2, <2>2, <2>3, <2>4, <2>5, <2>6, <2>7, <2>8
<1>6. \A c \in Clients :
          /\ Shown(c)' \cup Relaying(c)' = Shown(c) \cup Relaying(c)
          /\ \A t \in Slots : ReadAt(t, c)' = ReadAt(t, c) /\ Unread(t, c)' = Unread(t, c)
  BY <1>4, <1>5 DEF ReadAt, Unread
<1>7. \A t \in Slots : OwnTexts(t)'
  BY <1>4, <1>6 DEF OrderInv, OwnTexts
<1>8. \A c \in Clients, t \in Slots : InLine(t, c)'
  BY <1>4, <1>6 DEF OrderInv, InLine
<1>9. \A c \in Clients : Shown(c)' \cup Relaying(c)' \subseteq 1 .. sent'[c]
  BY <1>4, <1>6 DEF OrderInv
<1> QED BY <1>2, <1>3, <1>5, <1>6, <1>7, <1>8, <1>9 DEF OrderInv

LEMMA RelayEndOrder ==
    ASSUME SlotsInv, OthersInv, OrderInv, RelayEnd
    PROVE  OrderInv'
<1>1. PICK s \in Slots : s = place[main.i]
  BY DEF OthersInv
<1>2. PICK q : q = [slot[s] EXCEPT !.chat = <<>>]
  OBVIOUS
<1>3. slot' = [slot EXCEPT ![s] = q] /\ slot[s] \in SlotRecord
  BY <1>1, <1>2 DEF RelayEnd, SlotsInv
<1>4. q.client = slot[s].client /\ q.chat = <<>> /\ q.inq = slot[s].inq
  BY <1>2, <1>3 DEF SlotRecord
<1>5. Thinned(s, q)
  BY <1>4, ForgetTexts
<1>6. /\ sent' = sent /\ recv'[Server] = recv[Server] /\ main'.todo = main.todo
      /\ main.todo # <<>> => main'.at = "relay"
  BY NextSlotType DEF RelayEnd, clientVars
<1>7. Seated(s, slot[s].client, q.client)
  BY <1>4 DEF Seated, RelayEnd, clientVars
<1> QED BY <1>3, <1>5, <1>6, <1>7, ThinnedOrder

LEMMA StartSlotOrder ==
    ASSUME SlotsInv, OthersInv, OrderInv, StartSlot
    PROVE  OrderInv'
<1>1. PICK s \in Slots : s = place[main.i]
  BY DEF OthersInv
<1>2. /\ sent' = sent /\ recv'[Server] = recv[Server] /\ main'.todo = main.todo
      /\ main.todo # <<>> => main'.at = "relay"
      /\ knocking' = knocking
  BY NextSlotType DEF StartSlot, clientVars, OrderInv
<1>3. CASE ~Connected(slot[s])
  <2>1. slot' = slot
    BY <1>1, <1>3 DEF StartSlot
  <2> QED BY <1>2, <2>1, FramedOrder
<1>4. CASE Connected(slot[s])
  <2>1. PICK k : k = slot[s].signals + 1
    OBVIOUS
  <2>2. PICK q : q = [slot[s] EXCEPT !.inq = <<>>, !.started = TRUE, !.signals = k]
    OBVIOUS
  <2>3. slot' = [slot EXCEPT ![s] = q] /\ slot[s] \in SlotRecord
    BY <1>1, <1>4, <2>1, <2>2 DEF StartSlot, SlotsInv
  <2>4. q.client = slot[s].client /\ q.chat = slot[s].chat /\ q.inq = <<>>
    BY <2>2, <2>3 DEF SlotRecord
  <2>5. Thinned(s, q)
    BY <2>4, ForgetTexts
  <2>6. Seated(s, slot[s].client, q.client)
    BY <1>2, <2>4 DEF Seated
  <2> QED BY <1>2, <2>3, <2>5, <2>6, ThinnedOrder
<1> QED BY <1>3, <1>4

\* The main thread between the texts, and the end of a client.
LEMMA OtherOrder ==
    ASSUME SlotsInv, OthersInv, OrderInv,
           \/ \E s \in Slots : Leave(s) \/ EndBroadcast(s) \/ Finish(s)
           \/ \E i \in Slots : SwitchSlot(i)
           \/ ProcessQueue \/ SignalSlots \/ Wait \/ Timeout \/ LaunchGame
           \/ Dispatch /\ slot[place[main.i]].chat = <<>>
    PROVE  OrderInv'
<1>1. CASE \E s \in Slots : Leave(s)
  <2>1. PICK s \in Slots : Leave(s)
    BY <1>1
  <2>2. \A t \in Slots : /\ slot'[t].client = slot[t].client /\ slot'[t].chat = slot[t].chat
                         /\ slot'[t].inq = slot[t].inq
    BY <2>1 DEF Leave, SlotsInv, SlotRecord
  <2> QED BY <2>1, <2>2, FramedOrder DEF Leave, OrderInv
<1>2. CASE \E s \in Slots : EndBroadcast(s) \/ Finish(s)
  <2>1. PICK s \in Slots : EndBroadcast(s) \/ Finish(s)
    BY <1>2
  <2>2. Rested(s, Done(slot[s])) /\ sent' = sent /\ recv' = recv /\ main' = main
    BY <2>1, EndOfTask DEF EndBroadcast, Finish, clientVars
  <2> QED BY <2>2, RestedOrder
<1>3. CASE \/ \E i \in Slots : SwitchSlot(i)
           \/ Wait \/ Timeout \/ LaunchGame
           \/ Dispatch /\ slot[place[main.i]].chat = <<>>
  <2>1. /\ slot' = slot /\ sent' = sent /\ recv' = recv /\ knocking' = knocking
        /\ main'.todo = main.todo /\ main.at # "relay"
    <3>1. PICK one : one = 1
      OBVIOUS
    <3>2. one \in Slots
      BY <3>1, ThreadBounds DEF Slots
    <3>3. CASE \E i \in Slots : SwitchSlot(i)
      BY <3>3 DEF SwitchSlot, clientVars
    <3>4. CASE Wait \/ Timeout
      <4>1. main' = Goto("dispatch", one)
        BY <3>1, <3>4 DEF Wait, Timeout
      <4> QED BY <3>2, <3>4, <4>1, GotoType DEF Wait, Timeout, clientVars
    <3>5. CASE LaunchGame
      <4>1. main' = Goto("start", one)
        BY <3>1, <3>5 DEF LaunchGame
      <4> QED BY <3>2, <3>5, <4>1, GotoType DEF LaunchGame, clientVars
    <3>6. CASE Dispatch /\ slot[place[main.i]].chat = <<>>
      BY <3>6, NextSlotType DEF Dispatch, clientVars
    <3> QED BY <1>3, <3>3, <3>4, <3>5, <3>6
  <2> QED BY <2>1, FramedOrder DEF OrderInv
<1>4. CASE ProcessQueue
  <2>1. PICK one : one = 1
    OBVIOUS
  <2>2. one \in Slots /\ main' = Goto("queue", one)
    BY <1>4, <2>1, ThreadBounds DEF Slots, ProcessQueue
  <2>3. main'.todo = main.todo /\ main.at # "relay" /\ slot' = slot /\ sent' = sent
        /\ knocking' = knocking
    BY <1>4, <2>2, GotoType DEF ProcessQueue
  <2>4. recv'[Server] = recv[Server]
    <3>1. DOMAIN recv = Clients \cup {Server}
      BY DEF OthersInv
    <3> QED BY <1>4, <3>1 DEF ProcessQueue, Broadcast
  <2> QED BY <2>3, <2>4, FramedOrder DEF OrderInv
<1>5. CASE SignalSlots
  <2>1. /\ main'.todo = main.todo /\ main.at # "relay" /\ sent' = sent /\ recv' = recv
        /\ knocking' = knocking
    BY <1>5, SignalSlotsStep DEF SignalSlots, clientVars
  <2>2. \A t \in Slots : /\ slot'[t].client = slot[t].client /\ slot'[t].chat = slot[t].chat
                         /\ slot'[t].inq = slot[t].inq
    BY <1>5, SignalSlotsStep DEF Notified
  <2> QED BY <2>1, <2>2, FramedOrder DEF OrderInv
<1> QED BY <1>1, <1>2, <1>3, <1>4, <1>5

LEMMA OrderInit == Init => OrderInv
<1> SUFFICES ASSUME Init PROVE OrderInv
  OBVIOUS
<1>1. ASSUME NEW s \in Slots PROVE slot[s].chat = <<>> /\ slot[s].inq = <<>>
  <2>1. PICK c : slot[s] = Vacant(c)
    BY InitSlots
  <2> QED BY <2>1 DEF Vacant
<1>2. recv[Server] = <<>> /\ main.todo = <<>>
  BY DEF Init
<1>3. \A c \in Clients : /\ Shown(c) = {} /\ Relaying(c) = {}
                         /\ InOrder(recv[Server], c) /\ InOrder(main.todo, c)
                         /\ \A s \in Slots : /\ ReadAt(s, c) = {} /\ Unread(s, c) = {}
                                             /\ InOrder(slot[s].chat, c) /\ InOrder(slot[s].inq, c)
  BY <1>1, <1>2, EmptyNumbers DEF Shown, Relaying, ReadAt, Unread
<1> QED BY <1>2, <1>3 DEF OrderInv, OwnTexts, InLine, Before

LEMMA OrderNext ==
    ASSUME SlotsInv, OthersInv, OrderInv, [Next]_vars
    PROVE  OrderInv'
<1>1. ASSUME NEW s \in Slots, SendText(s) \/ SendOther(s) PROVE OrderInv'
  BY <1>1, SendTextOrder, SendOtherOrder
<1>2. ASSUME NEW s \in Slots, Wake(s) \/ Poll(s) \/ Read(s) PROVE OrderInv'
  BY <1>2, WakeOrder, PollOrder, ReadOrder
<1>3. ASSUME \/ \E s \in Slots : Leave(s) \/ EndBroadcast(s) \/ Finish(s)
             \/ \E i \in Slots : SwitchSlot(i)
             \/ ProcessQueue \/ SignalSlots \/ Wait \/ Timeout \/ LaunchGame
      PROVE  OrderInv'
  BY <1>3, OtherOrder
<1>4. ASSUME Dispatch PROVE OrderInv'
  BY <1>4, DispatchOrder, OtherOrder
<1>5. ASSUME Relay PROVE OrderInv'
  BY <1>5, RelayOrder
<1>6. ASSUME RelayEnd \/ StartSlot PROVE OrderInv'
  BY <1>6, RelayEndOrder, StartSlotOrder
<1>7. ASSUME UNCHANGED vars PROVE OrderInv'
  <2>1. /\ slot' = slot /\ main' = main /\ recv' = recv /\ sent' = sent /\ knocking' = knocking
    BY <1>7 DEF vars
  <2> QED BY <2>1, FramedOrder DEF OrderInv
<1> QED BY <1>1, <1>2, <1>3, <1>4, <1>5, <1>6, <1>7 DEF Next, ThreadNext, UpdateNext
-----------------------------------------------------------------------------
(* The queue of texts behind a broadcast.                                  *)

Distinct(q) == \A j, k \in DOMAIN q : q[j].text = q[k].text => j = k

LEMMA DistinctTail ==
    ASSUME NEW M, NEW q \in Seq(M), q # <<>>, Distinct(q)
    PROVE  /\ Distinct(Tail(q)) /\ 1 \in DOMAIN q /\ Head(q) = q[1]
           /\ \A j \in DOMAIN Tail(q) : /\ Tail(q)[j].text # Head(q).text
                                        /\ \E k \in DOMAIN q : Tail(q)[j] = q[k]
<1>1. PICK p : p = Tail(q)
  OBVIOUS
<1>2. PICK k \in Nat : k = Len(q) - 1
  OBVIOUS
<1>3. /\ DOMAIN q = 1 .. k + 1 /\ DOMAIN p = 1 .. k /\ Head(q) = q[1]
      /\ \A j \in 1 .. k : p[j] = q[j + 1]
  BY <1>1, <1>2
<1>4. 1 \in DOMAIN q /\ \A j \in 1 .. k : j + 1 \in DOMAIN q /\ j + 1 # 1
  BY <1>2, <1>3
<1>5. Distinct(p)
  <2> SUFFICES ASSUME NEW i \in 1 .. k, NEW j \in 1 .. k, p[i].text = p[j].text PROVE i = j
    BY <1>3 DEF Distinct
  <2>1. i + 1 = j + 1
    BY <1>3, <1>4 DEF Distinct
  <2> QED BY <2>1
<1>6. \A j \in DOMAIN p : p[j].text # q[1].text /\ \E l \in DOMAIN q : p[j] = q[l]
  BY <1>3, <1>4 DEF Distinct
<1> QED BY <1>1, <1>3, <1>4, <1>5, <1>6

LEMMA DistinctAppend ==
    ASSUME NEW M, NEW q \in Seq(M), Distinct(q), NEW e \in M,
           \A j \in DOMAIN q : q[j].text # e.text
    PROVE  /\ Distinct(Append(q, e))
           /\ \A j \in DOMAIN Append(q, e) :
                 Append(q, e)[j] = e \/ \E k \in DOMAIN q : Append(q, e)[j] = q[k]
<1>1. PICK p : p = Append(q, e)
  OBVIOUS
<1>2. PICK k \in Nat : k = Len(q)
  OBVIOUS
<1>3. /\ DOMAIN q = 1 .. k /\ DOMAIN p = 1 .. k + 1 /\ p[k + 1] = e
      /\ \A j \in 1 .. k : p[j] = q[j]
  BY <1>1, <1>2
<1>4. \A j \in 1 .. k + 1 : j \in 1 .. k \/ j = k + 1
  BY <1>2
<1>5. Distinct(p)
  BY <1>3, <1>4 DEF Distinct
<1>6. \A j \in DOMAIN p : p[j] = e \/ \E l \in DOMAIN q : p[j] = q[l]
  BY <1>3, <1>4
<1> QED BY <1>1, <1>5, <1>6

LEMMA InjectiveAppend ==
    ASSUME NEW M, NEW q \in Seq(M), NEW x \in M
    PROVE  /\ IsInjective(q) /\ (\A j \in DOMAIN q : q[j] # x) => IsInjective(Append(q, x))
           /\ \A j \in DOMAIN Append(q, x) :
                 Append(q, x)[j] = x \/ \E k \in DOMAIN q : Append(q, x)[j] = q[k]
           /\ \E k \in DOMAIN Append(q, x) : Append(q, x)[k] = x
<1>1. PICK p : p = Append(q, x)
  OBVIOUS
<1>2. PICK k \in Nat : k = Len(q)
  OBVIOUS
<1>3. /\ DOMAIN q = 1 .. k /\ DOMAIN p = 1 .. k + 1 /\ p[k + 1] = x
      /\ \A j \in 1 .. k : p[j] = q[j]
  BY <1>1, <1>2
<1>4. /\ \A j \in 1 .. k + 1 : j \in 1 .. k \/ j = k + 1
      /\ \A j \in 1 .. k : j \in 1 .. k + 1
      /\ k + 1 \in 1 .. k + 1
  BY <1>2
<1>5. IsInjective(q) /\ (\A j \in DOMAIN q : q[j] # x) => IsInjective(p)
  BY <1>3, <1>4 DEF IsInjective
<1>6. \A j \in DOMAIN p : p[j] = x \/ \E l \in DOMAIN q : p[j] = q[l]
  BY <1>3, <1>4
<1>7. \E l \in DOMAIN p : p[l] = x
  BY <1>3, <1>4
<1> QED BY <1>1, <1>5, <1>6, <1>7

\* A text that is shown at the server is sent to the clients, or waits for that.
LEMMA BroadcastQueue ==
    ASSUME OthersInv, QueueInv, NEW text \in Texts, NEW exclude \in Slots,
           NEW rest \in Seq([text : Texts, exclude : Slots]), NEW shown,
           Broadcast(text, exclude, rest, shown),
           \A c \in Clients : shown[c] = recv[c],
           Distinct(rest),
           \A j \in DOMAIN rest : /\ rest[j].text # text
                                  /\ \E k \in DOMAIN queue : rest[j] = queue[k],
           \E k \in DOMAIN shown[Server] : shown[Server][k] = text,
           \A j \in DOMAIN recv[Server] :
               \E k \in DOMAIN shown[Server] : shown[Server][k] = recv[Server][j],
           \A c \in Clients : \A k \in DOMAIN recv[c] : recv[c][k] # text
    PROVE  QueueInv'
<1>0. /\ DOMAIN recv = Clients \cup {Server} /\ Server \notin Clients
      /\ \A c \in Clients : recv[c] \in Seq(Texts)
  BY ThreadBounds DEF OthersInv
<1>1. recv'[Server] = shown[Server]
  BY <1>0 DEF Broadcast
<1>2. CASE inBroadcast
  <2>1. PICK e : e = [text |-> text, exclude |-> exclude]
    OBVIOUS
  <2>2. e \in [text : Texts, exclude : Slots] /\ e.text = text
    BY <2>1
  <2>3. queue' = Append(rest, e) /\ \A c \in Clients : recv'[c] = recv[c]
    BY <1>2, <2>1 DEF Broadcast
  <2>4. /\ Distinct(Append(rest, e))
        /\ \A j \in DOMAIN Append(rest, e) :
              Append(rest, e)[j] = e \/ \E k \in DOMAIN rest : Append(rest, e)[j] = rest[k]
    <3>1. PICK Entries : Entries = [text : Texts, exclude : Slots]
      OBVIOUS
    <3>2. rest \in Seq(Entries) /\ e \in Entries
      BY <2>2, <3>1
    <3>3. \A j \in DOMAIN rest : rest[j].text # e.text
      BY <2>2
    <3> QED BY <3>2, <3>3, DistinctAppend
  <2>5. \A j \in DOMAIN queue' : queue'[j].text = text \/ \E k \in DOMAIN queue : queue'[j] = queue[k]
    BY <2>2, <2>3, <2>4
  <2>6. \A j \in DOMAIN queue' :
          /\ \E k \in DOMAIN recv'[Server] : recv'[Server][k] = queue'[j].text
          /\ \A c \in Clients : \A k \in DOMAIN recv'[c] : recv'[c][k] # queue'[j].text
    BY <1>1, <2>3, <2>5 DEF QueueInv
  <2>7. \A c \in Clients : /\ IsInjective(recv'[c])
                           /\ \A k \in DOMAIN recv'[c] :
                                \E j \in DOMAIN recv'[Server] : recv'[Server][j] = recv'[c][k]
    BY <1>1, <2>3 DEF QueueInv
  <2> QED BY <2>3, <2>4, <2>6, <2>7 DEF QueueInv, Distinct
<1>3. CASE ~inBroadcast
  <2>1. queue' = rest /\ \A c \in Clients : recv'[c] \in {recv[c], Append(recv[c], text)}
    BY <1>0, <1>3 DEF Broadcast, Relayed
  <2>2. ASSUME NEW c \in Clients
        PROVE  /\ IsInjective(recv'[c])
               /\ \A k \in DOMAIN recv'[c] :
                     recv'[c][k] = text \/ \E j \in DOMAIN recv[c] : recv'[c][k] = recv[c][j]
    <3>1. IsInjective(recv[c]) /\ \A k \in DOMAIN recv[c] : recv[c][k] # text
      BY DEF QueueInv
    <3>2. CASE recv'[c] = recv[c]
      BY <3>1, <3>2
    <3>3. CASE recv'[c] = Append(recv[c], text)
      <4>1. PICK p \in Seq(Texts) : p = recv[c]
        BY <1>0
      <4>2. /\ IsInjective(Append(p, text))
            /\ \A j \in DOMAIN Append(p, text) :
                 Append(p, text)[j] = text \/ \E k \in DOMAIN p : Append(p, text)[j] = p[k]
        BY <3>1, <4>1, InjectiveAppend
      <4> QED BY <3>3, <4>1, <4>2
    <3> QED BY <2>1, <3>2, <3>3
  <2>3. \A c \in Clients : \A k \in DOMAIN recv'[c] :
            \E j \in DOMAIN recv'[Server] : recv'[Server][j] = recv'[c][k]
    <3> TAKE c \in Clients
    <3> TAKE k \in DOMAIN recv'[c]
    <3>1. CASE recv'[c][k] = text
      BY <1>1, <3>1
    <3>2. CASE \E j \in DOMAIN recv[c] : recv'[c][k] = recv[c][j]
      <4>1. PICK i \in DOMAIN recv[Server] : recv[Server][i] = recv'[c][k]
        BY <3>2 DEF QueueInv
      <4> QED BY <1>1, <4>1
    <3> QED BY <2>2, <3>1, <3>2
  <2>4. \A j \in DOMAIN rest :
          /\ \E k \in DOMAIN recv'[Server] : recv'[Server][k] = rest[j].text
          /\ \A c \in Clients : \A k \in DOMAIN recv'[c] : recv'[c][k] # rest[j].text
    <3> TAKE j \in DOMAIN rest
    <3>1. PICK i \in DOMAIN queue : rest[j] = queue[i]
      OBVIOUS
    <3>2. \E k \in DOMAIN recv'[Server] : recv'[Server][k] = rest[j].text
      <4>1. PICK l \in DOMAIN recv[Server] : recv[Server][l] = queue[i].text
        BY DEF QueueInv
      <4> QED BY <1>1, <3>1, <4>1
    <3>3. \A c \in Clients : \A k \in DOMAIN recv'[c] : recv'[c][k] # rest[j].text
      BY <2>2, <3>1 DEF QueueInv
    <3> QED BY <3>2, <3>3
  <2> QED BY <2>1, <2>2, <2>3, <2>4 DEF QueueInv, Distinct
<1> QED BY <1>2, <1>3

LEMMA ProcessQueueQueue ==
    ASSUME OthersInv, QueueInv, ProcessQueue
    PROVE  QueueInv'
<1>1. PICK Entries : Entries = [text : Texts, exclude : Slots]
  OBVIOUS
<1>2. queue \in Seq(Entries) /\ queue # <<>> /\ Distinct(queue)
  BY <1>1 DEF OthersInv, ProcessQueue, QueueInv, Distinct
<1>3. PICK h, rest : h = Head(queue) /\ rest = Tail(queue)
  OBVIOUS
<1>4. h \in Entries /\ rest \in Seq(Entries)
  BY <1>2, <1>3
<1>5. /\ Distinct(rest) /\ 1 \in DOMAIN queue /\ h = queue[1]
      /\ \A j \in DOMAIN rest : rest[j].text # h.text /\ \E k \in DOMAIN queue : rest[j] = queue[k]
  BY <1>2, <1>3, DistinctTail
<1>6. PICK text, exclude : text = h.text /\ exclude = h.exclude
  OBVIOUS
<1>7. text \in Texts /\ exclude \in Slots
  BY <1>1, <1>4, <1>6
<1>8. Broadcast(text, exclude, rest, recv)
  BY <1>3, <1>6 DEF ProcessQueue
<1>9. /\ \E k \in DOMAIN recv[Server] : recv[Server][k] = text
      /\ \A c \in Clients : \A k \in DOMAIN recv[c] : recv[c][k] # text
  BY <1>5, <1>6 DEF QueueInv
<1>10. \A j \in DOMAIN rest : rest[j].text # text /\ \E k \in DOMAIN queue : rest[j] = queue[k]
  BY <1>5, <1>6
<1>11. \A j \in DOMAIN recv[Server] : \E k \in DOMAIN recv[Server] : recv[Server][k] = recv[Server][j]
  OBVIOUS
<1>12. rest \in Seq([text : Texts, exclude : Slots])
  BY <1>1, <1>4
<1> QED BY <1>5, <1>7, <1>8, <1>9, <1>10, <1>11, <1>12, BroadcastQueue

LEMMA RelayQueue ==
    ASSUME SlotsInv, OthersInv, OrderInv, QueueInv, Relay
    PROVE  QueueInv'
<1>1. PICK h : h = Head(main.todo)
  OBVIOUS
<1>2. h \in Texts /\ recv[Server] \in Seq(Texts) /\ main.i \in Slots
  BY <1>1, RelayKeeps DEF OthersInv
<1>3. PICK c \in Clients : IsOf(h, c)
  BY <1>2 DEF Texts, Text, IsOf
<1>4. \A k \in DOMAIN recv[Server] : recv[Server][k] # h
  <2> SUFFICES ASSUME NEW k \in DOMAIN recv[Server], recv[Server][k] = h PROVE FALSE
    OBVIOUS
  <2>1. h.n \in Shown(c)
    BY <1>3, InNumbers DEF Shown
  <2>2. h.n < h.n
    BY <1>1, <1>3, <2>1, RelayOrder
  <2>3. h.n \in Nat
    BY <1>2 DEF Texts, Text
  <2> QED BY <2>2, <2>3
<1>5. PICK shown : shown = [recv EXCEPT ![Server] = Append(@, h)]
  OBVIOUS
<1>6. shown[Server] = Append(recv[Server], h) /\ \A d \in Clients : shown[d] = recv[d]
  BY <1>5, ThreadBounds DEF OthersInv
<1>7. Broadcast(h, main.i, queue, shown)
  BY <1>1, <1>5 DEF Relay
<1>8. /\ \E k \in DOMAIN shown[Server] : shown[Server][k] = h
      /\ \A j \in DOMAIN recv[Server] :
             \E k \in DOMAIN shown[Server] : shown[Server][k] = recv[Server][j]
  <2>1. PICK p \in Seq(Texts) : p = recv[Server]
    BY <1>2
  <2>2. ASSUME NEW j \in DOMAIN p PROVE \E k \in DOMAIN Append(p, h) : Append(p, h)[k] = p[j]
    <3>1. j \in DOMAIN Append(p, h) /\ Append(p, h)[j] = p[j]
      OBVIOUS
    <3> QED BY <3>1
  <2>3. \E k \in DOMAIN Append(p, h) : Append(p, h)[k] = h
    BY <1>2, InjectiveAppend
  <2> QED BY <1>6, <2>1, <2>2, <2>3
<1>9. Distinct(queue) /\ queue \in Seq([text : Texts, exclude : Slots])
  BY DEF QueueInv, Distinct, OthersInv
<1>10. \A j \in DOMAIN queue : queue[j].text # h /\ \E k \in DOMAIN queue : queue[j] = queue[k]
  BY <1>4 DEF QueueInv
<1>11. \A d \in Clients : \A k \in DOMAIN recv[d] : recv[d][k] # h
  BY <1>4 DEF QueueInv
<1>12. PICK exclude, queued : exclude \in Slots /\ exclude = main.i /\ queued = queue
  BY <1>2
<1>13. Broadcast(h, exclude, queued, shown)
  BY <1>7, <1>12
<1>14. queued \in Seq([text : Texts, exclude : Slots])
  BY <1>9, <1>12
<1>15. Distinct(queued)
  BY <1>9, <1>12
<1>16. \A j \in DOMAIN queued : queued[j].text # h /\ \E k \in DOMAIN queue : queued[j] = queue[k]
  BY <1>10, <1>12
<1>17. \A d \in Clients : shown[d] = recv[d]
  BY <1>6
<1>18. \E k \in DOMAIN shown[Server] : shown[Server][k] = h
  BY <1>8
<1>19. \A j \in DOMAIN recv[Server] :
           \E k \in DOMAIN shown[Server] : shown[Server][k] = recv[Server][j]
  BY <1>8
<1>20. h \in Texts /\ exclude \in Slots
  BY <1>2, <1>12
<1> QED BY <1>11, <1>13, <1>14, <1>15, <1>16, <1>17, <1>18, <1>19, <1>20, BroadcastQueue

LEMMA QueueNext ==
    ASSUME SlotsInv, OthersInv, OrderInv, QueueInv, [Next]_vars
    PROVE  QueueInv'
<1>1. CASE queue' = queue /\ recv' = recv
  BY <1>1 DEF QueueInv
<1>2. CASE ProcessQueue
  BY <1>2, ProcessQueueQueue
<1>3. CASE Relay
  BY <1>3, RelayQueue
<1>4. \/ ProcessQueue \/ Relay
      \/ queue' = queue /\ recv' = recv
  BY DEF Next, ThreadNext, UpdateNext, SendText, SendOther, Leave, Wake, Poll, Read, EndBroadcast,
         Finish, SwitchSlot, SignalSlots, Wait, Dispatch, RelayEnd, StartSlot, Timeout, LaunchGame,
         clientVars, vars
<1> QED BY <1>1, <1>2, <1>3, <1>4

\* What is known of the texts in every state.
TextsInv == ThreadInv /\ OrderInv /\ QueueInv

LEMMA TextsInvAlways == Spec => []TextsInv
<1>1. Init => TextsInv
  <2>1. Init => QueueInv
    BY DEF Init, QueueInv, IsInjective
  <2> QED BY <2>1, ThreadInvInit, OrderInit DEF TextsInv
<1>2. TextsInv /\ [Next]_vars => TextsInv'
  <2> SUFFICES ASSUME TextsInv, [Next]_vars PROVE TextsInv'
    OBVIOUS
  <2>1. ThreadInv /\ OrderInv /\ QueueInv
    BY DEF TextsInv
  <2>2. SlotsInv /\ OthersInv
    BY <2>1, ThreadInvParts
  <2>3. ThreadInv' /\ OrderInv' /\ QueueInv'
    BY <2>1, <2>2, ThreadInvNext, OrderNext, QueueNext
  <2> QED BY <2>3 DEF TextsInv
<1> QED BY <1>1, <1>2, PTL DEF Spec

\* Whatever waits time out and broadcasts overlap, nobody is shown a text twice, and the
\* server's player is shown those of each client in the order they were sent.
THEOREM NoTextTwice == Spec => []NeverTwice
<1>1. TextsInv => NeverTwice
  BY DEF TextsInv, OrderInv, QueueInv, NeverTwice
<1> QED BY <1>1, TextsInvAlways, PTL
-----------------------------------------------------------------------------
(* No text is lost: the threads.                                           *)

LEMMA ToReadFacts ==
    ASSUME NEW r
    PROVE  \A e : e \in ToRead(r) <=> e \in Unfinished(r) /\ r.events[e].triggered
BY DEF ToRead

LEMMA RestedCalm ==
    ASSUME NEW s \in Slots, NEW q, NEW at, SlotSound(slot[s]), Calm(slot[s], at), Rested(s, q),
           slot[s].pc \in {"waiting", "reading", "setup"}
    PROVE  Calm(q, at)
<1> DEFINE r == slot[s]
<1>1. \A e \in ToRead(q) : /\ e \in ToRead(r) /\ e \in Unfinished(q)
                           /\ q.events[e].awaited = r.events[e].awaited
  BY ToReadFacts DEF Rested
<1>2. q.up = r.up /\ q.client = r.client /\ q.chat = r.chat /\ q.pc \in {"waiting", "polling"}
  BY DEF Rested
<1>3. ASSUME r.up, r.pc \in {"reading", "setup"} PROVE ToRead(q) = {}
  <2>1. ToRead(r) = {r.task}
    BY <1>3 DEF Calm
  <2>2. r.task \in Unfinished(r)
    BY <2>1, ToReadFacts
  <2>3. r.task # 0
    BY <2>2, UnfinishedFinite DEF SlotSound
  <2>4. r.task \notin Unfinished(q)
    BY <2>3 DEF Rested
  <2> QED BY <1>1, <2>1, <2>4
<1>4. ASSUME r.up, ToRead(q) # {} PROVE q.chat = <<>>
  <2>1. r.pc = "waiting" /\ ToRead(r) # {}
    BY <1>1, <1>3, <1>4
  <2> QED BY <1>2, <1>4, <2>1 DEF Calm
<1> HIDE DEF r
<1>5. Calm(r, at)
  BY DEF r
<1> QED BY <1>1, <1>2, <1>4, <1>5 DEF Calm

LEMMA UpdateCalm ==
    ASSUME NEW s \in Slots, NEW b, NEW q, NEW at, SlotSound(slot[s]), Calm(slot[s], at),
           slot[s].pc = "waiting", BusyWith(s, b), UpdateOutcome(s, b, q),
           b.events[b.task].triggered \/ ~Connected(slot[s])
    PROVE  /\ Calm(q, at)
           /\ q.up => \/ q.client \in knocking /\ q.chat = <<>>
                      \/ /\ q.client = slot[s].client /\ slot[s].up
                         /\ q.chat = slot[s].chat /\ q.inq = slot[s].inq
<1>1. /\ b.events = slot[s].events /\ b.client = slot[s].client /\ b.up = slot[s].up
      /\ b.chat = slot[s].chat /\ b.inq = slot[s].inq
      /\ b.task \in Unfinished(b) /\ b.task # 0 /\ SlotSound(q) /\ q.inq = b.inq
  BY DEF BusyWith, UpdateOutcome
<1>2. \A e : e \in ToRead(b) <=> e \in ToRead(slot[s])
  BY <1>1 DEF ToRead, Unfinished
<1>3. ASSUME NEW e \in Unfinished(q)
      PROVE  \E f \in Unfinished(b) : /\ q.events[e].triggered = b.events[f].triggered
                                      /\ q.events[e].awaited = b.events[f].awaited
                                      /\ q.task = e => f = b.task
                                      /\ f = b.task /\ q.pc = "reading" => q.task = e
  BY <1>1 DEF UpdateOutcome
<1>4. ASSUME NEW e \in ToRead(q)
      PROVE  \E f \in ToRead(b) : /\ q.events[e].awaited = b.events[f].awaited
                                  /\ f = b.task /\ q.pc = "reading" => q.task = e
  <2>1. PICK f \in Unfinished(b) : /\ q.events[e].triggered = b.events[f].triggered
                                   /\ q.events[e].awaited = b.events[f].awaited
                                   /\ f = b.task /\ q.pc = "reading" => q.task = e
    BY <1>3, ToReadFacts
  <2>2. f \in ToRead(b)
    BY <2>1, ToReadFacts
  <2> QED BY <2>1, <2>2
<1>5. CASE q.client \in knocking /\ q.up /\ b.client = Nobody /\ q.chat = <<>>
           /\ q.pc \in {"waiting", "polling"} /\ q.client # Nobody
  <2>1. ToRead(b) = {}
    BY <1>1, <1>2, <1>5 DEF Calm
  <2>2. ToRead(q) = {}
    BY <2>1, <1>4
  <2> QED BY <2>2, <1>5 DEF Calm
<1>6. CASE /\ q.client = Nobody /\ ~q.up
           /\ b.client = Nobody \/ (~Connected(b) /\ Unfinished(q) = {})
  <2>1. ToRead(q) = {}
    <3>1. CASE b.client = Nobody
      <4>1. ToRead(b) = {}
        BY <1>1, <1>2, <3>1 DEF Calm
      <4> QED BY <4>1, <1>4
    <3>2. CASE Unfinished(q) = {}
      BY <3>2, ToReadFacts
    <3> QED BY <1>6, <3>1, <3>2
  <2> QED BY <2>1, <1>6 DEF Calm
<1>7. CASE q.client = b.client /\ b.client # Nobody /\ q.up = b.up /\ q.chat = <<>>
           /\ q.pc = "reading" /\ q.task = (IF b.task = 0 THEN 0 ELSE 1)
  <2>1. CASE ~q.up
    BY <2>1, <1>7 DEF Calm
  <2>2. CASE q.up
    <3>1. b.task \in ToRead(b) /\ b.task \in ToRead(slot[s])
      <4>1. b.events[b.task].triggered
        BY <1>1, <1>7, <2>2 DEF Connected
      <4> QED BY <4>1, <1>1, <1>2, ToReadFacts
    <3>2. slot[s].up /\ slot[s].chat = <<>> /\ at = "wait"
      BY <1>1, <1>7, <2>2, <3>1 DEF Calm
    <3>3. \A f \in ToRead(b) : f = b.task /\ b.events[f].awaited
      BY <1>1, <1>2, <3>1, <3>2 DEF Calm
    <3>4. \A e \in ToRead(q) : e = q.task /\ q.events[e].awaited
      BY <1>4, <1>7, <3>3
    <3>5. q.task \in ToRead(q)
      <4>1. q.task # 0 /\ q.task \in Unfinished(q)
        BY <1>1, <1>7 DEF SlotSound, ThreadSound
      <4>2. q.events[q.task].triggered = b.events[b.task].triggered
        BY <1>3, <4>1
      <4>3. b.events[b.task].triggered
        BY <3>1, ToReadFacts
      <4> QED BY <4>1, <4>2, <4>3, ToReadFacts
    <3>6. ToRead(q) = {q.task}
      BY <3>4, <3>5
    <3>7. Calm(q, at)
      BY <1>7, <3>2, <3>4, <3>6 DEF Calm
    <3> QED BY <1>1, <1>7, <3>2, <3>7
  <2> QED BY <2>1, <2>2
<1> QED BY <1>5, <1>6, <1>7 DEF UpdateOutcome

LEMMA TakenCalm ==
    ASSUME NEW s \in Slots, NEW q, NEW at, Calm(slot[s], at), Taken(s, q)
    PROVE  Calm(q, at) /\ (slot[s].up => at = "wait")
<1> DEFINE r == slot[s]
<1>1. /\ q.up = r.up /\ q.client = r.client /\ r.client # Nobody /\ r.pc = "reading"
  BY DEF Taken
<1>2. CASE ~r.up
  BY <1>1, <1>2 DEF Calm
<1>3. CASE r.up
  <2>1. ToRead(r) = {r.task} /\ at = "wait" /\ r.events[r.task].awaited
    BY <1>1, <1>3 DEF Calm
  <2>2. CASE q.events = r.events /\ q.task = r.task /\ q.pc \in {"reading", "setup"}
    <3>1. ToRead(q) = {q.task}
      BY <2>1, <2>2 DEF ToRead, Unfinished
    <3> QED BY <1>1, <1>3, <2>1, <2>2, <3>1 DEF Calm
  <2>3. CASE /\ q.pc \in {"waiting", "polling"} /\ Unfinished(q) = Unfinished(r) \ {r.task}
             /\ \A e \in Unfinished(q) : q.events[e].triggered = r.events[e].triggered
    <3>1. ToRead(q) = {}
      BY <2>1, <2>3, ToReadFacts
    <3> QED BY <1>1, <1>3, <2>1, <2>3, <3>1 DEF Calm
  <2> QED BY <2>2, <2>3 DEF Taken
<1> QED BY <1>2, <1>3

LEMMA NotifiedCalm ==
    ASSUME NEW r, NEW w, NEW at, at # "wait", SlotSound(r), Calm(r, at), Notified(r, w),
           r.up => r.chat = <<>>
    PROVE  Calm(w, "wait")
<1>1. w.client = r.client /\ w.up = r.up /\ w.pc = r.pc /\ w.chat = r.chat /\ w.task = r.task
  BY DEF Notified
<1>2. CASE ~r.up /\ r.client # Nobody
  BY <1>1, <1>2 DEF Calm
<1>3. CASE r.up \/ r.client = Nobody
  <2>1. ToRead(r) = {}
    BY <1>3 DEF Calm
  <2>2. r.up => r.pc \notin {"reading", "setup"}
    BY <2>1 DEF Calm
  <2>3. PICK n : \A e \in ToRead(w) : e = n /\ w.events[n].triggered = Readable(r)
                                      /\ w.events[n].awaited = Readable(r)
    <3>1. \A e \in Unfinished(r) : ~w.events[e].triggered
      BY <2>1, ToReadFacts DEF Notified
    <3>2. CASE Unfinished(w) = Unfinished(r)
      BY <3>1, <3>2, ToReadFacts
    <3>3. CASE \E n : /\ Unfinished(w) = Unfinished(r) \cup {n}
                      /\ w.events[n].triggered = Readable(r) /\ w.events[n].awaited = Readable(r)
      BY <3>1, <3>3, ToReadFacts
    <3> QED BY <3>2, <3>3 DEF Notified
  <2>4. CASE r.client = Nobody
    <3>1. ~Readable(r) /\ ~r.up
      BY <2>4 DEF Readable, SlotSound, ThreadSound
    <3>2. ToRead(w) = {}
      BY <2>3, <3>1, ToReadFacts
    <3> QED BY <1>1, <3>1, <3>2 DEF Calm
  <2>5. CASE r.up
    <3>1. r.client # Nobody
      BY <2>5 DEF SlotSound, ThreadSound
    <3>2. \A e \in ToRead(w) : e = n /\ w.events[e].awaited
      BY <2>3, ToReadFacts
    <3> QED BY <1>1, <2>2, <2>5, <3>1, <3>2 DEF Calm
  <2> QED BY <1>3, <2>4, <2>5
<1> QED BY <1>2, <1>3

Outstanding(c, q) == Shown(c) \cup Relaying(c) \cup Numbers(q.chat, c) \cup Numbers(q.inq, c)

\* A step of the thread of one slot.
LEMMA CalmThread ==
    ASSUME SlotsInv, NEW s \in Slots, NEW q, slot' = [slot EXCEPT ![s] = q],
           main' = main, place' = place, sent' = sent, recv' = recv,
           \A t \in Slots : CalmSlot(t),
           Calm(q, main.at),
           q.up => /\ q.chat # <<>> => s \in NotDispatched
                   /\ 1 .. sent[q.client] \subseteq Outstanding(q.client, q)
    PROVE  \A t \in Slots : CalmSlot(t)'
<1> TAKE t \in Slots
<1>1. slot'[s] = q /\ (t # s => slot'[t] = slot[t])
  BY DEF SlotsInv
<1>2. NotDispatched' = NotDispatched /\ \A c : Shown(c)' = Shown(c) /\ Relaying(c)' = Relaying(c)
  BY DEF NotDispatched, From, Shown, Relaying
<1>3. CASE t = s
  <2>1. q.up => Complete(s)'
    BY <1>1, <1>2 DEF Complete, ReadAt, Unread, Outstanding
  <2> QED BY <1>1, <1>2, <1>3, <2>1 DEF CalmSlot
<1>4. CASE t # s
  <2>1. Complete(t) => Complete(t)'
    BY <1>1, <1>2, <1>4 DEF Complete, ReadAt, Unread
  <2>2. CalmSlot(t)
    OBVIOUS
  <2> QED BY <1>1, <1>2, <1>4, <2>1, <2>2 DEF CalmSlot
<1> QED BY <1>3, <1>4

LEMMA SendCalm ==
    ASSUME SlotsInv, OthersInv, OrderInv, NEW s \in Slots, SendText(s) \/ SendOther(s),
           \A t \in Slots : CalmSlot(t)
    PROVE  \A t \in Slots : CalmSlot(t)'
<1> TAKE t \in Slots
<1>1. /\ slot[t] \in SlotRecord /\ slot[s] \in SlotRecord
      /\ \A u \in Slots \ {s} : slot'[u] = slot[u]
      /\ \E inq : slot'[s] = [slot[s] EXCEPT !.inq = inq]
      /\ main' = main /\ place' = place
  BY DEF SendText, SendOther, SlotsInv
<1>2. /\ slot'[t].client = slot[t].client /\ slot'[t].up = slot[t].up /\ slot'[t].pc = slot[t].pc
      /\ slot'[t].chat = slot[t].chat /\ slot'[t].events = slot[t].events
      /\ slot'[t].task = slot[t].task
  <2>1. CASE t # s
    BY <1>1, <2>1
  <2>2. CASE t = s
    <3>1. PICK inq, q : q = [slot[s] EXCEPT !.inq = inq] /\ slot'[s] = q
      BY <1>1
    <3>2. /\ q.client = slot[s].client /\ q.up = slot[s].up /\ q.pc = slot[s].pc
          /\ q.chat = slot[s].chat /\ q.events = slot[s].events /\ q.task = slot[s].task
      BY <1>1, <3>1 DEF SlotRecord
    <3> QED BY <2>2, <3>1, <3>2
  <2> QED BY <2>1, <2>2
<1>3. Calm(slot[t], main.at) => Calm(slot'[t], main.at)
  BY <1>2 DEF Calm, ToRead, Unfinished
<1>4. ASSUME slot[t].up, Complete(t) PROVE Complete(t)'
  <2>1. PICK c \in Clients : c = slot[t].client
    BY <1>4, <1>1 DEF SlotsInv, SlotSound, ThreadSound, SlotRecord
  <2>2. 1 .. sent[c] \subseteq Shown(c) \cup Relaying(c) \cup ReadAt(t, c) \cup Unread(t, c)
    BY <1>4, <2>1 DEF Complete
  <2>3. CASE SendOther(s)
    <3>1. /\ Shown(c)' = Shown(c) /\ Relaying(c)' = Relaying(c) /\ ReadAt(t, c)' = ReadAt(t, c)
          /\ Unread(t, c)' = Unread(t, c) /\ sent'[c] = sent[c]
      BY <2>3, SendOtherOrder DEF SendOther
    <3> QED BY <1>2, <2>1, <2>2, <3>1 DEF Complete
  <2>4. CASE SendText(s) /\ t # s
    <3>1. c # slot[s].client
      BY <2>1, <2>4, ThreadBounds DEF SlotsInv
    <3>2. /\ Shown(c)' = Shown(c) /\ Relaying(c)' = Relaying(c) /\ ReadAt(t, c)' = ReadAt(t, c)
          /\ Unread(t, c)' = Unread(t, c)
      BY <2>4, <3>1, SendTextOrder
    <3>3. sent'[c] = sent[c]
      BY <2>4, <3>1 DEF SendText, OthersInv
    <3> QED BY <1>2, <2>1, <2>2, <3>2, <3>3 DEF Complete
  <2>5. CASE SendText(s) /\ t = s
    <3>1. /\ Shown(c)' = Shown(c) /\ Relaying(c)' = Relaying(c) /\ ReadAt(s, c)' = ReadAt(s, c)
          /\ Unread(s, c)' = Unread(s, c) \cup {sent[c] + 1}
      <4>1. SendText(s) /\ c = slot[s].client
        BY <2>1, <2>5
      <4>2. /\ \A u \in Slots, d \in Clients :
                  ReadAt(u, d)' = ReadAt(u, d) /\ Shown(d)' = Shown(d) /\ Relaying(d)' = Relaying(d)
            /\ LET d == slot[s].client IN Unread(s, d)' = Unread(s, d) \cup {sent[d] + 1}
        BY <4>1, SendTextOrder
      <4>3. slot'[s].client = slot[s].client
        BY <1>2, <2>5
      <4> QED BY <4>1, <4>2, <4>3 DEF Unread
    <3>2. sent'[c] = sent[c] + 1 /\ sent[c] \in Nat
      BY <2>1, <2>5 DEF SendText, OthersInv
    <3>3. 1 .. sent[c] + 1 \subseteq (1 .. sent[c]) \cup {sent[c] + 1}
      BY <3>2
    <3>4. 1 .. sent'[c] \subseteq Shown(c)' \cup Relaying(c)' \cup ReadAt(t, c)' \cup Unread(t, c)'
      BY <2>2, <2>5, <3>1, <3>2, <3>3
    <3> QED BY <1>2, <2>1, <3>4 DEF Complete
  <2> QED BY <2>3, <2>4, <2>5
<1>5. NotDispatched' = NotDispatched
  BY <1>1 DEF NotDispatched, From
<1>6. CalmSlot(t)
  OBVIOUS
<1> QED BY <1>1, <1>2, <1>3, <1>4, <1>5, <1>6 DEF CalmSlot

LEMMA LeaveCalm ==
    ASSUME SlotsInv, NEW s \in Slots, Leave(s), \A t \in Slots : CalmSlot(t)
    PROVE  \A t \in Slots : CalmSlot(t)'
<1>1. PICK q : q = [slot[s] EXCEPT !.up = FALSE]
  OBVIOUS
<1>2. slot' = [slot EXCEPT ![s] = q] /\ slot[s] \in SlotRecord /\ slot[s].client # Nobody
  BY <1>1, ThreadBounds DEF Leave, SlotsInv
<1>3. q.client # Nobody /\ ~q.up
  BY <1>1, <1>2 DEF SlotRecord
<1>4. Calm(q, main.at)
  BY <1>3 DEF Calm
<1>5. main' = main /\ place' = place /\ sent' = sent /\ recv' = recv
  BY DEF Leave
<1> QED BY <1>2, <1>3, <1>4, <1>5, CalmThread

LEMMA RestedCalmStep ==
    ASSUME SlotsInv, NEW s \in Slots, NEW q, Rested(s, q), \A t \in Slots : CalmSlot(t),
           slot[s].pc \in {"waiting", "reading", "setup"},
           main' = main, place' = place, sent' = sent, recv' = recv
    PROVE  \A t \in Slots : CalmSlot(t)'
<1>1. SlotSound(slot[s]) /\ CalmSlot(s)
  BY DEF SlotsInv
<1>2. Calm(slot[s], main.at)
  BY <1>1 DEF CalmSlot
<1>3. Calm(q, main.at)
  BY <1>1, <1>2, RestedCalm
<1>4. /\ slot' = [slot EXCEPT ![s] = q] /\ q.client = slot[s].client /\ q.up = slot[s].up
      /\ q.inq = slot[s].inq /\ q.chat = slot[s].chat
  BY DEF Rested
<1>5. q.up => /\ q.chat # <<>> => s \in NotDispatched
              /\ 1 .. sent[q.client] \subseteq Outstanding(q.client, q)
  BY <1>1, <1>4 DEF CalmSlot, Complete, Outstanding, ReadAt, Unread
<1> QED BY <1>3, <1>4, <1>5, CalmThread

LEMMA WakeCalm ==
    ASSUME SlotsInv, OthersInv, OrderInv, NEW s \in Slots, Wake(s),
           \A c \in knocking : sent[c] = 0, \A t \in Slots : CalmSlot(t)
    PROVE  \A t \in Slots : CalmSlot(t)'
<1>1. main' = main /\ place' = place /\ sent' = sent /\ recv' = recv /\ slot[s].pc = "waiting"
  BY DEF Wake
<1>2. ASSUME NEW q, Rested(s, q) PROVE \A t \in Slots : CalmSlot(t)'
  BY <1>1, <1>2, RestedCalmStep
<1>3. ASSUME NEW b, NEW q, BusyWith(s, b), UpdateOutcome(s, b, q),
             b.events[b.task].triggered \/ ~Connected(slot[s])
      PROVE  \A t \in Slots : CalmSlot(t)'
  <2>1. SlotSound(slot[s]) /\ CalmSlot(s) /\ Calm(slot[s], main.at)
    BY DEF SlotsInv, CalmSlot
  <2>2. /\ Calm(q, main.at)
        /\ q.up => \/ q.client \in knocking /\ q.chat = <<>>
                   \/ /\ q.client = slot[s].client /\ slot[s].up
                      /\ q.chat = slot[s].chat /\ q.inq = slot[s].inq
    BY <1>1, <1>3, <2>1, UpdateCalm
  <2>3. ASSUME q.up
        PROVE  /\ q.chat # <<>> => s \in NotDispatched
               /\ 1 .. sent[q.client] \subseteq Outstanding(q.client, q)
    <3>1. CASE q.client \in knocking /\ q.chat = <<>>
      <4>1. sent[q.client] = 0
        BY <3>1
      <4>2. 1 .. sent[q.client] = {}
        BY <4>1
      <4> QED BY <3>1, <4>2
    <3>2. CASE /\ q.client = slot[s].client /\ slot[s].up
               /\ q.chat = slot[s].chat /\ q.inq = slot[s].inq
      BY <2>1, <3>2 DEF CalmSlot, Complete, Outstanding, ReadAt, Unread
    <3> QED BY <2>2, <2>3, <3>1, <3>2
  <2>4. slot' = [slot EXCEPT ![s] = q]
    BY <1>3 DEF UpdateOutcome
  <2> QED BY <1>1, <2>2, <2>3, <2>4, CalmThread
<1> QED BY <1>2, <1>3, WakeStep

LEMMA ReadCalm ==
    ASSUME SlotsInv, OrderInv, NEW s \in Slots, Read(s), \A t \in Slots : CalmSlot(t)
    PROVE  \A t \in Slots : CalmSlot(t)'
<1>1. main' = main /\ place' = place /\ sent' = sent /\ recv' = recv
  BY DEF Read, clientVars
<1>2. PICK q : Taken(s, q)
  BY ReadStep
<1>3. CalmSlot(s) /\ Calm(slot[s], main.at)
  BY DEF CalmSlot
<1>4. Calm(q, main.at) /\ (slot[s].up => main.at = "wait")
  BY <1>2, <1>3, TakenCalm
<1>5. slot' = [slot EXCEPT ![s] = q] /\ q.client = slot[s].client /\ q.up = slot[s].up
      /\ slot[s].client # Nobody
  BY <1>2 DEF Taken
<1>6. ASSUME q.up
      PROVE  /\ q.chat # <<>> => s \in NotDispatched
             /\ 1 .. sent[q.client] \subseteq Outstanding(q.client, q)
  <2>1. s \in NotDispatched
    BY <1>4, <1>5, <1>6 DEF NotDispatched
  <2>2. PICK c \in Clients : c = q.client
    BY <1>5 DEF SlotsInv, SlotRecord
  <2>3. Numbers(q.chat, c) \cup Numbers(q.inq, c) = ReadAt(s, c) \cup Unread(s, c)
    BY <1>2, TakenTexts
  <2>4. 1 .. sent[c] \subseteq Shown(c) \cup Relaying(c) \cup ReadAt(s, c) \cup Unread(s, c)
    BY <1>3, <1>5, <1>6, <2>2 DEF CalmSlot, Complete
  <2>5. 1 .. sent[c] \subseteq Outstanding(c, q)
    BY <2>3, <2>4 DEF Outstanding
  <2> QED BY <2>1, <2>2, <2>5
<1> QED BY <1>1, <1>4, <1>5, <1>6, CalmThread
-----------------------------------------------------------------------------
(* No text is lost: the main thread.                                       *)

\* Texts move from one stage to the next, or not at all.
LEMMA CalmFlow ==
    ASSUME SlotsInv, sent' = sent, \A t \in Slots : CalmSlot(t),
           \A t \in Slots :
               /\ slot'[t].client = slot[t].client /\ slot'[t].up = slot[t].up
               /\ Calm(slot'[t], main'.at)
               /\ slot'[t].up /\ slot'[t].chat # <<>> => t \in NotDispatched'
               /\ \A c \in Clients : slot[t].up /\ c = slot[t].client =>
                      Shown(c) \cup Relaying(c) \cup ReadAt(t, c) \cup Unread(t, c)
                         \subseteq Shown(c)' \cup Relaying(c)' \cup ReadAt(t, c)' \cup Unread(t, c)'
    PROVE  \A t \in Slots : CalmSlot(t)'
<1> TAKE t \in Slots
<1>1. CalmSlot(t)
  OBVIOUS
<1>2. ASSUME slot'[t].up PROVE Complete(t)'
  <2>1. PICK c \in Clients : c = slot[t].client
    BY <1>2 DEF SlotsInv, SlotSound, ThreadSound, SlotRecord
  <2>2. 1 .. sent[c] \subseteq Shown(c) \cup Relaying(c) \cup ReadAt(t, c) \cup Unread(t, c)
    BY <1>1, <1>2, <2>1 DEF CalmSlot, Complete
  <2>3. 1 .. sent'[c] \subseteq Shown(c)' \cup Relaying(c)' \cup ReadAt(t, c)' \cup Unread(t, c)'
    BY <1>2, <2>1, <2>2
  <2> QED BY <2>1, <2>3 DEF Complete
<1> QED BY <1>2 DEF CalmSlot

\* With the slots as they are, the main thread goes on.
LEMMA CalmElsewhere ==
    ASSUME NEW r, NEW at, NEW to, Calm(r, at),
           to # "wait" => at # "wait" \/ (r.up => ToRead(r) = {})
    PROVE  Calm(r, to)
BY DEF Calm

LEMMA MainCalm ==
    ASSUME SlotsInv, slot' = slot, sent' = sent, \A t \in Slots : CalmSlot(t),
           \A c \in Clients : Shown(c)' = Shown(c) /\ Relaying(c)' = Relaying(c),
           main'.at # "wait" =>
               main.at # "wait" \/ \A t \in Slots : slot[t].up => ToRead(slot[t]) = {},
           \A t \in Slots : slot[t].up /\ slot[t].chat # <<>> => t \in NotDispatched'
    PROVE  \A t \in Slots : CalmSlot(t)'
<1>1. ASSUME NEW t \in Slots PROVE Calm(slot'[t], main'.at)
  <2>1. Calm(slot[t], main.at)
    BY DEF CalmSlot
  <2> QED BY <2>1, CalmElsewhere
<1>2. ASSUME NEW t \in Slots, NEW c \in Clients
      PROVE  ReadAt(t, c)' = ReadAt(t, c) /\ Unread(t, c)' = Unread(t, c)
  BY DEF ReadAt, Unread
<1> QED BY <1>1, <1>2, CalmFlow

LEMMA PlacesLeft ==
    ASSUME OthersInv, IsInjective(place), NEW i \in Slots
    PROVE  /\ From(i) = {place[i]} \cup From(i + 1) /\ place[i] \notin From(i + 1)
           /\ i = NumSlots => From(i + 1) = {}
           /\ From(1) = Slots
<1>1. NumSlots \in Nat \ {0} /\ Slots = 1 .. NumSlots /\ i \in 1 .. NumSlots
  BY ThreadBounds DEF Slots
<1>2. place \in [Slots -> Slots] /\ \A s \in Slots : \E j \in Slots : place[j] = s
  BY DEF OthersInv
<1>3. i .. NumSlots = {i} \cup (i + 1 .. NumSlots) /\ i \notin i + 1 .. NumSlots
      /\ i + 1 .. NumSlots \subseteq Slots /\ (i = NumSlots => i + 1 .. NumSlots = {})
  BY <1>1
<1>4. \A j \in i + 1 .. NumSlots : place[j] # place[i]
  BY <1>2, <1>3 DEF IsInjective
<1>5. From(i) = {place[i]} \cup From(i + 1)
  BY <1>3 DEF From
<1>6. From(1) = Slots
  BY <1>1, <1>2 DEF From
<1>7. place[i] \notin From(i + 1) /\ (i = NumSlots => From(i + 1) = {})
  BY <1>3, <1>4 DEF From
<1> QED BY <1>5, <1>6, <1>7

LEMMA ProcessQueueCalm ==
    ASSUME SlotsInv, OthersInv, OrderInv, ProcessQueue, \A t \in Slots : CalmSlot(t)
    PROVE  \A t \in Slots : CalmSlot(t)'
<1>1. PICK one : one = 1
  OBVIOUS
<1>2. one \in Slots /\ main' = Goto("queue", one)
  BY <1>1, ThreadBounds DEF Slots, ProcessQueue
<1>3. main'.at = "queue" /\ main'.todo = main.todo
  BY <1>2, GotoType
<1>4. main.at \in {"menu", "queue"} /\ slot' = slot /\ sent' = sent /\ recv'[Server] = recv[Server]
  BY DEF ProcessQueue, Broadcast, OthersInv
<1>5. \A c \in Clients : Shown(c)' = Shown(c) /\ Relaying(c)' = Relaying(c)
  BY <1>3, <1>4 DEF Shown, Relaying
<1>6. NotDispatched = {}
  BY <1>4 DEF NotDispatched
<1>7. \A t \in Slots : slot[t].up => slot[t].chat = <<>>
  BY <1>6 DEF CalmSlot
<1> QED BY <1>3, <1>4, <1>5, <1>7, MainCalm

LEMMA SignalSlotsCalm ==
    ASSUME SlotsInv, OthersInv, OrderInv, SignalSlots, ~launched, \A t \in Slots : CalmSlot(t)
    PROVE  \A t \in Slots : CalmSlot(t)'
<1>1. main'.at = "wait" /\ main'.todo = main.todo /\ \A s \in Slots : Notified(slot[s], slot'[s])
  BY SignalSlotsStep
<1>2. main.at \in {"menu", "queue"} /\ sent' = sent /\ recv' = recv
  BY DEF SignalSlots, clientVars
<1>3. NotDispatched = {} /\ NotDispatched' = Slots
  BY <1>1, <1>2 DEF NotDispatched
<1>4. ASSUME NEW t \in Slots
      PROVE  /\ slot'[t].client = slot[t].client /\ slot'[t].up = slot[t].up
             /\ slot'[t].chat = slot[t].chat /\ slot'[t].inq = slot[t].inq
             /\ Calm(slot'[t], main'.at)
  <2>1. Notified(slot[t], slot'[t]) /\ CalmSlot(t) /\ SlotSound(slot[t])
    BY <1>1 DEF SlotsInv
  <2>2. Calm(slot[t], main.at) /\ (slot[t].up => slot[t].chat = <<>>) /\ main.at # "wait"
    BY <1>2, <1>3, <2>1 DEF CalmSlot
  <2>3. Calm(slot'[t], "wait")
    BY <2>1, <2>2, NotifiedCalm
  <2> QED BY <1>1, <2>1, <2>3 DEF Notified
<1>5. ASSUME NEW t \in Slots, NEW c \in Clients
      PROVE  /\ Shown(c)' = Shown(c) /\ Relaying(c)' = Relaying(c)
             /\ ReadAt(t, c)' = ReadAt(t, c) /\ Unread(t, c)' = Unread(t, c)
  BY <1>1, <1>2, <1>4 DEF Shown, Relaying, ReadAt, Unread
<1> QED BY <1>2, <1>3, <1>4, <1>5, CalmFlow

LEMMA WaitCalm ==
    ASSUME SlotsInv, OthersInv, IsInjective(place), Wait, ~launched, \A t \in Slots : CalmSlot(t)
    PROVE  \A t \in Slots : CalmSlot(t)'
<1>1. PICK one : one = 1
  OBVIOUS
<1>2. one \in Slots /\ main' = Goto("dispatch", one)
  BY <1>1, ThreadBounds DEF Slots, Wait
<1>3. main'.at = "dispatch" /\ main'.i = one /\ main'.todo = main.todo
  BY <1>2, GotoType
<1>4. /\ slot' = slot /\ sent' = sent /\ recv' = recv /\ place' = place
      /\ \A i \in Slots : ~Awaited(slot[place[i]])
  BY DEF Wait, clientVars, At
<1>5. NotDispatched' = Slots
  BY <1>1, <1>2, <1>3, <1>4, PlacesLeft DEF NotDispatched, From
<1>6. ASSUME NEW t \in Slots, slot[t].up, ToRead(slot[t]) # {} PROVE FALSE
  <2>1. ~Awaited(slot[t])
    BY <1>4 DEF OthersInv
  <2>2. PICK e \in Unfinished(slot[t]) : e \in ToRead(slot[t]) /\ slot[t].events[e].awaited
    BY <1>6, ToReadFacts DEF CalmSlot, Calm
  <2>3. slot[t].client # Nobody /\ Connected(slot[t])
    BY <1>6 DEF SlotsInv, SlotSound, ThreadSound, Connected
  <2>4. slot[t].pc # "ended"
    BY DEF SlotsInv, SlotSound, ThreadSound
  <2> QED BY <2>1, <2>2, <2>3, <2>4 DEF Awaited
<1>7. \A c \in Clients : Shown(c)' = Shown(c) /\ Relaying(c)' = Relaying(c)
  BY <1>3, <1>4 DEF Shown, Relaying
<1> QED BY <1>4, <1>5, <1>6, <1>7, MainCalm

LEMMA DispatchCalm ==
    ASSUME SlotsInv, OthersInv, OrderInv, IsInjective(place), Dispatch,
           \A t \in Slots : CalmSlot(t)
    PROVE  \A t \in Slots : CalmSlot(t)'
<1>1. PICK s \in Slots, i \in Slots : s = place[i] /\ i = main.i
  BY DEF OthersInv
<1>2. main.at = "dispatch" /\ place' = place /\ sent' = sent /\ recv' = recv
  BY DEF Dispatch, clientVars
<1>3. NotDispatched = {s} \cup From(i + 1) /\ (i = NumSlots => From(i + 1) = {})
  BY <1>1, <1>2, PlacesLeft DEF NotDispatched
<1>4. CASE slot[s].chat = <<>>
  <2>1. slot' = slot /\ main' = NextSlot("dispatch")
    BY <1>1, <1>4 DEF Dispatch
  <2>2. /\ main'.todo = main.todo
        /\ \/ main'.at = "dispatch" /\ main'.i = i + 1
           \/ main'.at = "menu" /\ i = NumSlots
    BY <1>1, <2>1, NextSlotType
  <2>3. NotDispatched' = From(i + 1)
    BY <1>2, <1>3, <2>2 DEF NotDispatched, From
  <2>4. \A c \in Clients : Shown(c)' = Shown(c) /\ Relaying(c)' = Relaying(c)
    BY <1>2, <2>2 DEF Shown, Relaying
  <2>5. \A t \in Slots : slot[t].up /\ slot[t].chat # <<>> => t \in NotDispatched'
    BY <1>3, <1>4, <2>3 DEF CalmSlot
  <2> QED BY <1>2, <2>1, <2>4, <2>5, MainCalm
<1>5. CASE slot[s].chat # <<>>
  <2>1. slot' = [slot EXCEPT ![s].chat = <<>>] /\ main' = [main EXCEPT !.at = "relay", !.todo = slot[s].chat]
    BY <1>1, <1>5 DEF Dispatch
  <2>2. main'.at = "relay" /\ main'.i = i
    BY <1>1, <2>1 DEF OthersInv
  <2>3. NotDispatched' = From(i + 1)
    BY <1>2, <2>2 DEF NotDispatched, From
  <2>4. /\ \A t \in Slots \ {s} : slot'[t] = slot[t]
        /\ slot'[s].client = slot[s].client /\ slot'[s].up = slot[s].up /\ slot'[s].chat = <<>>
        /\ slot'[s].events = slot[s].events /\ slot'[s].pc = slot[s].pc
        /\ slot'[s].task = slot[s].task
    <3>1. slot[s] \in SlotRecord /\ slot \in [Slots -> SlotRecord]
      BY DEF SlotsInv
    <3> QED BY <2>1, <3>1 DEF SlotRecord
  <2>5. ASSUME NEW t \in Slots PROVE Calm(slot'[t], main'.at)
    <3>1. Calm(slot[t], "dispatch")
      BY <1>2 DEF CalmSlot
    <3>2. Calm(slot[t], "relay")
      BY <3>1, CalmElsewhere
    <3>3. Calm(slot[t], "relay") => Calm(slot'[t], "relay")
      BY <2>4 DEF Calm, ToRead, Unfinished
    <3> QED BY <2>2, <3>2, <3>3
  <2>6. ASSUME NEW t \in Slots, NEW c \in Clients
        PROVE  Shown(c) \cup Relaying(c) \cup ReadAt(t, c) \cup Unread(t, c)
                  \subseteq Shown(c)' \cup Relaying(c)' \cup ReadAt(t, c)' \cup Unread(t, c)'
    <3>1. slot[place[main.i]].chat # <<>>
      BY <1>1, <1>5
    <3>2. /\ Relaying(c) = {} /\ Relaying(c)' = ReadAt(s, c) /\ Shown(c)' = Shown(c)
          /\ Unread(t, c)' = Unread(t, c)
          /\ t # s => ReadAt(t, c)' = ReadAt(t, c)
      BY <1>1, <3>1, DispatchOrder
    <3> QED BY <3>2
  <2>7. \A t \in Slots : slot'[t].up /\ slot'[t].chat # <<>> => t \in NotDispatched'
    BY <1>3, <2>3, <2>4 DEF CalmSlot
  <2> QED BY <1>2, <2>4, <2>5, <2>6, <2>7, CalmFlow
<1> QED BY <1>4, <1>5

LEMMA RelayCalm ==
    ASSUME SlotsInv, OthersInv, OrderInv, Relay, \A t \in Slots : CalmSlot(t)
    PROVE  \A t \in Slots : CalmSlot(t)'
<1>1. PICK h : h = Head(main.todo)
  OBVIOUS
<1>2. /\ main.at = "relay" /\ main'.at = "relay" /\ main'.i = main.i /\ place' = place
      /\ slot' = slot /\ sent' = sent
  BY DEF Relay, OthersInv
<1>3. NotDispatched' = NotDispatched
  BY <1>2 DEF NotDispatched, From
<1>4. ASSUME NEW t \in Slots, NEW c \in Clients
      PROVE  Shown(c) \cup Relaying(c) \cup ReadAt(t, c) \cup Unread(t, c)
                \subseteq Shown(c)' \cup Relaying(c)' \cup ReadAt(t, c)' \cup Unread(t, c)'
  <2>1. /\ Shown(c)' \cup Relaying(c)' = Shown(c) \cup Relaying(c)
        /\ ReadAt(t, c)' = ReadAt(t, c) /\ Unread(t, c)' = Unread(t, c)
    BY <1>1, RelayOrder
  <2> QED BY <2>1
<1>5. \A t \in Slots : Calm(slot'[t], main'.at) /\ (slot'[t].up /\ slot'[t].chat # <<>> => t \in NotDispatched')
  BY <1>2, <1>3 DEF CalmSlot
<1> QED BY <1>2, <1>4, <1>5, CalmFlow

LEMMA RelayEndCalm ==
    ASSUME SlotsInv, OthersInv, IsInjective(place), RelayEnd, \A t \in Slots : CalmSlot(t)
    PROVE  \A t \in Slots : CalmSlot(t)'
<1>1. PICK s \in Slots, i \in Slots : s = place[i] /\ i = main.i
  BY DEF OthersInv
<1>2. /\ main.at = "relay" /\ place' = place /\ sent' = sent /\ recv' = recv
      /\ main' = NextSlot("dispatch") /\ slot' = [slot EXCEPT ![s].chat = <<>>]
  BY <1>1 DEF RelayEnd, clientVars
<1>3. NotDispatched = From(i + 1) /\ s \notin From(i + 1) /\ (i = NumSlots => From(i + 1) = {})
  BY <1>1, <1>2, PlacesLeft DEF NotDispatched
<1>4. /\ main'.todo = main.todo
      /\ \/ main'.at = "dispatch" /\ main'.i = i + 1
         \/ main'.at = "menu" /\ i = NumSlots
  BY <1>1, <1>2, NextSlotType
<1>5. NotDispatched' = From(i + 1)
  BY <1>2, <1>3, <1>4 DEF NotDispatched, From
<1>6. /\ \A t \in Slots \ {s} : slot'[t] = slot[t]
      /\ slot'[s].client = slot[s].client /\ slot'[s].up = slot[s].up /\ slot'[s].chat = <<>>
      /\ slot'[s].events = slot[s].events /\ slot'[s].pc = slot[s].pc
      /\ slot'[s].task = slot[s].task /\ slot'[s].inq = slot[s].inq
  <2>1. slot[s] \in SlotRecord /\ slot \in [Slots -> SlotRecord]
    BY DEF SlotsInv
  <2> QED BY <1>2, <2>1 DEF SlotRecord
<1>7. slot[s].up => slot[s].chat = <<>>
  BY <1>3 DEF CalmSlot
<1>8. ASSUME NEW t \in Slots PROVE Calm(slot'[t], main'.at)
  <2>1. Calm(slot[t], "relay")
    BY <1>2 DEF CalmSlot
  <2>2. Calm(slot[t], main'.at)
    BY <2>1, CalmElsewhere
  <2>3. Calm(slot[t], main'.at) => Calm(slot'[t], main'.at)
    BY <1>6 DEF Calm, ToRead, Unfinished
  <2> QED BY <2>2, <2>3
<1>9. ASSUME NEW t \in Slots, NEW c \in Clients, slot[t].up
      PROVE  /\ Shown(c)' = Shown(c) /\ Relaying(c)' = Relaying(c)
             /\ ReadAt(t, c)' = ReadAt(t, c) /\ Unread(t, c)' = Unread(t, c)
  BY <1>2, <1>4, <1>6, <1>7, <1>9 DEF Shown, Relaying, ReadAt, Unread
<1>10. \A t \in Slots : slot'[t].up /\ slot'[t].chat # <<>> => t \in NotDispatched'
  BY <1>3, <1>5, <1>6 DEF CalmSlot
<1> QED BY <1>2, <1>6, <1>8, <1>9, <1>10, CalmFlow

\* No slot is at two indexes.
LEMMA PlacesSwitched ==
    ASSUME OthersInv, IsInjective(place), NEW i \in Slots, SwitchSlot(i)
    PROVE  IsInjective(place)'
<1>1. PICK to \in Slots : to = request[i]
  BY DEF SwitchSlot, OthersInv
<1>2. place \in [Slots -> Slots]
  BY DEF OthersInv
<1>3. CASE place' = place
  BY <1>3
<1>4. CASE place' = [place EXCEPT ![i] = place[to], ![to] = place[i]] /\ to # i
  <2>1. /\ place' \in [Slots -> Slots] /\ place'[i] = place[to] /\ place'[to] = place[i]
        /\ \A j \in Slots \ {i, to} : place'[j] = place[j]
    BY <1>2, <1>4
  <2>2. \A a, b \in Slots : place[a] = place[b] => a = b
    BY <1>2 DEF IsInjective
  <2>3. \A a, b \in Slots : place'[a] = place'[b] => a = b
    BY <1>4, <2>1, <2>2
  <2> QED BY <2>1, <2>3 DEF IsInjective
<1> QED BY <1>1, <1>3, <1>4 DEF SwitchSlot

LEMMA KnockersSilent ==
    ASSUME SlotsInv, OthersInv, \A c \in knocking : sent[c] = 0, [Next]_vars
    PROVE  \A c \in knocking' : sent'[c] = 0
<1>1. ASSUME NEW s \in Slots, SendText(s) PROVE \A c \in knocking' : sent'[c] = 0
  BY <1>1 DEF SendText, SlotsInv, OthersInv
<1>2. ASSUME NEW s \in Slots, Wake(s) PROVE knocking' \subseteq knocking /\ sent' = sent
  <2>1. knocking' \subseteq knocking
    BY <1>2, WakeStep DEF Rested, UpdateOutcome, Seated
  <2> QED BY <1>2, <2>1 DEF Wake
<1>3. ASSUME NEW s \in Slots, Poll(s) PROVE knocking' \subseteq knocking /\ sent' = sent
  <2>1. knocking' \subseteq knocking
    BY <1>3, PollStep DEF UpdateOutcome, Seated
  <2> QED BY <1>3, <2>1 DEF Poll
<1>4. \/ \E s \in Slots : SendText(s) \/ Wake(s) \/ Poll(s)
      \/ knocking' = knocking /\ sent' = sent
  BY DEF Next, ThreadNext, UpdateNext, SendOther, Leave, Read, EndBroadcast, Finish, SwitchSlot,
         ProcessQueue, SignalSlots, Wait, Dispatch, Relay, RelayEnd, StartSlot, Timeout,
         LaunchGame, clientVars, vars
<1> QED BY <1>1, <1>2, <1>3, <1>4

LEMMA UndisturbedBefore ==
    ASSUME OthersInv, [Next]_vars, Undisturbed'
    PROVE  Undisturbed /\ ~Timeout /\ ~LaunchGame /\ ~launched
<1>1. timeouts' = timeouts \/ timeouts' = timeouts + 1
  BY DEF Next, ThreadNext, UpdateNext, SendText, SendOther, Leave, Wake, Poll, Read,
         EndBroadcast, Finish, SwitchSlot, ProcessQueue, SignalSlots, Wait, Dispatch, Relay,
         RelayEnd, StartSlot, Timeout, LaunchGame, clientVars, vars
<1>2. launched' = launched \/ LaunchGame
  BY DEF Next, ThreadNext, UpdateNext, SendText, SendOther, Leave, Wake, Poll, Read,
         EndBroadcast, Finish, SwitchSlot, ProcessQueue, SignalSlots, Wait, Dispatch, Relay,
         RelayEnd, StartSlot, Timeout, clientVars, vars
<1>3. timeouts \in Nat
  BY ThreadBounds DEF OthersInv
<1>4. timeouts' = 0 /\ ~launched'
  BY DEF Undisturbed
<1>5. ~LaunchGame
  BY <1>4 DEF LaunchGame
<1>6. ~Timeout
  BY <1>3, <1>4 DEF Timeout
<1>7. timeouts = 0
  BY <1>1, <1>3, <1>4
<1> QED BY <1>2, <1>4, <1>5, <1>6, <1>7 DEF Undisturbed

LEMMA CalmNext ==
    ASSUME SlotsInv, OthersInv, OrderInv, CalmInv, [Next]_vars
    PROVE  CalmInv'
<1>1. IsInjective(place) /\ \A c \in knocking : sent[c] = 0
  BY DEF CalmInv
<1>2. IsInjective(place)'
  <2>1. (\E i \in Slots : SwitchSlot(i)) \/ place' = place
    BY DEF Next, ThreadNext, UpdateNext, SendText, SendOther, Leave, Wake, Poll, Read,
           EndBroadcast, Finish, ProcessQueue, SignalSlots, Wait, Dispatch, Relay, RelayEnd,
           StartSlot, Timeout, LaunchGame, clientVars, vars
  <2> QED BY <1>1, <2>1, PlacesSwitched
<1>3. \A c \in knocking' : sent'[c] = 0
  BY <1>1, KnockersSilent
<1>4. ASSUME Undisturbed' PROVE \A t \in Slots : CalmSlot(t)'
  <2>1. Undisturbed /\ ~Timeout /\ ~LaunchGame /\ ~launched
    BY <1>4, UndisturbedBefore
  <2>2. \A t \in Slots : CalmSlot(t)
    BY <2>1 DEF CalmInv
  <2>3. ASSUME NEW s \in Slots, SendText(s) \/ SendOther(s) \/ Leave(s) \/ Wake(s) \/ Read(s)
        PROVE  \A t \in Slots : CalmSlot(t)'
    BY <1>1, <2>2, <2>3, SendCalm, LeaveCalm, WakeCalm, ReadCalm
  <2>4. ASSUME NEW s \in Slots, EndBroadcast(s) \/ Finish(s) PROVE \A t \in Slots : CalmSlot(t)'
    <3>1. /\ slot' = [slot EXCEPT ![s] = Done(@)] /\ knocking' = knocking /\ launched' = launched
          /\ main' = main /\ place' = place /\ sent' = sent /\ recv' = recv
          /\ slot[s].pc \in {"waiting", "reading", "setup"}
      BY <2>4 DEF EndBroadcast, Finish, clientVars
    <3>2. Rested(s, Done(slot[s]))
      BY <3>1, EndOfTask
    <3>3. PICK q : Rested(s, q)
      BY <3>2
    <3> QED BY <2>2, <3>1, <3>3, RestedCalmStep
  <2>5. ASSUME NEW s \in Slots, Poll(s) PROVE FALSE
    BY <2>1, <2>5, PollStep
  <2>6. ASSUME NEW i \in Slots, SwitchSlot(i) PROVE \A t \in Slots : CalmSlot(t)'
    <3>1. main' = main /\ slot' = slot /\ sent' = sent /\ recv' = recv /\ main.at = "menu"
      BY <2>6 DEF SwitchSlot, clientVars
    <3>2. NotDispatched = {}
      BY <3>1 DEF NotDispatched
    <3>3. \A t \in Slots : slot[t].up => slot[t].chat = <<>>
      BY <2>2, <3>2 DEF CalmSlot
    <3>4. \A c \in Clients : Shown(c)' = Shown(c) /\ Relaying(c)' = Relaying(c)
      BY <3>1 DEF Shown, Relaying
    <3> QED BY <2>2, <3>1, <3>3, <3>4, MainCalm
  <2>7. ~StartSlot
    BY <2>1 DEF StartSlot, OthersInv
  <2>8. ASSUME UpdateNext PROVE \A t \in Slots : CalmSlot(t)'
    BY <1>1, <2>1, <2>2, <2>7, <2>8, ProcessQueueCalm, SignalSlotsCalm, WaitCalm, DispatchCalm,
       RelayCalm, RelayEndCalm DEF UpdateNext
  <2>9. ASSUME UNCHANGED vars PROVE \A t \in Slots : CalmSlot(t)'
    <3>1. main' = main /\ slot' = slot /\ sent' = sent /\ recv' = recv /\ place' = place
      BY <2>9 DEF vars
    <3>2. \A c \in Clients : Shown(c)' = Shown(c) /\ Relaying(c)' = Relaying(c)
      BY <3>1 DEF Shown, Relaying
    <3>3. NotDispatched' = NotDispatched
      BY <3>1 DEF NotDispatched, From
    <3> QED BY <2>2, <3>1, <3>2, <3>3, MainCalm DEF CalmSlot
  <2> QED BY <2>1, <2>3, <2>4, <2>5, <2>6, <2>8, <2>9 DEF Next, ThreadNext
<1> QED BY <1>2, <1>3, <1>4 DEF CalmInv

LEMMA CalmInit == Init => CalmInv
<1> SUFFICES ASSUME Init PROVE CalmInv
  OBVIOUS
<1>1. IsInjective(place) /\ \A c \in knocking : sent[c] = 0
  BY ThreadBounds DEF Init, IsInjective
<1>2. ASSUME NEW s \in Slots PROVE CalmSlot(s)
  <2>1. PICK c \in Clients \cup {Nobody} : slot[s] = Vacant(c)
    BY InitSlots, ThreadBounds
  <2>2. /\ slot[s].client = c /\ slot[s].up = (c # Nobody) /\ slot[s].pc = "waiting"
        /\ slot[s].chat = <<>> /\ slot[s].events = <<>>
    BY <2>1 DEF Vacant
  <2>3. ToRead(slot[s]) = {}
    BY <2>2 DEF ToRead, Unfinished
  <2>4. slot[s].up => 1 .. sent[c] = {}
    <3>1. slot[s].up => sent[c] = 0
      BY <2>2 DEF Init
    <3>2. 1 .. 0 = {}
      OBVIOUS
    <3> QED BY <3>1, <3>2
  <2>5. Calm(slot[s], main.at)
    BY <2>2, <2>3 DEF Calm
  <2>6. slot[s].up => Complete(s)
    BY <2>2, <2>4 DEF Complete
  <2> QED BY <2>2, <2>5, <2>6 DEF CalmSlot
<1> QED BY <1>1, <1>2 DEF CalmInv

LEMMA CalmInvAlways == Spec => [](TextsInv /\ CalmInv)
<1>1. TextsInv /\ CalmInv /\ [Next]_vars => CalmInv'
  BY CalmNext, ThreadInvParts DEF TextsInv
<1> QED BY <1>1, CalmInit, TextsInvAlways, PTL DEF Spec

\* What a slot's client has sent is shown at the server, being relayed, read and unread,
\* in that order, as long as no wait times out and the match is not launched.
LEMMA TextsInLine ==
    ASSUME SlotsInv, OthersInv, OrderInv, CalmInv
    PROVE  TextsRelayed
<1> SUFFICES ASSUME Undisturbed, NEW s \in Slots, slot[s].up, NEW c \in Clients,
                    c = slot[s].client
             PROVE  InOrder(Pipeline(s), c) /\ Numbers(Pipeline(s), c) = 1 .. sent[c]
  BY DEF TextsRelayed, SlotsInv, SlotSound, ThreadSound, SlotRecord
<1>1. PICK a, b, d, e, todo : /\ a = recv[Server] /\ d = slot[s].chat /\ e = slot[s].inq
                              /\ todo = main.todo
                              /\ b = IF main.at = "relay" THEN main.todo ELSE <<>>
  OBVIOUS
<1>2. b = todo
  BY <1>1 DEF OrderInv
<1>3. a \in Seq(Messages) /\ b \in Seq(Messages) /\ d \in Seq(Messages) /\ e \in Seq(Messages)
  <2>1. a \in Seq(Texts) /\ todo \in Seq(Texts) /\ d \in Seq(Texts) /\ e \in Seq(Messages)
    BY <1>1 DEF OthersInv, SlotsInv, SlotRecord
  <2>2. Texts \subseteq Messages
    BY DEF Messages
  <2> HIDE DEF Messages
  <2>3. \A q \in Seq(Texts) : q \in Seq(Messages)
    BY <2>2
  <2> QED BY <1>2, <2>1, <2>3
<1>4. /\ Numbers(a, c) = Shown(c) /\ Numbers(b, c) = Relaying(c)
      /\ Numbers(d, c) = ReadAt(s, c) /\ Numbers(e, c) = Unread(s, c)
  BY <1>1, <1>2 DEF Shown, Relaying, ReadAt, Unread
<1>5. /\ InOrder(a, c) /\ InOrder(b, c) /\ InOrder(d, c) /\ InOrder(e, c)
      /\ Before(Numbers(a, c), Numbers(b, c)) /\ Before(Numbers(d, c), Numbers(e, c))
      /\ Before(Numbers(a, c) \cup Numbers(b, c), Numbers(d, c) \cup Numbers(e, c))
      /\ Numbers(a, c) \cup Numbers(b, c) \cup Numbers(d, c) \cup Numbers(e, c) \subseteq 1 .. sent[c]
  <2>1. InLine(s, c)
    BY DEF OrderInv
  <2>2. /\ InOrder(d, c) /\ InOrder(e, c) /\ Before(Numbers(d, c), Numbers(e, c))
        /\ Before(Numbers(a, c) \cup Numbers(b, c), Numbers(d, c) \cup Numbers(e, c))
        /\ Numbers(d, c) \cup Numbers(e, c) \subseteq 1 .. sent[c]
    BY <1>1, <1>4, <2>1 DEF InLine
  <2>3. /\ InOrder(recv[Server], c) /\ InOrder(main.todo, c) /\ Before(Shown(c), Relaying(c))
        /\ Shown(c) \cup Relaying(c) \subseteq 1 .. sent[c]
    BY DEF OrderInv
  <2>4. /\ InOrder(a, c) /\ InOrder(b, c) /\ Before(Numbers(a, c), Numbers(b, c))
        /\ Numbers(a, c) \cup Numbers(b, c) \subseteq 1 .. sent[c]
    BY <1>1, <1>2, <1>4, <2>3
  <2> QED BY <2>2, <2>4
<1>6. ASSUME NEW A, NEW B, NEW D, NEW E, Before(A, B), Before(D, E), Before(A \cup B, D \cup E)
      PROVE  Before(A \cup B, D) /\ Before((A \cup B) \cup D, E)
  BY <1>6 DEF Before
<1>7. Before(Numbers(a, c) \cup Numbers(b, c), Numbers(d, c))
      /\ Before((Numbers(a, c) \cup Numbers(b, c)) \cup Numbers(d, c), Numbers(e, c))
  <2>1. PICK A, B, D, E : /\ A = Numbers(a, c) /\ B = Numbers(b, c)
                          /\ D = Numbers(d, c) /\ E = Numbers(e, c)
    OBVIOUS
  <2>2. Before(A, B) /\ Before(D, E) /\ Before(A \cup B, D \cup E)
    BY <1>5, <2>1
  <2>3. Before(A \cup B, D) /\ Before((A \cup B) \cup D, E)
    BY <1>6, <2>2
  <2> QED BY <2>1, <2>3
<1>8. PICK f : f = a \o b
  OBVIOUS
<1>9. f \in Seq(Messages) /\ Numbers(f, c) = Numbers(a, c) \cup Numbers(b, c) /\ InOrder(f, c)
  <2>1. f \in Seq(Messages)
    BY <1>3, <1>8
  <2>2. Numbers(a \o b, c) = Numbers(a, c) \cup Numbers(b, c) /\ InOrder(a \o b, c)
    BY <1>3, <1>5, NumbersConcat
  <2> QED BY <1>8, <2>1, <2>2
<1>10. PICK g : g = f \o d
  OBVIOUS
<1>11. /\ g \in Seq(Messages) /\ InOrder(g, c)
       /\ Numbers(g, c) = (Numbers(a, c) \cup Numbers(b, c)) \cup Numbers(d, c)
  <2>1. g \in Seq(Messages)
    BY <1>3, <1>9, <1>10
  <2>2. Before(Numbers(f, c), Numbers(d, c))
    BY <1>7, <1>9
  <2>3. Numbers(f \o d, c) = Numbers(f, c) \cup Numbers(d, c) /\ InOrder(f \o d, c)
    <3>1. f \in Seq(Messages) /\ d \in Seq(Messages) /\ InOrder(f, c) /\ InOrder(d, c)
      BY <1>3, <1>5, <1>9
    <3> QED BY <2>2, <3>1, NumbersConcat
  <2> QED BY <1>9, <1>10, <2>1, <2>3
<1>12. Numbers(g \o e, c) = Numbers(g, c) \cup Numbers(e, c) /\ InOrder(g \o e, c)
  <2>1. Before(Numbers(g, c), Numbers(e, c))
    BY <1>7, <1>11
  <2>2. g \in Seq(Messages) /\ e \in Seq(Messages) /\ InOrder(g, c) /\ InOrder(e, c)
    BY <1>3, <1>5, <1>11
  <2> QED BY <2>1, <2>2, NumbersConcat
<1>13. Pipeline(s) = g \o e
  BY <1>1, <1>8, <1>10 DEF Pipeline
<1>14. 1 .. sent[c] \subseteq Shown(c) \cup Relaying(c) \cup ReadAt(s, c) \cup Unread(s, c)
  BY DEF CalmInv, CalmSlot, Complete
<1>15. Numbers(g \o e, c) = 1 .. sent[c]
  BY <1>4, <1>5, <1>11, <1>12, <1>14
<1> QED BY <1>12, <1>13, <1>15

\* In a lobby whose waits do not time out no text is lost, shown twice or out of order,
\* whatever the threads, the relaying, the exchange of slots and clients that leave do
\* meanwhile.
THEOREM NoTextLost == Spec => []TextsRelayed
<1>1. TextsInv /\ CalmInv => TextsRelayed
  BY TextsInLine, ThreadInvParts DEF TextsInv
<1> QED BY <1>1, CalmInvAlways, PTL
-----------------------------------------------------------------------------
(* Everybody is shown the same.                                            *)

\* What the client of a slot and the main thread leave alone.
LEMMA ClientsLeave ==
    ASSUME SlotsInv, NEW s \in Slots, SendText(s) \/ SendOther(s) \/ Leave(s), NEW t \in Slots
    PROVE  /\ slot'[t].client = slot[t].client /\ slot'[t].pc = slot[t].pc
           /\ slot'[t].chat = slot[t].chat /\ (slot'[t].up => slot[t].up)
<1>1. slot \in [Slots -> SlotRecord] /\ slot[s] \in SlotRecord
  BY DEF SlotsInv
<1>2. CASE SendText(s) \/ SendOther(s)
  <2>1. PICK inq : slot' = [slot EXCEPT ![s] = [slot[s] EXCEPT !.inq = inq]]
    BY <1>1, <1>2 DEF SendText, SendOther
  <2>2. PICK q : q = [slot[s] EXCEPT !.inq = inq]
    OBVIOUS
  <2>3. q.client = slot[s].client /\ q.pc = slot[s].pc /\ q.chat = slot[s].chat /\ q.up = slot[s].up
    BY <1>1, <2>2 DEF SlotRecord
  <2>4. slot'[t] = IF t = s THEN q ELSE slot[t]
    BY <1>1, <2>1, <2>2
  <2> QED BY <2>3, <2>4
<1>3. CASE Leave(s)
  <2>1. PICK q : q = [slot[s] EXCEPT !.up = FALSE]
    OBVIOUS
  <2>2. q.client = slot[s].client /\ q.pc = slot[s].pc /\ q.chat = slot[s].chat /\ q.up = FALSE
    BY <1>1, <2>1 DEF SlotRecord
  <2>3. slot'[t] = IF t = s THEN q ELSE slot[t]
    BY <1>1, <1>3, <2>1 DEF Leave
  <2> QED BY <2>2, <2>3
<1> QED BY <1>2, <1>3

LEMMA MainLeaves ==
    ASSUME SlotsInv, OthersInv, Dispatch \/ RelayEnd \/ StartSlot \/ SignalSlots, NEW t \in Slots
    PROVE  /\ slot'[t].client = slot[t].client /\ slot'[t].pc = slot[t].pc
           /\ slot'[t].chat \in {slot[t].chat, <<>>} /\ slot'[t].up = slot[t].up
<1>1. slot \in [Slots -> SlotRecord] /\ slot[t] \in SlotRecord
  BY DEF SlotsInv
<1>2. CASE Dispatch \/ RelayEnd
  <2>1. slot' = slot \/ \E s \in Slots : slot' = [slot EXCEPT ![s].chat = <<>>]
    BY <1>2 DEF Dispatch, RelayEnd, OthersInv
  <2>2. PICK q : q = [slot[t] EXCEPT !.chat = <<>>]
    OBVIOUS
  <2>3. q.client = slot[t].client /\ q.pc = slot[t].pc /\ q.chat = <<>> /\ q.up = slot[t].up
    BY <1>1, <2>2 DEF SlotRecord
  <2>4. slot'[t] = slot[t] \/ slot'[t] = q
    BY <1>1, <2>1, <2>2
  <2> QED BY <2>3, <2>4
<1>3. CASE StartSlot
  <2>1. PICK s \in Slots : s = place[main.i]
    BY DEF OthersInv
  <2>2. CASE ~Connected(slot[s])
    BY <1>3, <2>1, <2>2 DEF StartSlot
  <2>3. CASE Connected(slot[s])
    <3>1. PICK k : k = slot[s].signals + 1
      OBVIOUS
    <3>2. PICK q : q = [slot[s] EXCEPT !.inq = <<>>, !.started = TRUE, !.signals = k]
      OBVIOUS
    <3>3. slot' = [slot EXCEPT ![s] = q] /\ slot[s] \in SlotRecord
      BY <1>1, <1>3, <2>1, <2>3, <3>1, <3>2 DEF StartSlot, SlotsInv
    <3>4. q.client = slot[s].client /\ q.pc = slot[s].pc /\ q.chat = slot[s].chat /\ q.up = slot[s].up
      BY <3>2, <3>3 DEF SlotRecord
    <3>5. slot'[t] = IF t = s THEN q ELSE slot[t]
      BY <1>1, <3>3
    <3> QED BY <3>4, <3>5
  <2> QED BY <2>2, <2>3
<1>4. CASE SignalSlots
  <2>1. slot' = slot \/ Notified(slot[t], slot'[t])
    BY <1>4, SignalSlotsStep
  <2> QED BY <2>1 DEF Notified
<1> QED BY <1>2, <1>3, <1>4

LEMMA BroadcastHeld ==
    ASSUME SlotsInv, OthersInv, inBroadcast => \E s \in Slots : slot[s].pc = "setup", [Next]_vars
    PROVE  inBroadcast' => \E s \in Slots : slot'[s].pc = "setup"
<1> SUFFICES ASSUME inBroadcast' PROVE \E s \in Slots : slot'[s].pc = "setup"
  OBVIOUS
<1>0. slot \in [Slots -> SlotRecord]
  BY DEF SlotsInv
<1>1. ASSUME NEW s \in Slots, Read(s) PROVE \E t \in Slots : slot'[t].pc = "setup"
  <2>1. PICK q : Taken(s, q)
    BY <1>1, ReadStep
  <2>2. slot' = [slot EXCEPT ![s] = q] /\ slot[s].pc = "reading"
    BY <2>1 DEF Taken
  <2>3. CASE Head(slot[s].inq).kind = "setup"
    <3>1. slot'[s].pc = "setup"
      BY <1>0, <2>1, <2>2, <2>3 DEF Taken
    <3> QED BY <3>1
  <2>4. CASE Head(slot[s].inq).kind # "setup"
    <3>1. PICK t \in Slots : slot[t].pc = "setup"
      BY <1>1, <2>4 DEF Read
    <3>2. t # s /\ slot'[t] = slot[t]
      BY <1>0, <2>2, <3>1
    <3> QED BY <3>1, <3>2
  <2> QED BY <2>3, <2>4
<1>2. ASSUME ~\E s \in Slots : Read(s) PROVE \E t \in Slots : slot'[t].pc = "setup"
  <2>1. inBroadcast /\ ~\E s \in Slots : EndBroadcast(s)
    BY <1>2 DEF Next, ThreadNext, UpdateNext, SendText, SendOther, Leave, Wake, Poll,
           EndBroadcast, Finish, SwitchSlot, ProcessQueue, SignalSlots, Wait, Dispatch, Relay,
           RelayEnd, StartSlot, Timeout, LaunchGame, clientVars, vars
  <2>2. PICK t \in Slots : slot[t].pc = "setup"
    BY <2>1
  <2>3. slot'[t].pc = "setup"
    <3>1. ASSUME NEW s \in Slots, SendText(s) \/ SendOther(s) \/ Leave(s)
          PROVE  slot'[t].pc = slot[t].pc
      BY <3>1, ClientsLeave
    <3>2. ASSUME NEW s \in Slots, Wake(s) PROVE slot'[t] = slot[t]
      <4>1. slot[s].pc = "waiting" /\ \E q : slot' = [slot EXCEPT ![s] = q]
        BY <3>2, WakeStep DEF Rested, UpdateOutcome
      <4> QED BY <1>0, <2>2, <4>1
    <3>3. ASSUME NEW s \in Slots, Poll(s) PROVE slot'[t] = slot[t]
      <4>1. slot[s].pc = "polling" /\ \E q : slot' = [slot EXCEPT ![s] = q]
        BY <3>3, PollStep DEF Poll, UpdateOutcome
      <4> QED BY <1>0, <2>2, <4>1
    <3>4. ASSUME NEW s \in Slots, Finish(s) PROVE slot'[t] = slot[t]
      BY <1>0, <2>2, <3>4 DEF Finish
    <3>5. ASSUME SignalSlots \/ Dispatch \/ RelayEnd \/ StartSlot PROVE slot'[t].pc = slot[t].pc
      BY <3>5, MainLeaves
    <3>6. \/ \E s \in Slots : SendText(s) \/ SendOther(s) \/ Leave(s) \/ Wake(s) \/ Poll(s) \/ Finish(s)
          \/ SignalSlots \/ Dispatch \/ RelayEnd \/ StartSlot \/ slot' = slot
      BY <1>2, <2>1 DEF Next, ThreadNext, UpdateNext, SwitchSlot, ProcessQueue, Wait, Relay,
             Timeout, LaunchGame, clientVars, vars
    <3> QED BY <2>2, <3>1, <3>2, <3>3, <3>4, <3>5, <3>6
  <2> QED BY <2>3
<1> QED BY <1>1, <1>2

\* A client that is in no slot is shown nothing.
LEMMA BroadcastOutside ==
    ASSUME NEW text, NEW exclude, NEW rest, NEW shown, Broadcast(text, exclude, rest, shown),
           OthersInv, NEW d \in Clients, \A i \in Slots : At(i).client # d, shown[d] = recv[d]
    PROVE  recv'[d] = recv[d]
<1>1. d \in DOMAIN recv /\ d # Server
  BY ThreadBounds DEF OthersInv
<1>2. Relayed(text, exclude)[d] = recv[d]
  BY <1>1 DEF Relayed
<1> QED BY <1>1, <1>2 DEF Broadcast

LEMMA KnockersNew ==
    ASSUME SlotsInv, OthersInv, \A d \in knocking : recv[d] = <<>> /\ d \notin Early, [Next]_vars
    PROVE  \A d \in knocking' : recv'[d] = <<>> /\ d \notin Early
<1>1. knocking' \subseteq knocking
  <2>1. ASSUME NEW s \in Slots, Wake(s) PROVE knocking' \subseteq knocking
    BY <2>1, WakeStep DEF Rested, UpdateOutcome, Seated
  <2>2. ASSUME NEW s \in Slots, Poll(s) PROVE knocking' \subseteq knocking
    BY <2>2, PollStep DEF UpdateOutcome, Seated
  <2>3. (\E s \in Slots : Wake(s) \/ Poll(s)) \/ knocking' = knocking
    BY DEF Next, ThreadNext, UpdateNext, SendText, SendOther, Leave, Read, EndBroadcast, Finish,
           SwitchSlot, ProcessQueue, SignalSlots, Wait, Dispatch, Relay, RelayEnd, StartSlot,
           Timeout, LaunchGame, clientVars, vars
  <2> QED BY <2>1, <2>2, <2>3
<1>2. ASSUME NEW d \in knocking PROVE recv'[d] = recv[d]
  <2>1. d \in Clients /\ \A i \in Slots : At(i).client # d
    BY DEF SlotsInv, OthersInv, At
  <2>2. CASE ProcessQueue
    <3>1. Broadcast(Head(queue).text, Head(queue).exclude, Tail(queue), recv)
      BY <2>2 DEF ProcessQueue
    <3> QED BY <2>1, <3>1, BroadcastOutside
  <2>3. CASE Relay
    <3>1. PICK shown : shown = [recv EXCEPT ![Server] = Append(@, Head(main.todo))]
      OBVIOUS
    <3>2. Broadcast(Head(main.todo), main.i, queue, shown)
      BY <2>3, <3>1 DEF Relay
    <3>3. shown[d] = recv[d]
      BY <2>1, <3>1, ThreadBounds DEF OthersInv
    <3> QED BY <2>1, <3>2, <3>3, BroadcastOutside
  <2>4. \/ ProcessQueue \/ Relay
        \/ recv' = recv
    BY DEF Next, ThreadNext, UpdateNext, SendText, SendOther, Leave, Wake, Poll, Read, EndBroadcast,
           Finish, SwitchSlot, SignalSlots, Wait, Dispatch, RelayEnd, StartSlot, Timeout, LaunchGame,
           clientVars, vars
  <2> QED BY <2>2, <2>3, <2>4
<1> QED BY <1>1, <1>2

\* In the lobby a slot keeps its client, gets one that knocked, or loses it for good.
LEMMA ClientsStay ==
    ASSUME SlotsInv, OthersInv, ~launched, [Next]_vars
    PROVE  /\ knocking' \subseteq knocking
           /\ \A t \in Slots :
                 \/ slot'[t].client = slot[t].client /\ (slot'[t].up => slot[t].up)
                 \/ slot'[t].client \in knocking /\ slot[t].client = Nobody
                 \/ slot'[t].client = Nobody /\ ~slot'[t].up
<1>0. slot \in [Slots -> SlotRecord]
  BY DEF SlotsInv
<1> DEFINE Stays(t) ==
              \/ slot'[t].client = slot[t].client /\ (slot'[t].up => slot[t].up)
              \/ slot'[t].client \in knocking /\ slot[t].client = Nobody
              \/ slot'[t].client = Nobody /\ ~slot'[t].up
<1>1. ASSUME NEW s \in Slots, SendText(s) \/ SendOther(s) \/ Leave(s)
      PROVE  knocking' = knocking /\ \A t \in Slots : Stays(t)
  <2>1. knocking' = knocking
    BY <1>1 DEF SendText, SendOther, Leave
  <2> QED BY <1>1, <2>1, ClientsLeave
<1>2. ASSUME NEW s \in Slots, NEW q, Rested(s, q) PROVE knocking' = knocking /\ \A t \in Slots : Stays(t)
  <2>1. slot' = [slot EXCEPT ![s] = q] /\ q.client = slot[s].client /\ q.up = slot[s].up
        /\ knocking' = knocking
    BY <1>2 DEF Rested
  <2>2. \A t \in Slots : slot'[t] = IF t = s THEN q ELSE slot[t]
    BY <1>0, <2>1
  <2> QED BY <2>1, <2>2
<1>3. ASSUME NEW s \in Slots, Wake(s) PROVE knocking' \subseteq knocking /\ \A t \in Slots : Stays(t)
  <2>1. ASSUME NEW b, NEW q, BusyWith(s, b), UpdateOutcome(s, b, q)
        PROVE  knocking' \subseteq knocking /\ \A t \in Slots : Stays(t)
    <3>1. /\ slot' = [slot EXCEPT ![s] = q] /\ Seated(s, slot[s].client, q.client)
          /\ \/ q.client \in knocking /\ slot[s].client = Nobody
             \/ q.client = Nobody /\ ~q.up
             \/ q.client = slot[s].client /\ q.up = slot[s].up
      BY <2>1 DEF UpdateOutcome, BusyWith
    <3>2. \A t \in Slots : slot'[t] = IF t = s THEN q ELSE slot[t]
      BY <1>0, <3>1
    <3>3. knocking' \subseteq knocking
      BY <3>1 DEF Seated
    <3> QED BY <3>1, <3>2, <3>3
  <2> QED BY <1>2, <1>3, <2>1, WakeStep
<1>4. ASSUME NEW s \in Slots, Read(s) PROVE knocking' = knocking /\ \A t \in Slots : Stays(t)
  <2>1. PICK q : Taken(s, q)
    BY <1>4, ReadStep
  <2>2. slot' = [slot EXCEPT ![s] = q] /\ q.client = slot[s].client /\ q.up = slot[s].up
        /\ knocking' = knocking
    BY <1>4, <2>1 DEF Taken, Read, clientVars
  <2>3. \A t \in Slots : slot'[t] = IF t = s THEN q ELSE slot[t]
    BY <1>0, <2>2
  <2> QED BY <2>2, <2>3
<1>5. ASSUME NEW s \in Slots, EndBroadcast(s) \/ Finish(s)
      PROVE  knocking' = knocking /\ \A t \in Slots : Stays(t)
  <2>1. slot' = [slot EXCEPT ![s] = Done(@)] /\ knocking' = knocking /\ launched' = launched
    BY <1>5 DEF EndBroadcast, Finish, clientVars
  <2>2. PICK q : Rested(s, q)
    BY <2>1, EndOfTask
  <2> QED BY <1>2, <2>2
<1>6. ASSUME Dispatch \/ RelayEnd \/ SignalSlots PROVE knocking' = knocking /\ \A t \in Slots : Stays(t)
  <2>1. knocking' = knocking
    BY <1>6 DEF Dispatch, RelayEnd, SignalSlots, clientVars
  <2> QED BY <1>6, <2>1, MainLeaves
<1>7. ASSUME NEW s \in Slots, Poll(s) PROVE FALSE
  BY <1>7, PollStep
<1>8. ~StartSlot
  BY DEF StartSlot, OthersInv
<1>9. \/ \E s \in Slots : SendText(s) \/ SendOther(s) \/ Leave(s) \/ Wake(s) \/ Read(s)
                          \/ EndBroadcast(s) \/ Finish(s)
      \/ Dispatch \/ RelayEnd \/ SignalSlots
      \/ slot' = slot /\ knocking' = knocking
  BY <1>7, <1>8 DEF Next, ThreadNext, UpdateNext, SwitchSlot, ProcessQueue, Wait, Relay, Timeout,
         LaunchGame, clientVars, vars
<1> QED BY <1>1, <1>3, <1>4, <1>5, <1>6, <1>9

\* If nobody has left after a step, nobody had before, and every slot keeps its client.
LEMMA NobodyLeftBefore ==
    ASSUME SlotsInv, OthersInv, ~launched, [Next]_vars, NobodyLeft'
    PROVE  /\ NobodyLeft /\ \A t \in Slots : slot[t].client # Nobody => slot[t].up
           /\ \A t \in Slots : \/ slot'[t].client = slot[t].client /\ (slot'[t].up => slot[t].up)
                               \/ slot'[t].client \in knocking /\ slot[t].client = Nobody
<1>1. /\ knocking' \subseteq knocking
      /\ \A t \in Slots :
             \/ slot'[t].client = slot[t].client /\ (slot'[t].up => slot[t].up)
             \/ slot'[t].client \in knocking /\ slot[t].client = Nobody
             \/ slot'[t].client = Nobody /\ ~slot'[t].up
  BY ClientsStay
<1>2. Nobody \notin Clients /\ knocking \subseteq Clients /\ \A t \in Slots : slot[t] \in SlotRecord
  BY ThreadBounds DEF SlotsInv
<1>3. ASSUME NEW c \in Clients, c \notin knocking PROVE \E t \in Slots : slot[t].client = c /\ slot[t].up
  <2>1. PICK t \in Slots : slot'[t].client = c /\ slot'[t].up
    BY <1>1, <1>3 DEF NobodyLeft
  <2>2. slot[t].client = c /\ slot[t].up
    BY <1>1, <1>2, <1>3, <2>1
  <2> QED BY <2>2
<1>4. NobodyLeft
  BY <1>3 DEF NobodyLeft
<1>5. ASSUME NEW t \in Slots, slot[t].client # Nobody PROVE slot[t].up
  <2>1. slot[t].client \in Clients /\ slot[t].client \notin knocking
    BY <1>2, <1>5 DEF SlotsInv, SlotRecord
  <2>2. PICK u \in Slots : slot[u].client = slot[t].client /\ slot[u].up
    BY <1>3, <2>1
  <2>3. u = t
    BY <1>5, <2>2 DEF SlotsInv
  <2> QED BY <2>2, <2>3
<1>6. ASSUME NEW t \in Slots, slot'[t].client = Nobody, slot[t].client # Nobody PROVE FALSE
  <2>1. slot[t].client \in Clients /\ slot[t].client \notin knocking
    BY <1>2, <1>6 DEF SlotsInv, SlotRecord
  <2>2. PICK u \in Slots : slot'[u].client = slot[t].client /\ slot'[u].up
    BY <1>1, <2>1 DEF NobodyLeft
  <2>3. slot[u].client = slot[t].client
    BY <1>1, <1>6, <2>1, <2>2
  <2>4. u = t
    BY <1>6, <2>3 DEF SlotsInv
  <2> QED BY <1>6, <2>2, <2>4
<1>7. \A t \in Slots : \/ slot'[t].client = slot[t].client /\ (slot'[t].up => slot[t].up)
                       \/ slot'[t].client \in knocking /\ slot[t].client = Nobody
  <2> TAKE t \in Slots
  <2>1. CASE slot'[t].client = Nobody /\ ~slot'[t].up
    BY <1>6, <2>1
  <2> QED BY <1>1, <2>1
<1> QED BY <1>4, <1>5, <1>7

LEMMA OwnOnlyNext ==
    ASSUME SlotsInv, OthersInv, OrderInv, IsInjective(place), ~launched, OwnOnly, [Next]_vars,
           \A t \in Slots : slot[t].client # Nobody => slot[t].up,
           \A t \in Slots : \/ slot'[t].client = slot[t].client
                            \/ slot'[t].client \in knocking /\ slot[t].client = Nobody
    PROVE  OwnOnly'
<1>0. slot \in [Slots -> SlotRecord] /\ Nobody \notin Clients
  BY ThreadBounds DEF SlotsInv
<1>1. \A x \in Texts : x.from \in Clients
  BY DEF Texts, Text
<1> DEFINE Own(q, c) == \A j \in DOMAIN q : q[j].from = c
<1>2. ASSUME NEW q \in Seq(Texts), Own(q, Nobody) PROVE q = <<>>
  <2> SUFFICES ASSUME q # <<>> PROVE FALSE
    OBVIOUS
  <2>1. 1 \in DOMAIN q /\ q[1] \in Texts
    OBVIOUS
  <2> QED BY <1>0, <1>1, <1>2, <2>1
<1>3. \A c : Own(<<>>, c)
  OBVIOUS
<1>4. \A t \in Slots : slot[t].chat \in Seq(Texts) /\ Own(slot[t].chat, slot[t].client)
  BY <1>0 DEF SlotRecord, OwnOnly
<1>5. main.i \in Slots /\ place[main.i] \in Slots /\ main.todo \in Seq(Texts)
      /\ Own(main.todo, slot[place[main.i]].client)
  BY DEF OthersInv, OwnOnly, At
<1> HIDE DEF Own
<1>6. ASSUME NEW t \in Slots PROVE Own(slot'[t].chat, slot'[t].client)
  <2>1. CASE slot'[t].chat \in {slot[t].chat, <<>>}
    <3>1. CASE slot'[t].client = slot[t].client
      BY <1>3, <1>4, <2>1, <3>1
    <3>2. CASE slot[t].client = Nobody
      <4>1. slot[t].chat = <<>>
        BY <1>2, <1>4, <3>2
      <4> QED BY <1>3, <2>1, <4>1
    <3> QED BY <3>1, <3>2
  <2>2. ASSUME NEW s \in Slots, Read(s), slot'[t].chat \notin {slot[t].chat, <<>>}
        PROVE  Own(slot'[t].chat, slot'[t].client)
    <3>1. PICK q : Taken(s, q)
      BY <2>2, ReadStep
    <3>2. t = s /\ slot'[t] = q
      BY <1>0, <2>2, <3>1 DEF Taken
    <3>3. PICK h : h = Head(slot[s].inq)
      OBVIOUS
    <3>4. /\ h \in Texts /\ h.kind = "text" /\ q.chat = Append(slot[s].chat, h)
          /\ q.client = slot[s].client /\ slot[s].inq # <<>>
      BY <2>2, <3>1, <3>2, <3>3 DEF Taken
    <3>5. h.from = slot[s].client
      <4>1. PICK inq \in Seq(Messages) : inq = slot[s].inq
        BY <1>0 DEF SlotRecord
      <4>2. 1 \in DOMAIN inq /\ inq[1] = h
        BY <3>3, <3>4, <4>1
      <4>3. h.n \in Unread(s, h.from)
        BY <3>4, <4>1, <4>2, InNumbers DEF Unread, IsOf
      <4> QED BY <1>1, <3>4, <4>3 DEF OrderInv, OwnTexts
    <3>6. PICK chat \in Seq(Texts) : chat = slot[s].chat
      BY <1>4
    <3>7. \A j \in DOMAIN Append(chat, h) : Append(chat, h)[j] = h \/ \E k \in DOMAIN chat : Append(chat, h)[j] = chat[k]
      BY <3>4, InjectiveAppend
    <3>8. Own(Append(chat, h), slot[s].client)
      BY <1>4, <3>5, <3>6, <3>7 DEF Own
    <3> QED BY <3>2, <3>4, <3>6, <3>8
  <2>3. (\E s \in Slots : Read(s)) \/ slot'[t].chat \in {slot[t].chat, <<>>}
    <3>1. ASSUME NEW s \in Slots, SendText(s) \/ SendOther(s) \/ Leave(s) PROVE slot'[t].chat = slot[t].chat
      BY <3>1, ClientsLeave
    <3>2. ASSUME NEW s \in Slots, NEW q, slot' = [slot EXCEPT ![s] = q], q.chat \in {slot[s].chat, <<>>}
          PROVE  slot'[t].chat \in {slot[t].chat, <<>>}
      BY <1>0, <3>2
    <3>3. ASSUME NEW s \in Slots, Wake(s) PROVE slot'[t].chat \in {slot[t].chat, <<>>}
      <4>1. \E q : slot' = [slot EXCEPT ![s] = q] /\ q.chat \in {slot[s].chat, <<>>}
        BY <3>3, WakeStep DEF Rested, BusyWith, UpdateOutcome
      <4> QED BY <3>2, <4>1
    <3>4. ASSUME NEW s \in Slots, EndBroadcast(s) \/ Finish(s) PROVE slot'[t].chat \in {slot[t].chat, <<>>}
      <4>1. slot' = [slot EXCEPT ![s] = Done(@)] /\ knocking' = knocking /\ launched' = launched
        BY <3>4 DEF EndBroadcast, Finish, clientVars
      <4>2. PICK q : Rested(s, q)
        BY <4>1, EndOfTask
      <4> QED BY <3>2, <4>2 DEF Rested
    <3>5. ASSUME Dispatch \/ RelayEnd \/ SignalSlots PROVE slot'[t].chat \in {slot[t].chat, <<>>}
      BY <3>5, MainLeaves
    <3>6. ASSUME NEW s \in Slots, Poll(s) PROVE FALSE
      BY <3>6, PollStep
    <3>7. ~StartSlot
      BY DEF StartSlot, OthersInv
    <3>8. \/ \E s \in Slots : SendText(s) \/ SendOther(s) \/ Leave(s) \/ Wake(s) \/ Read(s)
                              \/ EndBroadcast(s) \/ Finish(s)
          \/ Dispatch \/ RelayEnd \/ SignalSlots
          \/ slot' = slot
      BY <3>6, <3>7 DEF Next, ThreadNext, UpdateNext, SwitchSlot, ProcessQueue, Wait, Relay, Timeout,
             LaunchGame, clientVars, vars
    <3> QED BY <3>1, <3>3, <3>4, <3>5, <3>8
  <2> QED BY <2>1, <2>2, <2>3
<1>7. Own(main'.todo, slot'[place'[main'.i]].client)
  <2>1. CASE main'.todo = <<>>
    BY <1>3, <2>1
  <2>2. CASE Dispatch /\ main'.todo # <<>>
    <3>1. PICK s \in Slots : s = place[main.i]
      BY <1>5
    <3>2. main.todo = <<>>
      BY <2>2 DEF Dispatch, OrderInv
    <3>3. slot[s].chat # <<>>
      <4> SUFFICES ASSUME slot[s].chat = <<>> PROVE FALSE
        OBVIOUS
      <4>1. main' = NextSlot("dispatch")
        BY <2>2, <3>1 DEF Dispatch
      <4>2. main'.todo = main.todo
        BY <4>1, NextSlotType
      <4> QED BY <2>2, <3>2, <4>2
    <3>4. main'.todo = slot[s].chat /\ main'.i = main.i /\ place' = place
      BY <2>2, <3>1, <3>3 DEF Dispatch, OthersInv
    <3>5. slot'[s].client = slot[s].client
      BY <2>2, MainLeaves
    <3> QED BY <1>4, <3>1, <3>4, <3>5
  <2>3. CASE main'.todo # <<>> /\ ~Dispatch
    <3>1. main.at = "relay" /\ main.todo # <<>> /\ main'.i = main.i /\ place' = place
          /\ \A c : Own(main.todo, c) => Own(main'.todo, c)
      <4>1. CASE main' = main
        <5>1. main.at = "relay"
          BY <2>3, <4>1 DEF OrderInv
        <5>2. place' = place
          <6>1. ASSUME NEW i \in Slots, SwitchSlot(i) PROVE FALSE
            BY <5>1, <6>1 DEF SwitchSlot
          <6> QED BY <6>1 DEF Next, ThreadNext, UpdateNext, SendText, SendOther, Leave, Wake, Poll,
                 Read, EndBroadcast, Finish, ProcessQueue, SignalSlots, Wait, Dispatch, Relay,
                 RelayEnd, StartSlot, Timeout, LaunchGame, clientVars, vars
        <5> QED BY <2>3, <4>1, <5>1, <5>2
      <4>2. CASE Relay
        <5>1. main.at = "relay" /\ main.todo # <<>> /\ place' = place
              /\ main'.todo = Tail(main.todo) /\ main'.i = main.i
          BY <4>2 DEF Relay, OthersInv
        <5>2. \A j \in DOMAIN Tail(main.todo) : \E k \in DOMAIN main.todo : Tail(main.todo)[j] = main.todo[k]
          BY <1>5, <5>1
        <5> QED BY <5>1, <5>2 DEF Own
      <4>3. CASE main.todo = <<>>
        <5>1. PICK one \in Slots : one = 1
          BY ThreadBounds DEF Slots
        <5>2. Goto("queue", one).todo = <<>> /\ Goto("wait", one).todo = <<>>
              /\ Goto("dispatch", one).todo = <<>> /\ Goto("start", one).todo = <<>>
              /\ NextSlot("dispatch").todo = <<>> /\ NextSlot("start").todo = <<>>
          BY <4>3, GotoType, NextSlotType
        <5>3. main' \in {main, Goto("queue", one), Goto("wait", one), Goto("dispatch", one),
                         Goto("start", one), NextSlot("dispatch"), NextSlot("start")}
          BY <2>3, <4>3, <5>1 DEF Next, ThreadNext, UpdateNext, SendText, SendOther, Leave, Wake, Poll,
                 Read, EndBroadcast, Finish, SwitchSlot, ProcessQueue, SignalSlots, Wait, Relay,
                 RelayEnd, StartSlot, Timeout, LaunchGame, clientVars, vars
        <5> QED BY <2>3, <4>3, <5>2, <5>3
      <4>4. main' = main \/ Relay \/ main.at # "relay" \/ main.todo = <<>>
        BY <2>3 DEF Next, ThreadNext, UpdateNext, SendText, SendOther, Leave, Wake, Poll,
               Read, EndBroadcast, Finish, SwitchSlot, ProcessQueue, SignalSlots, Wait, RelayEnd,
               StartSlot, Timeout, LaunchGame, clientVars, vars
      <4> QED BY <4>1, <4>2, <4>3, <4>4 DEF OrderInv
    <3>2. PICK s \in Slots : s = place[main.i]
      BY <1>5
    <3>3. slot[s].client # Nobody
      BY <1>2, <1>5, <3>1, <3>2
    <3>4. slot'[s].client = slot[s].client
      BY <3>3
    <3> QED BY <1>5, <3>1, <3>2, <3>4
  <2> QED BY <2>1, <2>2, <2>3
<1> QED BY <1>6, <1>7 DEF OwnOnly, At, Own

\* A client that is accepted has been shown nothing, and nothing of it has been shown.
LEMMA AlikeFramed ==
    ASSUME SlotsInv, OthersInv, OrderInv, QueueInv,
           \A d \in knocking : recv[d] = <<>> /\ d \notin Early /\ sent[d] = 0,
           \A s \in Slots : slot[s].up => ShownAlike(s),
           recv' = recv,
           \A t \in Slots : \/ slot'[t].client = slot[t].client /\ (slot'[t].up => slot[t].up)
                            \/ slot'[t].client \in knocking /\ slot[t].client = Nobody
    PROVE  \A s \in Slots : slot'[s].up => slot'[s].client = Nobody \/ ShownAlike(s)'
<1> SUFFICES ASSUME NEW s \in Slots, slot'[s].up, slot'[s].client # Nobody PROVE ShownAlike(s)'
  OBVIOUS
<1>1. PICK c \in Clients : c = slot'[s].client
  BY DEF SlotsInv, SlotRecord
<1>2. Shown(c)' = Shown(c) /\ Shown(c) \subseteq 1 .. sent[c] /\ sent[c] \in 0 .. MaxMessages
      /\ MaxMessages \in Nat
  BY ThreadBounds DEF Shown, OrderInv, OthersInv
<1>3. ASSUME c \in knocking
      PROVE  Shown(c) = {} /\ Numbers(recv[c], c) = {}
  <2>1. sent[c] = 0 /\ recv[c] = <<>>
    BY <1>3
  <2>2. 1 .. 0 = {}
    OBVIOUS
  <2> QED BY <1>2, <2>1, <2>2, EmptyNumbers
<1>4. ASSUME NEW d \in Clients PROVE Numbers(recv[d], c) \subseteq Shown(c)
  <2> SUFFICES ASSUME NEW m \in Numbers(recv[d], c) PROVE m \in Shown(c)
    OBVIOUS
  <2>1. PICK k \in DOMAIN recv[d] : IsOf(recv[d][k], c) /\ m = recv[d][k].n
    BY InNumbers
  <2>2. PICK j \in DOMAIN recv[Server] : recv[Server][j] = recv[d][k]
    BY DEF QueueInv
  <2> QED BY <2>1, <2>2, InNumbers DEF Shown
<1>5. Numbers(recv[c], c) = {}
  <2>1. CASE slot[s].up /\ slot[s].client = c
    BY <1>1, <2>1 DEF ShownAlike
  <2> QED BY <1>1, <1>3, <2>1
<1>6. ASSUME NEW t \in Slots \ {s}, slot'[t].up, NEW d, d = slot'[t].client
      PROVE  SeenOf(recv[d], c, d, Shown(c))
  <2>1. CASE d \in knocking
    <3>1. recv[d] = <<>> /\ d \notin Early
      BY <2>1
    <3>2. Numbers(recv[d], c) = {m \in Shown(c) : m > MaxMessages}
      BY <1>2, <3>1, EmptyNumbers
    <3>3. MaxMessages \in 0 .. IF d \in Early THEN 0 ELSE MaxMessages
      BY <1>2, <3>1
    <3>4. InOrder(recv[d], c)
      BY <3>1, EmptyNumbers
    <3> QED BY <3>2, <3>3, <3>4 DEF SeenOf
  <2>2. CASE d = slot[t].client /\ slot[t].up /\ c = slot[s].client /\ slot[s].up
    BY <2>2 DEF ShownAlike, Shown
  <2>3. CASE d = slot[t].client /\ slot[t].up /\ c \in knocking
    <3>1. d \in Clients
      BY <2>3 DEF SlotsInv, SlotSound, ThreadSound, SlotRecord
    <3>2. Numbers(recv[d], c) = {} /\ Shown(c) = {}
      BY <1>3, <1>4, <2>3, <3>1
    <3>3. InOrder(recv[d], c)
      <4>1. ASSUME NEW j \in DOMAIN recv[d], IsOf(recv[d][j], c) PROVE FALSE
        BY <3>2, <4>1, InNumbers
      <4> QED BY <4>1 DEF InOrder, IsOf
    <3>4. Numbers(recv[d], c) = {m \in Shown(c) : m > 0}
      BY <3>2
    <3>5. 0 \in 0 .. IF d \in Early THEN 0 ELSE MaxMessages
      BY <1>2
    <3> QED BY <3>3, <3>4, <3>5 DEF SeenOf
  <2> QED BY <1>1, <1>6, <2>1, <2>2, <2>3
<1>7. Numbers(recv'[Server], c) = Shown(c)
  BY DEF Shown
<1> QED BY <1>1, <1>5, <1>6, <1>7 DEF ShownAlike

\* What the main thread relays reaches all but its author.
LEMMA RelayAlike ==
    ASSUME SlotsInv, OthersInv, OrderInv, IsInjective(place), Relay, ~inBroadcast, OwnOnly,
           \A s \in Slots : slot[s].up => ShownAlike(s)
    PROVE  queue' = queue /\ \A s \in Slots : slot'[s].up => ShownAlike(s)'
<1>1. PICK h : h = Head(main.todo)
  OBVIOUS
<1>2. /\ h \in Texts /\ main.i \in Slots /\ recv \in [Clients \cup {Server} -> Seq(Texts)]
      /\ Server \notin Clients /\ slot' = slot /\ place \in [Slots -> Slots]
  BY <1>1, RelayKeeps, ThreadBounds DEF OthersInv, Relay
<1>3. PICK k \in Slots : k = place[main.i]
  BY <1>2
<1>4. h.kind = "text" /\ h.from \in Clients /\ h.n \in 1 .. MaxMessages /\ MaxMessages \in Nat
  BY <1>2, ThreadBounds DEF Texts, Text
<1>5. h.from = slot[k].client
  <2>1. PICK todo \in Seq(Texts) : todo = main.todo
    BY DEF OthersInv
  <2>2. todo # <<>>
    BY <2>1 DEF Relay
  <2>3. 1 \in DOMAIN todo /\ todo[1] = h
    BY <1>1, <2>1, <2>2
  <2> QED BY <1>3, <2>1, <2>3 DEF OwnOnly, At
<1>6. queue' = queue
  BY DEF Relay, Broadcast
<1>7. ASSUME NEW d \in Clients
      PROVE  /\ (\E i \in Slots \ {main.i} : At(i).client = d /\ Connected(At(i)) /\ At(i).up)
                    => recv'[d] = Append(recv[d], h)
             /\ ~(\E i \in Slots \ {main.i} : At(i).client = d /\ Connected(At(i)) /\ At(i).up)
                    => recv'[d] = recv[d]
  <2>1. PICK shown : shown = [recv EXCEPT ![Server] = Append(@, h)]
    OBVIOUS
  <2>2. Broadcast(h, main.i, queue, shown)
    BY <1>1, <2>1 DEF Relay
  <2>3. recv'[d] = Relayed(h, main.i)[d]
    BY <1>2, <2>2 DEF Broadcast
  <2> QED BY <1>2, <2>3 DEF Relayed
<1>8. ASSUME NEW t \in Slots, t # k, slot[t].up, NEW d \in Clients, d = slot[t].client
      PROVE  recv'[d] = Append(recv[d], h)
  <2>1. PICK i \in Slots : place[i] = t
    BY DEF OthersInv
  <2>2. i # main.i /\ At(i) = slot[t]
    BY <1>3, <1>8, <2>1 DEF At
  <2>3. Connected(slot[t])
    BY <1>8, ThreadBounds DEF Connected
  <2> QED BY <1>7, <1>8, <2>2, <2>3
<1>9. recv'[h.from] = recv[h.from]
  <2>1. ASSUME NEW i \in Slots \ {main.i}, At(i).client = h.from PROVE FALSE
    <3>1. place[i] # k /\ place[i] \in Slots
      BY <1>2, <1>3 DEF IsInjective
    <3>2. slot[k].client # Nobody
      BY <1>4, <1>5, ThreadBounds
    <3> QED BY <1>5, <2>1, <3>1, <3>2 DEF SlotsInv, At
  <2> QED BY <1>4, <1>7, <2>1
<1>10. ASSUME NEW d \in Clients, NEW c \in Clients, c # h.from
       PROVE  /\ Numbers(recv'[d], c) = Numbers(recv[d], c)
              /\ InOrder(recv[d], c) => InOrder(recv'[d], c)
  <2>1. PICK q \in Seq(Texts) : q = recv[d]
    BY <1>2
  <2>2. ~IsOf(h, c)
    BY <1>10 DEF IsOf
  <2>3. Numbers(Append(q, h), c) = Numbers(q, c) /\ (InOrder(q, c) => InOrder(Append(q, h), c))
    <3>1. /\ Numbers(Append(q, h), c) = Numbers(q, c) \cup (IF IsOf(h, c) THEN {h.n} ELSE {})
          /\ InOrder(q, c) /\ (IsOf(h, c) => \A m \in Numbers(q, c) : m < h.n)
                => InOrder(Append(q, h), c)
      BY <1>2, NumbersAppend
    <3> QED BY <2>2, <3>1
  <2> QED BY <1>7, <2>1, <2>3
<1>11. ASSUME NEW c \in Clients
       PROVE  /\ c # h.from => Shown(c)' = Shown(c)
              /\ c = h.from => Shown(c)' = Shown(c) \cup {h.n} /\ \A m \in Shown(c) : m < h.n
  <2>1. /\ Shown(c)' = Shown(c) \cup (IF IsOf(h, c) THEN {h.n} ELSE {})
        /\ IsOf(h, c) => \A m \in Shown(c) : m < h.n
    BY <1>1, RelayOrder
  <2>2. IsOf(h, c) <=> c = h.from
    BY <1>4 DEF IsOf
  <2> QED BY <2>1, <2>2
<1>12. ASSUME NEW s \in Slots, slot[s].up PROVE ShownAlike(s)'
  <2>1. PICK c \in Clients : c = slot[s].client
    BY <1>12 DEF SlotsInv, SlotSound, ThreadSound, SlotRecord
  <2>2. ShownAlike(s)
    BY <1>12
  <2>3. Numbers(recv'[c], c) = {}
    <3>1. Numbers(recv[c], c) = {}
      BY <2>1, <2>2 DEF ShownAlike
    <3> QED BY <1>9, <1>10, <3>1
  <2>4. ASSUME NEW t \in Slots \ {s}, slot[t].up, NEW d \in Clients, d = slot[t].client
        PROVE  SeenOf(recv'[d], c, d, Shown(c)')
    <3>0. SeenOf(recv[d], c, d, Shown(c))
      BY <2>1, <2>2, <2>4 DEF ShownAlike, Shown
    <3>1. InOrder(recv[d], c)
      BY <3>0 DEF SeenOf
    <3>2. PICK n \in 0 .. IF d \in Early THEN 0 ELSE MaxMessages :
              Numbers(recv[d], c) = {m \in Shown(c) : m > n}
      BY <3>0 DEF SeenOf
    <3>3. CASE c # h.from
      <4>1. Numbers(recv'[d], c) = {m \in Shown(c)' : m > n}
        BY <1>10, <1>11, <3>2, <3>3
      <4> QED BY <1>10, <3>1, <3>3, <4>1 DEF SeenOf
    <3>4. CASE c = h.from
      <4>1. s = k
        BY <1>5, <2>1, <3>4, ThreadBounds DEF SlotsInv
      <4>2. recv'[d] = Append(recv[d], h)
        BY <1>8, <2>4, <4>1
      <4>3. recv[d] \in Seq(Texts) /\ IsOf(h, c)
        BY <1>2, <1>4, <3>4 DEF IsOf
      <4>4. \A m \in Numbers(recv[d], c) : m < h.n
        BY <1>11, <3>2, <3>4
      <4>5. Numbers(recv'[d], c) = Numbers(recv[d], c) \cup {h.n} /\ InOrder(recv'[d], c)
        BY <1>2, <3>1, <4>2, <4>3, <4>4, NumbersAppend
      <4>6. Shown(c)' = Shown(c) \cup {h.n} /\ \A m \in Shown(c) : m < h.n /\ m \in Nat
        <5>1. Shown(c) \subseteq 1 .. sent[c]
          BY DEF OrderInv
        <5> QED BY <1>11, <3>4, <5>1
      <4>7. CASE h.n > n
        <5>1. Numbers(recv'[d], c) = {m \in Shown(c)' : m > n}
          BY <3>2, <4>5, <4>6, <4>7
        <5> QED BY <4>5, <5>1 DEF SeenOf
      <4>8. CASE ~(h.n > n)
        <5>1. n \in 1 .. MaxMessages /\ d \notin Early
          BY <1>4, <3>2, <4>8
        <5>2. PICK l : l = h.n - 1
          OBVIOUS
        <5>3. l \in 0 .. MaxMessages /\ h.n > l /\ \A m \in Shown(c) : ~(m > l) /\ ~(m > n)
          BY <1>4, <4>6, <4>8, <5>1, <5>2
        <5>4. Numbers(recv'[d], c) = {m \in Shown(c)' : m > l}
          BY <3>2, <4>5, <4>6, <5>3
        <5>5. l \in 0 .. IF d \in Early THEN 0 ELSE MaxMessages
          BY <5>1, <5>3
        <5> QED BY <4>5, <5>4, <5>5 DEF SeenOf
      <4> QED BY <4>7, <4>8
    <3> QED BY <3>3, <3>4
  <2>5. \A t \in Slots : slot[t].up => slot[t].client \in Clients
    BY DEF SlotsInv, SlotSound, ThreadSound, SlotRecord
  <2>6. Shown(c)' = Numbers(recv'[Server], c)
    BY DEF Shown
  <2>7. \A t \in Slots \ {s} : slot'[t].up =>
            SeenOf(recv'[slot'[t].client], c, slot'[t].client, Numbers(recv'[Server], c))
    BY <1>2, <2>4, <2>5, <2>6
  <2> QED BY <1>2, <2>1, <2>3, <2>7 DEF ShownAlike
<1> QED BY <1>2, <1>6, <1>12

LEMMA TogetherNext ==
    ASSUME SlotsInv, OthersInv, OrderInv, QueueInv, CalmInv, TogetherInv, [Next]_vars, SlotsInv'
    PROVE  TogetherInv'
<1>1. inBroadcast' => \E s \in Slots : slot'[s].pc = "setup"
  BY BroadcastHeld DEF TogetherInv
<1>2. \A d \in knocking' : recv'[d] = <<>> /\ d \notin Early
  BY KnockersNew DEF TogetherInv
<1>3. ASSUME Undisturbed', NobodyLeft' PROVE Alike'
  <2>1. Undisturbed /\ ~launched
    BY <1>3, UndisturbedBefore
  <2>2. /\ NobodyLeft /\ \A t \in Slots : slot[t].client # Nobody => slot[t].up
        /\ \A t \in Slots : \/ slot'[t].client = slot[t].client /\ (slot'[t].up => slot[t].up)
                            \/ slot'[t].client \in knocking /\ slot[t].client = Nobody
    BY <1>3, <2>1, NobodyLeftBefore
  <2>3. /\ queue = <<>> /\ OwnOnly /\ \A s \in Slots : slot[s].up => ShownAlike(s)
        /\ \A s \in Slots : CalmSlot(s)
        /\ IsInjective(place)
    BY <2>1, <2>2 DEF TogetherInv, CalmInv, Alike
  <2>4. OwnOnly'
    BY <2>1, <2>2, <2>3, OwnOnlyNext
  <2>5. CASE Relay
    <3>1. ASSUME inBroadcast PROVE FALSE
      <4>1. PICK s \in Slots : slot[s].pc = "setup"
        BY <3>1 DEF TogetherInv
      <4>2. slot[s].client # Nobody /\ slot[s].up
        BY <2>2, <4>1 DEF SlotsInv, SlotSound, ThreadSound
      <4>3. main.at # "wait" /\ Calm(slot[s], main.at)
        BY <2>3, <2>5 DEF CalmSlot, Relay
      <4>4. ToRead(slot[s]) = {} /\ ToRead(slot[s]) = {slot[s].task}
        BY <4>1, <4>2, <4>3 DEF Calm
      <4> QED BY <4>4
    <3>2. queue' = queue /\ \A s \in Slots : slot'[s].up => ShownAlike(s)'
      BY <2>3, <2>5, <3>1, RelayAlike
    <3> QED BY <2>3, <2>4, <3>2 DEF Alike
  <2>6. CASE ~Relay
    <3>1. ~ProcessQueue
      BY <2>3 DEF ProcessQueue
    <3>2. recv' = recv /\ queue' = queue
      BY <2>6, <3>1 DEF Next, ThreadNext, UpdateNext, SendText, SendOther, Leave, Wake, Poll, Read,
             EndBroadcast, Finish, SwitchSlot, SignalSlots, Wait, Dispatch, RelayEnd, StartSlot,
             Timeout, LaunchGame, clientVars, vars
    <3>3. \A d \in knocking : recv[d] = <<>> /\ d \notin Early /\ sent[d] = 0
      BY DEF TogetherInv, CalmInv
    <3>4. \A s \in Slots : slot'[s].up => slot'[s].client = Nobody \/ ShownAlike(s)'
      BY <2>2, <2>3, <3>2, <3>3, AlikeFramed
    <3>5. \A s \in Slots : slot'[s].up => slot'[s].client # Nobody
      BY DEF SlotsInv, SlotSound, ThreadSound
    <3> QED BY <2>3, <2>4, <3>2, <3>4, <3>5 DEF Alike
  <2> QED BY <2>5, <2>6
<1> QED BY <1>1, <1>2, <1>3 DEF TogetherInv

LEMMA TogetherInit == Init => TogetherInv
<1> SUFFICES ASSUME Init PROVE TogetherInv
  OBVIOUS
<1>1. /\ queue = <<>> /\ main.todo = <<>> /\ ~inBroadcast /\ knocking = Clients \ Early
      /\ \A c \in Clients \cup {Server} : recv[c] = <<>>
  BY DEF Init
<1>2. ASSUME NEW s \in Slots PROVE slot[s].chat = <<>> /\ slot[s].client \in Early \cup {Nobody}
                                   /\ (slot[s].up => slot[s].client # Nobody)
  <2>1. PICK c \in Early \cup {Nobody} : slot[s] = Vacant(c)
    BY InitSlots
  <2>2. slot[s].chat = <<>> /\ slot[s].client = c /\ slot[s].up = (c # Nobody)
    BY <2>1 DEF Vacant
  <2> QED BY <2>2
<1>3. OwnOnly
  BY <1>1, <1>2 DEF OwnOnly
<1>4. ASSUME NEW s \in Slots, slot[s].up PROVE ShownAlike(s)
  <2>1. \A t \in Slots : slot[t].up => slot[t].client \in Clients /\ recv[slot[t].client] = <<>>
    BY <1>1, <1>2, ThreadBounds
  <2>2. \A c : Numbers(recv[Server], c) = {}
    BY <1>1, EmptyNumbers
  <2>3. \A d : 0 \in 0 .. IF d \in Early THEN 0 ELSE MaxMessages
    BY ThreadBounds
  <2>4. \A c, d : SeenOf(<<>>, c, d, {})
    BY <2>3, EmptyNumbers DEF SeenOf
  <2>5. \A t \in Slots : slot[t].up =>
            SeenOf(recv[slot[t].client], slot[s].client, slot[t].client, Numbers(recv[Server], slot[s].client))
    BY <2>1, <2>2, <2>4
  <2>6. Numbers(recv[slot[s].client], slot[s].client) = {}
    BY <1>4, <2>1, EmptyNumbers
  <2> QED BY <2>5, <2>6 DEF ShownAlike
<1>5. Alike
  BY <1>1, <1>3, <1>4 DEF Alike
<1> QED BY <1>1, <1>5 DEF TogetherInv

\* As long as no wait times out and nobody leaves, the clients are shown the same as the
\* server's player: whoever was there from the start all of it, whoever came later the
\* rest from some point on, in the same order, and nobody its own texts.
THEOREM EverybodySeesTheSame == Spec => []SameTextsEverywhere
<1>1. TextsInv /\ CalmInv /\ TogetherInv /\ [Next]_vars => TogetherInv'
  <2> SUFFICES ASSUME TextsInv, CalmInv, TogetherInv, [Next]_vars PROVE TogetherInv'
    OBVIOUS
  <2>1. ThreadInv /\ SlotsInv /\ OthersInv /\ OrderInv /\ QueueInv
    BY ThreadInvParts DEF TextsInv
  <2>2. SlotsInv'
    BY <2>1, ThreadInvNext, ThreadInvPartsPrimed
  <2> QED BY <2>1, <2>2, TogetherNext
<1>2. TogetherInv => SameTextsEverywhere
  BY DEF TogetherInv, Alike, ShownAlike, SeenOf, SameTextsEverywhere
<1> QED BY <1>1, <1>2, TogetherInit, CalmInvAlways, PTL DEF Spec
=============================================================================
