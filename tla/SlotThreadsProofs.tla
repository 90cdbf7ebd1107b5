------------------------- MODULE SlotThreadsProofs --------------------------
(***************************************************************************)
(* Proofs about the threads of the slots, for any number of slots, clients *)
(* and messages: the types of the model, and that no wake-up is lost.  The *)
(* steps of the slots are lemmas that SlotTextsProofs builds on.           *)
(***************************************************************************)
EXTENDS SlotThreads, FoldTheorems, FiniteSetTheorems, SequenceTheorems, TLAPS

\* The event a thread is at is the first unfinished one of its list.  Every event of
\* its list but this one has its signal, and so has the start of the match.
ThreadSound(r) ==
    /\ r.task # 0 =>
          /\ r.pc \in {"reading", "setup"}
          /\ r.task \in Unfinished(r)
          /\ \A e \in Unfinished(r) : r.task <= e
    /\ r.started \/ Cardinality(Unfinished(r) \ {r.task}) <= r.signals
    /\ r.started /\ r.pc = "waiting" => r.signals > 0
    /\ r.pc \in {"polling", "ended"} => r.started
    /\ r.pc \in {"reading", "setup"} => r.client # Nobody
    /\ r.client = Nobody => ~r.up /\ r.inq = <<>>

\* A client that waits to be accepted is in no slot, and no client has sent more than
\* all of them together.
ThreadInv ==
    /\ TypeOK
    /\ \A s \in Slots : ThreadSound(slot[s])
    /\ \A s \in Slots : slot[s].client \notin knocking
    /\ \A c \in Clients : sent[c] <= messages
    /\ \A s \in Slots : slot[s].started => launched
    /\ main.at = "start" => launched
-----------------------------------------------------------------------------
(* Finite sets of numbers and the list of events.                          *)

LEMMA UnfinishedFinite ==
    ASSUME NEW r \in SlotRecord
    PROVE  /\ Unfinished(r) \subseteq 1 .. Len(r.events) /\ Len(r.events) \in Nat
           /\ IsFiniteSet(Unfinished(r))
           /\ \A e : /\ IsFiniteSet(Unfinished(r) \ {e})
                     /\ Cardinality(Unfinished(r) \ {e}) \in Nat
<1>1. r.events \in Seq(Event)
  BY DEF SlotRecord
<1>2. Unfinished(r) \subseteq 1 .. Len(r.events) /\ Len(r.events) \in Nat
  BY <1>1 DEF Unfinished
<1>3. IsFiniteSet(1 .. Len(r.events))
  BY <1>2, FS_Interval
<1>4. IsFiniteSet(Unfinished(r))
  BY <1>2, <1>3, FS_Subset
<1> QED BY <1>2, <1>4, FS_RemoveElement, FS_CardinalityType

\* The unfinished events are the last of the list.
LEMMA UnfinishedLast ==
    ASSUME NEW r \in SlotRecord, CompletedFirst(r.events), Unfinished(r) # {}
    PROVE  /\ Min(Unfinished(r)) \in Unfinished(r)
           /\ Unfinished(r) = Min(Unfinished(r)) .. Len(r.events)
           /\ \A e : (e \in Unfinished(r) /\ \A f \in Unfinished(r) : e <= f)
                        => e = Min(Unfinished(r))
<1>1. r.events \in Seq(Event) /\ Unfinished(r) \subseteq 1 .. Len(r.events) /\ Len(r.events) \in Nat
  BY UnfinishedFinite DEF SlotRecord
<1>2. Min(Unfinished(r)) \in Unfinished(r) /\ \A e \in Unfinished(r) : Min(Unfinished(r)) <= e
  BY <1>1, LeastNumber
<1> DEFINE m == Min(Unfinished(r))
<1> HIDE DEF m
<1>3. m \in 1 .. Len(r.events) /\ ~r.events[m].done
  BY <1>1, <1>2 DEF Unfinished, m
<1>4. \A e \in m .. Len(r.events) : e \in Unfinished(r)
  <2> TAKE e \in m .. Len(r.events)
  <2>1. e \in DOMAIN r.events /\ m \in DOMAIN r.events
    BY <1>1, <1>3
  <2>2. CASE e = m
    BY <2>2, <1>2 DEF m
  <2>3. CASE m < e
    BY <2>1, <2>3, <1>3 DEF CompletedFirst, Unfinished
  <2> QED BY <2>2, <2>3, <1>3
<1>5. \A e \in Unfinished(r) : e \in m .. Len(r.events)
  BY <1>1, <1>2 DEF m
<1>6. Unfinished(r) = m .. Len(r.events)
  BY <1>4, <1>5
<1>7. ASSUME NEW e, e \in Unfinished(r) /\ \A f \in Unfinished(r) : e <= f PROVE e = m
  <2>1. e <= m /\ m <= e
    BY <1>2, <1>7 DEF m
  <2> QED BY <2>1, <1>1, <1>3, <1>7
<1> QED BY <1>2, <1>6, <1>7 DEF m
-----------------------------------------------------------------------------
(* What the thread of a slot does with its record.                         *)

\* The record of a thread at any point of its task.
AtWork(r) ==
    /\ r \in SlotRecord /\ CompletedFirst(r.events) /\ r.task \in 0 .. Len(r.events)
    /\ r.task # 0 => \A e \in Unfinished(r) : r.task <= e
    /\ r.started \/ Cardinality(Unfinished(r) \ {r.task}) <= r.signals
    /\ r.client = Nobody => ~r.up /\ r.inq = <<>>

SlotSound(r) ==
    /\ r \in SlotRecord /\ CompletedFirst(r.events) /\ r.task \in 0 .. Len(r.events)
    /\ ThreadSound(r)

LEMMA SoundAtWork == \A r : SlotSound(r) => AtWork(r)
  BY DEF SlotSound, AtWork, ThreadSound

\* What does not touch the events leaves a record as it was.
LEMMA AtWorkKept ==
    ASSUME NEW r, NEW q \in SlotRecord, AtWork(r),
           q.events = r.events, q.task = r.task, q.signals = r.signals, q.started = r.started,
           q.client = Nobody => ~q.up /\ q.inq = <<>>
    PROVE  AtWork(q)
<1>1. Unfinished(q) = Unfinished(r)
  BY DEF Unfinished
<1> QED BY <1>1 DEF AtWork

LEMMA SoundKept ==
    ASSUME NEW r, NEW q \in SlotRecord, SlotSound(r),
           q.events = r.events, q.task = r.task, q.signals = r.signals, q.started = r.started,
           q.pc = r.pc, q.client = r.client,
           q.client = Nobody => ~q.up /\ q.inq = <<>>
    PROVE  SlotSound(q)
<1>1. Unfinished(q) = Unfinished(r)
  BY DEF Unfinished
<1> QED BY <1>1 DEF SlotSound, ThreadSound

\* setTaskCompleted and the way back to the semaphore.
LEMMA DoneSound ==
    ASSUME NEW r, AtWork(r)
    PROVE  /\ SlotSound(Done(r))
           /\ Done(r).client = r.client /\ Done(r).up = r.up /\ Done(r).inq = r.inq
           /\ Done(r).chat = r.chat /\ Done(r).started = r.started
           /\ Done(r).task = 0 /\ Done(r).pc \in {"waiting", "polling"}
           /\ Unfinished(Done(r)) = Unfinished(r) \ {r.task}
           /\ DOMAIN Done(r).events = DOMAIN r.events
           /\ \A e \in DOMAIN r.events : /\ Done(r).events[e].triggered = r.events[e].triggered
                                         /\ Done(r).events[e].awaited = r.events[e].awaited
<1> DEFINE d == Done(r)
           es == IF r.task = 0 THEN r.events ELSE [r.events EXCEPT ![r.task].done = TRUE]
<1>0. r \in SlotRecord /\ r.events \in Seq(Event) /\ r.task \in 0 .. Len(r.events)
      /\ Len(r.events) \in Nat
  BY DEF AtWork, SlotRecord
<1>1. es \in Seq(Event) /\ Len(es) = Len(r.events) /\ DOMAIN es = DOMAIN r.events
  <2>1. CASE r.task = 0
    BY <1>0, <2>1
  <2>2. CASE r.task # 0
    <3>1. r.task \in 1 .. Len(r.events) /\ r.events[r.task] \in Event
      BY <1>0, <2>2
    <3>2. [r.events[r.task] EXCEPT !.done = TRUE] \in Event
      BY <3>1 DEF Event
    <3> QED BY <1>0, <2>2, <3>1, <3>2, ExceptSeq
  <2> QED BY <2>1, <2>2
<1>2. d = [r EXCEPT !.events = es, !.task = 0, !.pc = IF r.started THEN "polling" ELSE "waiting"]
  BY DEF Done
<1>3. \A e \in DOMAIN r.events :
        /\ es[e].triggered = r.events[e].triggered /\ es[e].awaited = r.events[e].awaited
        /\ es[e].done = (r.events[e].done \/ e = r.task)
  <2> TAKE e \in DOMAIN r.events
  <2>1. r.events[e] \in Event /\ e # 0
    BY <1>0
  <2>2. CASE e = r.task
    BY <1>0, <2>1, <2>2 DEF Event
  <2>3. CASE e # r.task
    BY <1>0, <2>1, <2>3 DEF Event
  <2> QED BY <2>2, <2>3
<1> HIDE DEF es, d
<1>4. d \in SlotRecord
  <2> DEFINE pc == IF r.started THEN "polling" ELSE "waiting"
  <2>1. pc \in {"waiting", "polling", "reading", "setup", "ended"}
    OBVIOUS
  <2> HIDE DEF pc
  <2>2. [r EXCEPT !.events = es, !.task = 0, !.pc = pc] \in SlotRecord
    BY <1>0, <1>1, <2>1 DEF SlotRecord
  <2> QED BY <1>2, <2>2 DEF pc
<1>5. /\ d.events = es /\ d.task = 0 /\ d.pc = IF r.started THEN "polling" ELSE "waiting"
      /\ d.client = r.client /\ d.up = r.up /\ d.inq = r.inq
      /\ d.chat = r.chat /\ d.started = r.started /\ d.signals = r.signals
  BY <1>0, <1>2 DEF SlotRecord
<1>6. Unfinished(d) = Unfinished(r) \ {r.task}
  BY <1>1, <1>3, <1>5 DEF Unfinished
<1>7. CompletedFirst(d.events)
  <2> SUFFICES ASSUME NEW e \in DOMAIN es, NEW f \in DOMAIN es, e < f, es[f].done
               PROVE  es[e].done
    BY <1>5 DEF CompletedFirst
  <2>1. r.events[f].done \/ f = r.task
    BY <1>1, <1>3
  <2>2. CASE r.events[f].done
    BY <2>2, <1>1, <1>3 DEF AtWork, CompletedFirst
  <2>3. CASE f = r.task
    <3>1. e \notin Unfinished(r)
      BY <1>0, <1>1, <2>3 DEF AtWork
    <3> QED BY <3>1, <1>1, <1>3 DEF Unfinished
  <2> QED BY <2>1, <2>2, <2>3
<1>8. r.started \/ Cardinality(Unfinished(d) \ {0}) <= d.signals
  <2>1. 0 \notin Unfinished(d)
    BY <1>0, <1>6 DEF Unfinished
  <2>2. Unfinished(d) \ {0} = Unfinished(r) \ {r.task}
    BY <2>1, <1>6
  <2> QED BY <1>5, <2>2 DEF AtWork
<1>9. ThreadSound(d)
  BY <1>5, <1>8 DEF ThreadSound, AtWork
<1> QED BY <1>1, <1>3, <1>4, <1>5, <1>6, <1>7, <1>9 DEF SlotSound, d

\* The start of an update purges the list; the event of the task becomes the first.
Purging(r, p) ==
    /\ AtWork(p) /\ (p.task # 0 => p.task \in Unfinished(p))
    /\ p.client = r.client /\ p.up = r.up /\ p.inq = r.inq /\ p.chat = r.chat
    /\ p.started = r.started /\ p.signals = r.signals /\ p.pc = r.pc
    /\ p.task = (IF r.task = 0 THEN 0 ELSE 1)
    /\ Unfinished(p) = DOMAIN p.events
    /\ \A e \in DOMAIN p.events : \E f \in Unfinished(r) :
          /\ p.events[e] = r.events[f]
          /\ p.task = e /\ r.task # 0 => f = r.task
          /\ f = r.task => p.task = e

LEMMA PurgedSound ==
    ASSUME NEW r, AtWork(r), r.task # 0 => r.task \in Unfinished(r),
           NEW p, p = [r EXCEPT !.events = Purged(r), !.task = IF @ = 0 THEN 0 ELSE 1]
    PROVE  Purging(r, p)
<1>0. /\ r \in SlotRecord /\ r.events \in Seq(Event) /\ r.task \in 0 .. Len(r.events)
      /\ Len(r.events) \in Nat /\ CompletedFirst(r.events) /\ r.signals \in Nat
  BY DEF AtWork, SlotRecord
<1> DEFINE es == Purged(r)
           m == Min(Unfinished(r))
           n == Len(r.events)
           t == IF r.task = 0 THEN 0 ELSE 1
<1>00. /\ p = [r EXCEPT !.events = es, !.task = t]
       /\ t \in Nat /\ (r.task = 0 => t = 0) /\ (r.task # 0 => t = 1)
  <2>1. r.task \in Nat
    BY <1>0
  <2> QED BY <2>1
<1> HIDE DEF t
<1>1. CASE Unfinished(r) = {}
  <2>1. es = <<>> /\ r.task = 0 /\ es \in Seq(Event)
    BY <1>1 DEF Purged
  <2> HIDE DEF es
  <2>2. p.events = <<>> /\ p.task = 0 /\ p \in SlotRecord
    BY <1>0, <1>00, <2>1 DEF SlotRecord
  <2>3. /\ p.client = r.client /\ p.up = r.up /\ p.inq = r.inq /\ p.chat = r.chat
        /\ p.started = r.started /\ p.signals = r.signals /\ p.pc = r.pc
    BY <1>0, <1>00 DEF SlotRecord
  <2>4. Unfinished(p) = {} /\ DOMAIN p.events = {} /\ CompletedFirst(p.events)
    BY <2>2 DEF Unfinished, CompletedFirst
  <2>5. Cardinality(Unfinished(p) \ {p.task}) <= p.signals
    <3>1. Unfinished(p) \ {p.task} = {}
      BY <2>4
    <3>2. Cardinality(Unfinished(p) \ {p.task}) = 0
      BY <3>1, FS_EmptySet
    <3> QED BY <3>2, <1>0, <2>3
  <2>6. AtWork(p)
    BY <2>2, <2>3, <2>4, <2>5 DEF AtWork
  <2> QED BY <1>00, <2>1, <2>2, <2>3, <2>4, <2>6 DEF Purging
<1>2. CASE Unfinished(r) # {}
  <2>1. /\ m \in Unfinished(r) /\ Unfinished(r) = m .. n
        /\ (r.task # 0 => r.task = m)
    BY <1>0, <1>2, UnfinishedLast DEF AtWork
  <2>2. m \in 1 .. n
    BY <1>0, <2>1 DEF Unfinished
  <2> HIDE DEF m
  <2>3. /\ SubSeq(r.events, m, n) \in Seq(Event) /\ Len(SubSeq(r.events, m, n)) = n - m + 1
        /\ \A j \in 1 .. n - m + 1 : SubSeq(r.events, m, n)[j] = r.events[m + j - 1]
    BY <1>0, <2>2
  <2>4. es = SubSeq(r.events, m, n)
    BY <1>2 DEF Purged, m
  <2> DEFINE k == n - m + 1
  <2>5. /\ es \in Seq(Event) /\ Len(es) = k /\ DOMAIN es = 1 .. k
        /\ \A j \in 1 .. k : es[j] = r.events[m + j - 1]
    BY <1>0, <2>2, <2>3, <2>4
  <2>6. k \in Nat /\ 1 <= k /\ k = n - m + 1 /\ n \in Nat /\ m \in Nat
    BY <1>0, <2>2
  <2> HIDE DEF es, k, n
  <2>7. /\ p \in SlotRecord /\ p.events = es /\ p.task = t
        /\ p.client = r.client /\ p.up = r.up /\ p.inq = r.inq /\ p.chat = r.chat
        /\ p.started = r.started /\ p.signals = r.signals /\ p.pc = r.pc
    BY <1>0, <1>00, <2>5 DEF SlotRecord
  <2>8. \A j \in DOMAIN es : m + j - 1 \in Unfinished(r) /\ es[j] = r.events[m + j - 1] /\ ~es[j].done
    <3> TAKE j \in DOMAIN es
    <3>1. j \in 1 .. k /\ m + j - 1 \in m .. n
      BY <2>5, <2>6
    <3>2. m + j - 1 \in Unfinished(r) /\ es[j] = r.events[m + j - 1]
      BY <3>1, <2>1, <2>5
    <3> QED BY <3>2 DEF Unfinished
  <2>9. Unfinished(p) = DOMAIN es /\ CompletedFirst(p.events)
    BY <2>7, <2>8 DEF Unfinished, CompletedFirst
  <2>10. 1 \in DOMAIN es
    BY <2>5, <2>6
  <2>11. p.started \/ Cardinality(Unfinished(p) \ {p.task}) <= p.signals
    <3>1. /\ Cardinality(Unfinished(r)) = k /\ IsFiniteSet(Unfinished(r))
          /\ Cardinality(Unfinished(p)) = k /\ IsFiniteSet(Unfinished(p))
      <4>1. Cardinality(m .. n) = k /\ IsFiniteSet(m .. n)
        BY <2>6, FS_Interval
      <4>2. Cardinality(1 .. k) = k /\ IsFiniteSet(1 .. k)
        <5>1. PICK a \in Int, b \in Int : a = 1 /\ b = k
          BY <2>6
        <5>2. IsFiniteSet(a .. b) /\ Cardinality(a .. b) = IF a > b THEN 0 ELSE b - a + 1
          BY FS_Interval
        <5>3. Cardinality(a .. b) = b
          BY <2>6, <5>1, <5>2
        <5> QED BY <5>1, <5>2, <5>3
      <4> QED BY <4>1, <4>2, <2>1, <2>5, <2>9
    <3>2. Cardinality(Unfinished(p) \ {p.task}) = Cardinality(Unfinished(r) \ {r.task})
      <4>1. CASE r.task = 0
        <5>1. Unfinished(p) \ {p.task} = Unfinished(p) /\ Unfinished(r) \ {r.task} = Unfinished(r)
          BY <4>1, <1>00, <2>1, <2>2, <2>5, <2>7, <2>9
        <5> QED BY <5>1, <3>1
      <4>2. CASE r.task # 0
        <5>1. r.task \in Unfinished(r) /\ p.task \in Unfinished(p)
          BY <4>2, <1>00, <2>7, <2>9, <2>10
        <5>2. /\ Cardinality(Unfinished(r) \ {r.task}) = k - 1
              /\ Cardinality(Unfinished(p) \ {p.task}) = k - 1
          BY <5>1, <3>1, FS_RemoveElement
        <5> QED BY <5>2
      <4> QED BY <4>1, <4>2
    <3> QED BY <3>2, <2>7 DEF AtWork
  <2>12. p.task \in 0 .. Len(p.events) /\ \A e \in Unfinished(p) : p.task <= e
    BY <1>00, <2>5, <2>6, <2>7, <2>9
  <2>13. AtWork(p)
    BY <2>7, <2>9, <2>11, <2>12 DEF AtWork
  <2>14. ASSUME NEW e \in DOMAIN p.events
         PROVE \E f \in Unfinished(r) :
                 /\ p.events[e] = r.events[f]
                 /\ p.task = e /\ r.task # 0 => f = r.task
                 /\ f = r.task => p.task = e
    <3>1. /\ e \in 1 .. k /\ m + e - 1 \in Unfinished(r)
          /\ p.events[e] = r.events[m + e - 1]
      BY <2>5, <2>7, <2>8, <2>14
    <3>2. p.task = e /\ r.task # 0 => m + e - 1 = r.task
      BY <1>00, <2>1, <2>6, <2>7
    <3>3. m + e - 1 = r.task => p.task = e
      BY <1>00, <2>1, <2>2, <2>6, <2>7, <3>1
    <3> QED BY <3>1, <3>2, <3>3
  <2> QED BY <1>00, <2>7, <2>9, <2>10, <2>13, <2>14 DEF Purging
<1> QED BY <1>1, <1>2

\* A connection that is lost completes all events.
LEMMA AllCompletedAtWork ==
    ASSUME NEW r, AtWork(r), NEW q,
           q = [r EXCEPT !.client = Nobody, !.events = AllCompleted(@)],
           r.inq = <<>>, r.up = FALSE
    PROVE  /\ AtWork(q) /\ Unfinished(q) = {} /\ q.client = Nobody /\ q.inq = <<>> /\ ~q.up
           /\ q.chat = r.chat /\ q.started = r.started /\ q.signals = r.signals /\ q.pc = r.pc
<1>0. /\ r \in SlotRecord /\ r.events \in Seq(Event) /\ Len(r.events) \in Nat
      /\ r.task \in 0 .. Len(r.events) /\ r.signals \in Nat
  BY DEF AtWork, SlotRecord
<1> DEFINE es == AllCompleted(r.events)
<1>1. es = [e \in 1 .. Len(r.events) |-> [r.events[e] EXCEPT !.done = TRUE]]
  BY <1>0 DEF AllCompleted
<1>2. \A e \in 1 .. Len(r.events) : [r.events[e] EXCEPT !.done = TRUE] \in Event
  <2> TAKE e \in 1 .. Len(r.events)
  <2>1. r.events[e] \in Event
    BY <1>0
  <2> QED BY <2>1 DEF Event
<1>3. es \in Seq(Event) /\ Len(es) = Len(r.events) /\ DOMAIN es = 1 .. Len(r.events)
  BY <1>0, <1>1, <1>2, IsASeq
<1>4. \A e \in DOMAIN es : es[e].done
  BY <1>0, <1>1, <1>3 DEF Event
<1> HIDE DEF es
<1>5. q = [r EXCEPT !.client = Nobody, !.events = es]
  BY DEF es
<1>6. /\ q \in SlotRecord /\ q.events = es /\ q.client = Nobody /\ q.inq = <<>> /\ ~q.up
      /\ q.chat = r.chat /\ q.started = r.started /\ q.signals = r.signals /\ q.pc = r.pc
      /\ q.task = r.task
  BY <1>0, <1>3, <1>5 DEF SlotRecord
<1>7. Unfinished(q) = {} /\ CompletedFirst(q.events)
  BY <1>3, <1>4, <1>6 DEF Unfinished, CompletedFirst
<1>8. Cardinality(Unfinished(q) \ {q.task}) <= q.signals
  <2>1. Unfinished(q) \ {q.task} = {}
    BY <1>7
  <2>2. Cardinality(Unfinished(q) \ {q.task}) = 0
    BY <2>1, FS_EmptySet
  <2> QED BY <2>2, <1>0, <1>6
<1> QED BY <1>0, <1>3, <1>6, <1>7, <1>8 DEF AtWork

\* signalUpdate: an event comes with its signal.
Grown(r, event, w) ==
    /\ SlotSound(w) /\ Len(w.events) = Len(r.events) + 1
    /\ w.client = r.client /\ w.up = r.up /\ w.inq = r.inq /\ w.chat = r.chat
    /\ w.started = r.started /\ w.pc = r.pc /\ w.task = r.task
    /\ Unfinished(w) = Unfinished(r) \cup {Len(r.events) + 1}
    /\ w.events[Len(r.events) + 1] = event
    /\ \A e \in DOMAIN r.events : e # Len(r.events) + 1 /\ w.events[e] = r.events[e]

LEMMA WithEventSound ==
    ASSUME NEW r, SlotSound(r), NEW event \in Event, ~event.done,
           NEW w, w = WithEvent(r, event)
    PROVE  Grown(r, event, w)
<1>0. /\ r \in SlotRecord /\ r.events \in Seq(Event) /\ Len(r.events) \in Nat
      /\ r.task \in 0 .. Len(r.events) /\ r.signals \in Nat
  BY DEF SlotSound, SlotRecord
<1> DEFINE es == Append(r.events, event)
           n == Len(r.events)
<1>1. /\ es \in Seq(Event) /\ Len(es) = n + 1 /\ es[n + 1] = event
      /\ \A e \in 1 .. n : es[e] = r.events[e]
      /\ DOMAIN r.events = 1 .. n /\ DOMAIN es = 1 .. n + 1
  BY <1>0
<1> HIDE DEF es
<1>2. PICK k : k = r.signals + 1
  OBVIOUS
<1>21. w = [r EXCEPT !.events = es, !.signals = k] /\ k \in Nat
  BY <1>0, <1>2 DEF es, WithEvent
<1>3. /\ w \in SlotRecord /\ w.events = es /\ w.signals = r.signals + 1
      /\ w.client = r.client /\ w.up = r.up /\ w.inq = r.inq /\ w.chat = r.chat
      /\ w.started = r.started /\ w.pc = r.pc /\ w.task = r.task
  BY <1>0, <1>1, <1>2, <1>21 DEF SlotRecord
<1>4. Unfinished(w) = Unfinished(r) \cup {n + 1}
  BY <1>0, <1>1, <1>3 DEF Unfinished
<1>5. CompletedFirst(w.events)
  <2> SUFFICES ASSUME NEW e \in 1 .. n + 1, NEW f \in 1 .. n + 1, e < f, es[f].done
               PROVE  es[e].done
    BY <1>1, <1>3 DEF CompletedFirst
  <2>1. f # n + 1 /\ e \in 1 .. n /\ f \in 1 .. n
    BY <1>0, <1>1
  <2> QED BY <2>1, <1>1 DEF SlotSound, CompletedFirst
<1>6. w.started \/ Cardinality(Unfinished(w) \ {w.task}) <= w.signals
  <2>1. Unfinished(w) \ {w.task} = (Unfinished(r) \ {r.task}) \cup {n + 1}
    BY <1>0, <1>3, <1>4
  <2>2. PICK U : U = Unfinished(r) \ {r.task}
    OBVIOUS
  <2>3. IsFiniteSet(U) /\ Cardinality(U) \in Nat
    BY <1>0, <2>2, UnfinishedFinite
  <2>4. Cardinality(U \cup {n + 1}) \in {Cardinality(U), Cardinality(U) + 1}
    <3>1. PICK x : x = n + 1
      OBVIOUS
    <3>2. Cardinality(U \cup {x}) = IF x \in U THEN Cardinality(U) ELSE Cardinality(U) + 1
      BY <2>3, FS_AddElement
    <3>3. Cardinality(U \cup {x}) \in {Cardinality(U), Cardinality(U) + 1}
      BY <3>2
    <3> QED BY <3>1, <3>3
  <2>5. r.started \/ Cardinality(U) <= r.signals
    BY <2>2 DEF SlotSound, ThreadSound
  <2>6. Cardinality(Unfinished(w) \ {w.task}) \in {Cardinality(U), Cardinality(U) + 1}
    BY <2>1, <2>2, <2>4
  <2> QED BY <1>0, <1>3, <2>3, <2>5, <2>6
<1>7. ThreadSound(w)
  <2>1. w.task # 0 => /\ w.pc \in {"reading", "setup"} /\ w.task \in Unfinished(w)
                      /\ \A e \in Unfinished(w) : w.task <= e
    BY <1>0, <1>3, <1>4 DEF SlotSound, ThreadSound
  <2> QED BY <1>0, <1>3, <1>6, <2>1 DEF SlotSound, ThreadSound
<1> QED BY <1>0, <1>1, <1>3, <1>4, <1>5, <1>7 DEF SlotSound, Grown

\* The events of the last update are no longer waited for.
Unawaited(r) ==
    [r EXCEPT !.events = [e \in DOMAIN @ |-> [@[e] EXCEPT !.awaited = FALSE]]]

LEMMA UnawaitedSound ==
    ASSUME NEW r, SlotSound(r), NEW q, q = Unawaited(r)
    PROVE  /\ SlotSound(q) /\ Unfinished(q) = Unfinished(r)
           /\ q.client = r.client /\ q.up = r.up /\ q.inq = r.inq /\ q.chat = r.chat
           /\ q.started = r.started /\ q.pc = r.pc /\ q.task = r.task
           /\ DOMAIN q.events = DOMAIN r.events
           /\ \A e \in DOMAIN r.events : /\ q.events[e].triggered = r.events[e].triggered
                                         /\ ~q.events[e].awaited
<1>0. /\ r \in SlotRecord /\ r.events \in Seq(Event) /\ Len(r.events) \in Nat
      /\ DOMAIN r.events = 1 .. Len(r.events)
  BY DEF SlotSound, SlotRecord
<1>1. PICK es : es = [e \in 1 .. Len(r.events) |-> [r.events[e] EXCEPT !.awaited = FALSE]]
  OBVIOUS
<1>2. \A e \in 1 .. Len(r.events) : [r.events[e] EXCEPT !.awaited = FALSE] \in Event
  <2> TAKE e \in 1 .. Len(r.events)
  <2>1. r.events[e] \in Event
    BY <1>0
  <2> QED BY <2>1 DEF Event
<1>3. es \in Seq(Event) /\ Len(es) = Len(r.events) /\ DOMAIN es = 1 .. Len(r.events)
  BY <1>0, <1>1, <1>2, IsASeq
<1>4. \A e \in DOMAIN es : /\ es[e].done = r.events[e].done
                           /\ es[e].triggered = r.events[e].triggered /\ ~es[e].awaited
  BY <1>0, <1>1, <1>3 DEF Event
<1>5. q = [r EXCEPT !.events = es]
  BY <1>0, <1>1 DEF Unawaited
<1>6. /\ q \in SlotRecord /\ q.events = es /\ q.signals = r.signals
      /\ q.client = r.client /\ q.up = r.up /\ q.inq = r.inq /\ q.chat = r.chat
      /\ q.started = r.started /\ q.pc = r.pc /\ q.task = r.task
  BY <1>0, <1>3, <1>5 DEF SlotRecord
<1>7. Unfinished(q) = Unfinished(r)
  BY <1>0, <1>3, <1>4, <1>6 DEF Unfinished
<1>8. CompletedFirst(q.events)
  BY <1>0, <1>3, <1>4, <1>6 DEF SlotSound, CompletedFirst
<1> QED BY <1>0, <1>3, <1>4, <1>6, <1>7, <1>8 DEF SlotSound, ThreadSound
-----------------------------------------------------------------------------
(* The steps of the threads, one slot at a time.                           *)

SlotsInv ==
    /\ slot \in [Slots -> SlotRecord] /\ knocking \subseteq Clients
    /\ \A s \in Slots : /\ SlotSound(slot[s]) /\ slot[s].client \notin knocking
                        /\ slot[s].started => launched
    /\ \A s \in Slots : \A t \in Slots \ {s} :
          slot[s].client # Nobody => slot[t].client # slot[s].client

OthersInv ==
    /\ place \in [Slots -> Slots] /\ \A s \in Slots : \E i \in Slots : place[i] = s
    /\ request \in [Slots -> Slots \cup {0}]
    /\ inBroadcast \in BOOLEAN /\ launched \in BOOLEAN
    /\ queue \in Seq([text : Texts, exclude : Slots])
    /\ main \in [at : {"menu", "queue", "wait", "dispatch", "relay", "start"},
                 i : Slots, todo : Seq(Texts)]
    /\ sent \in [Clients -> 0 .. MaxMessages]
    /\ recv \in [Clients \cup {Server} -> Seq(Texts)]
    /\ messages \in 0 .. MaxMessages /\ timeouts \in 0 .. MaxTimeouts
    /\ \A c \in Clients : sent[c] <= messages
    /\ main.at = "start" => launched

LEMMA ThreadInvParts == ThreadInv <=> SlotsInv /\ OthersInv
  BY DEF ThreadInv, SlotsInv, OthersInv, TypeOK, SlotSound

LEMMA ThreadInvPartsPrimed == ThreadInv' <=> SlotsInv' /\ OthersInv'
  BY ThreadInvParts, PTL

\* How the client of one slot may change.
Seated(s, c, d) ==
    \/ d \in {c, Nobody} /\ knocking' = knocking
    \/ c = Nobody /\ d \in knocking /\ knocking' = knocking \ {d}

LEMMA OneSlot ==
    ASSUME SlotsInv, NEW s \in Slots, NEW r, SlotSound(r), slot' = [slot EXCEPT ![s] = r],
           Seated(s, slot[s].client, r.client),
           r.started => launched', launched => launched'
    PROVE  SlotsInv'
<1>1. slot \in [Slots -> SlotRecord] /\ r \in SlotRecord
  BY DEF SlotsInv, SlotSound
<1>2. slot' \in [Slots -> SlotRecord]
  BY <1>1
<1>3. \A t \in Slots : slot'[t] = IF t = s THEN r ELSE slot[t]
  BY <1>1
<1>4. knocking' \subseteq Clients /\ knocking' \subseteq knocking
  BY DEF Seated, SlotsInv
<1>5. Nobody \notin knocking
  BY ThreadBounds DEF SlotsInv
<1>6. \A t \in Slots : SlotSound(slot'[t]) /\ (slot'[t].started => launched')
  BY <1>3 DEF SlotsInv
<1>7. \A t \in Slots : slot'[t].client \notin knocking'
  <2> TAKE t \in Slots
  <2>1. CASE t # s
    BY <1>3, <1>4, <2>1 DEF SlotsInv
  <2>2. CASE t = s
    BY <1>3, <1>4, <1>5, <2>2 DEF SlotsInv, Seated
  <2> QED BY <2>1, <2>2
<1>8. ASSUME NEW t \in Slots, NEW u \in Slots \ {t}, slot'[t].client # Nobody
      PROVE  slot'[u].client # slot'[t].client
  <2>1. CASE t # s /\ u # s
    BY <1>3, <1>8, <2>1 DEF SlotsInv
  <2>2. CASE t = s
    <3>1. slot'[t].client = r.client /\ slot'[u] = slot[u]
      BY <1>3, <2>2, <1>8
    <3>2. CASE r.client = slot[s].client
      BY <3>1, <3>2, <1>8, <2>2 DEF SlotsInv
    <3>3. CASE r.client \in knocking
      BY <3>1, <3>3 DEF SlotsInv
    <3> QED BY <3>1, <3>2, <3>3, <1>8 DEF Seated
  <2>3. CASE u = s /\ t # s
    <3>1. slot'[u].client = r.client /\ slot'[t] = slot[t]
      BY <1>3, <2>3, <1>8
    <3>2. CASE r.client = slot[s].client
      BY <3>1, <3>2, <1>8, <2>3 DEF SlotsInv
    <3>3. CASE r.client \in knocking
      BY <3>1, <3>3 DEF SlotsInv
    <3>4. CASE r.client = Nobody
      BY <3>1, <3>4, <1>8
    <3> QED BY <3>2, <3>3, <3>4 DEF Seated
  <2> QED BY <2>1, <2>2, <2>3
<1> QED BY <1>2, <1>4, <1>6, <1>7, <1>8 DEF SlotsInv

\* The three outcomes of the start of an update: a client is accepted, there is none, or
\* the thread goes on to read.  Unfinished events stay what they are.
UpdateOutcome(s, r, q) ==
    /\ SlotSound(q) /\ slot' = [slot EXCEPT ![s] = q]
    /\ Seated(s, r.client, q.client) /\ q.started = r.started /\ q.inq = r.inq
    /\ \/ /\ q.client # Nobody /\ q.client \in knocking /\ q.up /\ r.client = Nobody
          /\ q.chat = <<>> /\ q.inq = <<>> /\ q.pc \in {"waiting", "polling"}
       \/ /\ q.client = Nobody /\ ~q.up /\ q.inq = <<>> /\ q.chat = r.chat
          /\ q.pc \in {"waiting", "polling"}
          /\ r.client = Nobody \/ (~Connected(r) /\ Unfinished(q) = {})
       \/ /\ q.client = r.client /\ r.client # Nobody /\ q.up = r.up
          /\ q.chat = <<>> /\ q.pc = "reading" /\ Connected(r)
          /\ q.task = (IF r.task = 0 THEN 0 ELSE 1)
    /\ \A e \in Unfinished(q) : \E f \in Unfinished(r) :
          /\ q.events[e].triggered = r.events[f].triggered
          /\ q.events[e].awaited = r.events[f].awaited
          /\ q.task = e /\ r.task # 0 => f = r.task
          /\ f = r.task /\ q.pc = "reading" => q.task = e

LEMMA UpdateStep ==
    ASSUME SlotsInv, NEW s \in Slots, NEW r, AtWork(r),
           r.task # 0 => r.task \in Unfinished(r),
           Update(s, r)
    PROVE  \E q : UpdateOutcome(s, r, q)
<1>0. <<>> \in Seq(Texts)
  BY EmptySeq
<1>1. PICK p : p = [r EXCEPT !.events = Purged(r), !.task = IF @ = 0 THEN 0 ELSE 1]
  OBVIOUS
<1>2. /\ AtWork(p) /\ (p.task # 0 => p.task \in Unfinished(p))
      /\ p.client = r.client /\ p.up = r.up /\ p.inq = r.inq /\ p.chat = r.chat
      /\ p.started = r.started /\ p.signals = r.signals /\ p.pc = r.pc
      /\ p.task = (IF r.task = 0 THEN 0 ELSE 1)
      /\ Unfinished(p) = DOMAIN p.events
      /\ \A e \in DOMAIN p.events : \E f \in Unfinished(r) :
            /\ p.events[e] = r.events[f]
            /\ p.task = e /\ r.task # 0 => f = r.task
            /\ f = r.task => p.task = e
  <2>1. Purging(r, p)
    BY <1>1, PurgedSound
  <2> QED BY <2>1 DEF Purging
<1>3. p \in SlotRecord /\ r \in SlotRecord /\ r.task \in Nat
  BY <1>2 DEF AtWork, SlotRecord
<1>4. CASE r.client = Nobody
  <2>1. ~r.up /\ r.inq = <<>>
    BY <1>4 DEF AtWork
  <2>2. CASE \E c \in knocking :
                /\ slot' = [slot EXCEPT ![s] =
                      Done([p EXCEPT !.client = c, !.up = TRUE, !.chat = <<>>])]
                /\ knocking' = knocking \ {c}
    <3>1. PICK c \in knocking :
                /\ slot' = [slot EXCEPT ![s] =
                      Done([p EXCEPT !.client = c, !.up = TRUE, !.chat = <<>>])]
                /\ knocking' = knocking \ {c}
      BY <2>2
    <3>2. c \in Clients /\ c # Nobody
      BY ThreadBounds DEF SlotsInv
    <3>3. PICK u : u = [p EXCEPT !.client = c, !.up = TRUE, !.chat = <<>>]
      OBVIOUS
    <3>4. /\ u \in SlotRecord /\ u.client = c /\ u.up = TRUE /\ u.chat = <<>> /\ u.inq = p.inq
          /\ u.events = p.events /\ u.task = p.task /\ u.signals = p.signals
          /\ u.started = p.started
      BY <1>0, <1>3, <3>2, <3>3 DEF SlotRecord
    <3>5. AtWork(u) /\ Unfinished(u) = Unfinished(p)
      BY <3>2, <3>4, <1>2, AtWorkKept DEF Unfinished
    <3>6. PICK q : q = Done(u)
      OBVIOUS
    <3>7. /\ SlotSound(q) /\ q.client = u.client /\ q.up = u.up /\ q.inq = u.inq /\ q.chat = u.chat
          /\ q.started = u.started /\ q.task = 0 /\ q.pc \in {"waiting", "polling"}
          /\ Unfinished(q) = Unfinished(u) \ {u.task}
          /\ \A e \in DOMAIN u.events : /\ q.events[e].triggered = u.events[e].triggered
                                        /\ q.events[e].awaited = u.events[e].awaited
      BY <3>5, <3>6, DoneSound
    <3>8. \A e \in Unfinished(q) : \E f \in Unfinished(r) :
                        /\ q.events[e].triggered = r.events[f].triggered
                        /\ q.events[e].awaited = r.events[f].awaited
                        /\ q.task = e /\ r.task # 0 => f = r.task
                        /\ f = r.task /\ q.pc = "reading" => q.task = e
      <4> TAKE e \in Unfinished(q)
      <4>1. e \in DOMAIN p.events /\ e # 0
        BY <3>4, <3>5, <3>7, <1>2, <1>3 DEF SlotRecord
      <4>2. PICK f \in Unfinished(r) : p.events[e] = r.events[f]
        BY <4>1, <1>2
      <4> QED BY <4>1, <4>2, <3>4, <3>7
    <3>9. slot' = [slot EXCEPT ![s] = q] /\ Seated(s, r.client, q.client)
      BY <1>4, <3>1, <3>3, <3>4, <3>6, <3>7 DEF Seated
    <3> QED BY <1>2, <1>4, <2>1, <3>2, <3>4, <3>7, <3>8, <3>9 DEF UpdateOutcome
  <2>3. CASE slot' = [slot EXCEPT ![s] = Done(p)] /\ knocking' = knocking
    <3>6. PICK q : q = Done(p)
      OBVIOUS
    <3>7. /\ SlotSound(q) /\ q.client = p.client /\ q.up = p.up /\ q.inq = p.inq /\ q.chat = p.chat
          /\ q.started = p.started /\ q.task = 0 /\ q.pc \in {"waiting", "polling"}
          /\ Unfinished(q) = Unfinished(p) \ {p.task}
          /\ \A e \in DOMAIN p.events : /\ q.events[e].triggered = p.events[e].triggered
                                        /\ q.events[e].awaited = p.events[e].awaited
      BY <1>2, <3>6, DoneSound
    <3>8. \A e \in Unfinished(q) : \E f \in Unfinished(r) :
                        /\ q.events[e].triggered = r.events[f].triggered
                        /\ q.events[e].awaited = r.events[f].awaited
                        /\ q.task = e /\ r.task # 0 => f = r.task
                        /\ f = r.task /\ q.pc = "reading" => q.task = e
      <4> TAKE e \in Unfinished(q)
      <4>1. e \in DOMAIN p.events /\ e # 0
        BY <3>7, <1>2, <1>3 DEF SlotRecord
      <4>2. PICK f \in Unfinished(r) : p.events[e] = r.events[f]
        BY <4>1, <1>2
      <4> QED BY <4>1, <4>2, <3>7
    <3>9. slot' = [slot EXCEPT ![s] = q] /\ Seated(s, r.client, q.client)
      BY <1>2, <2>3, <3>6, <3>7 DEF Seated
    <3> QED BY <1>2, <1>4, <2>1, <3>7, <3>8, <3>9 DEF UpdateOutcome
  <2> QED BY <1>1, <1>4, <2>2, <2>3 DEF Update
<1>5. CASE r.client # Nobody /\ Connected(r)
  <2>1. PICK q : q = [p EXCEPT !.chat = <<>>, !.pc = "reading"]
    OBVIOUS
  <2>2. slot' = [slot EXCEPT ![s] = q] /\ knocking' = knocking
    BY <1>1, <1>5, <2>1 DEF Update
  <2>3. /\ q \in SlotRecord /\ q.client = p.client /\ q.up = p.up /\ q.chat = <<>>
        /\ q.inq = p.inq /\ q.events = p.events /\ q.task = p.task /\ q.signals = p.signals
        /\ q.started = p.started /\ q.pc = "reading"
    BY <1>0, <1>3, <2>1 DEF SlotRecord
  <2>4. Unfinished(q) = Unfinished(p)
    BY <2>3 DEF Unfinished
  <2>5. SlotSound(q)
    BY <1>2, <1>5, <2>3, <2>4 DEF SlotSound, AtWork, ThreadSound
  <2>6. Seated(s, r.client, q.client)
    BY <1>2, <2>2, <2>3 DEF Seated
  <2>7. \A e \in Unfinished(q) : \E f \in Unfinished(r) :
                        /\ q.events[e].triggered = r.events[f].triggered
                        /\ q.events[e].awaited = r.events[f].awaited
                        /\ q.task = e /\ r.task # 0 => f = r.task
                        /\ f = r.task /\ q.pc = "reading" => q.task = e
    BY <1>2, <2>3, <2>4
  <2>8. /\ q.started = r.started /\ q.inq = r.inq /\ q.client = r.client /\ q.up = r.up
        /\ q.task = (IF r.task = 0 THEN 0 ELSE 1) /\ q.chat = <<>> /\ q.pc = "reading"
    BY <1>2, <2>3
  <2>9. UpdateOutcome(s, r, q)
    BY <1>5, <2>2, <2>5, <2>6, <2>7, <2>8 DEF UpdateOutcome
  <2> QED BY <2>9
<1>6. CASE r.client # Nobody /\ ~Connected(r)
  <2>1. r.up = FALSE /\ r.inq = <<>>
    BY <1>3, <1>6 DEF Connected, SlotRecord
  <2>2. PICK u : u = [p EXCEPT !.client = Nobody, !.events = AllCompleted(@)]
    OBVIOUS
  <2>30. p.inq = <<>>
    BY <1>2, <2>1
  <2>31. p.up = FALSE
    BY <1>2, <2>1
  <2>32. AtWork(p)
    BY <1>2
  <2>3. /\ AtWork(u) /\ Unfinished(u) = {} /\ u.client = Nobody /\ u.inq = <<>> /\ ~u.up
        /\ u.chat = p.chat /\ u.started = p.started
    BY <2>32, <2>30, <2>31, <2>2, AllCompletedAtWork
  <2>4. PICK q : q = Done(u)
    OBVIOUS
  <2>5. /\ SlotSound(q) /\ q.client = u.client /\ q.up = u.up /\ q.inq = u.inq /\ q.chat = u.chat
        /\ q.started = u.started /\ q.pc \in {"waiting", "polling"}
        /\ Unfinished(q) = {}
    BY <2>3, <2>4, DoneSound
  <2>6. slot' = [slot EXCEPT ![s] = q] /\ knocking' = knocking
    BY <1>1, <1>6, <2>2, <2>4 DEF Update
  <2>7. Seated(s, r.client, q.client)
    BY <2>3, <2>5, <2>6 DEF Seated
  <2> QED BY <1>2, <1>6, <2>1, <2>3, <2>5, <2>6, <2>7 DEF UpdateOutcome
<1> QED BY <1>4, <1>5, <1>6

\* A thread that goes back to sleep, or to polling, leaves all but its events alone.
Rested(s, q) ==
    /\ SlotSound(q) /\ slot' = [slot EXCEPT ![s] = q] /\ knocking' = knocking
    /\ q.client = slot[s].client /\ q.up = slot[s].up /\ q.inq = slot[s].inq
    /\ q.chat = slot[s].chat /\ q.started = slot[s].started /\ q.task = 0
    /\ q.pc \in {"waiting", "polling"}
    /\ Unfinished(q) = Unfinished(slot[s]) \ {slot[s].task} \/ slot[s].task = 0
    /\ \A e \in Unfinished(q) :
          /\ e \in Unfinished(slot[s])
          /\ q.events[e].triggered = slot[s].events[e].triggered
          /\ q.events[e].awaited = slot[s].events[e].awaited

LEMMA DoneRested ==
    ASSUME SlotsInv, NEW s \in Slots, NEW r, AtWork(r), r.events = slot[s].events,
           r.client = slot[s].client, r.up = slot[s].up, r.inq = slot[s].inq,
           r.chat = slot[s].chat, r.started = slot[s].started,
           r.task = slot[s].task \/ slot[s].task = 0,
           slot' = [slot EXCEPT ![s] = Done(r)], knocking' = knocking
    PROVE  Rested(s, Done(r))
<1>1. Unfinished(r) = Unfinished(slot[s])
  BY DEF Unfinished
<1>2. PICK q : q = Done(r)
  OBVIOUS
<1>3. /\ SlotSound(q) /\ q.client = r.client /\ q.up = r.up /\ q.inq = r.inq /\ q.chat = r.chat
      /\ q.started = r.started /\ q.task = 0 /\ q.pc \in {"waiting", "polling"}
      /\ Unfinished(q) = Unfinished(r) \ {r.task}
      /\ \A e \in DOMAIN r.events : /\ q.events[e].triggered = r.events[e].triggered
                                    /\ q.events[e].awaited = r.events[e].awaited
  BY <1>2, DoneSound
<1>4. \A e \in Unfinished(q) : e \in Unfinished(r) /\ e \in DOMAIN r.events
  BY <1>3 DEF Unfinished
<1>5. Rested(s, q)
  BY <1>1, <1>2, <1>3, <1>4 DEF Rested
<1> QED BY <1>2, <1>5

\* A wake-up: nothing to do, or the update for the first unfinished event.
BusyWith(s, b) ==
    /\ AtWork(b) /\ b.task \in Unfinished(b) /\ b.task # 0
    /\ b.events = slot[s].events /\ b.client = slot[s].client /\ b.up = slot[s].up
    /\ b.inq = slot[s].inq /\ b.chat = slot[s].chat /\ b.started = slot[s].started
    /\ ~b.started

LEMMA WakeStep ==
    ASSUME SlotsInv, NEW s \in Slots, Wake(s)
    PROVE  /\ slot[s].pc = "waiting" /\ slot[s].task = 0
           /\ \/ \E q : Rested(s, q)
              \/ \E b, q : /\ BusyWith(s, b) /\ UpdateOutcome(s, b, q)
                           /\ b.events[b.task].triggered \/ (~launched /\ ~Connected(slot[s]))
<1>0. /\ SlotSound(slot[s]) /\ slot[s] \in SlotRecord /\ slot[s].pc = "waiting"
      /\ slot[s].signals \in Nat \ {0} /\ slot[s].task = 0
  <2>1. SlotSound(slot[s]) /\ slot[s] \in SlotRecord /\ slot[s].pc = "waiting"
    BY DEF SlotsInv, SlotSound, Wake
  <2>2. slot[s].signals \in Nat \ {0}
    BY <2>1 DEF Wake, SlotRecord
  <2> QED BY <2>1, <2>2 DEF SlotSound, ThreadSound
<1>1. PICK k : k = slot[s].signals - 1
  OBVIOUS
<1>2. PICK r : r = [slot[s] EXCEPT !.signals = k]
  OBVIOUS
<1>3. /\ r = [slot[s] EXCEPT !.signals = @ - 1] /\ k \in Nat
      /\ r \in SlotRecord /\ r.events = slot[s].events /\ r.client = slot[s].client
      /\ r.up = slot[s].up /\ r.inq = slot[s].inq /\ r.chat = slot[s].chat
      /\ r.started = slot[s].started /\ r.task = 0 /\ r.signals = k
  <2>1. k \in Nat
    BY <1>0, <1>1
  <2>2. r = [slot[s] EXCEPT !.signals = @ - 1]
    BY <1>1, <1>2
  <2>3. slot[s] \in SlotRecord /\ slot[s].task = 0
    BY <1>0
  <2> HIDE <1>1
  <2>4. /\ r \in SlotRecord /\ r.events = slot[s].events /\ r.client = slot[s].client
        /\ r.up = slot[s].up /\ r.inq = slot[s].inq /\ r.chat = slot[s].chat
        /\ r.started = slot[s].started /\ r.task = 0 /\ r.signals = k
    BY <1>2, <2>1, <2>3 DEF SlotRecord
  <2> QED BY <2>1, <2>2, <2>4
<1>4. Unfinished(r) = Unfinished(slot[s])
  BY <1>3 DEF Unfinished
<1>5. CASE r.started \/ Unfinished(r) = {}
  <2>1. slot' = [slot EXCEPT ![s] = Done(r)] /\ knocking' = knocking
    BY <1>3, <1>5 DEF Wake
  <2>2. r.started \/ Cardinality(Unfinished(r) \ {r.task}) <= r.signals
    <3>1. CASE Unfinished(r) = {}
      <4>1. Unfinished(r) \ {r.task} = {}
        BY <3>1
      <4>2. Cardinality(Unfinished(r) \ {r.task}) = 0
        BY <4>1, FS_EmptySet
      <4> QED BY <4>2, <1>3
    <3> QED BY <3>1, <1>5
  <2>3. AtWork(r)
    BY <1>0, <1>3, <2>2 DEF AtWork, SlotSound, ThreadSound
  <2>4. Rested(s, Done(r))
    BY <1>0, <1>3, <2>1, <2>3, DoneRested
  <2> QED BY <2>4, <1>0
<1>6. CASE ~r.started /\ Unfinished(r) # {}
  <2>0. PICK first : first = Min(Unfinished(r))
    OBVIOUS
  <2>01. PICK b : b = [r EXCEPT !.task = first]
    OBVIOUS
  <2>1. /\ first \in Unfinished(r) /\ Unfinished(r) = first .. Len(r.events)
        /\ Unfinished(r) \subseteq 1 .. Len(r.events) /\ Len(r.events) \in Nat
    BY <1>0, <1>3, <1>6, <2>0, UnfinishedLast, UnfinishedFinite DEF SlotSound
  <2>2. IF r.events[first].triggered \/ (~launched /\ ~Connected(r))
        THEN Update(s, b)
        ELSE slot' = [slot EXCEPT ![s] = Done(b)] /\ knocking' = knocking
    BY <1>3, <1>6, <2>0, <2>01 DEF Wake
  <2>20. first \in Nat
    BY <2>1
  <2>3. /\ b \in SlotRecord /\ b.events = slot[s].events /\ b.client = slot[s].client
        /\ b.up = slot[s].up /\ b.inq = slot[s].inq /\ b.chat = slot[s].chat
        /\ b.started = slot[s].started /\ b.task = first /\ b.signals = k
    BY <1>3, <2>20, <2>01 DEF SlotRecord
  <2>4. Unfinished(b) = Unfinished(r)
    BY <1>3, <2>3 DEF Unfinished
  <2>5. Cardinality(Unfinished(b) \ {first}) <= k
    <3>1. IsFiniteSet(Unfinished(r)) /\ Cardinality(Unfinished(r)) \in Nat
      BY <1>3, UnfinishedFinite, FS_CardinalityType
    <3>2. Cardinality(Unfinished(r) \ {first}) = Cardinality(Unfinished(r)) - 1
      BY <2>1, <3>1, FS_RemoveElement
    <3>3. Unfinished(slot[s]) \ {slot[s].task} = Unfinished(r)
      BY <1>0, <1>4, <2>1
    <3>4. Cardinality(Unfinished(r)) <= slot[s].signals
      BY <1>0, <1>3, <1>6, <3>3 DEF SlotSound, ThreadSound
    <3> QED BY <1>0, <1>1, <2>4, <3>1, <3>2, <3>4
  <2>6. AtWork(b) /\ first # 0
    BY <1>0, <1>3, <2>1, <2>3, <2>4, <2>5 DEF AtWork, SlotSound, ThreadSound
  <2>7. Connected(r) <=> Connected(slot[s])
    BY <1>3 DEF Connected
  <2>8. CASE Update(s, b) /\ (r.events[first].triggered \/ (~launched /\ ~Connected(r)))
    <3>1. b.task # 0 => b.task \in Unfinished(b)
      BY <2>1, <2>3, <2>4
    <3>2. Update(s, b)
      BY <2>8
    <3>3. AtWork(b)
      BY <2>6
    <3>4. PICK q : UpdateOutcome(s, b, q)
      BY <3>1, <3>2, <3>3, UpdateStep
    <3>5. BusyWith(s, b)
      BY <1>3, <1>6, <2>1, <2>3, <2>4, <2>6 DEF BusyWith
    <3> QED BY <1>0, <1>3, <2>3, <2>7, <2>8, <3>4, <3>5
  <2>9. CASE slot' = [slot EXCEPT ![s] = Done(b)] /\ knocking' = knocking
    <3>1. Rested(s, Done(b))
      BY <1>0, <2>3, <2>6, <2>9, DoneRested
    <3> QED BY <3>1, <1>0
  <2> QED BY <2>2, <2>8, <2>9
<1> QED BY <1>5, <1>6

LEMMA OthersFramed ==
    ASSUME OthersInv,
           UNCHANGED <<place, request, inBroadcast, queue, launched, main, sent, recv,
                       messages, timeouts>>
    PROVE  OthersInv'
BY DEF OthersInv

\* A step that leaves the events, the task and the client of the slot alone.
LEMMA SlotsKept ==
    ASSUME SlotsInv, NEW s \in Slots, NEW r \in SlotRecord, slot' = [slot EXCEPT ![s] = r],
           r.events = slot[s].events, r.task = slot[s].task, r.signals = slot[s].signals,
           r.started = slot[s].started, r.pc = slot[s].pc, r.client = slot[s].client,
           r.client = Nobody => ~r.up /\ r.inq = <<>>,
           knocking' = knocking, launched => launched'
    PROVE  SlotsInv'
<1>1. SlotSound(slot[s]) /\ (slot[s].started => launched)
  BY DEF SlotsInv
<1>2. SlotSound(r)
  BY <1>1, SoundKept
<1>3. Seated(s, slot[s].client, r.client)
  BY DEF Seated
<1>4. r.started => launched'
  BY <1>1
<1> QED BY <1>2, <1>3, <1>4, OneSlot

LEMMA SendTextStep ==
    ASSUME SlotsInv, OthersInv, NEW s \in Slots, SendText(s)
    PROVE  /\ SlotsInv' /\ OthersInv'
           /\ slot[s].client \in Clients /\ Text(slot[s].client, sent[slot[s].client] + 1) \in Texts
<1>1. PICK c : c = slot[s].client
  OBVIOUS
<1>2. c \in Clients /\ slot[s] \in SlotRecord /\ slot[s].inq \in Seq(Messages)
  BY <1>1 DEF SlotsInv, SendText, SlotRecord
<1>3. /\ sent[c] \in Nat /\ messages \in Nat /\ MaxMessages \in Nat /\ sent[c] <= messages
      /\ messages < MaxMessages /\ messages' = messages + 1
  BY <1>2, ThreadBounds DEF OthersInv, SendText
<1>4. sent[c] + 1 \in 1 .. MaxMessages
  BY <1>3
<1>5. Text(c, sent[c] + 1) \in Texts
  BY <1>2, <1>4 DEF Texts
<1>6. PICK q : q = Append(slot[s].inq, Text(c, sent[c] + 1))
  OBVIOUS
<1>7. q \in Seq(Messages)
  BY <1>2, <1>5, <1>6 DEF Messages
<1>8. PICK r : r = [slot[s] EXCEPT !.inq = q]
  OBVIOUS
<1>9. slot' = [slot EXCEPT ![s] = r]
  BY <1>1, <1>6, <1>8 DEF SendText, SlotsInv
<1>10. /\ r \in SlotRecord /\ r.events = slot[s].events /\ r.task = slot[s].task
       /\ r.signals = slot[s].signals /\ r.started = slot[s].started /\ r.pc = slot[s].pc
       /\ r.client = slot[s].client
  BY <1>2, <1>7, <1>8 DEF SlotRecord
<1>11. r.client = Nobody => ~r.up /\ r.inq = <<>>
  BY <1>10 DEF SendText
<1>12. knocking' = knocking /\ (launched => launched')
  BY DEF SendText
<1>13. SlotsInv'
  BY <1>9, <1>10, <1>11, <1>12, SlotsKept
<1>14. OthersInv'
  <2>1. sent' \in [Clients -> 0 .. MaxMessages] /\ messages' \in 0 .. MaxMessages
    BY <1>1, <1>2, <1>3, <1>4 DEF SendText, OthersInv
  <2>2. ASSUME NEW d \in Clients PROVE sent'[d] <= messages'
    <3>1. sent[d] \in Nat /\ sent[d] <= messages
      BY DEF OthersInv
    <3>2. sent'[d] = IF d = c THEN sent[c] + 1 ELSE sent[d]
      BY <1>1, <1>2 DEF SendText, OthersInv
    <3> QED BY <3>1, <3>2, <1>3
  <2> QED BY <2>1, <2>2 DEF OthersInv, SendText
<1> QED BY <1>1, <1>2, <1>5, <1>13, <1>14

LEMMA SendOtherStep ==
    ASSUME SlotsInv, OthersInv, NEW s \in Slots, SendOther(s)
    PROVE  SlotsInv' /\ OthersInv'
<1>1. PICK m \in {Setup, Command} \cup Requests :
          slot' = [slot EXCEPT ![s].inq = Append(@, m)]
  BY DEF SendOther, RequestsFrom
<1>2. slot[s] \in SlotRecord /\ slot[s].inq \in Seq(Messages) /\ m \in Messages
  BY DEF SlotsInv, SlotRecord, Messages
<1>3. PICK q : q = Append(slot[s].inq, m)
  OBVIOUS
<1>4. q \in Seq(Messages)
  BY <1>2, <1>3
<1>5. PICK r : r = [slot[s] EXCEPT !.inq = q]
  OBVIOUS
<1>6. slot' = [slot EXCEPT ![s] = r]
  BY <1>1, <1>3, <1>5 DEF SlotsInv
<1>7. /\ r \in SlotRecord /\ r.events = slot[s].events /\ r.task = slot[s].task
      /\ r.signals = slot[s].signals /\ r.started = slot[s].started /\ r.pc = slot[s].pc
      /\ r.client = slot[s].client
  BY <1>2, <1>4, <1>5 DEF SlotRecord
<1>8. r.client = Nobody => ~r.up /\ r.inq = <<>>
  BY <1>7 DEF SendOther
<1>9. knocking' = knocking /\ (launched => launched')
  BY DEF SendOther
<1>10. SlotsInv'
  BY <1>6, <1>7, <1>8, <1>9, SlotsKept
<1>11. OthersInv'
  <2>1. messages' \in 0 .. MaxMessages /\ messages <= messages'
    BY ThreadBounds DEF SendOther, OthersInv
  <2>2. ASSUME NEW d \in Clients PROVE sent'[d] <= messages'
    <3>1. sent[d] \in Nat /\ sent[d] <= messages /\ messages \in Nat /\ sent'[d] = sent[d]
      BY DEF OthersInv, SendOther
    <3> QED BY <2>1, <3>1, ThreadBounds
  <2> QED BY <2>1, <2>2 DEF OthersInv, SendOther
<1> QED BY <1>10, <1>11

LEMMA LeaveStep ==
    ASSUME SlotsInv, OthersInv, NEW s \in Slots, Leave(s)
    PROVE  SlotsInv' /\ OthersInv'
<1>1. slot[s] \in SlotRecord /\ slot[s].client # Nobody
  BY ThreadBounds DEF SlotsInv, Leave
<1>2. PICK r : r = [slot[s] EXCEPT !.up = FALSE]
  OBVIOUS
<1>3. slot' = [slot EXCEPT ![s] = r] /\ knocking' = knocking /\ (launched => launched')
  BY <1>2 DEF Leave, SlotsInv
<1>4. /\ r \in SlotRecord /\ r.events = slot[s].events /\ r.task = slot[s].task
      /\ r.signals = slot[s].signals /\ r.started = slot[s].started /\ r.pc = slot[s].pc
      /\ r.client = slot[s].client
  BY <1>1, <1>2 DEF SlotRecord
<1>5. r.client = Nobody => ~r.up /\ r.inq = <<>>
  BY <1>1, <1>4
<1>6. SlotsInv'
  BY <1>3, <1>4, <1>5, SlotsKept
<1> QED BY <1>6, OthersFramed DEF Leave

LEMMA WakeKeeps ==
    ASSUME SlotsInv, OthersInv, NEW s \in Slots, Wake(s)
    PROVE  SlotsInv' /\ OthersInv'
<1>1. launched' = launched /\ (slot[s].started => launched)
  BY DEF Wake, SlotsInv
<1>2. ASSUME NEW q, Rested(s, q) PROVE SlotsInv'
  <2>1. /\ SlotSound(q) /\ slot' = [slot EXCEPT ![s] = q] /\ q.started = slot[s].started
        /\ Seated(s, slot[s].client, q.client)
    BY <1>2 DEF Rested, Seated
  <2>2. (q.started => launched') /\ (launched => launched')
    BY <1>1, <2>1
  <2> QED BY <2>1, <2>2, OneSlot
<1>3. ASSUME NEW b, NEW q, BusyWith(s, b), UpdateOutcome(s, b, q) PROVE SlotsInv'
  <2>1. /\ SlotSound(q) /\ slot' = [slot EXCEPT ![s] = q] /\ q.started = slot[s].started
        /\ Seated(s, slot[s].client, q.client)
    BY <1>3 DEF BusyWith, UpdateOutcome
  <2>2. (q.started => launched') /\ (launched => launched')
    BY <1>1, <2>1
  <2> QED BY <2>1, <2>2, OneSlot
<1>4. SlotsInv'
  BY <1>2, <1>3, WakeStep
<1> QED BY <1>4, OthersFramed DEF Wake

\* Polling the socket of a match.
LEMMA PollStep ==
    ASSUME SlotsInv, NEW s \in Slots, Poll(s)
    PROVE  /\ SlotSound(slot[s]) /\ slot[s].started /\ launched
           /\ \/ \E q : UpdateOutcome(s, slot[s], q)
              \/ \E q : /\ SlotSound(q) /\ slot' = [slot EXCEPT ![s] = q] /\ knocking' = knocking
                        /\ q.started = slot[s].started /\ q.client = slot[s].client
                        /\ q.chat = slot[s].chat /\ q.inq = slot[s].inq
<1>1. /\ SlotSound(slot[s]) /\ slot[s] \in SlotRecord /\ slot[s].pc = "polling"
      /\ slot[s].task = 0 /\ slot[s].started /\ launched
  BY DEF SlotsInv, SlotSound, Poll, ThreadSound
<1>2. CASE slot' = [slot EXCEPT ![s].pc = "ended"] /\ knocking' = knocking
  <2>1. PICK q : q = [slot[s] EXCEPT !.pc = "ended"]
    OBVIOUS
  <2>2. /\ q \in SlotRecord /\ q.events = slot[s].events /\ q.task = slot[s].task
        /\ q.signals = slot[s].signals /\ q.started = slot[s].started /\ q.pc = "ended"
        /\ q.client = slot[s].client /\ q.chat = slot[s].chat /\ q.inq = slot[s].inq
        /\ q.up = slot[s].up
    BY <1>1, <2>1 DEF SlotRecord
  <2>3. Unfinished(q) = Unfinished(slot[s])
    BY <2>2 DEF Unfinished
  <2>4. SlotSound(q)
    BY <1>1, <2>2, <2>3 DEF SlotSound, ThreadSound
  <2>5. slot' = [slot EXCEPT ![s] = q]
    BY <1>2, <2>1 DEF SlotsInv
  <2> QED BY <1>1, <1>2, <2>2, <2>4, <2>5
<1>3. CASE Update(s, slot[s])
  <2>1. AtWork(slot[s])
    BY <1>1, SoundAtWork
  <2>2. slot[s].task # 0 => slot[s].task \in Unfinished(slot[s])
    BY <1>1
  <2>3. \E q : UpdateOutcome(s, slot[s], q)
    BY <1>3, <2>1, <2>2, UpdateStep
  <2> QED BY <1>1, <2>3
<1> QED BY <1>2, <1>3 DEF Poll

LEMMA PollKeeps ==
    ASSUME SlotsInv, OthersInv, NEW s \in Slots, Poll(s)
    PROVE  SlotsInv' /\ OthersInv'
<1>1. PICK q : /\ SlotSound(q) /\ slot' = [slot EXCEPT ![s] = q] /\ q.started = slot[s].started
               /\ Seated(s, slot[s].client, q.client)
  BY PollStep DEF UpdateOutcome, Seated
<1>2. (q.started => launched') /\ (launched => launched')
  BY PollStep DEF Poll
<1>3. SlotsInv'
  BY <1>1, <1>2, OneSlot
<1> QED BY <1>3, OthersFramed DEF Poll

\* One message is taken from the socket; a text is kept in the slot.
Taken(s, q) ==
    LET r == slot[s]
    IN  /\ SlotSound(q) /\ slot' = [slot EXCEPT ![s] = q]
        /\ q.client = r.client /\ q.up = r.up /\ q.started = r.started /\ q.inq = Tail(r.inq)
        /\ r.client # Nobody /\ Head(r.inq) \in Messages /\ r.inq # <<>> /\ r.pc = "reading"
        /\ \/ /\ Head(r.inq).kind = "text" /\ q.chat = Append(r.chat, Head(r.inq))
              /\ Head(r.inq) \in Texts /\ q.pc = "reading"
              /\ q.events = r.events /\ q.task = r.task
           \/ /\ Head(r.inq).kind = "setup" /\ q.chat = r.chat /\ q.pc = "setup"
              /\ q.events = r.events /\ q.task = r.task
           \/ /\ Head(r.inq).kind \notin {"text", "setup"} /\ q.chat = r.chat
              /\ q.pc \in {"waiting", "polling"} /\ Unfinished(q) = Unfinished(r) \ {r.task}
              /\ \A e \in Unfinished(q) : /\ q.events[e].triggered = r.events[e].triggered
                                          /\ q.events[e].awaited = r.events[e].awaited

LEMMA ReadStep ==
    ASSUME SlotsInv, NEW s \in Slots, Read(s)
    PROVE  \E q : Taken(s, q)
<1> DEFINE r == slot[s]
           m == Head(r.inq)
<1>1. /\ SlotSound(r) /\ r \in SlotRecord /\ r.pc = "reading" /\ r.inq # <<>>
      /\ r.inq \in Seq(Messages) /\ r.chat \in Seq(Texts) /\ r.client # Nobody
  BY DEF SlotsInv, SlotSound, Read, SlotRecord, ThreadSound
<1>2. m \in Messages /\ Tail(r.inq) \in Seq(Messages)
  BY <1>1
<1>3. PICK rest : rest = Tail(r.inq)
  OBVIOUS
<1>4. PICK taken : taken = [r EXCEPT !.inq = rest]
  OBVIOUS
<1>5. slot' = [slot EXCEPT ![s] =
          CASE m.kind = "text"  -> [taken EXCEPT !.chat = Append(@, m)]
            [] m.kind = "setup" -> [taken EXCEPT !.pc = "setup"]
            [] OTHER            -> Done(taken)]
  BY <1>3, <1>4 DEF Read
<1>6. /\ taken \in SlotRecord /\ taken.events = r.events /\ taken.task = r.task
      /\ taken.signals = r.signals /\ taken.started = r.started /\ taken.pc = r.pc
      /\ taken.client = r.client /\ taken.up = r.up /\ taken.inq = rest /\ taken.chat = r.chat
  BY <1>1, <1>2, <1>3, <1>4 DEF SlotRecord
<1> HIDE DEF m
<1>7. CASE m.kind = "text"
  <2>1. m \in Texts
    BY <1>2, <1>7 DEF Messages, Setup, Command, Requests, Switch
  <2>2. PICK chat : chat = Append(r.chat, m)
    OBVIOUS
  <2>3. chat \in Seq(Texts)
    BY <1>1, <2>1, <2>2
  <2>4. PICK q : q = [taken EXCEPT !.chat = chat]
    OBVIOUS
  <2>5. slot' = [slot EXCEPT ![s] = q]
    BY <1>5, <1>6, <1>7, <2>2, <2>4
  <2>6. /\ q \in SlotRecord /\ q.events = r.events /\ q.task = r.task
        /\ q.signals = r.signals /\ q.started = r.started /\ q.pc = r.pc
        /\ q.client = r.client /\ q.up = r.up /\ q.inq = rest /\ q.chat = chat
    BY <1>6, <2>3, <2>4 DEF SlotRecord
  <2>7. SlotSound(q)
    BY <1>1, <2>6, SoundKept
  <2>8. Taken(s, q)
    BY <1>1, <1>2, <1>3, <1>7, <2>1, <2>2, <2>5, <2>6, <2>7 DEF Taken, m
  <2> QED BY <2>8
<1>8. CASE m.kind = "setup"
  <2>1. PICK q : q = [taken EXCEPT !.pc = "setup"]
    OBVIOUS
  <2>2. slot' = [slot EXCEPT ![s] = q]
    BY <1>5, <1>8, <2>1
  <2>3. /\ q \in SlotRecord /\ q.events = r.events /\ q.task = r.task
        /\ q.signals = r.signals /\ q.started = r.started /\ q.pc = "setup"
        /\ q.client = r.client /\ q.up = r.up /\ q.inq = rest /\ q.chat = r.chat
    BY <1>6, <2>1 DEF SlotRecord
  <2>4. Unfinished(q) = Unfinished(r)
    BY <2>3 DEF Unfinished
  <2>5. SlotSound(q)
    BY <1>1, <2>3, <2>4 DEF SlotSound, ThreadSound
  <2>6. Taken(s, q)
    BY <1>1, <1>2, <1>3, <1>8, <2>2, <2>3, <2>5 DEF Taken, m
  <2> QED BY <2>6
<1>9. CASE m.kind \notin {"text", "setup"}
  <2>1. PICK q : q = Done(taken)
    OBVIOUS
  <2>2. slot' = [slot EXCEPT ![s] = q]
    BY <1>5, <1>9, <2>1
  <2>3. AtWork(r)
    BY <1>1, SoundAtWork
  <2>4. AtWork(taken)
    BY <1>1, <1>6, <2>3, AtWorkKept
  <2>5. /\ SlotSound(q) /\ q.client = taken.client /\ q.up = taken.up /\ q.inq = taken.inq
        /\ q.chat = taken.chat /\ q.started = taken.started /\ q.pc \in {"waiting", "polling"}
        /\ Unfinished(q) = Unfinished(taken) \ {taken.task}
        /\ \A e \in DOMAIN taken.events : /\ q.events[e].triggered = taken.events[e].triggered
                                          /\ q.events[e].awaited = taken.events[e].awaited
    BY <2>1, <2>4, DoneSound
  <2>6. Unfinished(taken) = Unfinished(r)
    BY <1>6 DEF Unfinished
  <2>7. \A e \in Unfinished(q) : /\ q.events[e].triggered = r.events[e].triggered
                                 /\ q.events[e].awaited = r.events[e].awaited
    BY <1>6, <2>5, <2>6 DEF Unfinished
  <2>8. Taken(s, q)
    BY <1>1, <1>2, <1>3, <1>6, <1>9, <2>2, <2>5, <2>6, <2>7 DEF Taken, m
  <2> QED BY <2>8
<1> QED BY <1>7, <1>8, <1>9

LEMMA ReadKeeps ==
    ASSUME SlotsInv, OthersInv, NEW s \in Slots, Read(s)
    PROVE  SlotsInv' /\ OthersInv'
<1>1. PICK q : Taken(s, q)
  BY ReadStep
<1>2. /\ SlotSound(q) /\ slot' = [slot EXCEPT ![s] = q] /\ Seated(s, slot[s].client, q.client)
      /\ q.started = slot[s].started
  BY <1>1 DEF Taken, Seated, Read, clientVars
<1>3. (q.started => launched') /\ (launched => launched')
  BY <1>2 DEF Read, SlotsInv
<1>4. SlotsInv'
  BY <1>2, <1>3, OneSlot
<1>5. request' \in [Slots -> Slots \cup {0}]
  <2> DEFINE m == Head(slot[s].inq)
  <2>1. CASE m.kind = "switch"
    <3>1. m.to \in Slots
      BY <1>1, <2>1 DEF Taken, Messages, Texts, Text, Setup, Command, Requests, Switch
    <3> QED BY <2>1, <3>1 DEF Read, Asked, OthersInv
  <2>2. CASE m.kind # "switch"
    BY <2>2 DEF Read, OthersInv
  <2> QED BY <2>1, <2>2
<1> QED BY <1>4, <1>5 DEF Read, OthersInv, clientVars

\* The end of a task, whether it broadcast settings or has read all there was.
LEMMA EndOfTask ==
    ASSUME SlotsInv, NEW s \in Slots, slot' = [slot EXCEPT ![s] = Done(@)], knocking' = knocking,
           launched' = launched
    PROVE  /\ Rested(s, Done(slot[s])) /\ SlotsInv'
<1>1. SlotSound(slot[s]) /\ AtWork(slot[s]) /\ (slot[s].started => launched)
  BY SoundAtWork DEF SlotsInv
<1>2. slot' = [slot EXCEPT ![s] = Done(slot[s])]
  BY DEF SlotsInv
<1>3. Rested(s, Done(slot[s]))
  BY <1>1, <1>2, DoneRested
<1>4. PICK q : q = Done(slot[s])
  OBVIOUS
<1>5. /\ SlotSound(q) /\ slot' = [slot EXCEPT ![s] = q] /\ q.started = slot[s].started
      /\ Seated(s, slot[s].client, q.client)
  BY <1>3, <1>4 DEF Rested, Seated
<1>6. (q.started => launched') /\ (launched => launched')
  BY <1>1, <1>5
<1>7. SlotsInv'
  BY <1>5, <1>6, OneSlot
<1> QED BY <1>3, <1>7

LEMMA EndKeeps ==
    ASSUME SlotsInv, OthersInv, NEW s \in Slots, EndBroadcast(s) \/ Finish(s)
    PROVE  SlotsInv' /\ OthersInv'
<1>1. SlotsInv'
  BY EndOfTask DEF EndBroadcast, Finish, clientVars
<1> QED BY <1>1 DEF EndBroadcast, Finish, clientVars, OthersInv
-----------------------------------------------------------------------------
(* The steps of the main thread.                                           *)

LEMMA GotoType ==
    ASSUME OthersInv, NEW at \in {"menu", "queue", "wait", "dispatch", "relay", "start"},
           NEW i \in Slots
    PROVE  /\ Goto(at, i) \in [at : {"menu", "queue", "wait", "dispatch", "relay", "start"},
                               i : Slots, todo : Seq(Texts)]
           /\ Goto(at, i).at = at /\ Goto(at, i).i = i /\ Goto(at, i).todo = main.todo
BY DEF OthersInv, Goto

LEMMA NextSlotType ==
    ASSUME OthersInv, NEW at \in {"dispatch", "start"}
    PROVE  /\ NextSlot(at) \in [at : {"menu", "queue", "wait", "dispatch", "relay", "start"},
                                i : Slots, todo : Seq(Texts)]
           /\ NextSlot(at).todo = main.todo
           /\ \/ NextSlot(at).at = at /\ NextSlot(at).i = main.i + 1 /\ main.i < NumSlots
              \/ NextSlot(at).at = "menu" /\ NextSlot(at).i = 1 /\ main.i = NumSlots
<1>1. main.i \in 1 .. NumSlots /\ NumSlots \in Nat \ {0}
  BY ThreadBounds DEF OthersInv, Slots
<1>2. CASE main.i < NumSlots
  <2>1. PICK i : i = main.i + 1
    OBVIOUS
  <2>2. i \in Slots /\ NextSlot(at) = Goto(at, i)
    BY <1>1, <1>2, <2>1 DEF Slots, NextSlot
  <2> QED BY <1>2, <2>1, <2>2, GotoType
<1>3. CASE ~(main.i < NumSlots)
  <2>1. PICK i : i = 1
    OBVIOUS
  <2>2. i \in Slots /\ NextSlot(at) = Goto("menu", i) /\ main.i = NumSlots
    BY <1>1, <1>3, <2>1 DEF Slots, NextSlot
  <2> QED BY <2>1, <2>2, GotoType
<1> QED BY <1>2, <1>3

LEMMA BroadcastType ==
    ASSUME OthersInv, NEW text \in Texts, NEW exclude \in Slots,
           NEW rest \in Seq([text : Texts, exclude : Slots]),
           NEW shown \in [Clients \cup {Server} -> Seq(Texts)],
           Broadcast(text, exclude, rest, shown)
    PROVE  /\ queue' \in Seq([text : Texts, exclude : Slots])
           /\ recv' \in [Clients \cup {Server} -> Seq(Texts)]
<1>1. recv \in [Clients \cup {Server} -> Seq(Texts)] /\ DOMAIN recv = Clients \cup {Server}
  BY DEF OthersInv
<1>2. CASE inBroadcast
  <2>1. PICK entry : entry = [text |-> text, exclude |-> exclude]
    OBVIOUS
  <2>2. entry \in [text : Texts, exclude : Slots]
    BY <2>1
  <2>3. queue' = Append(rest, entry) /\ recv' = shown
    BY <1>2, <2>1 DEF Broadcast
  <2>4. PICK Entries : Entries = [text : Texts, exclude : Slots]
    OBVIOUS
  <2>5. Append(rest, entry) \in Seq(Entries)
    BY <2>2, <2>4
  <2> QED BY <2>3, <2>4, <2>5
<1>3. CASE ~inBroadcast
  <2>1. ASSUME NEW c \in Clients \cup {Server} PROVE Relayed(text, exclude)[c] \in Seq(Texts)
    <3>1. recv[c] \in Seq(Texts) /\ Append(recv[c], text) \in Seq(Texts)
      BY <1>1
    <3>2. Relayed(text, exclude)[c] \in {recv[c], Append(recv[c], text)}
      BY <1>1 DEF Relayed
    <3> QED BY <3>1, <3>2
  <2>2. recv' = [c \in Clients \cup {Server} |->
                    IF c = Server THEN shown[c] ELSE Relayed(text, exclude)[c]]
    BY <1>1, <1>3 DEF Broadcast
  <2>3. recv' \in [Clients \cup {Server} -> Seq(Texts)]
    BY <2>1, <2>2
  <2> QED BY <1>3, <2>3 DEF Broadcast
<1> QED BY <1>2, <1>3

LEMMA ProcessQueueKeeps ==
    ASSUME SlotsInv, OthersInv, ProcessQueue
    PROVE  SlotsInv' /\ OthersInv'
<1>1. SlotsInv'
  BY DEF SlotsInv, ProcessQueue, SlotSound
<1>2. PICK h, rest : h = Head(queue) /\ rest = Tail(queue)
  OBVIOUS
<1>3. h \in [text : Texts, exclude : Slots] /\ rest \in Seq([text : Texts, exclude : Slots])
  <2>1. PICK Entries : Entries = [text : Texts, exclude : Slots]
    OBVIOUS
  <2>2. queue \in Seq(Entries) /\ queue # <<>>
    BY <2>1 DEF OthersInv, ProcessQueue
  <2>3. Head(queue) \in Entries /\ Tail(queue) \in Seq(Entries)
    BY <2>2
  <2> QED BY <1>2, <2>1, <2>3
<1>4. PICK text, exclude : text = h.text /\ exclude = h.exclude
  OBVIOUS
<1>5. text \in Texts /\ exclude \in Slots
  BY <1>3, <1>4
<1>6. Broadcast(text, exclude, rest, recv)
  BY <1>2, <1>4 DEF ProcessQueue
<1>7. recv \in [Clients \cup {Server} -> Seq(Texts)]
  BY DEF OthersInv
<1>8. /\ queue' \in Seq([text : Texts, exclude : Slots])
      /\ recv' \in [Clients \cup {Server} -> Seq(Texts)]
  BY <1>3, <1>5, <1>6, <1>7, BroadcastType
<1>9. PICK one : one = 1
  OBVIOUS
<1>10. one \in Slots /\ main' = Goto("queue", one)
  BY <1>9, ThreadBounds DEF Slots, ProcessQueue
<1>11. /\ main' \in [at : {"menu", "queue", "wait", "dispatch", "relay", "start"},
                    i : Slots, todo : Seq(Texts)]
       /\ main'.at = "queue"
  BY <1>10, GotoType
<1> QED BY <1>1, <1>8, <1>11 DEF OthersInv, ProcessQueue

LEMMA RelayKeeps ==
    ASSUME SlotsInv, OthersInv, Relay
    PROVE  /\ SlotsInv' /\ OthersInv'
           /\ Head(main.todo) \in Texts
           /\ [recv EXCEPT ![Server] = Append(@, Head(main.todo))] \in [Clients \cup {Server} -> Seq(Texts)]
<1>1. SlotsInv'
  BY DEF SlotsInv, Relay, SlotSound
<1>2. PICK text : text = Head(main.todo)
  OBVIOUS
<1>3. text \in Texts /\ Tail(main.todo) \in Seq(Texts) /\ main.i \in Slots
  BY <1>2 DEF OthersInv, Relay
<1>4. PICK shown : shown = [recv EXCEPT ![Server] = Append(@, text)]
  OBVIOUS
<1>5. shown \in [Clients \cup {Server} -> Seq(Texts)]
  BY <1>3, <1>4 DEF OthersInv
<1>6. queue \in Seq([text : Texts, exclude : Slots])
  BY DEF OthersInv
<1>7. Broadcast(text, main.i, queue, shown)
  BY <1>2, <1>4 DEF Relay
<1>8. /\ queue' \in Seq([text : Texts, exclude : Slots])
      /\ recv' \in [Clients \cup {Server} -> Seq(Texts)]
  BY <1>3, <1>5, <1>6, <1>7, BroadcastType
<1>9. /\ main' \in [at : {"menu", "queue", "wait", "dispatch", "relay", "start"},
                   i : Slots, todo : Seq(Texts)]
      /\ main'.at = main.at
  <2>1. main' = [main EXCEPT !.todo = Tail(main.todo)]
    BY DEF Relay
  <2> QED BY <1>3, <2>1 DEF OthersInv
<1> QED BY <1>1, <1>2, <1>3, <1>4, <1>5, <1>8, <1>9 DEF OthersInv, Relay

\* Clearing the texts of a slot.
LEMMA ChatCleared ==
    ASSUME SlotsInv, NEW s \in Slots, slot' = [slot EXCEPT ![s].chat = <<>>],
           knocking' = knocking, launched' = launched
    PROVE  SlotsInv'
<1>1. slot[s] \in SlotRecord /\ SlotSound(slot[s]) /\ <<>> \in Seq(Texts)
  BY EmptySeq DEF SlotsInv
<1>2. PICK r : r = [slot[s] EXCEPT !.chat = <<>>]
  OBVIOUS
<1>3. slot' = [slot EXCEPT ![s] = r]
  BY <1>2 DEF SlotsInv
<1>4. /\ r \in SlotRecord /\ r.events = slot[s].events /\ r.task = slot[s].task
      /\ r.signals = slot[s].signals /\ r.started = slot[s].started /\ r.pc = slot[s].pc
      /\ r.client = slot[s].client /\ r.up = slot[s].up /\ r.inq = slot[s].inq
  BY <1>1, <1>2 DEF SlotRecord
<1>5. r.client = Nobody => ~r.up /\ r.inq = <<>>
  BY <1>1, <1>4 DEF SlotSound, ThreadSound
<1> QED BY <1>3, <1>4, <1>5, SlotsKept

LEMMA DispatchKeeps ==
    ASSUME SlotsInv, OthersInv, Dispatch
    PROVE  SlotsInv' /\ OthersInv'
<1> DEFINE s == place[main.i]
<1>1. s \in Slots /\ main.i \in Slots
  BY DEF OthersInv
<1>2. CASE slot[s].chat = <<>>
  <2>1. main' = NextSlot("dispatch") /\ slot' = slot
    BY <1>2 DEF Dispatch
  <2>2. /\ main' \in [at : {"menu", "queue", "wait", "dispatch", "relay", "start"},
                     i : Slots, todo : Seq(Texts)]
        /\ main'.at # "start"
    BY <2>1, NextSlotType
  <2> QED BY <2>1, <2>2 DEF SlotsInv, OthersInv, Dispatch, clientVars, SlotSound
<1>3. CASE slot[s].chat # <<>>
  <2>1. /\ main' = [main EXCEPT !.at = "relay", !.todo = slot[s].chat]
        /\ slot' = [slot EXCEPT ![s].chat = <<>>]
    BY <1>3 DEF Dispatch
  <2>2. slot[s].chat \in Seq(Texts)
    BY <1>1 DEF SlotsInv, SlotRecord
  <2>3. /\ main' \in [at : {"menu", "queue", "wait", "dispatch", "relay", "start"},
                     i : Slots, todo : Seq(Texts)]
        /\ main'.at # "start"
    BY <1>1, <2>1, <2>2 DEF OthersInv
  <2>4. SlotsInv'
    BY <1>1, <2>1, ChatCleared DEF Dispatch, clientVars
  <2> QED BY <2>3, <2>4 DEF OthersInv, Dispatch, clientVars
<1> QED BY <1>2, <1>3

LEMMA RelayEndKeeps ==
    ASSUME SlotsInv, OthersInv, RelayEnd
    PROVE  SlotsInv' /\ OthersInv'
<1>1. place[main.i] \in Slots
  BY DEF OthersInv
<1>2. SlotsInv'
  BY <1>1, ChatCleared DEF RelayEnd, clientVars
<1>3. /\ main' \in [at : {"menu", "queue", "wait", "dispatch", "relay", "start"},
                   i : Slots, todo : Seq(Texts)]
      /\ main'.at # "start"
  BY NextSlotType DEF RelayEnd
<1> QED BY <1>2, <1>3 DEF OthersInv, RelayEnd, clientVars

\* The events a slot gets in an update of the lobby.
Notified(r, w) ==
    /\ SlotSound(w) /\ w.client = r.client /\ w.up = r.up /\ w.inq = r.inq /\ w.chat = r.chat
    /\ w.started = r.started /\ w.pc = r.pc /\ w.task = r.task
    /\ \A e \in Unfinished(r) : /\ w.events[e].triggered = r.events[e].triggered
                                /\ ~w.events[e].awaited
    /\ \/ Unfinished(w) = Unfinished(r) /\ (Connected(r) => ~Readable(r))
       \/ \E n : /\ n \notin Unfinished(r) /\ n # r.task /\ Unfinished(w) = Unfinished(r) \cup {n}
                 /\ w.events[n].triggered = Readable(r) /\ w.events[n].awaited = Readable(r)
                 /\ Connected(r) => Readable(r)

LEMMA SignalledStep ==
    ASSUME NEW r, SlotSound(r), NEW q, q = Unawaited(r), NEW w,
           LET event == [triggered |-> Readable(q), awaited |-> Readable(q), done |-> FALSE]
           IN  w = IF IF Connected(q) THEN Readable(q)
                      ELSE Cardinality(Unfinished(q)) < MaxBacklog /\ (Readable(q) \/ knocking # {})
                   THEN WithEvent(q, event) ELSE q
    PROVE  Notified(r, w)
<1>1. /\ SlotSound(q) /\ Unfinished(q) = Unfinished(r)
      /\ q.client = r.client /\ q.up = r.up /\ q.inq = r.inq /\ q.chat = r.chat
      /\ q.started = r.started /\ q.pc = r.pc /\ q.task = r.task
      /\ DOMAIN q.events = DOMAIN r.events
      /\ \A e \in DOMAIN r.events : /\ q.events[e].triggered = r.events[e].triggered
                                    /\ ~q.events[e].awaited
  BY UnawaitedSound
<1>2. (Connected(q) <=> Connected(r)) /\ (Readable(q) <=> Readable(r)) /\ Readable(q) \in BOOLEAN
      /\ Readable(r) \in BOOLEAN
  <2>1. q.up \in BOOLEAN
    BY <1>1 DEF SlotSound, SlotRecord
  <2> QED BY <1>1, <2>1 DEF Connected, Readable
<1>3. \A e \in Unfinished(r) : e \in DOMAIN r.events
  BY DEF Unfinished
<1>4. CASE w = q /\ (Connected(r) => ~Readable(r))
  BY <1>1, <1>3, <1>4 DEF Notified
<1>5. CASE w = WithEvent(q, [triggered |-> Readable(q), awaited |-> Readable(q), done |-> FALSE])
           /\ (Connected(r) => Readable(r))
  <2>1. PICK event : event = [triggered |-> Readable(q), awaited |-> Readable(q), done |-> FALSE]
    OBVIOUS
  <2>2. event \in Event /\ ~event.done /\ event.triggered = Readable(q) /\ event.awaited = Readable(q)
    BY <1>2, <2>1 DEF Event
  <2>3. w = WithEvent(q, event)
    BY <1>5, <2>1
  <2>4. PICK n : n = Len(q.events) + 1
    OBVIOUS
  <2>5. /\ SlotSound(w) /\ w.client = q.client /\ w.up = q.up /\ w.inq = q.inq /\ w.chat = q.chat
        /\ w.started = q.started /\ w.pc = q.pc /\ w.task = q.task
        /\ Unfinished(w) = Unfinished(q) \cup {n} /\ w.events[n] = event
        /\ \A e \in DOMAIN q.events : e # n /\ w.events[e] = q.events[e]
    <3>1. SlotSound(q) /\ event \in Event /\ ~event.done
      BY <1>1, <2>2
    <3>2. Grown(q, event, w)
      BY <2>3, <3>1, WithEventSound
    <3> QED BY <2>4, <3>2 DEF Grown
  <2>6. n \notin Unfinished(r) /\ n # r.task
    <3>1. n \notin Unfinished(r)
      BY <1>1, <1>3, <2>5
    <3>2. q.task \in 0 .. Len(q.events) /\ Len(q.events) \in Nat
      BY <1>1 DEF SlotSound, SlotRecord
    <3> QED BY <3>1, <3>2, <1>1, <2>4
  <2>7. Readable(q) = Readable(r)
    BY <1>1 DEF Readable
  <2>8. \A e \in Unfinished(r) : w.events[e].triggered = r.events[e].triggered /\ ~w.events[e].awaited
    BY <1>1, <1>3, <2>5
  <2> QED BY <1>1, <1>5, <2>2, <2>5, <2>6, <2>7, <2>8 DEF Notified
<1> QED BY <1>2, <1>4, <1>5

LEMMA SignalSlotsStep ==
    ASSUME SlotsInv, OthersInv, SignalSlots
    PROVE  /\ SlotsInv' /\ OthersInv'
           /\ \/ launched /\ main'.at = "dispatch" /\ main'.todo = main.todo /\ slot' = slot
              \/ /\ ~launched /\ main'.at = "wait" /\ main'.todo = main.todo
                 /\ slot' \in [Slots -> SlotRecord]
                 /\ \A s \in Slots : Notified(slot[s], slot'[s])
<1>1. PICK one : one = 1
  OBVIOUS
<1>2. one \in Slots
  BY <1>1, ThreadBounds DEF Slots
<1>3. CASE launched
  <2>1. main' = Goto("dispatch", one) /\ slot' = slot
    BY <1>1, <1>3 DEF SignalSlots
  <2>2. /\ main' \in [at : {"menu", "queue", "wait", "dispatch", "relay", "start"},
                     i : Slots, todo : Seq(Texts)]
        /\ main'.at = "dispatch" /\ main'.todo = main.todo
    BY <1>2, <2>1, GotoType
  <2>3. SlotsInv'
    BY <2>1 DEF SignalSlots, SlotsInv, SlotSound, clientVars
  <2>4. OthersInv'
    BY <2>2 DEF SignalSlots, OthersInv, clientVars
  <2> QED BY <1>3, <2>1, <2>2, <2>3, <2>4
<1>4. CASE ~launched
  <2>1. main' = Goto("wait", one) /\ slot' = [s \in Slots |-> Signalled(s)]
    BY <1>1, <1>4 DEF SignalSlots
  <2>2. /\ main' \in [at : {"menu", "queue", "wait", "dispatch", "relay", "start"},
                     i : Slots, todo : Seq(Texts)]
        /\ main'.at = "wait" /\ main'.todo = main.todo
    BY <1>2, <2>1, GotoType
  <2>3. ASSUME NEW s \in Slots PROVE Notified(slot[s], slot'[s])
    <3>1. SlotSound(slot[s]) /\ slot'[s] = Signalled(s)
      BY <2>1 DEF SlotsInv
    <3>2. PICK w : w = slot'[s]
      OBVIOUS
    <3>3. PICK q : q = Unawaited(slot[s])
      OBVIOUS
    <3>4. LET event == [triggered |-> Readable(q), awaited |-> Readable(q), done |-> FALSE]
          IN  w = IF IF Connected(q) THEN Readable(q)
                     ELSE Cardinality(Unfinished(q)) < MaxBacklog /\ (Readable(q) \/ knocking # {})
                  THEN WithEvent(q, event) ELSE q
      BY <3>1, <3>2, <3>3 DEF Signalled, Unawaited
    <3>5. Notified(slot[s], w)
      BY <3>1, <3>3, <3>4, SignalledStep
    <3> QED BY <3>2, <3>5
  <2>4. slot' \in [Slots -> SlotRecord]
    <3>1. \A s \in Slots : slot'[s] \in SlotRecord
      BY <2>3 DEF Notified, SlotSound
    <3> QED BY <2>1, <3>1
  <2>5. SlotsInv'
    <3>1. \A s \in Slots : SlotSound(slot'[s]) /\ slot'[s].client = slot[s].client
                           /\ slot'[s].started = slot[s].started
      BY <2>3 DEF Notified
    <3>2. knocking' = knocking /\ launched' = launched
      BY DEF SignalSlots, clientVars
    <3> QED BY <2>4, <3>1, <3>2 DEF SlotsInv
  <2>6. OthersInv'
    BY <2>2 DEF SignalSlots, OthersInv, clientVars
  <2> QED BY <1>4, <2>2, <2>3, <2>4, <2>5, <2>6
<1> QED BY <1>3, <1>4

LEMMA StartSlotKeeps ==
    ASSUME SlotsInv, OthersInv, StartSlot
    PROVE  SlotsInv' /\ OthersInv'
<1>1. PICK s \in Slots : s = place[main.i]
  BY DEF OthersInv
<1>2. /\ main' \in [at : {"menu", "queue", "wait", "dispatch", "relay", "start"},
                   i : Slots, todo : Seq(Texts)]
      /\ launched' = launched /\ launched
  BY NextSlotType DEF StartSlot, OthersInv
<1>3. OthersInv'
  BY <1>2 DEF StartSlot, OthersInv, clientVars
<1>4. knocking' = knocking
  BY DEF StartSlot, clientVars
<1>5. CASE ~Connected(slot[s])
  BY <1>1, <1>2, <1>3, <1>4, <1>5 DEF StartSlot, SlotsInv, SlotSound
<1>6. CASE Connected(slot[s])
  <2>1. SlotSound(slot[s]) /\ slot[s] \in SlotRecord /\ slot[s].client # Nobody
        /\ <<>> \in Seq(Messages)
    BY <1>6, EmptySeq DEF SlotsInv, Connected
  <2>2. PICK k : k = slot[s].signals + 1
    OBVIOUS
  <2>3. k \in Nat /\ k > 0
    BY <2>1, <2>2 DEF SlotRecord
  <2>4. PICK r : r = [slot[s] EXCEPT !.inq = <<>>, !.started = TRUE, !.signals = k]
    OBVIOUS
  <2>5. slot' = [slot EXCEPT ![s] = r]
    BY <1>1, <1>6, <2>2, <2>4 DEF StartSlot, SlotsInv
  <2>6. /\ r \in SlotRecord /\ r.events = slot[s].events /\ r.task = slot[s].task
        /\ r.signals = k /\ r.started = TRUE /\ r.pc = slot[s].pc
        /\ r.client = slot[s].client
    BY <2>1, <2>3, <2>4 DEF SlotRecord
  <2>7. Unfinished(r) = Unfinished(slot[s])
    BY <2>6 DEF Unfinished
  <2>8. SlotSound(r)
    BY <2>1, <2>3, <2>6, <2>7 DEF SlotSound, ThreadSound
  <2>9. Seated(s, slot[s].client, r.client)
    BY <1>4, <2>6 DEF Seated
  <2>10. SlotsInv'
    BY <1>2, <2>5, <2>8, <2>9, OneSlot
  <2> QED BY <1>3, <2>10
<1> QED BY <1>5, <1>6

\* The wait for the slots, the exchange of slots and the start of the match.
LEMMA WaitKeeps ==
    ASSUME SlotsInv, OthersInv, Wait \/ Timeout
    PROVE  SlotsInv' /\ OthersInv'
<1>1. PICK one : one = 1
  OBVIOUS
<1>2. one \in Slots /\ main' = Goto("dispatch", one)
  BY <1>1, ThreadBounds DEF Slots, Wait, Timeout
<1>3. /\ main' \in [at : {"menu", "queue", "wait", "dispatch", "relay", "start"},
                   i : Slots, todo : Seq(Texts)]
      /\ main'.at = "dispatch"
  BY <1>2, GotoType
<1>4. SlotsInv'
  BY DEF Wait, Timeout, SlotsInv, SlotSound, clientVars
<1>5. timeouts' \in 0 .. MaxTimeouts
  BY ThreadBounds DEF Wait, Timeout, OthersInv
<1> QED BY <1>3, <1>4, <1>5 DEF Wait, Timeout, OthersInv, clientVars

LEMMA SwitchSlotKeeps ==
    ASSUME SlotsInv, OthersInv, NEW i \in Slots, SwitchSlot(i)
    PROVE  SlotsInv' /\ OthersInv'
<1>1. SlotsInv'
  BY DEF SwitchSlot, SlotsInv, SlotSound, clientVars
<1>2. PICK to \in Slots : to = request[i]
  BY DEF SwitchSlot, OthersInv
<1>3. request' \in [Slots -> Slots \cup {0}]
  BY DEF SwitchSlot, OthersInv
<1>4. place \in [Slots -> Slots] /\ \A s \in Slots : \E j \in Slots : place[j] = s
  BY DEF OthersInv
<1>5. place' \in [Slots -> Slots] /\ \A s \in Slots : \E j \in Slots : place'[j] = s
  <2>1. CASE place' = place
    BY <1>4, <2>1
  <2>2. CASE place' = [place EXCEPT ![i] = place[to], ![to] = place[i]] /\ to # i
    <3>1. place' \in [Slots -> Slots] /\ place'[i] = place[to] /\ place'[to] = place[i]
          /\ \A j \in Slots \ {i, to} : place'[j] = place[j]
      BY <1>4, <2>2
    <3>2. ASSUME NEW s \in Slots PROVE \E j \in Slots : place'[j] = s
      <4>1. PICK j \in Slots : place[j] = s
        BY <1>4
      <4>2. CASE j = i
        BY <4>1, <4>2, <3>1
      <4>3. CASE j = to
        BY <4>1, <4>3, <3>1
      <4>4. CASE j \notin {i, to}
        BY <4>1, <4>4, <3>1
      <4> QED BY <4>2, <4>3, <4>4
    <3> QED BY <3>1, <3>2
  <2> QED BY <1>2, <2>1, <2>2 DEF SwitchSlot
<1> QED BY <1>1, <1>3, <1>5 DEF OthersInv, SwitchSlot, clientVars

LEMMA LaunchKeeps ==
    ASSUME SlotsInv, OthersInv, LaunchGame
    PROVE  SlotsInv' /\ OthersInv'
<1>1. PICK one : one = 1
  OBVIOUS
<1>2. one \in Slots /\ main' = Goto("start", one) /\ launched' = TRUE
  BY <1>1, ThreadBounds DEF Slots, LaunchGame
<1>3. main' \in [at : {"menu", "queue", "wait", "dispatch", "relay", "start"},
                 i : Slots, todo : Seq(Texts)]
  BY <1>2, GotoType
<1>4. SlotsInv'
  BY <1>2 DEF LaunchGame, SlotsInv, SlotSound, clientVars
<1> QED BY <1>2, <1>3, <1>4 DEF LaunchGame, OthersInv, clientVars
-----------------------------------------------------------------------------
(* The invariant of the threads.                                           *)

LEMMA SeatsOfEarly ==
    /\ SetToSeq(Early) \in [1 .. Cardinality(Early) -> Early]
    /\ \A a, b \in 1 .. Cardinality(Early) : SetToSeq(Early)[a] = SetToSeq(Early)[b] => a = b
    /\ Cardinality(Early) \in Nat /\ Len(SetToSeq(Early)) = Cardinality(Early)
<1>1. IsFiniteSet(Early)
  BY ThreadBounds, FS_Subset
<1>2. Cardinality(Early) \in Nat /\ ExistsBijection(1 .. Cardinality(Early), Early)
  BY <1>1, FS_CardinalityType
<1>3. PICK f \in [1 .. Cardinality(Early) -> Early] : IsInjective(f)
  BY <1>2 DEF ExistsBijection, Bijection, Injection, IsInjective
<1>4. /\ SetToSeq(Early) \in [1 .. Cardinality(Early) -> Early] /\ IsInjective(SetToSeq(Early))
  BY <1>3 DEF SetToSeq
<1>5. SetToSeq(Early) \in Seq(Early) /\ Len(SetToSeq(Early)) = Cardinality(Early)
  BY <1>2, <1>4
<1> QED BY <1>2, <1>4, <1>5 DEF IsInjective

LEMMA InitSlots ==
    ASSUME Init
    PROVE  /\ \A s \in Slots : \E c \in Early \cup {Nobody} : slot[s] = Vacant(c)
           /\ \A s \in Slots : \A t \in Slots \ {s} :
                 slot[s].client # Nobody => slot[t].client # slot[s].client
<1> DEFINE who(s) == IF s <= Len(SetToSeq(Early)) THEN SetToSeq(Early)[s] ELSE Nobody
<1>1. \A s \in Slots : slot[s] = Vacant(who(s))
  BY DEF Init
<1>2. ASSUME NEW s \in Slots PROVE who(s) \in Early \cup {Nobody}
  BY SeatsOfEarly DEF Slots
<1>3. ASSUME NEW s \in Slots, NEW t \in Slots \ {s}, who(s) # Nobody PROVE who(t) # who(s)
  <2>1. s \in 1 .. Cardinality(Early) /\ who(s) = SetToSeq(Early)[s] /\ who(s) \in Early
    BY <1>3, SeatsOfEarly DEF Slots
  <2>2. CASE t <= Len(SetToSeq(Early))
    <3>1. t \in 1 .. Cardinality(Early) /\ who(t) = SetToSeq(Early)[t]
      BY <2>2, SeatsOfEarly DEF Slots
    <3> QED BY <2>1, <3>1, SeatsOfEarly
  <2>3. CASE ~(t <= Len(SetToSeq(Early)))
    BY <2>3, <1>3
  <2> QED BY <2>2, <2>3
<1>4. \A s \in Slots : slot[s].client = who(s)
  <2> TAKE s \in Slots
  <2>1. PICK c : c = who(s)
    OBVIOUS
  <2>2. slot[s] = Vacant(c)
    BY <1>1, <2>1
  <2>3. slot[s].client = c
    BY <2>2 DEF Vacant
  <2> QED BY <2>1, <2>3
<1> QED BY <1>1, <1>2, <1>3, <1>4

LEMMA VacantSound ==
    ASSUME NEW c \in Clients \cup {Nobody}
    PROVE  SlotSound(Vacant(c)) /\ Vacant(c).client = c /\ Vacant(c).started = FALSE
<1>0. <<>> \in Seq(Messages) /\ <<>> \in Seq(Texts) /\ <<>> \in Seq(Event)
  BY EmptySeq
<1>1. PICK up \in BOOLEAN : up <=> c # Nobody
  OBVIOUS
<1>2. PICK v : v = [client |-> c, up |-> up, inq |-> <<>>, chat |-> <<>>, events |-> <<>>,
                    signals |-> 0, started |-> FALSE, pc |-> "waiting", task |-> 0]
  OBVIOUS
<1>3. (c # Nobody) = up
  BY <1>1
<1>4. Vacant(c) = v
  BY <1>2, <1>3 DEF Vacant
<1>5. v \in SlotRecord
  BY <1>0, <1>2 DEF SlotRecord
<1>6. Unfinished(v) = {} /\ CompletedFirst(v.events) /\ Len(v.events) = 0
  BY <1>2 DEF Unfinished, CompletedFirst
<1>7. Cardinality(Unfinished(v) \ {v.task}) = 0
  <2>1. Unfinished(v) \ {v.task} = {}
    BY <1>6
  <2> QED BY <2>1, FS_EmptySet
<1>8. SlotSound(v)
  BY <1>1, <1>2, <1>5, <1>6, <1>7 DEF SlotSound, ThreadSound
<1> QED BY <1>2, <1>4, <1>8

LEMMA ThreadInvInit == Init => ThreadInv
<1> SUFFICES ASSUME Init PROVE ThreadInv
  OBVIOUS
<1>1. slot \in [Slots -> SlotRecord] /\ \A s \in Slots : SlotSound(slot[s]) /\ slot[s].started = FALSE
  <2>1. DOMAIN slot = Slots /\ slot = [s \in Slots |-> slot[s]]
    BY DEF Init
  <2>2. ASSUME NEW s \in Slots PROVE SlotSound(slot[s]) /\ slot[s].started = FALSE
    <3>1. PICK c \in Clients \cup {Nobody} : slot[s] = Vacant(c)
      BY InitSlots, ThreadBounds
    <3> QED BY <3>1, VacantSound
  <2> QED BY <2>1, <2>2 DEF SlotSound
<1>2. \A s \in Slots : slot[s].client \notin knocking
  <2> TAKE s \in Slots
  <2>1. PICK c \in Early \cup {Nobody} : slot[s] = Vacant(c)
    BY InitSlots
  <2>2. slot[s].client = c
    BY <2>1, ThreadBounds, VacantSound
  <2> QED BY <2>2, ThreadBounds DEF Init
<1>3. SlotsInv
  BY <1>1, <1>2, InitSlots DEF Init, SlotsInv
<1>4. main \in [at : {"menu", "queue", "wait", "dispatch", "relay", "start"},
                i : Slots, todo : Seq(Texts)] /\ main.at = "menu"
  <2>1. <<>> \in Seq(Texts) /\ 1 \in Slots
    BY EmptySeq, ThreadBounds DEF Slots
  <2> QED BY <2>1 DEF Init
<1>5. OthersInv
  <2>1. <<>> \in Seq(Texts) /\ <<>> \in Seq([text : Texts, exclude : Slots])
    BY EmptySeq
  <2>2. sent \in [Clients -> 0 .. MaxMessages] /\ messages \in 0 .. MaxMessages
        /\ timeouts \in 0 .. MaxTimeouts /\ \A c \in Clients : sent[c] <= messages
    BY ThreadBounds DEF Init
  <2>3. recv \in [Clients \cup {Server} -> Seq(Texts)] /\ queue \in Seq([text : Texts, exclude : Slots])
    BY <2>1 DEF Init
  <2>4. place \in [Slots -> Slots] /\ request \in [Slots -> Slots \cup {0}]
        /\ \A s \in Slots : \E i \in Slots : place[i] = s
    BY DEF Init
  <2> QED BY <1>4, <2>2, <2>3, <2>4 DEF OthersInv, Init
<1> QED BY <1>3, <1>5, ThreadInvParts

LEMMA ThreadInvNext == ThreadInv /\ [Next]_vars => ThreadInv'
<1> SUFFICES ASSUME SlotsInv, OthersInv, [Next]_vars
             PROVE  SlotsInv' /\ OthersInv'
  BY ThreadInvParts, ThreadInvPartsPrimed
<1>1. ASSUME NEW s \in Slots, SendText(s) PROVE SlotsInv' /\ OthersInv'
  BY <1>1, SendTextStep
<1>2. ASSUME NEW s \in Slots, SendOther(s) PROVE SlotsInv' /\ OthersInv'
  BY <1>2, SendOtherStep
<1>3. ASSUME NEW s \in Slots, Leave(s) PROVE SlotsInv' /\ OthersInv'
  BY <1>3, LeaveStep
<1>4. ASSUME NEW s \in Slots, ThreadNext(s) PROVE SlotsInv' /\ OthersInv'
  BY <1>4, WakeKeeps, PollKeeps, ReadKeeps, EndKeeps DEF ThreadNext
<1>5. ASSUME NEW i \in Slots, SwitchSlot(i) PROVE SlotsInv' /\ OthersInv'
  BY <1>5, SwitchSlotKeeps
<1>6. ASSUME UpdateNext PROVE SlotsInv' /\ OthersInv'
  BY <1>6, ProcessQueueKeeps, SignalSlotsStep, WaitKeeps, DispatchKeeps, RelayKeeps,
     RelayEndKeeps, StartSlotKeeps DEF UpdateNext
<1>7. ASSUME Timeout \/ LaunchGame PROVE SlotsInv' /\ OthersInv'
  BY <1>7, WaitKeeps, LaunchKeeps
<1>8. ASSUME UNCHANGED vars PROVE SlotsInv' /\ OthersInv'
  BY <1>8 DEF vars, SlotsInv, OthersInv, SlotSound
<1> QED BY <1>1, <1>2, <1>3, <1>4, <1>5, <1>6, <1>7, <1>8 DEF Next

\* The threads' invariant holds in every state.
LEMMA ThreadInvAlways == Spec => []ThreadInv
  BY ThreadInvInit, ThreadInvNext, PTL DEF Spec

\* Type correctness: in particular a client is in one slot at most, every slot is at some
\* index, and the completed events of a slot come first.
THEOREM SlotTypeCorrect == Spec => []TypeOK
<1>1. ThreadInv => TypeOK
  BY DEF ThreadInv
<1> QED BY <1>1, ThreadInvAlways, PTL

\* A thread that waits without a signal has nothing left to do: every event but the one
\* the thread is at has its signal.
LEMMA SoundSleeps ==
    ASSUME NEW r, SlotSound(r), r.pc = "waiting", r.signals = 0
    PROVE  Unfinished(r) = {} /\ ~r.started
<1>1. r.task = 0 /\ ~r.started /\ r \in SlotRecord
  BY DEF SlotSound, ThreadSound
<1>2. IsFiniteSet(Unfinished(r) \ {0}) /\ Cardinality(Unfinished(r) \ {0}) \in Nat
      /\ Unfinished(r) \subseteq 1 .. Len(r.events) /\ Len(r.events) \in Nat
  BY <1>1, UnfinishedFinite
<1>3. Cardinality(Unfinished(r) \ {0}) = 0
  BY <1>1, <1>2 DEF SlotSound, ThreadSound
<1>4. Unfinished(r) \ {0} = {}
  BY <1>2, <1>3, FS_EmptySet
<1> QED BY <1>1, <1>2, <1>4

\* No wake-up is lost, however the events and the signals of the update, the end of a
\* connection and the start of the match interleave with the thread's own work.
THEOREM NoWakeUpLost == Spec => []SleepsOnlyWhenDone
<1>1. ThreadInv => SleepsOnlyWhenDone
  <2> SUFFICES ASSUME SlotsInv PROVE SleepsOnlyWhenDone
    BY ThreadInvParts
  <2> QED BY SoundSleeps DEF SlotsInv, SleepsOnlyWhenDone
<1> QED BY <1>1, ThreadInvAlways, PTL
=============================================================================
