--------------------------- MODULE EconomyProofs ----------------------------
(***************************************************************************)
(* The economy of a faction and its upgrade manager for any units,         *)
(* resources, costs and orders.  The invariant adds up, over all units,    *)
(* what each of them and each of its orders counts for: what it can store, *)
(* what it counts for the maximum of its type or for an upgrade, and what  *)
(* it holds of a static resource.  The lemmas say of every function of the *)
(* model what it changes in these sums; the folds over a unit's commands   *)
(* and over the units at the start are those of FoldTheorems.              *)
(***************************************************************************)
EXTENDS Economy, FoldTheorems, FiniteSetTheorems, SequenceTheorems, TLAPS

Entry == [type : Upgrades, done : BOOLEAN]

\* The list and the map are equally long.
Matching(m) ==
    /\ m \in [upgrades : Seq(Entry), lookup : UNION {[S -> Nat] : S \in SUBSET Upgrades}]
    /\ IsFiniteSet(DOMAIN m.lookup)
    /\ Cardinality(DOMAIN m.lookup) = Len(m.upgrades)
    /\ PlacesExist(m)

\* Every place is that of the upgrade it is looked up for.
PlacesRight(m) == \A u \in DOMAIN m.lookup : m.upgrades[m.lookup[u]].type = u

\* The parts of Matching, for a manager given by its two fields.
LEMMA MatchingFields ==
    ASSUME NEW list \in Seq(Entry), NEW S \in SUBSET Upgrades, NEW f \in [S -> 1 .. Len(list)],
           IsFiniteSet(S), Cardinality(S) = Len(list)
    PROVE  Matching([upgrades |-> list, lookup |-> f])
<1>1. f \in [S -> Nat] /\ DOMAIN f = S
  OBVIOUS
<1>2. f \in UNION {[T -> Nat] : T \in SUBSET Upgrades}
  BY <1>1
<1>3. DOMAIN list = 1 .. Len(list)
  OBVIOUS
<1> QED BY <1>1, <1>2, <1>3 DEF Matching, PlacesExist

\* And back.
LEMMA FieldsOfMatching ==
    ASSUME NEW m, Matching(m)
    PROVE  /\ m = [upgrades |-> m.upgrades, lookup |-> m.lookup]
           /\ m.upgrades \in Seq(Entry) /\ Len(m.upgrades) \in Nat
           /\ DOMAIN m.lookup \in SUBSET Upgrades
           /\ m.lookup \in [DOMAIN m.lookup -> 1 .. Len(m.upgrades)]
<1>1. m = [upgrades |-> m.upgrades, lookup |-> m.lookup] /\ m.upgrades \in Seq(Entry)
  BY DEF Matching
<1>2. PICK S \in SUBSET Upgrades : m.lookup \in [S -> Nat]
  BY DEF Matching
<1>3. DOMAIN m.upgrades = 1 .. Len(m.upgrades) /\ Len(m.upgrades) \in Nat
  BY <1>1
<1>4. \A u \in DOMAIN m.lookup : m.lookup[u] \in 1 .. Len(m.upgrades)
  BY <1>3 DEF Matching, PlacesExist
<1>5. m.lookup = [u \in DOMAIN m.lookup |-> m.lookup[u]]
  BY <1>2
<1> QED BY <1>1, <1>2, <1>3, <1>4, <1>5

\* Starting an upgrade appends it to both.
LEMMA StartedMatches ==
    ASSUME NEW m, Matching(m), NEW u \in Upgrades, ~IsKnown(m, u)
    PROVE  Matching(Started(m, u))
<1> DEFINE list == Append(m.upgrades, [type |-> u, done |-> FALSE])
           S == DOMAIN m.lookup \cup {u}
           f == [v \in S |-> IF v = u THEN Len(m.upgrades) + 1 ELSE m.lookup[v]]
<1>1. /\ m.upgrades \in Seq(Entry) /\ DOMAIN m.lookup \in SUBSET Upgrades
      /\ Len(m.upgrades) \in Nat
      /\ m.lookup \in [DOMAIN m.lookup -> 1 .. Len(m.upgrades)]
  BY FieldsOfMatching
<1>2. list \in Seq(Entry) /\ Len(list) = Len(m.upgrades) + 1
  BY <1>1 DEF Entry
<1>3. S \in SUBSET Upgrades /\ IsFiniteSet(S) /\ Cardinality(S) = Len(list)
  BY <1>1, <1>2, FS_AddElement DEF Matching, IsKnown
<1>4. f \in [S -> 1 .. Len(list)]
  BY <1>1, <1>2
<1> HIDE DEF list, S, f
<1>5. Matching([upgrades |-> list, lookup |-> f])
  BY <1>2, <1>3, <1>4, MatchingFields
<1> QED BY <1>5 DEF Started, list, S, f

\* Cancelling takes one of each, and leaves no place beyond the shorter list.
LEMMA CancelledFields ==
    ASSUME NEW m, Matching(m), NEW u \in Upgrades, IsKnown(m, u)
    PROVE  LET i == m.lookup[u]
               n == Len(m.upgrades) - 1
               S == DOMAIN m.lookup \ {u}
               list == SubSeq(m.upgrades, 1, i - 1) \o SubSeq(m.upgrades, i + 1, n + 1)
               f == [v \in S |-> IF m.lookup[v] > n THEN m.lookup[v] - 1 ELSE m.lookup[v]]
           IN  /\ i \in 1 .. n + 1 /\ n \in Nat
               /\ list \in Seq(Entry) /\ Len(list) = n
               /\ \A j \in 1 .. n : list[j] = m.upgrades[IF j < i THEN j ELSE j + 1]
               /\ S \in SUBSET Upgrades /\ IsFiniteSet(S) /\ Cardinality(S) = n
               /\ f \in [S -> 1 .. n]
               /\ Cancelled(m, u) = [upgrades |-> list, lookup |-> f]
<1> DEFINE i == m.lookup[u]
           n == Len(m.upgrades) - 1
           S == DOMAIN m.lookup \ {u}
           front == SubSeq(m.upgrades, 1, i - 1)
           back == SubSeq(m.upgrades, i + 1, n + 1)
           list == front \o back
           f == [v \in S |-> IF m.lookup[v] > n THEN m.lookup[v] - 1 ELSE m.lookup[v]]
<1>1. /\ m.upgrades \in Seq(Entry) /\ DOMAIN m.lookup \in SUBSET Upgrades
      /\ Len(m.upgrades) \in Nat
      /\ m.lookup \in [DOMAIN m.lookup -> 1 .. Len(m.upgrades)]
  BY FieldsOfMatching
<1>2. i \in 1 .. n + 1 /\ n \in Nat
  BY <1>1 DEF IsKnown
<1>3. front \in Seq(Entry) /\ Len(front) = i - 1 /\ \A j \in 1 .. i - 1 : front[j] = m.upgrades[j]
  BY <1>1, <1>2
<1>4. /\ back \in Seq(Entry) /\ Len(back) = n + 1 - i
      /\ \A j \in 1 .. n + 1 - i : back[j] = m.upgrades[i + j]
  <2> HIDE DEF i, n
  <2>1. i + 1 \in Int /\ n + 1 \in Int /\ Len(m.upgrades) = n + 1
    BY <1>1, <1>2 DEF n
  <2>2. \A j \in i + 1 .. n + 1 : m.upgrades[j] \in Entry
    BY <1>1, <1>2, <2>1, ElementOfSeq
  <2>3. /\ back \in Seq(Entry)
        /\ Len(back) = IF i + 1 <= n + 1 THEN (n + 1) - (i + 1) + 1 ELSE 0
        /\ \A j \in 1 .. (n + 1) - (i + 1) + 1 : back[j] = m.upgrades[(i + 1) + j - 1]
    BY <2>1, <2>2, SubSeqProperties
  <2> HIDE DEF back
  <2> QED BY <1>2, <2>1, <2>3
<1>5. /\ list \in Seq(Entry) /\ Len(list) = n
      /\ \A j \in 1 .. n : list[j] = m.upgrades[IF j < i THEN j ELSE j + 1]
  <2> HIDE DEF front, back, i, n
  <2>1. list \in Seq(Entry) /\ Len(list) = n
    <3> HIDE DEF Entry
    <3>1. list \in Seq(Entry) /\ Len(list) = Len(front) + Len(back)
      BY <1>3, <1>4, ConcatProperties
    <3> QED BY <1>2, <1>3, <1>4, <3>1
  <2>2. ASSUME NEW j \in 1 .. n
        PROVE  list[j] = m.upgrades[IF j < i THEN j ELSE j + 1]
    <3>1. CASE j < i
      BY <1>2, <1>3, <1>4, <2>2, <3>1
    <3>2. CASE ~(j < i)
      <4>1. list[j] = back[j - (i - 1)] /\ j - (i - 1) \in 1 .. n + 1 - i
        BY <1>2, <1>3, <1>4, <2>2, <3>2
      <4>2. back[j - (i - 1)] = m.upgrades[i + (j - (i - 1))] /\ i + (j - (i - 1)) = j + 1
        BY <1>2, <1>4, <2>2, <4>1
      <4> QED BY <4>1, <4>2, <3>2
    <3> QED BY <3>1, <3>2
  <2> QED BY <2>1, <2>2
<1>6. S \in SUBSET Upgrades /\ IsFiniteSet(S) /\ Cardinality(S) = n
  <2>1. /\ u \in DOMAIN m.lookup /\ IsFiniteSet(DOMAIN m.lookup)
        /\ Cardinality(DOMAIN m.lookup) = Len(m.upgrades)
    BY DEF Matching, IsKnown
  <2>2. IsFiniteSet(S) /\ Cardinality(S) = Cardinality(DOMAIN m.lookup) - 1
    <3> DEFINE D == DOMAIN m.lookup
    <3> HIDE DEF D
    <3>1. u \in D /\ IsFiniteSet(D)
      BY <2>1 DEF D
    <3>2. IsFiniteSet(D \ {u}) /\ Cardinality(D \ {u}) = Cardinality(D) - 1
      BY <3>1, FS_RemoveElement
    <3> QED BY <3>2 DEF D
  <2>3. S \in SUBSET Upgrades
    BY <1>1
  <2> HIDE DEF S
  <2> QED BY <2>1, <2>2, <2>3
<1>7. \A v \in S : f[v] \in 1 .. n
  <2> SUFFICES ASSUME NEW v \in S PROVE f[v] \in 1 .. n
    OBVIOUS
  <2>1. m.lookup[v] \in 1 .. n + 1
    BY <1>1, <1>2
  <2>2. n # 0
    <3>1. v \in S /\ IsFiniteSet(S) /\ Cardinality(S) = n
      BY <1>6
    <3> HIDE DEF S, n
    <3> QED BY <3>1, FS_EmptySet
  <2> HIDE DEF n
  <2> QED BY <1>2, <2>1, <2>2
<1>8. f \in [S -> 1 .. n]
  BY <1>7
<1>9. Cancelled(m, u) = [upgrades |-> list, lookup |-> f]
  <2>1. ~CancelThrows(m, u)
    BY <1>1, <1>2 DEF CancelThrows
  <2>2. {v \in DOMAIN f : f[v] >= 1} = S
    <3> HIDE DEF S, n
    <3>1. \A v \in S : f[v] >= 1
      BY <1>2, <1>7
    <3>2. DOMAIN f = S
      OBVIOUS
    <3> HIDE DEF f
    <3> QED BY <3>1, <3>2
  <2>3. Restrict(f, {v \in DOMAIN f : f[v] >= 1}) = f
    BY <2>2, <1>8 DEF Restrict
  <2> QED BY <2>1, <2>3 DEF Cancelled
<1> QED BY <1>2, <1>5, <1>6, <1>8, <1>9

LEMMA CancelledMatches ==
    ASSUME NEW m, Matching(m), NEW u \in Upgrades, IsKnown(m, u)
    PROVE  Matching(Cancelled(m, u))
<1> DEFINE i == m.lookup[u]
           n == Len(m.upgrades) - 1
           S == DOMAIN m.lookup \ {u}
           list == SubSeq(m.upgrades, 1, i - 1) \o SubSeq(m.upgrades, i + 1, n + 1)
           f == [v \in S |-> IF m.lookup[v] > n THEN m.lookup[v] - 1 ELSE m.lookup[v]]
<1>1. /\ list \in Seq(Entry) /\ Len(list) = n
      /\ S \in SUBSET Upgrades /\ IsFiniteSet(S) /\ Cardinality(S) = n
      /\ f \in [S -> 1 .. n]
      /\ Cancelled(m, u) = [upgrades |-> list, lookup |-> f]
  BY CancelledFields
<1> HIDE DEF list, f, S, n
<1> QED BY <1>1, MatchingFields

\* Finishing changes a flag.
LEMMA FinishedMatches ==
    ASSUME NEW m, Matching(m), NEW u \in Upgrades, IsKnown(m, u)
    PROVE  Matching(Finished(m, u))
<1> DEFINE i == m.lookup[u]
           list == [m.upgrades EXCEPT ![i].done = TRUE]
<1>1. /\ m = [upgrades |-> m.upgrades, lookup |-> m.lookup]
      /\ m.upgrades \in Seq(Entry) /\ DOMAIN m.lookup \in SUBSET Upgrades
      /\ Len(m.upgrades) \in Nat
      /\ m.lookup \in [DOMAIN m.lookup -> 1 .. Len(m.upgrades)]
  BY FieldsOfMatching
<1>2. list \in Seq(Entry) /\ Len(list) = Len(m.upgrades)
  <2>1. i \in 1 .. Len(m.upgrades) /\ m.upgrades[i] \in Entry
    BY <1>1 DEF IsKnown
  <2>2. [m.upgrades[i] EXCEPT !.done = TRUE] \in Entry
    BY <2>1 DEF Entry
  <2>3. list = [m.upgrades EXCEPT ![i] = [m.upgrades[i] EXCEPT !.done = TRUE]]
    OBVIOUS
  <2> HIDE DEF i, list, Entry
  <2> QED BY <1>1, <2>1, <2>2, <2>3, ExceptSeq
<1>3. Finished(m, u) = [upgrades |-> list, lookup |-> m.lookup]
  BY <1>1 DEF Finished, FinishThrows
<1> HIDE DEF list
<1> QED BY <1>1, <1>2, <1>3, MatchingFields DEF Matching

-----------------------------------------------------------------------------
\* A method that is called for a known upgrade does not throw, and one that is
\* called for another does (cancelUpgrade, finishUpgrade).
THEOREM ThrowsOnlyForUnknown ==
    ASSUME NEW m, Matching(m), NEW u \in Upgrades
    PROVE  /\ CancelThrows(m, u) <=> ~IsKnown(m, u)
           /\ FinishThrows(m, u) <=> ~IsKnown(m, u)
BY FieldsOfMatching DEF CancelThrows, FinishThrows, IsKnown

\* Cancelling one of the last two upgrades of the list leaves every other upgrade
\* with its own place: what goes wrong in cancelUpgrade needs two upgrades behind
\* the one that is cancelled.
THEOREM LateCancelKeepsPlaces ==
    ASSUME NEW m, Matching(m), PlacesRight(m), NEW u \in Upgrades, IsKnown(m, u),
           m.lookup[u] >= Len(m.upgrades) - 1
    PROVE  PlacesRight(Cancelled(m, u))
<1> DEFINE i == m.lookup[u]
           n == Len(m.upgrades) - 1
           S == DOMAIN m.lookup \ {u}
           list == SubSeq(m.upgrades, 1, i - 1) \o SubSeq(m.upgrades, i + 1, n + 1)
           f == [v \in S |-> IF m.lookup[v] > n THEN m.lookup[v] - 1 ELSE m.lookup[v]]
<1>1. /\ i \in 1 .. n + 1 /\ n \in Nat
      /\ \A j \in 1 .. n : list[j] = m.upgrades[IF j < i THEN j ELSE j + 1]
      /\ f \in [S -> 1 .. n]
      /\ Cancelled(m, u) = [upgrades |-> list, lookup |-> f]
  BY CancelledFields
<1>2. m.lookup \in [DOMAIN m.lookup -> 1 .. n + 1]
  BY FieldsOfMatching
<1>3. ASSUME NEW v \in S PROVE list[f[v]].type = v
  <2>1. m.upgrades[m.lookup[v]].type = v /\ m.upgrades[i].type = u /\ m.lookup[v] # i
    BY DEF PlacesRight, IsKnown
  <2>2. m.lookup[v] \in 1 .. n + 1 /\ i \in n .. n + 1
    BY <1>1, <1>2
  <2>3. f[v] = IF m.lookup[v] > n THEN m.lookup[v] - 1 ELSE m.lookup[v]
    OBVIOUS
  <2>4. f[v] \in 1 .. n
    BY <1>1
  <2>5. list[f[v]] = m.upgrades[IF f[v] < i THEN f[v] ELSE f[v] + 1]
    BY <1>1, <2>4
  <2> HIDE DEF i, n, list, f
  <2>6. (IF f[v] < i THEN f[v] ELSE f[v] + 1) = m.lookup[v]
    BY <1>1, <2>1, <2>2, <2>3, <2>4
  <2> QED BY <2>1, <2>5, <2>6
<1> HIDE DEF list, f, n
<1>4. DOMAIN f = S
  BY <1>1
<1> QED BY <1>1, <1>3, <1>4 DEF PlacesRight

\* Cancelling a known upgrade forgets it and no other; cancelling one that is not known
\* changes nothing.
LEMMA CancelledKnows ==
    ASSUME NEW m, Matching(m), NEW u \in Upgrades
    PROVE  /\ Matching(Cancelled(m, u))
           /\ \A v \in Upgrades \ {u} : IsKnown(Cancelled(m, u), v) <=> IsKnown(m, v)
<1>1. CASE IsKnown(m, u)
  <2> DEFINE n == Len(m.upgrades) - 1
             S == DOMAIN m.lookup \ {u}
             list == SubSeq(m.upgrades, 1, m.lookup[u] - 1) \o SubSeq(m.upgrades, m.lookup[u] + 1, n + 1)
             f == [v \in S |-> IF m.lookup[v] > n THEN m.lookup[v] - 1 ELSE m.lookup[v]]
  <2>1. f \in [S -> 1 .. n] /\ Cancelled(m, u) = [upgrades |-> list, lookup |-> f]
    BY <1>1, CancelledFields
  <2> HIDE DEF list, f, n
  <2>2. DOMAIN Cancelled(m, u).lookup = S
    BY <2>1
  <2> QED BY <1>1, <2>2, CancelledMatches DEF IsKnown
<1>2. CASE ~IsKnown(m, u)
  <2>1. Cancelled(m, u) = m
    BY <1>2 DEF Cancelled, CancelThrows
  <2> QED BY <2>1
<1> QED BY <1>1, <1>2

LEMMA StartedKnows ==
    ASSUME NEW m, NEW u \in Upgrades
    PROVE  IsKnown(Started(m, u), u) /\ \A v \in Upgrades : IsKnown(m, v) => IsKnown(Started(m, u), v)
<1> PICK i : i = Len(m.upgrades) + 1
  OBVIOUS
<1>1. DOMAIN Started(m, u).lookup = DOMAIN m.lookup \cup {u}
  BY DEF Started
<1> QED BY <1>1 DEF IsKnown

LEMMA FinishedKnows ==
    ASSUME NEW m, Matching(m), NEW u \in Upgrades
    PROVE  Matching(Finished(m, u)) /\ \A v \in Upgrades : IsKnown(m, v) => IsKnown(Finished(m, u), v)
<1>1. CASE IsKnown(m, u)
  <2>1. m = [upgrades |-> m.upgrades, lookup |-> m.lookup]
    BY FieldsOfMatching
  <2>2. Finished(m, u).lookup = m.lookup
    BY <1>1, <2>1 DEF Finished, FinishThrows
  <2> QED BY <1>1, <2>2, FinishedMatches DEF IsKnown
<1>2. CASE ~IsKnown(m, u)
  <2>1. Finished(m, u) = m
    BY <1>2 DEF Finished, FinishThrows
  <2> QED BY <2>1
<1> QED BY <1>1, <1>2

-----------------------------------------------------------------------------
(* Lists of commands.                                                      *)

\* Only what some type builds is ordered to be built.
KnownCommand == {c \in CommandType : c.class = "build" => c.of \in BuiltTypes}

\* q is s without its i-th command.
Without(s, i, q) ==
    /\ q \in Seq(KnownCommand) /\ Len(q) = Len(s) - 1
    /\ \A j \in 1 .. Len(q) : q[j] = s[IF j < i THEN j ELSE j + 1]

LEMMA Removed ==
    ASSUME NEW s \in Seq(KnownCommand), NEW i \in 1 .. Len(s)
    PROVE  Without(s, i, RemoveAt(s, i))
<1> PICK n \in Nat : n = Len(s) - 1
  OBVIOUS
<1> DEFINE front == SubSeq(s, 1, i - 1)
           back == SubSeq(s, i + 1, n + 1)
           list == front \o back
<1>1. s \in Seq(KnownCommand) /\ Len(s) = n + 1 /\ i \in 1 .. n + 1
  OBVIOUS
<1>2. front \in Seq(KnownCommand) /\ Len(front) = i - 1 /\ \A j \in 1 .. i - 1 : front[j] = s[j]
  <2> HIDE DEF KnownCommand
  <2> QED BY <1>1
<1>3. /\ back \in Seq(KnownCommand) /\ Len(back) = n + 1 - i
      /\ \A j \in 1 .. n + 1 - i : back[j] = s[i + j]
  <2>1. i + 1 \in Int /\ n + 1 \in Int
    BY <1>1
  <2>2. \A j \in i + 1 .. n + 1 : s[j] \in KnownCommand
    BY <1>1, <2>1, ElementOfSeq
  <2>3. /\ back \in Seq(KnownCommand)
        /\ Len(back) = IF i + 1 <= n + 1 THEN (n + 1) - (i + 1) + 1 ELSE 0
        /\ \A j \in 1 .. (n + 1) - (i + 1) + 1 : back[j] = s[(i + 1) + j - 1]
    BY <2>1, <2>2, SubSeqProperties
  <2> HIDE DEF back, KnownCommand
  <2> QED BY <1>1, <2>1, <2>3
<1> HIDE DEF front, back, KnownCommand
<1>4. list \in Seq(KnownCommand) /\ Len(list) = Len(front) + Len(back)
  BY <1>2, <1>3, ConcatProperties
<1>5. ASSUME NEW j \in 1 .. n
      PROVE  list[j] = s[IF j < i THEN j ELSE j + 1]
  <2>1. CASE j < i
    BY <1>1, <1>2, <1>3, <2>1
  <2>2. CASE ~(j < i)
    <3>1. list[j] = back[j - (i - 1)] /\ j - (i - 1) \in 1 .. n + 1 - i
      BY <1>1, <1>2, <1>3, <2>2
    <3>2. back[j - (i - 1)] = s[i + (j - (i - 1))] /\ i + (j - (i - 1)) = j + 1
      BY <1>1, <1>3, <3>1
    <3> QED BY <3>1, <3>2, <2>2
  <2> QED BY <2>1, <2>2
<1>6. list = RemoveAt(s, i)
  BY <1>1 DEF list, front, back, RemoveAt
<1>7. Len(list) = n
  BY <1>1, <1>2, <1>3, <1>4
<1> QED BY <1>1, <1>4, <1>5, <1>6, <1>7 DEF Without

LEMMA TailRemoved ==
    ASSUME NEW s \in Seq(KnownCommand), s # <<>>
    PROVE  Without(s, 1, Tail(s)) /\ Len(s) \in Nat \ {0} /\ 1 \in 1 .. Len(s)
<1> HIDE DEF KnownCommand
<1>1. /\ Tail(s) \in Seq(KnownCommand) /\ Len(Tail(s)) = Len(s) - 1
      /\ \A j \in 1 .. Len(Tail(s)) : Tail(s)[j] = s[j + 1]
  BY HeadTailProperties
<1>2. Len(s) \in Nat \ {0}
  BY EmptySeq
<1> QED BY <1>1, <1>2 DEF Without

\* What the commands of a list come to, each measured by m.
SeqTotal(s, m) == Total([i \in 1 .. Len(s) |-> m[s[i]]])

LEMMA SeqTotalType ==
    ASSUME NEW s \in Seq(KnownCommand), NEW m \in [KnownCommand -> Nat]
    PROVE  SeqTotal(s, m) \in Nat
<1> HIDE DEF KnownCommand
<1> PICK n \in Nat : n = Len(s)
  OBVIOUS
<1>1. [i \in 1 .. n |-> m[s[i]]] \in [1 .. n -> Nat]
  OBVIOUS
<1>2. IsFiniteSet(1 .. n)
  BY FS_Interval
<1> QED BY <1>1, <1>2, TotalNatural DEF SeqTotal

LEMMA SeqTotalEmpty ==
    ASSUME NEW m
    PROVE  SeqTotal(<<>>, m) = 0
<1>1. PICK g : g = [i \in 1 .. Len(<<>>) |-> m[<<>>[i]]]
  OBVIOUS
<1>2. 1 .. Len(<<>>) = {}
  OBVIOUS
<1>3. DOMAIN g = {} /\ g = [i \in {} |-> 0]
  BY <1>1, <1>2
<1> QED BY <1>1, <1>3, TotalOfNone DEF SeqTotal

LEMMA SeqTotalWithout ==
    ASSUME NEW s \in Seq(KnownCommand), NEW m \in [KnownCommand -> Nat], NEW i \in 1 .. Len(s),
           NEW q, Without(s, i, q)
    PROVE  s[i] \in KnownCommand /\ m[s[i]] \in Nat /\ SeqTotal(q, m) = SeqTotal(s, m) - m[s[i]]
<1> HIDE DEF KnownCommand
<1> PICK n \in Nat : n = Len(s) - 1
  OBVIOUS
<1> PICK D : D = 1 .. n + 1
  OBVIOUS
<1> PICK R : R = 1 .. n
  OBVIOUS
<1>1. /\ Len(s) = n + 1 /\ Len(q) = n /\ q \in Seq(KnownCommand)
      /\ \A j \in 1 .. n : q[j] = s[IF j < i THEN j ELSE j + 1]
  BY DEF Without
<1> PICK g : g = [j \in D |-> m[s[j]]]
  OBVIOUS
<1> PICK b : b = [j \in R |-> IF j < i THEN j ELSE j + 1]
  OBVIOUS
<1>2. g \in [D -> Int] /\ i \in D /\ g[i] = m[s[i]] /\ s[i] \in KnownCommand
  BY <1>1
<1>3. IsFiniteSet(D) /\ IsFiniteSet(R)
  <2>1. n + 1 \in Int /\ n \in Int /\ 1 \in Int
    OBVIOUS
  <2> QED BY <2>1, FS_Interval
<1>4. SeqTotal(s, m) = Total(g)
  BY <1>1 DEF SeqTotal
<1>5. b \in [R -> D \ {i}]
  <2>1. \A j \in R : (IF j < i THEN j ELSE j + 1) \in D \ {i}
    BY <1>1
  <2> QED BY <2>1
<1> PICK f : f = [j \in R |-> m[q[j]]]
  OBVIOUS
<1>6. SeqTotal(q, m) = Total(f) /\ f \in [R -> Int] /\ \A j \in R : f[j] = g[b[j]]
  <2>1. \A j \in R : f[j] = g[b[j]]
    <3>1. \A j \in R : b[j] = IF j < i THEN j ELSE j + 1
      OBVIOUS
    <3> QED BY <1>1, <1>5, <3>1
  <2>2. f \in [R -> Int]
    BY <1>1
  <2>3. f = [j \in 1 .. Len(q) |-> m[q[j]]]
    BY <1>1
  <2> QED BY <2>1, <2>2, <2>3 DEF SeqTotal
<1>7. \A x, y \in R : b[x] = b[y] => x = y
  OBVIOUS
<1> PICK T : T = D \ {i}
  OBVIOUS
<1> PICK r : r = [j \in T |-> g[j]]
  OBVIOUS
<1>8. \A y \in T : \E x \in R : b[x] = y
  <2> TAKE y \in T
  <2>1. CASE y < i
    <3>1. y \in R /\ b[y] = y
      BY <1>1, <2>1
    <3> QED BY <3>1
  <2>2. CASE ~(y < i)
    <3>1. y - 1 \in R /\ b[y - 1] = y
      BY <1>1, <2>2
    <3> QED BY <3>1
  <2> QED BY <2>1, <2>2
<1>9. OneLess(D, g, i, T, r)
  BY <1>2, <1>3 DEF OneLess
<1>10. Renumbered(R, f, T, r, b)
  <2>1. IsFiniteSet(T)
    BY <1>3, FS_RemoveElement
  <2>2. \A j \in R : f[j] = r[b[j]]
    BY <1>5, <1>6
  <2>3. r \in [T -> Int]
    BY <1>2
  <2> QED BY <1>3, <1>5, <1>6, <1>7, <1>8, <2>1, <2>2, <2>3 DEF Renumbered
<1>11. Total(g) \in Int /\ Total(r) \in Int /\ Total(g) = g[i] + Total(r)
  BY <1>9, TotalWithout
<1>12. Total(f) = Total(r)
  BY <1>10, TotalRenumbered
<1>13. g[i] \in Int
  BY <1>2
<1> QED BY <1>2, <1>4, <1>6, <1>11, <1>12, <1>13

LEMMA SeqTotalAppend ==
    ASSUME NEW s \in Seq(KnownCommand), NEW m \in [KnownCommand -> Nat], NEW c \in KnownCommand
    PROVE  /\ Append(s, c) \in Seq(KnownCommand) /\ Len(Append(s, c)) = Len(s) + 1
           /\ SeqTotal(Append(s, c), m) = SeqTotal(s, m) + m[c]
<1> HIDE DEF KnownCommand
<1>1. PICK t \in Seq(KnownCommand) : t = Append(s, c)
  BY AppendProperties
<1>2. PICK i \in Nat : i = Len(s) + 1
  OBVIOUS
<1>3. Len(t) = i /\ t[i] = c /\ i \in 1 .. Len(t) /\ \A j \in 1 .. Len(s) : t[j] = s[j]
  BY <1>1, <1>2
<1>4. Without(t, i, s)
  BY <1>2, <1>3 DEF Without
<1>5. t[i] \in KnownCommand /\ m[t[i]] \in Nat /\ SeqTotal(s, m) = SeqTotal(t, m) - m[t[i]]
  BY <1>3, <1>4, SeqTotalWithout
<1>6. SeqTotal(s, m) \in Nat /\ SeqTotal(t, m) \in Nat
  BY SeqTotalType
<1> QED BY <1>1, <1>2, <1>3, <1>5, <1>6

\* Commands that are measured alike come to the same.
LEMMA SeqTotalSame ==
    ASSUME NEW s, NEW t, NEW m, Len(s) = Len(t), \A i \in 1 .. Len(s) : m[s[i]] = m[t[i]]
    PROVE  SeqTotal(s, m) = SeqTotal(t, m)
<1>1. [i \in 1 .. Len(s) |-> m[s[i]]] = [i \in 1 .. Len(t) |-> m[t[i]]]
  OBVIOUS
<1> QED BY <1>1 DEF SeqTotal

-----------------------------------------------------------------------------
(* Units, and what each of them counts for.                                *)

UnitRecord ==
    [type : UnitTypes \cup {NoUnit}, alive : BOOLEAN, skill : Skills,
     commands : Seq(KnownCommand), target : Ids \cup {NoUnit}]

\* What a unit can store, what it and its orders count for the maximum of a type (or
\* for an upgrade), and what they hold of a static resource.
StoreShare(r) ==
    [x \in UnitRecord |-> IF x.type \in UnitTypes /\ x.skill # "beBuilt" THEN Stores[x.type][r] ELSE 0]

IsFor(p) == [c \in KnownCommand |-> IF c.of = p THEN 1 ELSE 0]
Present(x, p) == IF x.alive /\ x.skill # "beBuilt" /\ x.type = p THEN 1 ELSE 0
CountOf(p) == [x \in UnitRecord |-> Present(x, p) + SeqTotal(x.commands, IsFor(p))]

Holds(r) == [c \in KnownCommand |-> HeldByOrder(c, r)]
Held(x, r) == HeldByUnit(x, r)
ShareOf(r) == [x \in UnitRecord |-> Held(x, r) + SeqTotal(x.commands, Holds(r))]

LEMMA CommandKinds ==
    ASSUME NEW c \in KnownCommand
    PROVE  /\ c.class \in Classes /\ c.of \in UnitTypes \cup Upgrades \cup {NoUnit}
           /\ c.class = "upgrade" <=> c.of \in Upgrades
           /\ c.class = "stop" <=> c.of = NoUnit
           /\ c.class = "build" => c.of \in BuiltTypes
           /\ c.class \in {"produce", "build", "morph"} <=> c.of \in UnitTypes
<1>1. /\ c.class \in Classes /\ c.of \in UnitTypes \cup Upgrades \cup {NoUnit}
      /\ c.class = "build" => c.of \in BuiltTypes
      /\ [class |-> c.class, of |-> c.of] \in OrderTypes
  BY DEF KnownCommand, CommandType
<1>2. \/ c.class \in {"produce", "build", "morph"} /\ c.of \in UnitTypes
      \/ c.class = "upgrade" /\ c.of \in Upgrades
      \/ c.class = "stop" /\ c.of = NoUnit
  BY <1>1 DEF OrderTypes
<1> QED BY <1>1, <1>2, EconomyConstants

LEMMA Measures ==
    /\ \A p : IsFor(p) \in [KnownCommand -> Nat]
    /\ \A r \in Resources : Holds(r) \in [KnownCommand -> Nat]
<1>1. \A p : IsFor(p) \in [KnownCommand -> Nat]
  BY DEF IsFor
<1>2. ASSUME NEW r \in Resources, NEW c \in KnownCommand
      PROVE  HeldByOrder(c, r) \in Nat
  <2>1. CASE HasProduced(c) /\ r \in Costs(c.of)
    <3>1. c.of \in UnitTypes \cup Upgrades
      BY <2>1, CommandKinds DEF HasProduced
    <3>2. Cost[c.of][r] \in Int /\ Cost[c.of][r] > 0
      BY <2>1, <3>1, EconomyConstants DEF Costs
    <3> QED BY <2>1, <3>2 DEF HeldByOrder
  <2>2. CASE ~(HasProduced(c) /\ r \in Costs(c.of))
    BY <2>2 DEF HeldByOrder
  <2> QED BY <2>1, <2>2
<1>3. \A r \in Resources : Holds(r) \in [KnownCommand -> Nat]
  BY <1>2 DEF Holds
<1> QED BY <1>1, <1>3

LEMMA ShareTypes ==
    ASSUME NEW x \in UnitRecord
    PROVE  /\ \A r \in Resources : StoreShare(r)[x] \in Nat /\ Held(x, r) \in Int
           /\ \A p : CountOf(p)[x] \in Nat /\ Present(x, p) \in {0, 1}
           /\ \A p : CountOf(p)[x] = Present(x, p) + SeqTotal(x.commands, IsFor(p))
           /\ \A p : SeqTotal(x.commands, IsFor(p)) \in Nat
           /\ \A r \in Resources : SeqTotal(x.commands, Holds(r)) \in Nat
           /\ \A r \in Resources : ShareOf(r)[x] = Held(x, r) + SeqTotal(x.commands, Holds(r))
           /\ \A r \in Resources : ShareOf(r)[x] \in Int
<1>1. x.commands \in Seq(KnownCommand)
  BY DEF UnitRecord
<1>2. \A p : SeqTotal(x.commands, IsFor(p)) \in Nat
  BY <1>1, Measures, SeqTotalType
<1>3. \A r \in Resources : SeqTotal(x.commands, Holds(r)) \in Nat
  BY <1>1, Measures, SeqTotalType
<1>4. \A r \in Resources : Held(x, r) \in Int
  <2>1. x.type # NoUnit => x.type \in UnitTypes
    BY DEF UnitRecord
  <2> QED BY <2>1, EconomyConstants DEF Held, HeldByUnit
<1>5. \A r \in Resources : StoreShare(r)[x] \in Nat
  BY EconomyConstants DEF StoreShare
<1>6. \A p : Present(x, p) \in {0, 1}
  BY DEF Present
<1>7. \A p : CountOf(p)[x] = Present(x, p) + SeqTotal(x.commands, IsFor(p))
  BY DEF CountOf
<1>8. \A r \in Resources : ShareOf(r)[x] = Held(x, r) + SeqTotal(x.commands, Holds(r))
  BY DEF ShareOf
<1>9. \A p : CountOf(p)[x] \in Nat
  BY <1>2, <1>6, <1>7
<1>10. \A r \in Resources : ShareOf(r)[x] \in Int
  BY <1>3, <1>4, <1>8
<1> QED BY <1>2, <1>3, <1>4, <1>5, <1>6, <1>7, <1>8, <1>9, <1>10

\* Two records of a unit that differ in nothing that counts but their commands.
Alike(x, y) ==
    /\ x \in UnitRecord /\ y \in UnitRecord /\ x.type = y.type /\ x.alive = y.alive
    /\ x.skill = "beBuilt" <=> y.skill = "beBuilt"

LEMMA AlikeCounts ==
    ASSUME NEW x, NEW y, Alike(x, y)
    PROVE  /\ \A p : Present(x, p) = Present(y, p)
           /\ \A r \in Resources : Held(x, r) = Held(y, r) /\ StoreShare(r)[x] = StoreShare(r)[y]
BY DEF Alike, Present, Held, HeldByUnit, StoreShare

\* A unit loses its i-th command.
Loses(x, i, y) == Alike(x, y) /\ i \in 1 .. Len(x.commands) /\ Without(x.commands, i, y.commands)

LEMMA LostCounts ==
    ASSUME NEW x, NEW i, NEW y, Loses(x, i, y), NEW c, c = x.commands[i]
    PROVE  /\ c \in KnownCommand
           /\ \A p : CountOf(p)[y] = CountOf(p)[x] - (IF c.of = p THEN 1 ELSE 0)
           /\ \A r \in Resources : /\ HeldByOrder(c, r) \in Nat
                                   /\ ShareOf(r)[y] = ShareOf(r)[x] - HeldByOrder(c, r)
           /\ \A r \in Resources : StoreShare(r)[y] = StoreShare(r)[x]
<1>1. PICK s : s = x.commands
  OBVIOUS
<1>2. PICK q : q = y.commands
  OBVIOUS
<1>3. x \in UnitRecord /\ y \in UnitRecord /\ s \in Seq(KnownCommand) /\ i \in 1 .. Len(s)
  BY <1>1 DEF Loses, Alike, UnitRecord
<1>4. Without(s, i, q) /\ c = s[i]
  BY <1>1, <1>2 DEF Loses
<1>5. c \in KnownCommand
  BY <1>3, <1>4
<1>6. \A p : SeqTotal(q, IsFor(p)) = SeqTotal(s, IsFor(p)) - IsFor(p)[c]
  BY <1>3, <1>4, Measures, SeqTotalWithout
<1>7. \A r \in Resources : SeqTotal(q, Holds(r)) = SeqTotal(s, Holds(r)) - Holds(r)[c]
  BY <1>3, <1>4, Measures, SeqTotalWithout
<1>8. \A p : IsFor(p)[c] = IF c.of = p THEN 1 ELSE 0
  BY <1>5 DEF IsFor
<1>9. \A r \in Resources : Holds(r)[c] = HeldByOrder(c, r) /\ HeldByOrder(c, r) \in Nat
  <2>1. \A r \in Resources : Holds(r)[c] = HeldByOrder(c, r)
    BY <1>5 DEF Holds
  <2>2. \A r \in Resources : Holds(r)[c] \in Nat
    BY <1>5, Measures
  <2> QED BY <2>1, <2>2
<1>10. Alike(x, y)
  BY DEF Loses
<1> HIDE DEF Loses, KnownCommand
<1>11. ASSUME NEW p
       PROVE  CountOf(p)[y] = CountOf(p)[x] - (IF c.of = p THEN 1 ELSE 0)
  <2>1. /\ CountOf(p)[x] = Present(x, p) + SeqTotal(s, IsFor(p))
        /\ CountOf(p)[y] = Present(y, p) + SeqTotal(q, IsFor(p))
        /\ Present(x, p) \in {0, 1} /\ SeqTotal(s, IsFor(p)) \in Nat
    BY <1>1, <1>2, <1>3, ShareTypes
  <2>2. Present(x, p) = Present(y, p)
    BY <1>10, AlikeCounts
  <2>3. SeqTotal(q, IsFor(p)) = SeqTotal(s, IsFor(p)) - (IF c.of = p THEN 1 ELSE 0)
    BY <1>6, <1>8
  <2> QED BY <2>1, <2>2, <2>3
<1>12. ASSUME NEW r \in Resources
       PROVE  ShareOf(r)[y] = ShareOf(r)[x] - HeldByOrder(c, r)
  <2>1. /\ ShareOf(r)[x] = Held(x, r) + SeqTotal(s, Holds(r))
        /\ ShareOf(r)[y] = Held(y, r) + SeqTotal(q, Holds(r))
        /\ Held(x, r) \in Int /\ SeqTotal(s, Holds(r)) \in Nat
    BY <1>1, <1>2, <1>3, ShareTypes
  <2>2. Held(x, r) = Held(y, r)
    BY <1>10, AlikeCounts
  <2>3. SeqTotal(q, Holds(r)) = SeqTotal(s, Holds(r)) - HeldByOrder(c, r)
    BY <1>7, <1>9
  <2> QED BY <1>9, <2>1, <2>2, <2>3
<1>13. \A r \in Resources : StoreShare(r)[y] = StoreShare(r)[x]
  BY <1>10, AlikeCounts
<1> QED BY <1>5, <1>9, <1>11, <1>12, <1>13

\* A unit gets one more command.
Gains(x, c, y) == Alike(x, y) /\ c \in KnownCommand /\ y.commands = Append(x.commands, c)

LEMMA GainedCounts ==
    ASSUME NEW x, NEW c, NEW y, Gains(x, c, y)
    PROVE  /\ \A p : CountOf(p)[y] = CountOf(p)[x] + (IF c.of = p THEN 1 ELSE 0)
           /\ \A r \in Resources : /\ HeldByOrder(c, r) \in Nat
                                   /\ ShareOf(r)[y] = ShareOf(r)[x] + HeldByOrder(c, r)
           /\ \A r \in Resources : StoreShare(r)[y] = StoreShare(r)[x]
<1>1. PICK s : s = x.commands
  OBVIOUS
<1>2. PICK q : q = y.commands
  OBVIOUS
<1>3. x \in UnitRecord /\ y \in UnitRecord /\ s \in Seq(KnownCommand) /\ q = Append(s, c)
  BY <1>1, <1>2 DEF Gains, Alike, UnitRecord
<1>4. q \in Seq(KnownCommand) /\ q[Len(q)] = c /\ Len(q) = Len(s) + 1 /\ Len(q) \in 1 .. Len(q)
      /\ \A j \in 1 .. Len(s) : q[j] = s[j]
  <2>1. c \in KnownCommand
    BY DEF Gains
  <2> HIDE DEF KnownCommand, Gains
  <2> QED BY <1>3, <2>1, AppendProperties
<1>5. PICK i : i = Len(q)
  OBVIOUS
<1>6. Without(q, i, s)
  BY <1>3, <1>4, <1>5 DEF Without
<1>7. Alike(y, x)
  BY DEF Gains, Alike
<1>8. Loses(y, i, x) /\ c = y.commands[i]
  BY <1>1, <1>2, <1>4, <1>5, <1>6, <1>7 DEF Loses
<1>9. /\ \A p : CountOf(p)[x] = CountOf(p)[y] - (IF c.of = p THEN 1 ELSE 0)
      /\ \A r \in Resources : /\ HeldByOrder(c, r) \in Nat
                              /\ ShareOf(r)[x] = ShareOf(r)[y] - HeldByOrder(c, r)
      /\ \A r \in Resources : StoreShare(r)[x] = StoreShare(r)[y]
  BY <1>8, LostCounts
<1>10. /\ \A p : CountOf(p)[y] \in Nat
       /\ \A r \in Resources : ShareOf(r)[y] \in Int
  BY <1>3, ShareTypes
<1>11. \A p : CountOf(p)[y] = CountOf(p)[x] + (IF c.of = p THEN 1 ELSE 0)
  BY <1>9, <1>10
<1>12. \A r \in Resources : ShareOf(r)[y] = ShareOf(r)[x] + HeldByOrder(c, r)
  BY <1>9, <1>10
<1> QED BY <1>9, <1>11, <1>12

\* A unit keeps its commands but for what does not count.
Keeps(x, y) ==
    /\ Alike(x, y) /\ Len(x.commands) = Len(y.commands)
    /\ \A i \in 1 .. Len(x.commands) :
         x.commands[i].class = y.commands[i].class /\ x.commands[i].of = y.commands[i].of

LEMMA KeptCounts ==
    ASSUME NEW x, NEW y, Keeps(x, y)
    PROVE  /\ \A p : CountOf(p)[y] = CountOf(p)[x]
           /\ \A r \in Resources : ShareOf(r)[y] = ShareOf(r)[x]
           /\ \A r \in Resources : StoreShare(r)[y] = StoreShare(r)[x]
<1>1. PICK s : s = x.commands
  OBVIOUS
<1>2. PICK q : q = y.commands
  OBVIOUS
<1>3. /\ x \in UnitRecord /\ y \in UnitRecord /\ s \in Seq(KnownCommand) /\ q \in Seq(KnownCommand)
      /\ Len(s) = Len(q) /\ Alike(x, y)
  BY <1>1, <1>2 DEF Keeps, Alike, UnitRecord
<1>4. \A i \in 1 .. Len(s) : s[i] \in KnownCommand /\ q[i] \in KnownCommand
  BY <1>3
<1>5. \A i \in 1 .. Len(s) : s[i].class = q[i].class /\ s[i].of = q[i].of
  BY <1>1, <1>2 DEF Keeps
<1> HIDE DEF Keeps, KnownCommand
<1>6. \A p : SeqTotal(s, IsFor(p)) = SeqTotal(q, IsFor(p))
  <2>1. \A p : \A i \in 1 .. Len(s) : IsFor(p)[s[i]] = IsFor(p)[q[i]]
    BY <1>4, <1>5 DEF IsFor
  <2> QED BY <1>3, <2>1, SeqTotalSame
<1>7. \A r \in Resources : SeqTotal(s, Holds(r)) = SeqTotal(q, Holds(r))
  <2>1. \A r : \A i \in 1 .. Len(s) : Holds(r)[s[i]] = Holds(r)[q[i]]
    BY <1>4, <1>5 DEF Holds, HeldByOrder, HasProduced
  <2> QED BY <1>3, <2>1, SeqTotalSame
<1>8. /\ \A p : CountOf(p)[x] = Present(x, p) + SeqTotal(s, IsFor(p))
      /\ \A p : CountOf(p)[y] = Present(y, p) + SeqTotal(q, IsFor(p))
      /\ \A r \in Resources : ShareOf(r)[x] = Held(x, r) + SeqTotal(s, Holds(r))
      /\ \A r \in Resources : ShareOf(r)[y] = Held(y, r) + SeqTotal(q, Holds(r))
  BY <1>1, <1>2, <1>3, ShareTypes
<1>9. /\ \A p : Present(x, p) = Present(y, p)
      /\ \A r \in Resources : Held(x, r) = Held(y, r) /\ StoreShare(r)[x] = StoreShare(r)[y]
  BY <1>3, AlikeCounts
<1> QED BY <1>6, <1>7, <1>8, <1>9

-----------------------------------------------------------------------------
(* The whole faction.                                                      *)

Managers ==
    {m \in [upgrades : Seq(Entry), lookup : UNION {[S -> Nat] : S \in SUBSET Upgrades}] : Matching(m)}
Factions ==
    [amount : [Resources -> Int], store : [Resources -> Int], unit : [Ids -> UnitRecord],
     manager : Managers]

\* What all units come to in a measure.
Weigh(w, f) == Total([u \in Ids |-> w[f.unit[u]]])
Capacity(r, f) == Weigh(StoreShare(r), f)
Counted(p, f) == Weigh(CountOf(p), f)
InUse(r, f) == Weigh(ShareOf(r), f)

\* At most u is another unit in g than in f.
OthersStay(f, u, g) ==
    f \in Factions /\ g \in Factions /\ u \in Ids /\ \A v \in Ids \ {u} : g.unit[v] = f.unit[v]

LEMMA WeighChanged ==
    ASSUME NEW f, NEW u, NEW g, OthersStay(f, u, g), NEW w \in [UnitRecord -> Int]
    PROVE  /\ Weigh(w, f) \in Int /\ Weigh(w, g) \in Int
           /\ Weigh(w, g) = Weigh(w, f) - w[f.unit[u]] + w[g.unit[u]]
<1>1. f.unit \in [Ids -> UnitRecord] /\ g.unit \in [Ids -> UnitRecord] /\ u \in Ids
      /\ \A v \in Ids \ {u} : g.unit[v] = f.unit[v]
  BY DEF OthersStay, Factions
<1>2. PICK a : a = [v \in Ids |-> w[f.unit[v]]]
  OBVIOUS
<1>3. PICK b : b = [v \in Ids |-> w[g.unit[v]]]
  OBVIOUS
<1>4. AllButOne(Ids, a, u, b)
  BY <1>1, <1>2, <1>3, EconomyConstants DEF AllButOne
<1>5. Total(a) \in Int /\ Total(b) \in Int /\ Total(b) = Total(a) - a[u] + b[u]
  BY <1>4, TotalChanged
<1> QED BY <1>1, <1>2, <1>3, <1>5 DEF Weigh

LEMMA UnitChanged ==
    ASSUME NEW f, NEW u, NEW g, OthersStay(f, u, g)
    PROVE  /\ \A p : /\ Counted(p, f) \in Int /\ Counted(p, g) \in Int
                     /\ CountOf(p)[f.unit[u]] \in Nat /\ CountOf(p)[g.unit[u]] \in Nat
                     /\ Counted(p, g) = Counted(p, f) - CountOf(p)[f.unit[u]] + CountOf(p)[g.unit[u]]
           /\ \A r \in Resources :
                /\ InUse(r, f) \in Int /\ InUse(r, g) \in Int
                /\ ShareOf(r)[f.unit[u]] \in Int /\ ShareOf(r)[g.unit[u]] \in Int
                /\ InUse(r, g) = InUse(r, f) - ShareOf(r)[f.unit[u]] + ShareOf(r)[g.unit[u]]
           /\ \A r \in Resources :
                /\ Capacity(r, f) \in Int /\ Capacity(r, g) \in Int
                /\ StoreShare(r)[f.unit[u]] \in Nat /\ StoreShare(r)[g.unit[u]] \in Nat
                /\ Capacity(r, g) = Capacity(r, f) - StoreShare(r)[f.unit[u]] + StoreShare(r)[g.unit[u]]
<1>1. f.unit[u] \in UnitRecord /\ g.unit[u] \in UnitRecord
  BY DEF OthersStay, Factions
<1>2. /\ \A p : CountOf(p)[f.unit[u]] \in Nat /\ CountOf(p)[g.unit[u]] \in Nat
      /\ \A r \in Resources : ShareOf(r)[f.unit[u]] \in Int /\ ShareOf(r)[g.unit[u]] \in Int
      /\ \A r \in Resources : StoreShare(r)[f.unit[u]] \in Nat /\ StoreShare(r)[g.unit[u]] \in Nat
  BY <1>1, ShareTypes
<1>3. \A p : CountOf(p) \in [UnitRecord -> Int]
  <2>1. \A p : CountOf(p) = [x \in UnitRecord |-> CountOf(p)[x]]
    BY DEF CountOf
  <2>2. \A p : \A x \in UnitRecord : CountOf(p)[x] \in Int
    BY ShareTypes
  <2> QED BY <2>1, <2>2
<1>4. \A r \in Resources : ShareOf(r) \in [UnitRecord -> Int]
  <2>1. \A r : ShareOf(r) = [x \in UnitRecord |-> ShareOf(r)[x]]
    BY DEF ShareOf
  <2>2. \A r \in Resources : \A x \in UnitRecord : ShareOf(r)[x] \in Int
    BY ShareTypes
  <2> QED BY <2>1, <2>2
<1>5. \A r \in Resources : StoreShare(r) \in [UnitRecord -> Int]
  <2>1. \A r : StoreShare(r) = [x \in UnitRecord |-> StoreShare(r)[x]]
    BY DEF StoreShare
  <2>2. \A r \in Resources : \A x \in UnitRecord : StoreShare(r)[x] \in Int
    BY ShareTypes
  <2> QED BY <2>1, <2>2
<1>6. \A p : /\ Counted(p, f) \in Int /\ Counted(p, g) \in Int
             /\ Counted(p, g) = Counted(p, f) - CountOf(p)[f.unit[u]] + CountOf(p)[g.unit[u]]
  BY <1>3, WeighChanged DEF Counted
<1>7. \A r \in Resources :
        /\ InUse(r, f) \in Int /\ InUse(r, g) \in Int
        /\ InUse(r, g) = InUse(r, f) - ShareOf(r)[f.unit[u]] + ShareOf(r)[g.unit[u]]
  BY <1>4, WeighChanged DEF InUse
<1>8. \A r \in Resources :
        /\ Capacity(r, f) \in Int /\ Capacity(r, g) \in Int
        /\ Capacity(r, g) = Capacity(r, f) - StoreShare(r)[f.unit[u]] + StoreShare(r)[g.unit[u]]
  BY <1>5, WeighChanged DEF Capacity
<1> QED BY <1>2, <1>6, <1>7, <1>8

-----------------------------------------------------------------------------
(* The invariant.                                                          *)

\* No type and no upgrade is paid for with a negative amount of a tech resource.
TechPaid ==
    \A p \in UnitTypes \cup Upgrades : \A r \in Resources : Class[r] = "tech" => Cost[p][r] >= 0

\* The types whose maximum is kept, and that the units at the start keep it.
Restricted == {t \in UnitTypes \ BuiltTypes : MaxUnitCount[t] > 0}
StartWithinMaximum ==
    \A t \in Restricted : Cardinality({u \in DOMAIN Start : Start[u] = t}) <= MaxUnitCount[t]

\* The static resources of which nothing is gained.
Kept ==
    {r \in StaticResources \cap RecoupCost : Undiscounted(r) /\ \A t \in BuiltTypes : r \notin Costs(t)}

\* A unit that does not exist is Gone, one that does has a type, one that is being built
\* has no commands.
UnitSound(x) ==
    /\ x.skill = "none" => x = Gone
    /\ x.skill # "none" => x.type \in UnitTypes
    /\ x.skill = "beBuilt" => x.type \in BuiltTypes /\ x.commands = <<>>
    /\ Len(x.commands) <= MaxCommands
UnitsSound(f) == \A u \in Ids : UnitSound(f.unit[u])

\* The store is what the units that are there can store.
StoreRight(f) == \A r \in Resources : f.store[r] = Capacity(r, f)
Within(f) == \A r \in Resources \ StaticResources : f.amount[r] \in 0 .. f.store[r]
PaidFor(f) == TechPaid => Within(f)
CountsKept(f) == StartWithinMaximum => \A t \in Restricted : Counted(t, f) <= MaxUnitCount[t]
ResearchKnown(f) ==
    \A v \in Upgrades : Counted(v, f) <= 1 /\ (Counted(v, f) >= 1 => IsKnown(f.manager, v))
NothingGained(f, bound) == \A r \in Kept : f.amount[r] + InUse(r, f) <= bound[r]

EcoInv(f, bound) ==
    /\ f \in Factions /\ UnitsSound(f) /\ StoreRight(f) /\ PaidFor(f) /\ CountsKept(f)
    /\ ResearchKnown(f) /\ NothingGained(f, bound)

-----------------------------------------------------------------------------
(* Resources.                                                              *)

LEMMA CreditedFields ==
    ASSUME NEW f \in Factions, NEW change \in [Resources -> Int], NEW g, g = Credited(f, change)
    PROVE  /\ g \in Factions /\ g.store = f.store /\ g.unit = f.unit /\ g.manager = f.manager
           /\ \A r \in Resources :
                g.amount[r] = IF change[r] = 0 \/ Class[r] = "static" \/ f.amount[r] + change[r] <= f.store[r]
                              THEN f.amount[r] + change[r] ELSE f.store[r]
<1>1. PICK a : a = [r \in Resources |->
                      IF change[r] = 0 \/ Class[r] = "static" \/ f.amount[r] + change[r] <= f.store[r]
                      THEN f.amount[r] + change[r] ELSE f.store[r]]
  OBVIOUS
<1>2. a \in [Resources -> Int]
  BY <1>1 DEF Factions
<1>3. g = [f EXCEPT !.amount = a]
  BY <1>1 DEF Credited
<1>4. g \in Factions /\ g.store = f.store /\ g.unit = f.unit /\ g.manager = f.manager /\ g.amount = a
  BY <1>2, <1>3 DEF Factions
<1> QED BY <1>1, <1>4

\* What is credited does not exceed the store, and does not make debts.
LEMMA CreditedWithin ==
    ASSUME NEW f \in Factions, Within(f), NEW change \in [Resources -> Int],
           \A r \in Resources \ StaticResources : f.amount[r] + change[r] >= 0
    PROVE  Within(Credited(f, change))
<1>1. PICK g : g = Credited(f, change)
  OBVIOUS
<1>2. /\ g.store = f.store
      /\ \A r \in Resources :
           g.amount[r] = IF change[r] = 0 \/ Class[r] = "static" \/ f.amount[r] + change[r] <= f.store[r]
                         THEN f.amount[r] + change[r] ELSE f.store[r]
  BY <1>1, CreditedFields
<1>3. ASSUME NEW r \in Resources \ StaticResources
      PROVE  g.amount[r] \in 0 .. g.store[r]
  <2>1. f.amount[r] \in 0 .. f.store[r] /\ f.amount[r] + change[r] >= 0 /\ Class[r] # "static"
    BY DEF Within, StaticResources
  <2>2. f.store[r] \in Int /\ f.amount[r] \in Int /\ change[r] \in Int
    BY DEF Factions
  <2>3. g.amount[r] = IF change[r] = 0 \/ f.amount[r] + change[r] <= f.store[r]
                      THEN f.amount[r] + change[r] ELSE f.store[r]
    BY <1>2, <2>1
  <2>4. g.store[r] = f.store[r]
    BY <1>2
  <2> QED BY <2>1, <2>2, <2>3, <2>4
<1> QED BY <1>1, <1>3 DEF Within

LEMMA ChargeValues ==
    ASSUME NEW p \in UnitTypes \cup Upgrades
    PROVE  /\ Charge(p) \in [Resources -> Int] /\ Negated(Charge(p)) \in [Resources -> Int]
           /\ \A r \in Resources : Negated(Charge(p))[r] = -Charge(p)[r]
           /\ \A r \in StaticResources : Charge(p)[r] = IF r \in Costs(p) THEN Cost[p][r] ELSE 0
           /\ \A r \in Resources : Class[r] = "consumable" => Charge(p)[r] = 0
           /\ \A r \in Resources : Class[r] = "tech" => Charge(p)[r] = Cost[p][r]
           /\ TechPaid => \A r \in Resources : Charge(p)[r] >= 0
<1>1. Cost[p] \in [Resources -> Int] /\ Class \in [Resources -> {"tech", "static", "consumable"}]
  BY EconomyConstants
<1>2. \A r \in Resources :
        Charge(p)[r] = IF Class[r] # "consumable" /\ (r \in Costs(p) \/ Class[r] # "static")
                       THEN Cost[p][r] ELSE 0
  BY DEF Charge, Only
<1>3. Charge(p) = [r \in Resources |-> Charge(p)[r]]
  BY DEF Charge, Only
<1>4. Charge(p) \in [Resources -> Int]
  BY <1>1, <1>2, <1>3
<1>5. Negated(Charge(p)) = [r \in Resources |-> -Charge(p)[r]]
  BY DEF Negated
<1>6. Negated(Charge(p)) \in [Resources -> Int] /\ \A r \in Resources : Negated(Charge(p))[r] = -Charge(p)[r]
  BY <1>4, <1>5
<1>7. \A r \in StaticResources : Charge(p)[r] = IF r \in Costs(p) THEN Cost[p][r] ELSE 0
  BY <1>2 DEF StaticResources
<1>8. \A r \in Resources : Class[r] = "consumable" => Charge(p)[r] = 0
  BY <1>2
<1>9. \A r \in Resources : Class[r] = "tech" => Charge(p)[r] = Cost[p][r]
  BY <1>2
<1>10. ASSUME TechPaid, NEW r \in Resources
       PROVE  Charge(p)[r] >= 0
  <2>1. Cost[p][r] \in Int
    BY <1>1
  <2>2. r \in Costs(p) => Cost[p][r] > 0
    BY DEF Costs
  <2>3. Class[r] = "tech" => Cost[p][r] >= 0
    BY <1>10 DEF TechPaid
  <2>4. Class[r] \in {"tech", "static", "consumable"}
    BY <1>1
  <2> QED BY <1>2, <2>1, <2>2, <2>3, <2>4
<1> QED BY <1>4, <1>6, <1>7, <1>8, <1>9, <1>10

-----------------------------------------------------------------------------
(* Commands.                                                               *)

\* Of all units only u is another, and it has at most as many commands.
Shorter(f, u, g) ==
    /\ OthersStay(f, u, g) /\ g.store = f.store
    /\ \A k \in {"type", "alive", "skill", "target"} : g.unit[u][k] = f.unit[u][k]
    /\ Len(g.unit[u].commands) <= Len(f.unit[u].commands)

\* What undoing a command returns.
Refund(f, u, c) == HasProduced(c) \/ (c.class = "build" /\ f.unit[u].skill # "build")

LEMMA UndoneFields ==
    ASSUME NEW f \in Factions, NEW u \in Ids, NEW c \in KnownCommand, NEW g, g = Undone(f, u, c)
    PROVE  /\ g \in Factions /\ g.store = f.store /\ g.unit = f.unit
           /\ g.amount = (IF Refund(f, u, c) THEN Credited(f, Charge(c.of)).amount ELSE f.amount)
           /\ g.manager = (IF c.class = "upgrade" THEN Cancelled(f.manager, c.of) ELSE f.manager)
<1>1. PICK h : h = IF Refund(f, u, c) THEN Credited(f, Charge(c.of)) ELSE f
  OBVIOUS
<1>2. h \in Factions /\ h.store = f.store /\ h.unit = f.unit /\ h.manager = f.manager
  <2>1. CASE Refund(f, u, c)
    <3>1. c.of \in UnitTypes \cup Upgrades
      BY <2>1, CommandKinds DEF Refund, HasProduced
    <3>2. Charge(c.of) \in [Resources -> Int]
      BY <3>1, ChargeValues
    <3>3. h = Credited(f, Charge(c.of))
      BY <1>1, <2>1
    <3> QED BY <3>2, <3>3, CreditedFields
  <2>2. CASE ~Refund(f, u, c)
    BY <1>1, <2>2
  <2> QED BY <2>1, <2>2
<1>3. PICK m : m = IF c.class = "upgrade" THEN Cancelled(f.manager, c.of) ELSE f.manager
  OBVIOUS
<1>4. g = [h EXCEPT !.manager = m]
  BY <1>1, <1>2, <1>3 DEF Undone, CostsDeapplied, Refund
<1>5. m \in Managers
  <2>1. f.manager \in Managers
    BY DEF Factions
  <2>2. CASE c.class = "upgrade"
    <3>1. c.of \in Upgrades
      BY <2>2, CommandKinds
    <3>2. Matching(f.manager)
      BY <2>1 DEF Managers
    <3>3. Matching(m)
      BY <1>3, <2>2, <3>1, <3>2, CancelledKnows
    <3> QED BY <3>3 DEF Managers, Matching
  <2>3. CASE c.class # "upgrade"
    BY <1>3, <2>1, <2>3
  <2> QED BY <2>2, <2>3
<1>6. g \in Factions /\ g.store = h.store /\ g.unit = h.unit /\ g.amount = h.amount /\ g.manager = m
  BY <1>2, <1>4, <1>5 DEF Factions
<1>7. h.amount = (IF Refund(f, u, c) THEN Credited(f, Charge(c.of)).amount ELSE f.amount)
  BY <1>1
<1> QED BY <1>2, <1>3, <1>6, <1>7

\* One unit is replaced.
Put(f, u, x) == [f EXCEPT !.unit = [f.unit EXCEPT ![u] = x]]

LEMMA UnitPut ==
    ASSUME NEW f \in Factions, NEW u \in Ids, NEW x \in UnitRecord, NEW g, g = Put(f, u, x)
    PROVE  /\ OthersStay(f, u, g) /\ g \in Factions /\ g.unit[u] = x
           /\ g.amount = f.amount /\ g.store = f.store /\ g.manager = f.manager
<1>1. g \in Factions /\ g.amount = f.amount /\ g.store = f.store /\ g.manager = f.manager
      /\ g.unit = [f.unit EXCEPT ![u] = x] /\ f.unit \in [Ids -> UnitRecord]
  BY DEF Factions, Put
<1>2. g.unit[u] = x /\ \A v \in Ids \ {u} : g.unit[v] = f.unit[v]
  BY <1>1
<1> QED BY <1>1, <1>2 DEF OthersStay

LEMMA WithdrawnFields ==
    ASSUME NEW f \in Factions, NEW u \in Ids, NEW i, i \in 1 .. Len(f.unit[u].commands),
           NEW c, c = f.unit[u].commands[i], NEW g, g = Withdrawn(f, u, i)
    PROVE  /\ c \in KnownCommand /\ g \in Factions /\ Shorter(f, u, g)
           /\ Loses(f.unit[u], i, g.unit[u])
           /\ g.amount = (IF Refund(f, u, c) THEN Credited(f, Charge(c.of)).amount ELSE f.amount)
           /\ g.manager = (IF c.class = "upgrade" THEN Cancelled(f.manager, c.of) ELSE f.manager)
<1>1. PICK x : x = f.unit[u]
  OBVIOUS
<1>2. x \in UnitRecord /\ x.commands \in Seq(KnownCommand)
  BY <1>1 DEF Factions, UnitRecord
<1>3. PICK s \in Seq(KnownCommand) : s = x.commands
  BY <1>2
<1>4. i \in 1 .. Len(s) /\ c = s[i]
  BY <1>1, <1>3
<1>5. c \in KnownCommand
  BY <1>4
<1>6. PICK h : h = Undone(f, u, c)
  OBVIOUS
<1>7. /\ h \in Factions /\ h.store = f.store /\ h.unit = f.unit
      /\ h.amount = (IF Refund(f, u, c) THEN Credited(f, Charge(c.of)).amount ELSE f.amount)
      /\ h.manager = (IF c.class = "upgrade" THEN Cancelled(f.manager, c.of) ELSE f.manager)
  BY <1>5, <1>6, UndoneFields
<1>8. PICK q : q = RemoveAt(s, i)
  OBVIOUS
<1>9. Without(s, i, q)
  BY <1>4, <1>8, Removed
<1>10. q \in Seq(KnownCommand) /\ Len(q) <= Len(s)
  BY <1>9 DEF Without
<1>11. PICK y : y = [x EXCEPT !.commands = q]
  OBVIOUS
<1>12. /\ y \in UnitRecord /\ y.commands = q /\ y.type = x.type /\ y.alive = x.alive
       /\ y.skill = x.skill /\ y.target = x.target
  BY <1>2, <1>10, <1>11 DEF UnitRecord
<1>13. g = Put(h, u, y)
  BY <1>1, <1>3, <1>4, <1>6, <1>7, <1>8, <1>11 DEF Withdrawn, Put
<1>14. /\ OthersStay(h, u, g) /\ g \in Factions /\ g.unit[u] = y
       /\ g.amount = h.amount /\ g.store = h.store /\ g.manager = h.manager
  BY <1>7, <1>12, <1>13, UnitPut
<1>15. OthersStay(f, u, g)
  BY <1>7, <1>14 DEF OthersStay
<1>16. \A k \in {"type", "alive", "skill", "target"} : y[k] = x[k]
  BY <1>12
<1>17. Shorter(f, u, g)
  BY <1>1, <1>3, <1>7, <1>10, <1>12, <1>14, <1>15, <1>16 DEF Shorter
<1>18. Loses(x, i, y)
  BY <1>2, <1>3, <1>4, <1>9, <1>12 DEF Loses, Alike
<1> QED BY <1>1, <1>5, <1>7, <1>14, <1>17, <1>18

\* Undoing and deleting a command keeps the invariant.
LEMMA WithdrawnKeeps ==
    ASSUME NEW bound \in [Resources -> Int], NEW f, EcoInv(f, bound), NEW u \in Ids,
           NEW i, i \in 1 .. Len(f.unit[u].commands), NEW g, g = Withdrawn(f, u, i)
    PROVE  EcoInv(g, bound) /\ Shorter(f, u, g)
<1> PICK c : c = f.unit[u].commands[i]
  OBVIOUS
<1>1. f \in Factions
  BY DEF EcoInv
<1>2. /\ c \in KnownCommand /\ g \in Factions /\ Shorter(f, u, g)
      /\ Loses(f.unit[u], i, g.unit[u])
      /\ g.amount = (IF Refund(f, u, c) THEN Credited(f, Charge(c.of)).amount ELSE f.amount)
      /\ g.manager = (IF c.class = "upgrade" THEN Cancelled(f.manager, c.of) ELSE f.manager)
  BY <1>1, WithdrawnFields
<1>3. OthersStay(f, u, g) /\ g.store = f.store
  BY <1>2 DEF Shorter
<1>4. /\ \A p : CountOf(p)[g.unit[u]] = CountOf(p)[f.unit[u]] - (IF c.of = p THEN 1 ELSE 0)
      /\ \A r \in Resources : /\ HeldByOrder(c, r) \in Nat
                              /\ ShareOf(r)[g.unit[u]] = ShareOf(r)[f.unit[u]] - HeldByOrder(c, r)
      /\ \A r \in Resources : StoreShare(r)[g.unit[u]] = StoreShare(r)[f.unit[u]]
  BY <1>2, LostCounts
<1>5. ASSUME NEW p
      PROVE  Counted(p, f) \in Int /\ Counted(p, g) = Counted(p, f) - (IF c.of = p THEN 1 ELSE 0)
  <2>1. /\ Counted(p, f) \in Int
        /\ CountOf(p)[f.unit[u]] \in Nat /\ CountOf(p)[g.unit[u]] \in Nat
        /\ Counted(p, g) = Counted(p, f) - CountOf(p)[f.unit[u]] + CountOf(p)[g.unit[u]]
    BY <1>3, UnitChanged
  <2>2. CountOf(p)[g.unit[u]] = CountOf(p)[f.unit[u]] - (IF c.of = p THEN 1 ELSE 0)
    BY <1>4
  <2> QED BY <2>1, <2>2
<1>6. ASSUME NEW r \in Resources
      PROVE  InUse(r, f) \in Int /\ InUse(r, g) = InUse(r, f) - HeldByOrder(c, r)
  <2>1. /\ InUse(r, f) \in Int
        /\ ShareOf(r)[f.unit[u]] \in Int /\ ShareOf(r)[g.unit[u]] \in Int
        /\ InUse(r, g) = InUse(r, f) - ShareOf(r)[f.unit[u]] + ShareOf(r)[g.unit[u]]
    BY <1>3, UnitChanged
  <2>2. HeldByOrder(c, r) \in Nat /\ ShareOf(r)[g.unit[u]] = ShareOf(r)[f.unit[u]] - HeldByOrder(c, r)
    BY <1>4
  <2> QED BY <2>1, <2>2
<1>7. \A r \in Resources : Capacity(r, g) = Capacity(r, f)
  BY <1>3, <1>4, UnitChanged
<1>8. UnitsSound(g)
  <2>1. UnitsSound(f)
    BY DEF EcoInv
  <2>2. UnitSound(g.unit[u])
    <3>1. UnitSound(f.unit[u])
      BY <2>1 DEF UnitsSound
    <3>2. f.unit[u].skill # "none" /\ f.unit[u].skill # "beBuilt"
      <4>1. f.unit[u].commands # <<>>
        OBVIOUS
      <4> QED BY <3>1, <4>1 DEF UnitSound, Gone
    <3>3. /\ g.unit[u].skill = f.unit[u].skill /\ g.unit[u].type = f.unit[u].type
          /\ Len(g.unit[u].commands) <= Len(f.unit[u].commands)
      BY <1>2 DEF Shorter
    <3>4. Len(g.unit[u].commands) \in Nat /\ Len(f.unit[u].commands) \in Nat
      BY <1>1, <1>2 DEF Factions, UnitRecord
    <3> QED BY <3>1, <3>2, <3>3, <3>4, EconomyConstants DEF UnitSound
  <2> QED BY <1>3, <2>1, <2>2 DEF UnitsSound, OthersStay
<1>9. StoreRight(g)
  BY <1>3, <1>7 DEF EcoInv, StoreRight
<1>10. ASSUME Refund(f, u, c)
       PROVE  /\ c.of \in UnitTypes \cup Upgrades /\ Charge(c.of) \in [Resources -> Int]
              /\ g.amount = Credited(f, Charge(c.of)).amount
  <2>1. c.of \in UnitTypes \cup Upgrades
    BY <1>2, <1>10, CommandKinds DEF Refund, HasProduced
  <2> QED BY <1>2, <1>10, <2>1, ChargeValues
<1>11. PaidFor(g)
  <2> SUFFICES ASSUME TechPaid PROVE Within(g)
    BY DEF PaidFor
  <2>1. Within(f)
    BY DEF EcoInv, PaidFor
  <2>2. CASE Refund(f, u, c)
    <3>1. \A r \in Resources \ StaticResources : f.amount[r] + Charge(c.of)[r] >= 0
      <4> TAKE r \in Resources \ StaticResources
      <4>1. f.amount[r] \in 0 .. f.store[r] /\ f.amount[r] \in Int /\ f.store[r] \in Int
        BY <1>1, <2>1 DEF Within, Factions
      <4>2. Charge(c.of)[r] >= 0 /\ Charge(c.of)[r] \in Int
        BY <1>10, <2>2, ChargeValues
      <4> QED BY <4>1, <4>2
    <3>2. Within(Credited(f, Charge(c.of)))
      BY <1>1, <1>10, <2>1, <2>2, <3>1, CreditedWithin
    <3>3. Credited(f, Charge(c.of)).store = f.store
      BY <1>1, <1>10, <2>2, CreditedFields
    <3> QED BY <1>3, <1>10, <2>2, <3>2, <3>3 DEF Within
  <2>3. CASE ~Refund(f, u, c)
    BY <1>2, <1>3, <2>1, <2>3 DEF Within
  <2> QED BY <2>2, <2>3
<1>12. CountsKept(g)
  <2> SUFFICES ASSUME StartWithinMaximum, NEW t \in Restricted PROVE Counted(t, g) <= MaxUnitCount[t]
    BY DEF CountsKept
  <2>1. Counted(t, f) <= MaxUnitCount[t] /\ MaxUnitCount[t] \in Nat
    BY EconomyConstants DEF EcoInv, CountsKept, Restricted
  <2> QED BY <1>5, <2>1
<1>13. ResearchKnown(g)
  <2> SUFFICES ASSUME NEW v \in Upgrades
               PROVE  Counted(v, g) <= 1 /\ (Counted(v, g) >= 1 => IsKnown(g.manager, v))
    BY DEF ResearchKnown
  <2>1. Counted(v, f) <= 1 /\ (Counted(v, f) >= 1 => IsKnown(f.manager, v))
    BY DEF EcoInv, ResearchKnown
  <2>2. Counted(v, f) \in Int /\ Counted(v, g) = Counted(v, f) - (IF c.of = v THEN 1 ELSE 0)
    BY <1>5
  <2>3. Counted(v, g) <= 1 /\ (Counted(v, g) >= 1 => Counted(v, f) >= 1 /\ c.of # v)
    BY <2>1, <2>2
  <2>4. ASSUME IsKnown(f.manager, v), c.of # v
        PROVE  IsKnown(g.manager, v)
    <3>1. CASE c.class = "upgrade"
      <4>1. c.of \in Upgrades
        BY <1>2, <3>1, CommandKinds
      <4>2. Matching(f.manager)
        BY <1>1 DEF Factions, Managers
      <4>3. g.manager = Cancelled(f.manager, c.of)
        BY <1>2, <3>1
      <4> QED BY <2>4, <4>1, <4>2, <4>3, CancelledKnows
    <3>2. CASE c.class # "upgrade"
      BY <1>2, <2>4, <3>2
    <3> QED BY <3>1, <3>2
  <2> QED BY <2>1, <2>3, <2>4
<1>14. NothingGained(g, bound)
  <2> SUFFICES ASSUME NEW r \in Kept PROVE g.amount[r] + InUse(r, g) <= bound[r]
    BY DEF NothingGained
  <2>1. /\ r \in Resources /\ r \in StaticResources /\ Class[r] = "static"
        /\ \A t \in BuiltTypes : r \notin Costs(t)
    BY DEF Kept, StaticResources
  <2>2. f.amount[r] + InUse(r, f) <= bound[r] /\ InUse(r, f) \in Int /\ bound[r] \in Int
        /\ f.amount[r] \in Int /\ InUse(r, g) = InUse(r, f) - HeldByOrder(c, r) /\ HeldByOrder(c, r) \in Nat
    BY <1>1, <1>4, <1>6, <2>1 DEF EcoInv, NothingGained, Factions
  <2>3. CASE Refund(f, u, c)
    <3>1. g.amount[r] = f.amount[r] + Charge(c.of)[r]
      BY <1>1, <1>10, <2>1, <2>3, CreditedFields
    <3>2. Charge(c.of)[r] = IF r \in Costs(c.of) THEN Cost[c.of][r] ELSE 0
      BY <1>10, <2>1, <2>3, ChargeValues
    <3>3. CASE HasProduced(c)
      <4>1. HeldByOrder(c, r) = Charge(c.of)[r]
        BY <3>2, <3>3 DEF HeldByOrder
      <4> QED BY <2>2, <3>1, <4>1
    <3>4. CASE ~HasProduced(c)
      <4>1. c.of \in BuiltTypes
        BY <1>2, <2>3, <3>4, CommandKinds DEF Refund
      <4>2. Charge(c.of)[r] = 0
        BY <2>1, <3>2, <4>1
      <4> QED BY <2>2, <3>1, <4>2
    <3> QED BY <3>3, <3>4
  <2>4. CASE ~Refund(f, u, c)
    BY <1>2, <2>2, <2>4
  <2> QED BY <2>3, <2>4
<1> QED BY <1>2, <1>8, <1>9, <1>11, <1>12, <1>13, <1>14 DEF EcoInv

LEMMA ShorterTransitive ==
    ASSUME NEW f, NEW u, NEW g, NEW h, Shorter(f, u, g), Shorter(g, u, h)
    PROVE  Shorter(f, u, h)
<1>1. OthersStay(f, u, h)
  BY DEF Shorter, OthersStay
<1>2. /\ Len(f.unit[u].commands) \in Nat /\ Len(g.unit[u].commands) \in Nat
      /\ Len(h.unit[u].commands) \in Nat
  BY DEF Shorter, OthersStay, Factions, UnitRecord
<1>3. Len(h.unit[u].commands) <= Len(f.unit[u].commands)
  <2>1. /\ Len(h.unit[u].commands) <= Len(g.unit[u].commands)
        /\ Len(g.unit[u].commands) <= Len(f.unit[u].commands)
    BY DEF Shorter
  <2>2. PICK a \in Nat : a = Len(f.unit[u].commands)
    BY <1>2
  <2>3. PICK b \in Nat : b = Len(g.unit[u].commands)
    BY <1>2
  <2>4. PICK d \in Nat : d = Len(h.unit[u].commands)
    BY <1>2
  <2>5. d <= b /\ b <= a
    BY <2>1, <2>2, <2>3, <2>4
  <2>6. d <= a
    BY <2>5
  <2> QED BY <2>2, <2>4, <2>6
<1>4. \A k \in {"type", "alive", "skill", "target"} : h.unit[u][k] = f.unit[u][k]
  BY DEF Shorter
<1>5. h.store = f.store
  BY DEF Shorter
<1> QED BY <1>1, <1>3, <1>4, <1>5 DEF Shorter

\* What can be reached from f by deleting commands of u.
Fewer(f, u, bound) == {g \in Factions : EcoInv(g, bound) /\ Shorter(f, u, g)}

LEMMA FewerItself ==
    ASSUME NEW bound, NEW f, EcoInv(f, bound), NEW u \in Ids
    PROVE  f \in Fewer(f, u, bound)
<1>1. f \in Factions
  BY DEF EcoInv
<1>2. Len(f.unit[u].commands) \in Nat
  BY <1>1 DEF Factions, UnitRecord
<1>3. Shorter(f, u, f)
  BY <1>1, <1>2 DEF Shorter, OthersStay
<1> QED BY <1>1, <1>3 DEF Fewer

LEMMA WithdrawnFewer ==
    ASSUME NEW bound \in [Resources -> Int], NEW f, NEW u \in Ids, NEW g \in Fewer(f, u, bound),
           NEW i, i \in 1 .. Len(g.unit[u].commands)
    PROVE  Withdrawn(g, u, i) \in Fewer(f, u, bound)
<1>1. PICK h : h = Withdrawn(g, u, i)
  OBVIOUS
<1>2. EcoInv(g, bound) /\ Shorter(f, u, g)
  BY DEF Fewer
<1>3. EcoInv(h, bound) /\ Shorter(g, u, h)
  BY <1>1, <1>2, WithdrawnKeeps
<1>4. Shorter(f, u, h)
  BY <1>2, <1>3, ShorterTransitive
<1>5. h \in Factions
  BY <1>3 DEF EcoInv
<1> QED BY <1>1, <1>3, <1>4, <1>5 DEF Fewer

LEMMA LastCancelledFewer ==
    ASSUME NEW bound \in [Resources -> Int], NEW f, NEW u \in Ids, NEW g \in Fewer(f, u, bound)
    PROVE  LastCancelled(g, u) \in Fewer(f, u, bound)
<1>1. g.unit[u].commands \in Seq(KnownCommand)
  BY DEF Fewer, Factions, UnitRecord
<1>2. CASE g.unit[u].commands = <<>>
  BY <1>2 DEF LastCancelled
<1>3. CASE g.unit[u].commands # <<>>
  <2>1. PICK i : i = Len(g.unit[u].commands)
    OBVIOUS
  <2>2. i \in 1 .. Len(g.unit[u].commands)
    <3>1. PICK s \in Seq(KnownCommand) : s = g.unit[u].commands
      BY <1>1
    <3> HIDE DEF KnownCommand
    <3>2. Len(s) \in Nat /\ Len(s) # 0
      BY <1>3, <3>1
    <3> QED BY <2>1, <3>1, <3>2
  <2>3. LastCancelled(g, u) = Withdrawn(g, u, i)
    BY <1>3, <2>1 DEF LastCancelled
  <2> QED BY <2>2, <2>3, WithdrawnFewer
<1> QED BY <1>2, <1>3

LEMMA FirstLowerFewer ==
    ASSUME NEW bound \in [Resources -> Int], NEW f, NEW u \in Ids, NEW g \in Fewer(f, u, bound), NEW c
    PROVE  FirstLowerDeleted(g, u, c) \in Fewer(f, u, bound)
<1>1. PICK s : s = g.unit[u].commands
  OBVIOUS
<1>2. s \in Seq(KnownCommand)
  BY <1>1 DEF Fewer, Factions, UnitRecord
<1>3. PICK lower : lower = {i \in DOMAIN s : Priority(s[i]) < Priority(c)}
  OBVIOUS
<1>4. CASE lower = {}
  BY <1>1, <1>3, <1>4 DEF FirstLowerDeleted
<1>5. CASE lower # {}
  <2>1. DOMAIN s = 1 .. Len(s) /\ Len(s) \in Nat
    BY <1>2
  <2>2. lower \subseteq Nat /\ lower \subseteq 1 .. Len(s)
    BY <1>3, <2>1
  <2>3. PICK i : i = Min(lower)
    OBVIOUS
  <2>4. i \in lower
    BY <1>5, <2>2, <2>3, LeastNumber
  <2>5. i \in 1 .. Len(g.unit[u].commands)
    BY <1>1, <2>2, <2>4
  <2>6. FirstLowerDeleted(g, u, c) = Withdrawn(g, u, i)
    BY <1>1, <1>3, <1>5, <2>3 DEF FirstLowerDeleted
  <2> QED BY <2>5, <2>6, WithdrawnFewer
<1> QED BY <1>4, <1>5

\* clearCommands, and deleting the commands of lower priority.
LEMMA ClearedFewer ==
    ASSUME NEW bound \in [Resources -> Int], NEW f, EcoInv(f, bound), NEW u \in Ids
    PROVE  Cleared(f, u) \in Fewer(f, u, bound)
<1> PICK s : s = f.unit[u].commands
  OBVIOUS
<1> PICK G : G = Fewer(f, u, bound)
  OBVIOUS
<1>1. s \in Seq(KnownCommand) /\ f \in G
  BY FewerItself DEF EcoInv, Factions, UnitRecord
<1>2. \A g \in G : LastCancelled(g, u) \in G
  BY LastCancelledFewer
<1> HIDE DEF KnownCommand
<1> PICK n \in Nat : n = Len(s) /\ DOMAIN s = 1 .. n
  BY <1>1
<1> DEFINE F == [x \in G \X (1 .. n) |-> LastCancelled(x[1], u)]
<1>3. F \in [G \X (1 .. n) -> G]
  BY <1>2
<1>4. \A g \in G : \A i \in 1 .. n : F[<<g, i>>] = LastCancelled(g, u)
  OBVIOUS
<1> HIDE DEF F
<1>5. PICK h \in [SUBSET (1 .. n) -> G] : Folds(F, f, n, h)
  BY <1>1, <1>3, FoldExists
<1>6. \A t \in SUBSET (1 .. n) : t # {} => Max(t) \in 1 .. n /\ t \ {Max(t)} \in SUBSET (1 .. n)
  BY GreatestNumber
<1>7. h = [t \in SUBSET (1 .. n) |-> IF t = {} THEN f ELSE LastCancelled(h[t \ {Max(t)}], u)]
  BY <1>4, <1>5, <1>6 DEF Folds
<1>8. PICK iter : iter = CHOOSE e : e = [t \in SUBSET (1 .. n) |->
                                           IF t = {} THEN f ELSE LastCancelled(e[t \ {Max(t)}], u)]
  OBVIOUS
<1>9. Cleared(f, u) = iter[1 .. n]
  BY <1>8 DEF Cleared, FoldLeft, MapThenFoldSet
<1>10. iter = [t \in SUBSET (1 .. n) |-> IF t = {} THEN f ELSE LastCancelled(iter[t \ {Max(t)}], u)]
  BY <1>7, <1>8
<1> DEFINE a == [k \in 0 .. n |-> iter[1 .. k]]
<1>11. a[0] \in G
  BY <1>1, <1>10
<1>12. ASSUME NEW k \in 0 .. n - 1, a[k] \in G
       PROVE  a[k + 1] \in G
  <2>1. Max(1 .. k + 1) = k + 1 /\ (1 .. k + 1) \ {k + 1} = 1 .. k /\ k + 1 \in 1 .. n
    <3>1. k \in Nat /\ k + 1 \in 1 .. n
      OBVIOUS
    <3>2. Max(1 .. k + 1) = k + 1 /\ (1 .. k + 1) \ {k + 1} = 1 .. k
      BY <3>1, LastPlace
    <3> QED BY <3>1, <3>2
  <2>2. a[k + 1] = LastCancelled(iter[1 .. k], u)
    <3>1. PICK t \in SUBSET (1 .. n) : t = 1 .. k + 1
      BY <2>1
    <3>2. t # {} /\ Max(t) = k + 1 /\ t \ {Max(t)} = 1 .. k
      BY <2>1, <3>1
    <3>3. iter[t] = LastCancelled(iter[t \ {Max(t)}], u)
      BY <1>10, <3>2
    <3>4. a[k + 1] = iter[1 .. k + 1]
      BY <2>1
    <3> HIDE DEF a
    <3> QED BY <3>1, <3>2, <3>3, <3>4
  <2> QED BY <1>2, <1>12, <2>1, <2>2
<1> HIDE DEF a
<1>13. \A k \in 0 .. n : a[k] \in G
  BY <1>11, <1>12, StepByStep
<1>14. a[n] \in G /\ a[n] = iter[1 .. n]
  <2>1. n \in 0 .. n
    OBVIOUS
  <2>2. a[n] \in G
    BY <1>13, <2>1
  <2>3. a[n] = iter[1 .. n]
    BY <2>1 DEF a
  <2> QED BY <2>2, <2>3
<1>15. Cleared(f, u) \in G
  BY <1>9, <1>14
<1> QED BY <1>15

LEMMA LowerFewer ==
    ASSUME NEW bound \in [Resources -> Int], NEW f, EcoInv(f, bound), NEW u \in Ids, NEW c
    PROVE  LowerDeleted(f, u, c) \in Fewer(f, u, bound)
<1> PICK s : s = f.unit[u].commands
  OBVIOUS
<1> PICK G : G = Fewer(f, u, bound)
  OBVIOUS
<1>1. s \in Seq(KnownCommand) /\ f \in G
  BY FewerItself DEF EcoInv, Factions, UnitRecord
<1>2. \A g \in G : FirstLowerDeleted(g, u, c) \in G
  BY FirstLowerFewer
<1> HIDE DEF KnownCommand
<1> PICK n \in Nat : n = Len(s) /\ DOMAIN s = 1 .. n
  BY <1>1
<1> DEFINE F == [x \in G \X (1 .. n) |-> FirstLowerDeleted(x[1], u, c)]
<1>3. F \in [G \X (1 .. n) -> G]
  BY <1>2
<1>4. \A g \in G : \A i \in 1 .. n : F[<<g, i>>] = FirstLowerDeleted(g, u, c)
  OBVIOUS
<1> HIDE DEF F
<1>5. PICK h \in [SUBSET (1 .. n) -> G] : Folds(F, f, n, h)
  BY <1>1, <1>3, FoldExists
<1>6. \A t \in SUBSET (1 .. n) : t # {} => Max(t) \in 1 .. n /\ t \ {Max(t)} \in SUBSET (1 .. n)
  BY GreatestNumber
<1>7. h = [t \in SUBSET (1 .. n) |-> IF t = {} THEN f ELSE FirstLowerDeleted(h[t \ {Max(t)}], u, c)]
  BY <1>4, <1>5, <1>6 DEF Folds
<1>8. PICK iter : iter = CHOOSE e : e = [t \in SUBSET (1 .. n) |->
                                           IF t = {} THEN f ELSE FirstLowerDeleted(e[t \ {Max(t)}], u, c)]
  OBVIOUS
<1>9. LowerDeleted(f, u, c) = iter[1 .. n]
  BY <1>8 DEF LowerDeleted, FoldLeft, MapThenFoldSet
<1>10. iter = [t \in SUBSET (1 .. n) |-> IF t = {} THEN f ELSE FirstLowerDeleted(iter[t \ {Max(t)}], u, c)]
  BY <1>7, <1>8
<1> DEFINE a == [k \in 0 .. n |-> iter[1 .. k]]
<1>11. a[0] \in G
  BY <1>1, <1>10
<1>12. ASSUME NEW k \in 0 .. n - 1, a[k] \in G
       PROVE  a[k + 1] \in G
  <2>1. Max(1 .. k + 1) = k + 1 /\ (1 .. k + 1) \ {k + 1} = 1 .. k /\ k + 1 \in 1 .. n
    <3>1. k \in Nat /\ k + 1 \in 1 .. n
      OBVIOUS
    <3>2. Max(1 .. k + 1) = k + 1 /\ (1 .. k + 1) \ {k + 1} = 1 .. k
      BY <3>1, LastPlace
    <3> QED BY <3>1, <3>2
  <2>2. a[k + 1] = FirstLowerDeleted(iter[1 .. k], u, c)
    <3>1. PICK t \in SUBSET (1 .. n) : t = 1 .. k + 1
      BY <2>1
    <3>2. t # {} /\ Max(t) = k + 1 /\ t \ {Max(t)} = 1 .. k
      BY <2>1, <3>1
    <3>3. iter[t] = FirstLowerDeleted(iter[t \ {Max(t)}], u, c)
      BY <1>10, <3>2
    <3>4. a[k + 1] = iter[1 .. k + 1]
      BY <2>1
    <3> HIDE DEF a
    <3> QED BY <3>1, <3>2, <3>3, <3>4
  <2> QED BY <1>2, <1>12, <2>1, <2>2
<1> HIDE DEF a
<1>13. \A k \in 0 .. n : a[k] \in G
  BY <1>11, <1>12, StepByStep
<1>14. a[n] \in G /\ a[n] = iter[1 .. n]
  <2>1. n \in 0 .. n
    OBVIOUS
  <2>2. a[n] \in G
    BY <1>13, <2>1
  <2>3. a[n] = iter[1 .. n]
    BY <2>1 DEF a
  <2> QED BY <2>2, <2>3
<1>15. LowerDeleted(f, u, c) \in G
  BY <1>9, <1>14
<1> QED BY <1>15

-----------------------------------------------------------------------------
(* Counting what there is of a type, or of an upgrade.                     *)

LEMMA CommandsCounted ==
    ASSUME NEW s \in Seq(KnownCommand), NEW p, NEW T, T = {i \in 1 .. Len(s) : s[i].of = p}
    PROVE  IsFiniteSet(T) /\ SeqTotal(s, IsFor(p)) = Cardinality(T)
<1> HIDE DEF KnownCommand
<1> PICK D : D = 1 .. Len(s)
  OBVIOUS
<1> PICK g : g = [i \in D |-> IsFor(p)[s[i]]]
  OBVIOUS
<1>1. IsFiniteSet(D)
  <2>1. Len(s) \in Int /\ 1 \in Int
    OBVIOUS
  <2> QED BY <2>1, FS_Interval
<1>2. \A i \in D : s[i] \in KnownCommand /\ IsFor(p)[s[i]] = IF s[i].of = p THEN 1 ELSE 0
  BY DEF IsFor
<1>3. g \in [D -> {0, 1}]
  BY <1>2
<1>4. T = {i \in D : g[i] = 1}
  BY <1>2
<1>5. IsFiniteSet(T) /\ Total(g) = Cardinality(T)
  BY ONLY <1>1, <1>3, <1>4, TotalOfMarks
<1>6. SeqTotal(s, IsFor(p)) = Total(g)
  BY DEF SeqTotal
<1> QED BY <1>5, <1>6

LEMMA CountByParts ==
    ASSUME NEW f \in Factions, \A u \in Ids : Len(f.unit[u].commands) <= MaxCommands, NEW p
    PROVE  /\ Cardinality(OperativeOf(f, p)) \in Nat /\ Cardinality(CommandsFor(f, p)) \in Nat
           /\ IsFiniteSet(OperativeOf(f, p)) /\ IsFiniteSet(CommandsFor(f, p))
           /\ Counted(p, f) = Cardinality(OperativeOf(f, p)) + Cardinality(CommandsFor(f, p))
<1> PICK A : A = OperativeOf(f, p)
  OBVIOUS
<1> PICK M : M = CommandsFor(f, p)
  OBVIOUS
<1> PICK a : a = [u \in Ids |-> Present(f.unit[u], p)]
  OBVIOUS
<1> PICK b : b = [u \in Ids |-> SeqTotal(f.unit[u].commands, IsFor(p))]
  OBVIOUS
<1> PICK e : e = [u \in Ids |-> CountOf(p)[f.unit[u]]]
  OBVIOUS
<1>1. IsFiniteSet(Ids) /\ MaxCommands \in Nat
  BY EconomyConstants
<1>2. \A u \in Ids : f.unit[u] \in UnitRecord
  BY DEF Factions
<1>3. \A u \in Ids : /\ Present(f.unit[u], p) \in {0, 1}
                     /\ SeqTotal(f.unit[u].commands, IsFor(p)) \in Nat
                     /\ CountOf(p)[f.unit[u]] = Present(f.unit[u], p) + SeqTotal(f.unit[u].commands, IsFor(p))
  BY <1>2, ShareTypes
<1>4. a \in [Ids -> {0, 1}]
  BY <1>3
<1>5. a \in [Ids -> Int]
  BY <1>4
<1>6. b \in [Ids -> Int]
  BY <1>3
<1>7. e \in [Ids -> Int]
  BY <1>3
<1>8. \A u \in Ids : e[u] = a[u] + b[u]
  BY <1>3
<1>9. Total(e) = Total(a) + Total(b)
  <2>1. AddedUp(Ids, a, b, e)
    BY <1>1, <1>5, <1>6, <1>7, <1>8 DEF AddedUp
  <2> QED BY <2>1, TotalOfBoth
<1>10. IsFiniteSet(A) /\ Total(a) = Cardinality(A)
  <2>1. A = {u \in Ids : a[u] = 1}
    BY DEF OperativeOf, Operative, Present
  <2> QED BY <1>1, <1>4, <2>1, TotalOfMarks
<1>11. M \in SUBSET (Ids \X (1 .. MaxCommands))
  BY DEF CommandsFor
<1>12. IsFiniteSet(M)
  <2>1. IsFiniteSet(1 .. MaxCommands)
    BY <1>1, FS_Interval
  <2>2. IsFiniteSet(Ids \X (1 .. MaxCommands))
    BY <1>1, <2>1, FS_Product
  <2> QED BY <1>11, <2>2, FS_Subset
<1>13. \A y \in M : y[1] \in Ids
  BY <1>11
<1>14. ASSUME NEW u \in Ids
       PROVE  b[u] = Cardinality(PairsIn(M, {u}))
  <2>1. PICK s \in Seq(KnownCommand) : s = f.unit[u].commands
    BY <1>2 DEF UnitRecord
  <2> PICK T : T = {i \in 1 .. Len(s) : s[i].of = p}
    OBVIOUS
  <2>2. IsFiniteSet(T) /\ SeqTotal(s, IsFor(p)) = Cardinality(T)
    BY CommandsCounted
  <2> HIDE DEF KnownCommand
  <2>3. DOMAIN s = 1 .. Len(s) /\ Len(s) \in Nat /\ Len(s) <= MaxCommands
    BY <2>1
  <2>4. PairsIn(M, {u}) = {<<u, i>> : i \in T}
    <3>1. ASSUME NEW i \in T PROVE <<u, i>> \in PairsIn(M, {u})
      <4>1. i \in 1 .. MaxCommands /\ i \in DOMAIN f.unit[u].commands /\ f.unit[u].commands[i].of = p
        BY <1>1, <2>1, <2>3
      <4>2. <<u, i>> \in M
        BY <4>1 DEF CommandsFor
      <4> QED BY <4>2 DEF PairsIn
    <3>2. ASSUME NEW y \in PairsIn(M, {u}) PROVE \E i \in T : y = <<u, i>>
      <4>1. y \in M /\ y[1] = u
        BY DEF PairsIn
      <4>2. y \in Ids \X (1 .. MaxCommands) /\ y[2] \in DOMAIN f.unit[y[1]].commands
            /\ f.unit[y[1]].commands[y[2]].of = p
        BY <4>1 DEF CommandsFor
      <4>3. y = <<u, y[2]>>
        BY <4>1, <4>2
      <4>4. y[2] \in T
        BY <2>1, <2>3, <4>1, <4>2
      <4> QED BY <4>3, <4>4
    <3> QED BY <3>1, <3>2
  <2>5. PICK h : h = [i \in T |-> <<u, i>>]
    OBVIOUS
  <2>6. h \in Bijection(T, PairsIn(M, {u}))
    BY <2>4, <2>5 DEF Bijection, Injection, Surjection, IsInjective
  <2>7. Cardinality(PairsIn(M, {u})) = Cardinality(T)
    BY <2>2, <2>6, FS_Bijection DEF ExistsBijection
  <2> QED BY <2>1, <2>2, <2>7
<1>15. \A u \in Ids : b[u] = Cardinality(PairsIn(M, {u}))
  BY <1>14
<1>16. Total(b) = Cardinality(M)
  BY <1>1, <1>6, <1>12, <1>13, <1>15, TotalOfPairs
<1>17. Counted(p, f) = Total(e)
  BY DEF Counted, Weigh
<1>18. Cardinality(A) \in Nat /\ Cardinality(M) \in Nat
  BY <1>10, <1>12, FS_CardinalityType
<1> QED BY <1>9, <1>10, <1>12, <1>16, <1>17, <1>18

-----------------------------------------------------------------------------
(* Giving a command.                                                       *)

LEMMA AppliedFields ==
    ASSUME NEW f \in Factions, NEW u \in Ids, NEW c \in KnownCommand,
           c.class = "upgrade" => ~IsKnown(f.manager, c.of),
           c.class # "stop" => CheckCosts(f, c.of), NEW g, g = Applied(f, u, c)
    PROVE  /\ g \in Factions /\ OthersStay(f, u, g) /\ g.store = f.store
           /\ Gains(f.unit[u], c, g.unit[u]) /\ g.unit[u].skill = f.unit[u].skill
           /\ Len(g.unit[u].commands) = Len(f.unit[u].commands) + 1
           /\ g.amount = (IF c.class = "stop" THEN f.amount ELSE Credited(f, Negated(Charge(c.of))).amount)
           /\ g.manager = (IF c.class = "upgrade" THEN Started(f.manager, c.of) ELSE f.manager)
<1>1. PICK h : h = IF c.class = "stop" THEN f ELSE Credited(f, Negated(Charge(c.of)))
  OBVIOUS
<1>2. /\ h \in Factions /\ h.store = f.store /\ h.unit = f.unit /\ h.manager = f.manager
      /\ h.amount = (IF c.class = "stop" THEN f.amount ELSE Credited(f, Negated(Charge(c.of))).amount)
  <2>1. CASE c.class = "stop"
    BY <1>1, <2>1
  <2>2. CASE c.class # "stop"
    <3>1. c.of \in UnitTypes \cup Upgrades
      BY <2>2, CommandKinds DEF Classes
    <3>2. Negated(Charge(c.of)) \in [Resources -> Int]
      BY <3>1, ChargeValues
    <3>3. h = Credited(f, Negated(Charge(c.of)))
      BY <1>1, <2>2
    <3> QED BY <2>2, <3>2, <3>3, CreditedFields
  <2> QED BY <2>1, <2>2
<1>3. h = IF c.class = "stop" THEN f ELSE CostsApplied(f, c.of)
  BY <1>1 DEF CostsApplied
<1>4. PICK m : m = IF c.class = "upgrade" THEN Started(f.manager, c.of) ELSE f.manager
  OBVIOUS
<1>5. m \in Managers
  <2>1. f.manager \in Managers
    BY DEF Factions
  <2>2. CASE c.class = "upgrade"
    <3>1. c.of \in Upgrades /\ ~IsKnown(f.manager, c.of)
      BY <2>2, CommandKinds
    <3>2. Matching(f.manager)
      BY <2>1 DEF Managers
    <3>3. Matching(m)
      BY <1>4, <2>2, <3>1, <3>2, StartedMatches
    <3> QED BY <3>3 DEF Managers, Matching
  <2>3. CASE c.class # "upgrade"
    BY <1>4, <2>1, <2>3
  <2> QED BY <2>2, <2>3
<1>6. PICK x : x = f.unit[u]
  OBVIOUS
<1>7. x \in UnitRecord /\ x.commands \in Seq(KnownCommand)
  BY <1>6 DEF Factions, UnitRecord
<1>8. PICK s \in Seq(KnownCommand) : s = x.commands
  BY <1>7
<1>9. PICK q : q = Append(s, c)
  OBVIOUS
<1>10. q \in Seq(KnownCommand) /\ Len(q) = Len(s) + 1
  <2> HIDE DEF KnownCommand
  <2> QED BY <1>9, AppendProperties
<1>11. PICK y : y = [x EXCEPT !.commands = q]
  OBVIOUS
<1>12. /\ y \in UnitRecord /\ y.commands = q /\ y.type = x.type /\ y.alive = x.alive
       /\ y.skill = x.skill
  BY <1>7, <1>10, <1>11 DEF UnitRecord
<1>13. PICK k : k = [h EXCEPT !.manager = m]
  OBVIOUS
<1>14. k \in Factions /\ k.store = h.store /\ k.unit = h.unit /\ k.amount = h.amount /\ k.manager = m
  BY <1>2, <1>5, <1>13 DEF Factions
<1>15. g = Put(k, u, y)
  BY <1>2, <1>3, <1>4, <1>6, <1>8, <1>9, <1>11, <1>13 DEF Applied, Put, Factions
<1>16. /\ OthersStay(k, u, g) /\ g \in Factions /\ g.unit[u] = y
       /\ g.amount = k.amount /\ g.store = k.store /\ g.manager = k.manager
  BY <1>12, <1>14, <1>15, UnitPut
<1>17. OthersStay(f, u, g)
  BY <1>2, <1>14, <1>16 DEF OthersStay
<1>18. Gains(x, c, y)
  BY <1>7, <1>8, <1>9, <1>12 DEF Gains, Alike
<1> QED BY <1>2, <1>4, <1>6, <1>8, <1>10, <1>12, <1>14, <1>16, <1>17, <1>18

LEMMA AppliedKeeps ==
    ASSUME NEW bound \in [Resources -> Int], NEW f, EcoInv(f, bound), NEW u \in Ids,
           NEW c \in KnownCommand, CheckCommand(f, u, c), Len(f.unit[u].commands) < MaxCommands,
           NEW g, g = Applied(f, u, c)
    PROVE  EcoInv(g, bound) /\ g.unit[u].skill # "none"
<1>1. f \in Factions
  BY DEF EcoInv
<1>2. /\ c.class = "upgrade" => ~IsKnown(f.manager, c.of)
      /\ c.class # "stop" => CheckCosts(f, c.of)
      /\ c.class # "stop" => ReqsOk(f, c.of)
      /\ Operative(f, u)
  BY DEF CheckCommand, ReqsOk
<1>3. /\ g \in Factions /\ OthersStay(f, u, g) /\ g.store = f.store
      /\ Gains(f.unit[u], c, g.unit[u]) /\ g.unit[u].skill = f.unit[u].skill
      /\ Len(g.unit[u].commands) = Len(f.unit[u].commands) + 1
      /\ g.amount = (IF c.class = "stop" THEN f.amount ELSE Credited(f, Negated(Charge(c.of))).amount)
      /\ g.manager = (IF c.class = "upgrade" THEN Started(f.manager, c.of) ELSE f.manager)
  BY <1>1, <1>2, AppliedFields
<1>4. /\ \A p : CountOf(p)[g.unit[u]] = CountOf(p)[f.unit[u]] + (IF c.of = p THEN 1 ELSE 0)
      /\ \A r \in Resources : /\ HeldByOrder(c, r) \in Nat
                              /\ ShareOf(r)[g.unit[u]] = ShareOf(r)[f.unit[u]] + HeldByOrder(c, r)
      /\ \A r \in Resources : StoreShare(r)[g.unit[u]] = StoreShare(r)[f.unit[u]]
  BY <1>3, GainedCounts
<1>5. ASSUME NEW p
      PROVE  Counted(p, f) \in Int /\ Counted(p, g) = Counted(p, f) + (IF c.of = p THEN 1 ELSE 0)
  <2>1. /\ Counted(p, f) \in Int
        /\ CountOf(p)[f.unit[u]] \in Nat /\ CountOf(p)[g.unit[u]] \in Nat
        /\ Counted(p, g) = Counted(p, f) - CountOf(p)[f.unit[u]] + CountOf(p)[g.unit[u]]
    BY <1>3, UnitChanged
  <2>2. CountOf(p)[g.unit[u]] = CountOf(p)[f.unit[u]] + (IF c.of = p THEN 1 ELSE 0)
    BY <1>4
  <2> QED BY <2>1, <2>2
<1>6. ASSUME NEW r \in Resources
      PROVE  InUse(r, f) \in Int /\ InUse(r, g) = InUse(r, f) + HeldByOrder(c, r)
  <2>1. /\ InUse(r, f) \in Int
        /\ ShareOf(r)[f.unit[u]] \in Int /\ ShareOf(r)[g.unit[u]] \in Int
        /\ InUse(r, g) = InUse(r, f) - ShareOf(r)[f.unit[u]] + ShareOf(r)[g.unit[u]]
    BY <1>3, UnitChanged
  <2>2. HeldByOrder(c, r) \in Nat /\ ShareOf(r)[g.unit[u]] = ShareOf(r)[f.unit[u]] + HeldByOrder(c, r)
    BY <1>4
  <2> QED BY <2>1, <2>2
<1>7. ASSUME NEW r \in Resources
      PROVE  Capacity(r, g) = Capacity(r, f)
  <2>1. /\ Capacity(r, f) \in Int
        /\ StoreShare(r)[f.unit[u]] \in Nat /\ StoreShare(r)[g.unit[u]] \in Nat
        /\ Capacity(r, g) = Capacity(r, f) - StoreShare(r)[f.unit[u]] + StoreShare(r)[g.unit[u]]
    BY <1>3, UnitChanged
  <2>2. StoreShare(r)[g.unit[u]] = StoreShare(r)[f.unit[u]]
    BY <1>4
  <2> QED BY <2>1, <2>2
<1>8. UnitSound(f.unit[u]) /\ f.unit[u].skill # "none" /\ f.unit[u].skill # "beBuilt"
  <2>1. UnitSound(f.unit[u])
    BY DEF EcoInv, UnitsSound
  <2> QED BY <1>2, <2>1 DEF Operative, UnitSound, Gone
<1>9. UnitsSound(g)
  <2>1. UnitSound(g.unit[u])
    <3>1. g.unit[u].type = f.unit[u].type
      BY <1>3 DEF Gains, Alike
    <3>2. Len(f.unit[u].commands) \in Nat
      BY <1>1 DEF Factions, UnitRecord
    <3>3. Len(g.unit[u].commands) <= MaxCommands
      BY <1>3, <3>2, EconomyConstants
    <3> QED BY <1>3, <1>8, <3>1, <3>3 DEF UnitSound
  <2> QED BY <1>3, <2>1 DEF EcoInv, UnitsSound, OthersStay
<1>10. StoreRight(g)
  BY <1>3, <1>7 DEF EcoInv, StoreRight
<1>11. ASSUME c.class # "stop"
       PROVE  /\ c.of \in UnitTypes \cup Upgrades /\ Negated(Charge(c.of)) \in [Resources -> Int]
              /\ g.amount = Credited(f, Negated(Charge(c.of))).amount
              /\ \A r \in Resources : Charge(c.of)[r] \in Int /\ Negated(Charge(c.of))[r] = -Charge(c.of)[r]
  <2>1. c.of \in UnitTypes \cup Upgrades
    BY <1>11, CommandKinds DEF Classes
  <2> QED BY <1>3, <1>11, <2>1, ChargeValues
<1>12. PaidFor(g)
  <2> SUFFICES ASSUME TechPaid PROVE Within(g)
    BY DEF PaidFor
  <2>1. Within(f)
    BY DEF EcoInv, PaidFor
  <2>2. CASE c.class # "stop"
    <3>1. \A r \in Resources \ StaticResources : f.amount[r] + Negated(Charge(c.of))[r] >= 0
      <4> TAKE r \in Resources \ StaticResources
      <4>1. f.amount[r] \in 0 .. f.store[r] /\ f.amount[r] \in Int /\ f.store[r] \in Int
        BY <1>1, <2>1 DEF Within, Factions
      <4>2. Negated(Charge(c.of))[r] = -Charge(c.of)[r] /\ Charge(c.of)[r] \in Int
        BY <1>11, <2>2
      <4>3. Class[r] \in {"tech", "consumable"} /\ Cost[c.of][r] \in Int
        BY <1>11, <2>2, EconomyConstants DEF StaticResources
      <4>4. CASE Class[r] = "consumable"
        <5>1. Charge(c.of)[r] = 0
          BY <1>11, <2>2, <4>4, ChargeValues
        <5> QED BY <4>1, <4>2, <5>1
      <4>5. CASE Class[r] = "tech"
        <5>1. Charge(c.of)[r] = Cost[c.of][r]
          BY <1>11, <2>2, <4>5, ChargeValues
        <5>2. Cost[c.of][r] > 0 => Cost[c.of][r] <= f.amount[r]
          BY <1>2, <2>2 DEF CheckCosts, Costs
        <5> QED BY <4>1, <4>2, <4>3, <5>1, <5>2
      <4> QED BY <4>3, <4>4, <4>5
    <3>2. Within(Credited(f, Negated(Charge(c.of))))
      BY <1>1, <1>11, <2>1, <2>2, <3>1, CreditedWithin
    <3>3. Credited(f, Negated(Charge(c.of))).store = f.store
      BY <1>1, <1>11, <2>2, CreditedFields
    <3> QED BY <1>3, <1>11, <2>2, <3>2, <3>3 DEF Within
  <2>3. CASE c.class = "stop"
    BY <1>3, <2>1, <2>3 DEF Within
  <2> QED BY <2>2, <2>3
<1>13. CountsKept(g)
  <2> SUFFICES ASSUME StartWithinMaximum, NEW t \in Restricted PROVE Counted(t, g) <= MaxUnitCount[t]
    BY DEF CountsKept
  <2>1. Counted(t, f) <= MaxUnitCount[t] /\ MaxUnitCount[t] \in Nat /\ MaxUnitCount[t] > 0 /\ t \in UnitTypes
    BY EconomyConstants DEF EcoInv, CountsKept, Restricted
  <2>2. Counted(t, f) \in Int /\ Counted(t, g) = Counted(t, f) + (IF c.of = t THEN 1 ELSE 0)
    BY <1>5
  <2>3. CASE c.of = t
    <3>1. c.class # "stop"
      BY <2>1, <2>3, CommandKinds, EconomyConstants
    <3>2. MaxUnitCount[t] > Cardinality(OperativeOf(f, t)) + Cardinality(CommandsFor(f, t))
      BY <1>2, <2>1, <2>3, <3>1 DEF ReqsOk
    <3>3. \A v \in Ids : Len(f.unit[v].commands) <= MaxCommands
      BY DEF EcoInv, UnitsSound, UnitSound
    <3>4. Counted(t, f) = Cardinality(OperativeOf(f, t)) + Cardinality(CommandsFor(f, t))
      BY <1>1, <3>3, CountByParts
    <3> QED BY <2>1, <2>2, <2>3, <3>2, <3>4
  <2>4. CASE c.of # t
    BY <2>1, <2>2, <2>4
  <2> QED BY <2>3, <2>4
<1>14. ResearchKnown(g)
  <2> SUFFICES ASSUME NEW v \in Upgrades
               PROVE  Counted(v, g) <= 1 /\ (Counted(v, g) >= 1 => IsKnown(g.manager, v))
    BY DEF ResearchKnown
  <2>1. Counted(v, f) <= 1 /\ (Counted(v, f) >= 1 => IsKnown(f.manager, v))
    BY DEF EcoInv, ResearchKnown
  <2>2. Counted(v, f) \in Int /\ Counted(v, g) = Counted(v, f) + (IF c.of = v THEN 1 ELSE 0)
    BY <1>5
  <2>3. CASE c.of = v
    <3>1. c.class = "upgrade"
      BY <2>3, CommandKinds
    <3>2. ~IsKnown(f.manager, v) /\ g.manager = Started(f.manager, v)
      BY <1>2, <1>3, <2>3, <3>1
    <3>3. IsKnown(g.manager, v)
      BY <3>2, StartedKnows
    <3> QED BY <2>1, <2>2, <2>3, <3>2, <3>3
  <2>4. CASE c.of # v
    <3>1. Counted(v, g) <= 1 /\ (Counted(v, g) >= 1 => Counted(v, f) >= 1)
      BY <2>1, <2>2, <2>4
    <3>2. ASSUME IsKnown(f.manager, v) PROVE IsKnown(g.manager, v)
      <4>1. CASE c.class = "upgrade"
        <5>1. c.of \in Upgrades /\ g.manager = Started(f.manager, c.of)
          BY <1>3, <4>1, CommandKinds
        <5> QED BY <3>2, <5>1, StartedKnows
      <4>2. CASE c.class # "upgrade"
        BY <1>3, <3>2, <4>2
      <4> QED BY <4>1, <4>2
    <3> QED BY <2>1, <3>1, <3>2
  <2> QED BY <2>3, <2>4
<1>15. NothingGained(g, bound)
  <2> SUFFICES ASSUME NEW r \in Kept PROVE g.amount[r] + InUse(r, g) <= bound[r]
    BY DEF NothingGained
  <2>1. r \in Resources /\ r \in StaticResources /\ Class[r] = "static"
    BY DEF Kept, StaticResources
  <2>2. /\ f.amount[r] + InUse(r, f) <= bound[r] /\ InUse(r, f) \in Int /\ bound[r] \in Int
        /\ f.amount[r] \in Int /\ InUse(r, g) = InUse(r, f) + HeldByOrder(c, r) /\ HeldByOrder(c, r) \in Nat
    BY <1>1, <1>4, <1>6, <2>1 DEF EcoInv, NothingGained, Factions
  <2>3. CASE c.class # "stop"
    <3>1. g.amount[r] = f.amount[r] + Negated(Charge(c.of))[r]
      BY <1>1, <1>11, <2>1, <2>3, CreditedFields
    <3>2. Negated(Charge(c.of))[r] = -Charge(c.of)[r] /\ Charge(c.of)[r] \in Int
      BY <1>11, <2>1, <2>3
    <3>3. Charge(c.of)[r] = IF r \in Costs(c.of) THEN Cost[c.of][r] ELSE 0
      BY <1>11, <2>1, <2>3, ChargeValues
    <3>4. HeldByOrder(c, r) <= Charge(c.of)[r]
      <4>1. HeldByOrder(c, r) = IF HasProduced(c) /\ r \in Costs(c.of) THEN Cost[c.of][r] ELSE 0
        BY DEF HeldByOrder
      <4>2. r \in Costs(c.of) => Cost[c.of][r] > 0
        BY DEF Costs
      <4> QED BY <3>2, <3>3, <4>1, <4>2
    <3> QED BY <2>2, <3>1, <3>2, <3>4
  <2>4. CASE c.class = "stop"
    <3>1. HeldByOrder(c, r) = 0
      BY <2>4 DEF HeldByOrder, HasProduced
    <3> QED BY <1>3, <2>2, <2>4, <3>1
  <2> QED BY <2>3, <2>4
<1> QED BY <1>3, <1>8, <1>9, <1>10, <1>12, <1>13, <1>14, <1>15 DEF EcoInv

LEMMA GivenKeeps ==
    ASSUME NEW bound \in [Resources -> Int], NEW f, EcoInv(f, bound), NEW u \in Ids,
           f.unit[u].skill # "none", NEW c \in KnownCommand, NEW tryQueue,
           Len(f.unit[u].commands) < MaxCommands, NEW g, g = Given(f, u, c, tryQueue)
    PROVE  EcoInv(g, bound) /\ g.unit[u].skill # "none"
<1>1. PICK h : h = Prepared(f, u, c, tryQueue)
  OBVIOUS
<1>2. h \in Fewer(f, u, bound)
  <2>1. f \in Fewer(f, u, bound)
    BY FewerItself
  <2>2. Cleared(f, u) \in Fewer(f, u, bound)
    BY ClearedFewer
  <2>3. LowerDeleted(f, u, c) \in Fewer(f, u, bound)
    BY LowerFewer
  <2>4. PICK kept : kept = IF AlwaysQueued(c) /\ tryQueue THEN f ELSE LowerDeleted(f, u, c)
    OBVIOUS
  <2>5. kept \in Fewer(f, u, bound)
    BY <2>1, <2>3, <2>4
  <2>6. LastCancelled(kept, u) \in Fewer(f, u, bound)
    BY <2>5, LastCancelledFewer
  <2>7. h \in {kept, LastCancelled(kept, u), Cleared(f, u)}
    BY <1>1, <2>4 DEF Prepared
  <2> QED BY <2>2, <2>5, <2>6, <2>7
<1>3. EcoInv(h, bound) /\ Shorter(f, u, h)
  BY <1>2 DEF Fewer
<1>4. h.unit[u].skill = f.unit[u].skill /\ Len(h.unit[u].commands) <= Len(f.unit[u].commands)
  BY <1>3 DEF Shorter
<1>5. CASE CheckCommand(h, u, c)
  <2>1. Len(h.unit[u].commands) \in Nat /\ Len(f.unit[u].commands) \in Nat
    BY <1>3 DEF Shorter, OthersStay, Factions, UnitRecord
  <2>2. Len(h.unit[u].commands) < MaxCommands
    BY <1>4, <2>1, EconomyConstants
  <2>3. g = Applied(h, u, c)
    BY <1>1, <1>5 DEF Given
  <2> QED BY <1>3, <1>5, <2>2, <2>3, AppliedKeeps
<1>6. CASE ~CheckCommand(h, u, c)
  <2>1. g = h
    BY <1>1, <1>6 DEF Given
  <2> QED BY <1>3, <1>4, <2>1
<1> QED BY <1>5, <1>6

-----------------------------------------------------------------------------
(* What a step of a unit changes in all.                                   *)

\* What u counted for is taken from what all units count for, and what it counts for now
\* is added.
Delta(f, x, g, y) ==
    /\ \A p : /\ Counted(p, f) \in Int /\ Counted(p, g) \in Int
              /\ CountOf(p)[x] \in Nat /\ CountOf(p)[y] \in Nat
              /\ Counted(p, g) = Counted(p, f) - CountOf(p)[x] + CountOf(p)[y]
    /\ \A r \in Resources : /\ InUse(r, f) \in Int /\ InUse(r, g) \in Int
                            /\ ShareOf(r)[x] \in Int /\ ShareOf(r)[y] \in Int
                            /\ InUse(r, g) = InUse(r, f) - ShareOf(r)[x] + ShareOf(r)[y]
    /\ \A r \in Resources : /\ Capacity(r, f) \in Int /\ Capacity(r, g) \in Int
                            /\ StoreShare(r)[x] \in Nat /\ StoreShare(r)[y] \in Nat
                            /\ Capacity(r, g) = Capacity(r, f) - StoreShare(r)[x] + StoreShare(r)[y]

LEMMA DeltaOfUnit ==
    ASSUME NEW f, NEW u, NEW g, OthersStay(f, u, g)
    PROVE  Delta(f, f.unit[u], g, g.unit[u])
<1>1. \A p : /\ Counted(p, f) \in Int /\ Counted(p, g) \in Int
             /\ CountOf(p)[f.unit[u]] \in Nat /\ CountOf(p)[g.unit[u]] \in Nat
             /\ Counted(p, g) = Counted(p, f) - CountOf(p)[f.unit[u]] + CountOf(p)[g.unit[u]]
  BY UnitChanged
<1>2. \A r \in Resources :
        /\ InUse(r, f) \in Int /\ InUse(r, g) \in Int
        /\ ShareOf(r)[f.unit[u]] \in Int /\ ShareOf(r)[g.unit[u]] \in Int
        /\ InUse(r, g) = InUse(r, f) - ShareOf(r)[f.unit[u]] + ShareOf(r)[g.unit[u]]
  BY UnitChanged
<1>3. \A r \in Resources :
        /\ Capacity(r, f) \in Int /\ Capacity(r, g) \in Int
        /\ StoreShare(r)[f.unit[u]] \in Nat /\ StoreShare(r)[g.unit[u]] \in Nat
        /\ Capacity(r, g) = Capacity(r, f) - StoreShare(r)[f.unit[u]] + StoreShare(r)[g.unit[u]]
  BY UnitChanged
<1> QED BY <1>1, <1>2, <1>3 DEF Delta

LEMMA SumsTyped ==
    ASSUME NEW f \in Factions
    PROVE  /\ \A p : Counted(p, f) \in Int
           /\ \A r \in Resources : InUse(r, f) \in Int /\ Capacity(r, f) \in Nat
<1>1. /\ IsFiniteSet(Ids) /\ \A u \in Ids : f.unit[u] \in UnitRecord
  BY EconomyConstants DEF Factions
<1>2. ASSUME NEW p
      PROVE  Counted(p, f) \in Int
  <2>1. PICK a : a = [u \in Ids |-> CountOf(p)[f.unit[u]]]
    OBVIOUS
  <2>2. a \in [Ids -> Nat]
    BY <1>1, <2>1, ShareTypes
  <2>3. Total(a) \in Nat
    BY <1>1, <2>2, TotalNatural
  <2> QED BY <2>1, <2>3 DEF Counted, Weigh
<1>3. ASSUME NEW r \in Resources
      PROVE  Capacity(r, f) \in Nat
  <2>1. PICK a : a = [u \in Ids |-> StoreShare(r)[f.unit[u]]]
    OBVIOUS
  <2>2. a \in [Ids -> Nat]
    BY <1>1, <2>1, ShareTypes
  <2>3. Total(a) \in Nat
    BY <1>1, <2>2, TotalNatural
  <2> QED BY <2>1, <2>3 DEF Capacity, Weigh
<1>4. ASSUME NEW r \in Resources
      PROVE  InUse(r, f) \in Int
  <2>1. PICK a : a = [u \in Ids |-> ShareOf(r)[f.unit[u]]]
    OBVIOUS
  <2>2. a \in [Ids -> Int]
    BY <1>1, <2>1, ShareTypes
  <2>3. PICK h : Additive(Ids, a, h) /\ Total(a) = h[Ids]
    BY <1>1, <2>2, TotalAdds
  <2>4. Total(a) \in Int
    BY <2>3 DEF Additive
  <2> QED BY <2>1, <2>4 DEF InUse, Weigh
<1> QED BY <1>2, <1>3, <1>4

\* Nothing that the invariant bounds is more in g than in f.
NoGrowth(f, g) ==
    /\ f \in Factions /\ g \in Factions
    /\ \A r \in Resources : g.store[r] - f.store[r] = Capacity(r, g) - Capacity(r, f)
    /\ \A p \in Restricted \cup Upgrades : Counted(p, g) <= Counted(p, f)
    /\ \A v \in Upgrades : IsKnown(f.manager, v) => IsKnown(g.manager, v)
    /\ \A r \in Kept : g.amount[r] + InUse(r, g) <= f.amount[r] + InUse(r, f)

LEMMA NoGrowthKeeps ==
    ASSUME NEW bound \in [Resources -> Int], NEW f, EcoInv(f, bound), NEW g, NoGrowth(f, g),
           UnitsSound(g), PaidFor(g)
    PROVE  EcoInv(g, bound)
<1>1. f \in Factions /\ g \in Factions
  BY DEF NoGrowth
<1>2. /\ \A p : Counted(p, f) \in Int /\ Counted(p, g) \in Int
      /\ \A r \in Resources : /\ InUse(r, f) \in Int /\ Capacity(r, f) \in Int
                              /\ InUse(r, g) \in Int /\ Capacity(r, g) \in Int
  BY <1>1, SumsTyped
<1>3. StoreRight(g)
  <2> SUFFICES ASSUME NEW r \in Resources PROVE g.store[r] = Capacity(r, g)
    BY DEF StoreRight
  <2>1. g.store[r] - f.store[r] = Capacity(r, g) - Capacity(r, f) /\ f.store[r] = Capacity(r, f)
    BY DEF NoGrowth, EcoInv, StoreRight
  <2>2. g.store[r] \in Int /\ f.store[r] \in Int
    BY <1>1 DEF Factions
  <2>3. Capacity(r, g) \in Int /\ Capacity(r, f) \in Int
    BY <1>2
  <2> QED BY <2>1, <2>2, <2>3
<1>4. CountsKept(g)
  <2> SUFFICES ASSUME StartWithinMaximum, NEW t \in Restricted PROVE Counted(t, g) <= MaxUnitCount[t]
    BY DEF CountsKept
  <2>1. Counted(t, f) <= MaxUnitCount[t] /\ MaxUnitCount[t] \in Nat
    BY EconomyConstants DEF EcoInv, CountsKept, Restricted
  <2>2. Counted(t, g) <= Counted(t, f)
    BY DEF NoGrowth
  <2>3. Counted(t, f) \in Int /\ Counted(t, g) \in Int
    BY <1>2
  <2> QED BY <2>1, <2>2, <2>3
<1>5. ResearchKnown(g)
  <2> SUFFICES ASSUME NEW v \in Upgrades
               PROVE  Counted(v, g) <= 1 /\ (Counted(v, g) >= 1 => IsKnown(g.manager, v))
    BY DEF ResearchKnown
  <2>1. Counted(v, f) <= 1 /\ (Counted(v, f) >= 1 => IsKnown(f.manager, v))
    BY DEF EcoInv, ResearchKnown
  <2>2. Counted(v, g) <= Counted(v, f) /\ (IsKnown(f.manager, v) => IsKnown(g.manager, v))
    BY DEF NoGrowth
  <2>3. Counted(v, f) \in Int /\ Counted(v, g) \in Int
    BY <1>2
  <2> QED BY <2>1, <2>2, <2>3
<1>6. NothingGained(g, bound)
  <2> SUFFICES ASSUME NEW r \in Kept PROVE g.amount[r] + InUse(r, g) <= bound[r]
    BY DEF NothingGained
  <2>1. r \in Resources
    BY DEF Kept, StaticResources
  <2>2. g.amount[r] + InUse(r, g) <= f.amount[r] + InUse(r, f) /\ f.amount[r] + InUse(r, f) <= bound[r]
    BY DEF NoGrowth, EcoInv, NothingGained
  <2>3. g.amount[r] \in Int /\ f.amount[r] \in Int /\ bound[r] \in Int
    BY <1>1, <2>1 DEF Factions
  <2>4. InUse(r, f) \in Int /\ InUse(r, g) \in Int
    BY <1>2, <2>1
  <2> QED BY <2>2, <2>3, <2>4
<1> QED BY <1>1, <1>3, <1>4, <1>5, <1>6 DEF EcoInv

\* One unit keeps its commands, or loses one; the resources and the manager stay.
Leaves(f, g) == g.amount = f.amount /\ g.store = f.store /\ g.manager = f.manager

LEMMA KeptGrowth ==
    ASSUME NEW f, NEW u, NEW g, OthersStay(f, u, g), Keeps(f.unit[u], g.unit[u]), Leaves(f, g)
    PROVE  NoGrowth(f, g)
<1>1. f \in Factions /\ g \in Factions
  BY DEF OthersStay
<1>2. /\ \A p : CountOf(p)[g.unit[u]] = CountOf(p)[f.unit[u]]
      /\ \A r \in Resources : ShareOf(r)[g.unit[u]] = ShareOf(r)[f.unit[u]]
      /\ \A r \in Resources : StoreShare(r)[g.unit[u]] = StoreShare(r)[f.unit[u]]
  BY KeptCounts
<1>3. Delta(f, f.unit[u], g, g.unit[u])
  BY DeltaOfUnit
<1>4. ASSUME NEW p PROVE Counted(p, g) = Counted(p, f) /\ Counted(p, f) \in Int
  <2>1. /\ Counted(p, f) \in Int
        /\ CountOf(p)[f.unit[u]] \in Nat /\ CountOf(p)[g.unit[u]] \in Nat
        /\ Counted(p, g) = Counted(p, f) - CountOf(p)[f.unit[u]] + CountOf(p)[g.unit[u]]
    BY <1>3 DEF Delta
  <2>2. CountOf(p)[g.unit[u]] = CountOf(p)[f.unit[u]]
    BY <1>2
  <2> QED BY <2>1, <2>2
<1>5. ASSUME NEW r \in Resources PROVE InUse(r, g) = InUse(r, f) /\ InUse(r, f) \in Int
  <2>1. /\ InUse(r, f) \in Int
        /\ ShareOf(r)[f.unit[u]] \in Int /\ ShareOf(r)[g.unit[u]] \in Int
        /\ InUse(r, g) = InUse(r, f) - ShareOf(r)[f.unit[u]] + ShareOf(r)[g.unit[u]]
    BY <1>3 DEF Delta
  <2>2. ShareOf(r)[g.unit[u]] = ShareOf(r)[f.unit[u]]
    BY <1>2
  <2> QED BY <2>1, <2>2
<1>6. ASSUME NEW r \in Resources PROVE Capacity(r, g) = Capacity(r, f) /\ Capacity(r, f) \in Int
  <2>1. /\ Capacity(r, f) \in Int
        /\ StoreShare(r)[f.unit[u]] \in Nat /\ StoreShare(r)[g.unit[u]] \in Nat
        /\ Capacity(r, g) = Capacity(r, f) - StoreShare(r)[f.unit[u]] + StoreShare(r)[g.unit[u]]
    BY <1>3 DEF Delta
  <2>2. StoreShare(r)[g.unit[u]] = StoreShare(r)[f.unit[u]]
    BY <1>2
  <2> QED BY <2>1, <2>2
<1>7. \A r \in Resources : g.store[r] - f.store[r] = Capacity(r, g) - Capacity(r, f)
  <2> TAKE r \in Resources
  <2>1. g.store[r] = f.store[r] /\ f.store[r] \in Int
    BY <1>1 DEF Leaves, Factions
  <2>2. Capacity(r, g) = Capacity(r, f) /\ Capacity(r, f) \in Int
    BY <1>6
  <2> QED BY <2>1, <2>2
<1>8. \A p \in Restricted \cup Upgrades : Counted(p, g) <= Counted(p, f)
  <2> TAKE p \in Restricted \cup Upgrades
  <2>1. Counted(p, g) = Counted(p, f) /\ Counted(p, f) \in Int
    BY <1>4
  <2> QED BY <2>1
<1>9. \A r \in Kept : g.amount[r] + InUse(r, g) <= f.amount[r] + InUse(r, f)
  <2> TAKE r \in Kept
  <2>1. r \in Resources /\ f.amount[r] \in Int /\ g.amount[r] = f.amount[r]
    BY <1>1 DEF Kept, StaticResources, Leaves, Factions
  <2>2. InUse(r, g) = InUse(r, f) /\ InUse(r, f) \in Int
    BY <1>5, <2>1
  <2> QED BY <2>1, <2>2
<1>10. g.manager = f.manager
  BY DEF Leaves
<1> QED BY <1>1, <1>7, <1>8, <1>9, <1>10 DEF NoGrowth

\* What is lost with a command.
LostDelta(f, c, g) ==
    /\ \A p : /\ Counted(p, f) \in Int /\ Counted(p, g) \in Int
              /\ Counted(p, g) = Counted(p, f) - (IF c.of = p THEN 1 ELSE 0)
    /\ \A r \in Resources : /\ InUse(r, f) \in Int /\ InUse(r, g) \in Int
                            /\ HeldByOrder(c, r) \in Nat
                            /\ InUse(r, g) = InUse(r, f) - HeldByOrder(c, r)
    /\ \A r \in Resources : Capacity(r, f) \in Int /\ Capacity(r, g) = Capacity(r, f)

LEMMA LostInAll ==
    ASSUME NEW f, NEW u, NEW g, OthersStay(f, u, g), NEW i, Loses(f.unit[u], i, g.unit[u]),
           NEW c, c = f.unit[u].commands[i]
    PROVE  c \in KnownCommand /\ LostDelta(f, c, g)
<1>1. /\ c \in KnownCommand
      /\ \A p : CountOf(p)[g.unit[u]] = CountOf(p)[f.unit[u]] - (IF c.of = p THEN 1 ELSE 0)
      /\ \A r \in Resources : /\ HeldByOrder(c, r) \in Nat
                              /\ ShareOf(r)[g.unit[u]] = ShareOf(r)[f.unit[u]] - HeldByOrder(c, r)
      /\ \A r \in Resources : StoreShare(r)[g.unit[u]] = StoreShare(r)[f.unit[u]]
  BY LostCounts
<1>2. Delta(f, f.unit[u], g, g.unit[u])
  BY DeltaOfUnit
<1>3. ASSUME NEW p
      PROVE  /\ Counted(p, f) \in Int /\ Counted(p, g) \in Int
             /\ Counted(p, g) = Counted(p, f) - (IF c.of = p THEN 1 ELSE 0)
  <2>1. /\ Counted(p, f) \in Int /\ Counted(p, g) \in Int
        /\ CountOf(p)[f.unit[u]] \in Nat /\ CountOf(p)[g.unit[u]] \in Nat
        /\ Counted(p, g) = Counted(p, f) - CountOf(p)[f.unit[u]] + CountOf(p)[g.unit[u]]
    BY <1>2 DEF Delta
  <2>2. CountOf(p)[g.unit[u]] = CountOf(p)[f.unit[u]] - (IF c.of = p THEN 1 ELSE 0)
    BY <1>1
  <2> QED BY <2>1, <2>2
<1>4. ASSUME NEW r \in Resources
      PROVE  /\ InUse(r, f) \in Int /\ InUse(r, g) \in Int /\ HeldByOrder(c, r) \in Nat
             /\ InUse(r, g) = InUse(r, f) - HeldByOrder(c, r)
  <2>1. /\ InUse(r, f) \in Int /\ InUse(r, g) \in Int
        /\ ShareOf(r)[f.unit[u]] \in Int /\ ShareOf(r)[g.unit[u]] \in Int
        /\ InUse(r, g) = InUse(r, f) - ShareOf(r)[f.unit[u]] + ShareOf(r)[g.unit[u]]
    BY <1>2 DEF Delta
  <2>2. HeldByOrder(c, r) \in Nat /\ ShareOf(r)[g.unit[u]] = ShareOf(r)[f.unit[u]] - HeldByOrder(c, r)
    BY <1>1
  <2> QED BY <2>1, <2>2
<1>5. ASSUME NEW r \in Resources PROVE Capacity(r, f) \in Int /\ Capacity(r, g) = Capacity(r, f)
  <2>1. /\ Capacity(r, f) \in Int
        /\ StoreShare(r)[f.unit[u]] \in Nat /\ StoreShare(r)[g.unit[u]] \in Nat
        /\ Capacity(r, g) = Capacity(r, f) - StoreShare(r)[f.unit[u]] + StoreShare(r)[g.unit[u]]
    BY <1>2 DEF Delta
  <2>2. StoreShare(r)[g.unit[u]] = StoreShare(r)[f.unit[u]]
    BY <1>1
  <2> QED BY <2>1, <2>2
<1> QED BY <1>1, <1>3, <1>4, <1>5 DEF LostDelta

-----------------------------------------------------------------------------
(* Skills, and commands that are done.                                     *)

LEMMA SkillFields ==
    ASSUME NEW f \in Factions, NEW u \in Ids, NEW skill \in Skills, NEW g, g = WithSkill(f, u, skill)
    PROVE  /\ g \in Factions /\ OthersStay(f, u, g) /\ Leaves(f, g)
           /\ g.unit[u].skill = skill /\ g.unit[u].type = f.unit[u].type
           /\ g.unit[u].alive = f.unit[u].alive /\ g.unit[u].commands = f.unit[u].commands
           /\ g.unit[u].target = (IF skill = "build" THEN f.unit[u].target ELSE NoUnit)
<1>1. PICK x : x = f.unit[u]
  OBVIOUS
<1>2. x \in UnitRecord
  BY <1>1 DEF Factions
<1>3. PICK y : y = [x EXCEPT !.skill = skill, !.target = IF skill = "build" THEN x.target ELSE NoUnit]
  OBVIOUS
<1>4. /\ y \in UnitRecord /\ y.skill = skill /\ y.type = x.type /\ y.alive = x.alive
      /\ y.commands = x.commands /\ y.target = (IF skill = "build" THEN x.target ELSE NoUnit)
  BY <1>2, <1>3 DEF UnitRecord
<1>5. g = Put(f, u, y)
  BY <1>1, <1>3 DEF WithSkill, Put, Factions, UnitRecord
<1>6. /\ OthersStay(f, u, g) /\ g \in Factions /\ g.unit[u] = y
      /\ g.amount = f.amount /\ g.store = f.store /\ g.manager = f.manager
  BY <1>4, <1>5, UnitPut
<1> QED BY <1>1, <1>4, <1>6 DEF Leaves

LEMMA SkillKeeps ==
    ASSUME NEW bound \in [Resources -> Int], NEW f, EcoInv(f, bound), NEW u \in Ids,
           f.unit[u].skill \notin {"none", "beBuilt"}, NEW skill \in Skills \ {"none", "beBuilt"},
           NEW g, g = WithSkill(f, u, skill)
    PROVE  EcoInv(g, bound) /\ g.unit[u].skill # "none"
<1>1. f \in Factions
  BY DEF EcoInv
<1>2. /\ g \in Factions /\ OthersStay(f, u, g) /\ Leaves(f, g)
      /\ g.unit[u].skill = skill /\ g.unit[u].type = f.unit[u].type
      /\ g.unit[u].alive = f.unit[u].alive /\ g.unit[u].commands = f.unit[u].commands
  BY <1>1, SkillFields
<1>3. Keeps(f.unit[u], g.unit[u])
  <2>1. f.unit[u] \in UnitRecord /\ g.unit[u] \in UnitRecord
    BY <1>1, <1>2 DEF Factions
  <2> QED BY <1>2, <2>1 DEF Keeps, Alike
<1>4. NoGrowth(f, g)
  BY <1>2, <1>3, KeptGrowth
<1>5. UnitsSound(g)
  <2>1. UnitSound(f.unit[u])
    BY DEF EcoInv, UnitsSound
  <2>2. UnitSound(g.unit[u])
    BY <1>2, <2>1 DEF UnitSound
  <2> QED BY <1>2, <2>2 DEF EcoInv, UnitsSound, OthersStay
<1>6. PaidFor(g)
  BY <1>2 DEF EcoInv, PaidFor, Within, Leaves
<1> QED BY <1>2, <1>4, <1>5, <1>6, NoGrowthKeeps

\* The first command is done and the unit stops.
LEMMA FinishedFields ==
    ASSUME NEW f \in Factions, NEW u \in Ids, f.unit[u].skill \notin {"none", "beBuilt"},
           f.unit[u].commands # <<>>, NEW g, g = FinishedAndStopped(f, u)
    PROVE  /\ g \in Factions /\ OthersStay(f, u, g) /\ Leaves(f, g)
           /\ g.unit[u].skill = "stop" /\ g.unit[u].type = f.unit[u].type
           /\ g.unit[u].alive = f.unit[u].alive
           /\ g.unit[u].commands = Tail(f.unit[u].commands)
           /\ Loses(f.unit[u], 1, g.unit[u])
           /\ Len(g.unit[u].commands) <= Len(f.unit[u].commands)
<1>1. PICK x : x = f.unit[u]
  OBVIOUS
<1>2. x \in UnitRecord /\ x.commands \in Seq(KnownCommand)
  BY <1>1 DEF Factions, UnitRecord
<1>3. PICK s \in Seq(KnownCommand) : s = x.commands
  BY <1>2
<1>4. PICK q : q = Tail(s)
  OBVIOUS
<1>5. Without(s, 1, q) /\ Len(s) \in Nat \ {0} /\ 1 \in 1 .. Len(s)
  BY <1>1, <1>3, <1>4, TailRemoved
<1>6. q \in Seq(KnownCommand) /\ Len(q) <= Len(s)
  BY <1>5 DEF Without
<1>7. PICK y : y = [x EXCEPT !.commands = q]
  OBVIOUS
<1>8. /\ y \in UnitRecord /\ y.commands = q /\ y.type = x.type /\ y.alive = x.alive
      /\ y.skill = x.skill
  BY <1>2, <1>6, <1>7 DEF UnitRecord
<1>9. PICK h : h = CommandFinished(f, u)
  OBVIOUS
<1>10. h = Put(f, u, y)
  BY <1>1, <1>3, <1>4, <1>7, <1>9 DEF CommandFinished, Put, Factions, UnitRecord
<1>11. /\ OthersStay(f, u, h) /\ h \in Factions /\ h.unit[u] = y
       /\ h.amount = f.amount /\ h.store = f.store /\ h.manager = f.manager
  BY <1>8, <1>10, UnitPut
<1>12. g = WithSkill(h, u, "stop") /\ "stop" \in Skills
  BY <1>9 DEF FinishedAndStopped, Skills
<1>13. /\ g \in Factions /\ OthersStay(h, u, g) /\ Leaves(h, g)
       /\ g.unit[u].skill = "stop" /\ g.unit[u].type = h.unit[u].type
       /\ g.unit[u].alive = h.unit[u].alive /\ g.unit[u].commands = h.unit[u].commands
  BY <1>11, <1>12, SkillFields
<1>14. OthersStay(f, u, g)
  BY <1>11, <1>13 DEF OthersStay
<1>15. Leaves(f, g)
  BY <1>11, <1>13 DEF Leaves
<1>16. g.unit[u].commands = q /\ g.unit[u].type = x.type /\ g.unit[u].alive = x.alive
  BY <1>8, <1>11, <1>13
<1>17. Loses(x, 1, g.unit[u])
  <2>1. g.unit[u] \in UnitRecord
    BY <1>13 DEF Factions
  <2>2. x.skill # "beBuilt" /\ g.unit[u].skill # "beBuilt"
    BY <1>1, <1>13
  <2>3. Alike(x, g.unit[u])
    BY <1>2, <1>16, <2>1, <2>2 DEF Alike
  <2> QED BY <1>3, <1>5, <1>16, <2>3 DEF Loses
<1> QED BY <1>1, <1>3, <1>4, <1>6, <1>13, <1>14, <1>15, <1>16, <1>17

\* A unit whose first command is done may stop with any manager that knows as much.
LEMMA LostGrowth ==
    ASSUME NEW f, NEW u, NEW g, OthersStay(f, u, g), Loses(f.unit[u], 1, g.unit[u]),
           g.amount = f.amount, g.store = f.store,
           \A v \in Upgrades : IsKnown(f.manager, v) => IsKnown(g.manager, v)
    PROVE  NoGrowth(f, g)
<1>1. f \in Factions /\ g \in Factions
  BY DEF OthersStay
<1>2. PICK c : c = f.unit[u].commands[1]
  OBVIOUS
<1>3. LostDelta(f, c, g)
  BY <1>2, LostInAll
<1>4. \A r \in Resources : g.store[r] - f.store[r] = Capacity(r, g) - Capacity(r, f)
  <2> TAKE r \in Resources
  <2>1. g.store[r] = f.store[r] /\ f.store[r] \in Int
    BY <1>1 DEF Factions
  <2>2. Capacity(r, g) = Capacity(r, f) /\ Capacity(r, f) \in Int
    BY <1>3 DEF LostDelta
  <2> QED BY <2>1, <2>2
<1>5. \A p \in Restricted \cup Upgrades : Counted(p, g) <= Counted(p, f)
  <2> TAKE p \in Restricted \cup Upgrades
  <2>1. Counted(p, f) \in Int /\ Counted(p, g) = Counted(p, f) - (IF c.of = p THEN 1 ELSE 0)
    BY <1>3 DEF LostDelta
  <2> QED BY <2>1
<1>6. \A r \in Kept : g.amount[r] + InUse(r, g) <= f.amount[r] + InUse(r, f)
  <2> TAKE r \in Kept
  <2>1. r \in Resources /\ f.amount[r] \in Int /\ g.amount[r] = f.amount[r]
    BY <1>1 DEF Kept, StaticResources, Factions
  <2>2. /\ InUse(r, f) \in Int /\ HeldByOrder(c, r) \in Nat
        /\ InUse(r, g) = InUse(r, f) - HeldByOrder(c, r)
    BY <1>3, <2>1 DEF LostDelta
  <2> QED BY <2>1, <2>2
<1> QED BY <1>1, <1>4, <1>5, <1>6 DEF NoGrowth

LEMMA FinishedSound ==
    ASSUME NEW f, UnitsSound(f), NEW u, NEW g, OthersStay(f, u, g), g.unit[u].skill = "stop",
           f.unit[u].skill # "none", g.unit[u].type = f.unit[u].type,
           Len(g.unit[u].commands) <= Len(f.unit[u].commands)
    PROVE  UnitsSound(g)
<1>1. u \in Ids /\ UnitSound(f.unit[u])
  BY DEF UnitsSound, OthersStay
<1>2. Len(g.unit[u].commands) \in Nat /\ Len(f.unit[u].commands) \in Nat
  BY DEF OthersStay, Factions, UnitRecord
<1>3. Len(g.unit[u].commands) <= MaxCommands
  <2>1. Len(f.unit[u].commands) <= MaxCommands
    BY <1>1 DEF UnitSound
  <2> QED BY <1>2, <2>1, EconomyConstants
<1>4. UnitSound(g.unit[u])
  BY <1>1, <1>3 DEF UnitSound
<1> QED BY <1>4 DEF UnitsSound, OthersStay

LEMMA FinishedKeeps ==
    ASSUME NEW bound \in [Resources -> Int], NEW f, EcoInv(f, bound), NEW u \in Ids,
           f.unit[u].skill \notin {"none", "beBuilt"}, f.unit[u].commands # <<>>,
           NEW g, g = FinishedAndStopped(f, u)
    PROVE  EcoInv(g, bound) /\ g.unit[u].skill = "stop"
<1>1. f \in Factions
  BY DEF EcoInv
<1>2. /\ g \in Factions /\ OthersStay(f, u, g) /\ Leaves(f, g)
      /\ g.unit[u].skill = "stop" /\ g.unit[u].type = f.unit[u].type
      /\ Loses(f.unit[u], 1, g.unit[u])
      /\ Len(g.unit[u].commands) <= Len(f.unit[u].commands)
  BY <1>1, FinishedFields
<1>3. NoGrowth(f, g)
  BY <1>2, LostGrowth DEF Leaves
<1>4. UnitsSound(g)
  BY <1>2, FinishedSound DEF EcoInv
<1>5. PaidFor(g)
  BY <1>2 DEF EcoInv, PaidFor, Within, Leaves
<1> QED BY <1>2, <1>3, <1>4, <1>5, NoGrowthKeeps

-----------------------------------------------------------------------------
(* The updates of a unit's command.                                        *)

\* An upgrade.
LEMMA UpgradeKeeps ==
    ASSUME NEW bound \in [Resources -> Int], NEW f, EcoInv(f, bound), NEW u \in Ids,
           f.unit[u].skill \notin {"none", "beBuilt"}, f.unit[u].commands # <<>>,
           NEW c \in KnownCommand, c.class = "upgrade", NEW g \in UpgradeUpdates(f, u, c)
    PROVE  EcoInv(g, bound) /\ g.unit[u].skill # "none"
<1>1. f \in Factions
  BY DEF EcoInv
<1>2. CASE g = WithSkill(f, u, "upgrade")
  <2>1. "upgrade" \in Skills \ {"none", "beBuilt"}
    BY DEF Skills
  <2> QED BY <1>2, <2>1, SkillKeeps
<1>3. CASE g = [FinishedAndStopped(f, u) EXCEPT !.manager = Finished(@, c.of)]
  <2>1. PICK h : h = FinishedAndStopped(f, u)
    OBVIOUS
  <2>2. /\ h \in Factions /\ OthersStay(f, u, h) /\ Leaves(f, h)
        /\ h.unit[u].skill = "stop" /\ h.unit[u].type = f.unit[u].type
        /\ Loses(f.unit[u], 1, h.unit[u])
        /\ Len(h.unit[u].commands) <= Len(f.unit[u].commands)
    BY <1>1, <2>1, FinishedFields
  <2>3. PICK m : m = Finished(h.manager, c.of)
    OBVIOUS
  <2>4. g = [h EXCEPT !.manager = m]
    BY <1>3, <2>1, <2>3
  <2>5. c.of \in Upgrades
    BY CommandKinds
  <2>6. Matching(h.manager)
    BY <2>2 DEF Factions, Managers
  <2>7. Matching(m) /\ \A v \in Upgrades : IsKnown(h.manager, v) => IsKnown(m, v)
    BY <2>3, <2>5, <2>6, FinishedKnows
  <2>8. m \in Managers
    BY <2>7 DEF Managers, Matching
  <2>9. g \in Factions /\ g.unit = h.unit /\ g.amount = h.amount /\ g.store = h.store /\ g.manager = m
    BY <2>2, <2>4, <2>8 DEF Factions
  <2>10. OthersStay(f, u, g)
    BY <2>2, <2>9 DEF OthersStay
  <2>11. g.amount = f.amount /\ g.store = f.store /\ h.manager = f.manager
    BY <2>2, <2>9 DEF Leaves
  <2>12. NoGrowth(f, g)
    <3>1. \A v \in Upgrades : IsKnown(f.manager, v) => IsKnown(g.manager, v)
      BY <2>7, <2>9, <2>11
    <3>2. Loses(f.unit[u], 1, g.unit[u])
      BY <2>2, <2>9
    <3> QED BY <2>10, <2>11, <3>1, <3>2, LostGrowth
  <2>13. UnitsSound(g)
    <3>1. /\ g.unit[u].skill = "stop" /\ g.unit[u].type = f.unit[u].type
          /\ Len(g.unit[u].commands) <= Len(f.unit[u].commands)
      BY <2>2, <2>9
    <3> QED BY <2>10, <3>1, FinishedSound DEF EcoInv
  <2>14. PaidFor(g)
    BY <2>11 DEF EcoInv, PaidFor, Within
  <2>15. g.unit[u].skill # "none"
    BY <2>2, <2>9
  <2> QED BY <2>12, <2>13, <2>14, <2>15, NoGrowthKeeps
<1>4. CASE g = f
  BY <1>4
<1> QED BY <1>2, <1>3, <1>4 DEF UpgradeUpdates

-----------------------------------------------------------------------------
(* Units come.                                                             *)

\* A change of some resources.
OnlyOf(cost, R, only, negated) ==
    cost \in [Resources -> Int] /\ only = Only(cost, R) /\ negated = Negated(only)

LEMMA OnlyValues ==
    ASSUME NEW cost, NEW R, NEW only, NEW negated, OnlyOf(cost, R, only, negated)
    PROVE  /\ only \in [Resources -> Int] /\ negated \in [Resources -> Int]
           /\ \A r \in Resources : /\ only[r] = IF r \in R THEN cost[r] ELSE 0
                                   /\ negated[r] = -only[r]
<1>1. cost \in [Resources -> Int] /\ negated = [r \in Resources |-> -only[r]]
      /\ only = [r \in Resources |-> IF r \in R THEN cost[r] ELSE 0]
  BY DEF OnlyOf, Only, Negated
<1>2. only \in [Resources -> Int]
  BY <1>1
<1> QED BY <1>1, <1>2

LEMMA StoreAddedFields ==
    ASSUME NEW f \in Factions, NEW t \in UnitTypes, NEW g, g = StoreAdded(f, t)
    PROVE  /\ g \in Factions /\ g.amount = f.amount /\ g.unit = f.unit /\ g.manager = f.manager
           /\ \A r \in Resources : Stores[t][r] \in Nat /\ g.store[r] = f.store[r] + Stores[t][r]
<1>1. PICK s : s = [r \in Resources |-> f.store[r] + Stores[t][r]]
  OBVIOUS
<1>2. \A r \in Resources : Stores[t][r] \in Nat
  BY EconomyConstants
<1>3. s \in [Resources -> Int]
  BY <1>1, <1>2 DEF Factions
<1>4. g = [f EXCEPT !.store = s]
  BY <1>1 DEF StoreAdded
<1>5. g \in Factions /\ g.amount = f.amount /\ g.unit = f.unit /\ g.manager = f.manager /\ g.store = s
  BY <1>3, <1>4 DEF Factions
<1> QED BY <1>1, <1>2, <1>5

\* born: what it stores and what it adds comes with it.
LEMMA BornFields ==
    ASSUME NEW f \in Factions, NEW b \in Ids, NEW t \in UnitTypes, f.unit[b].type = t,
           NEW g, g = Born(f, b)
    PROVE  /\ g \in Factions /\ OthersStay(f, b, g) /\ g.manager = f.manager
           /\ \A r \in Resources : Stores[t][r] \in Nat /\ g.store[r] = f.store[r] + Stores[t][r]
           /\ \A r \in Resources \ StaticResources : g.amount[r] = f.amount[r]
           /\ \A r \in StaticResources :
                g.amount[r] = f.amount[r] - (IF r \in Costs(t) THEN 0 ELSE Cost[t][r])
           /\ g.unit[b].skill = "stop" /\ g.unit[b].type = t /\ g.unit[b].target = NoUnit
           /\ g.unit[b].alive = f.unit[b].alive /\ g.unit[b].commands = f.unit[b].commands
<1>1. PICK h : h = StoreAdded(f, t)
  OBVIOUS
<1>2. /\ h \in Factions /\ h.amount = f.amount /\ h.unit = f.unit /\ h.manager = f.manager
      /\ \A r \in Resources : Stores[t][r] \in Nat /\ h.store[r] = f.store[r] + Stores[t][r]
  BY <1>1, StoreAddedFields
<1>3. PICK only : only = Only(Cost[t], StaticResources \ Costs(t))
  OBVIOUS
<1>4. PICK change : change = Negated(only)
  OBVIOUS
<1>5. /\ only \in [Resources -> Int] /\ change \in [Resources -> Int]
      /\ \A r \in Resources : /\ only[r] = IF r \in StaticResources \ Costs(t) THEN Cost[t][r] ELSE 0
                              /\ change[r] = -only[r]
  <2>1. PICK R : R = StaticResources \ Costs(t)
    OBVIOUS
  <2>2. PICK cost : cost = Cost[t]
    OBVIOUS
  <2>3. OnlyOf(cost, R, only, change)
    BY <1>3, <1>4, <2>1, <2>2, EconomyConstants DEF OnlyOf
  <2>4. /\ only \in [Resources -> Int] /\ change \in [Resources -> Int]
        /\ \A r \in Resources : /\ only[r] = IF r \in R THEN cost[r] ELSE 0
                                /\ change[r] = -only[r]
    BY <2>3, OnlyValues
  <2> QED BY <2>1, <2>2, <2>4
<1>6. PICK k : k = Credited(h, change)
  OBVIOUS
<1>7. /\ k \in Factions /\ k.store = h.store /\ k.unit = h.unit /\ k.manager = h.manager
      /\ \A r \in Resources :
           k.amount[r] = IF change[r] = 0 \/ Class[r] = "static" \/ h.amount[r] + change[r] <= h.store[r]
                         THEN h.amount[r] + change[r] ELSE h.store[r]
  BY <1>2, <1>5, <1>6, CreditedFields
<1>8. g = WithSkill(k, b, "stop") /\ "stop" \in Skills
  BY <1>1, <1>3, <1>4, <1>6 DEF Born, StaticProductionApplied, Skills
<1>9. /\ g \in Factions /\ OthersStay(k, b, g) /\ Leaves(k, g)
      /\ g.unit[b].skill = "stop" /\ g.unit[b].type = k.unit[b].type
      /\ g.unit[b].alive = k.unit[b].alive /\ g.unit[b].commands = k.unit[b].commands
      /\ g.unit[b].target = NoUnit
  BY <1>7, <1>8, SkillFields
<1>10. OthersStay(f, b, g)
  BY <1>2, <1>7, <1>9 DEF OthersStay
<1>11. ASSUME NEW r \in Resources \ StaticResources
       PROVE  g.amount[r] = f.amount[r]
  <2>1. change[r] = 0
    BY <1>5
  <2>2. f.amount[r] \in Int
    BY DEF Factions
  <2>3. g.amount[r] = k.amount[r]
    BY <1>9 DEF Leaves
  <2> QED BY <1>2, <1>7, <2>1, <2>2, <2>3
<1>12. ASSUME NEW r \in StaticResources
       PROVE  g.amount[r] = f.amount[r] - (IF r \in Costs(t) THEN 0 ELSE Cost[t][r])
  <2>1. r \in Resources /\ Class[r] = "static"
    BY DEF StaticResources
  <2>2. f.amount[r] \in Int /\ Cost[t][r] \in Int
    BY <2>1, EconomyConstants DEF Factions
  <2>3. g.amount[r] = k.amount[r]
    BY <1>9 DEF Leaves
  <2>4. only[r] = (IF r \in Costs(t) THEN 0 ELSE Cost[t][r]) /\ change[r] = -only[r]
    BY <1>5, <2>1
  <2>5. k.amount[r] = f.amount[r] + change[r]
    BY <1>2, <1>7, <2>1
  <2> QED BY <2>2, <2>3, <2>4, <2>5
<1>13. \A r \in Resources : g.store[r] = f.store[r] + Stores[t][r]
  BY <1>2, <1>7, <1>9 DEF Leaves
<1>14. \A r \in Resources : Stores[t][r] \in Nat
  BY <1>2
<1>15. g.manager = f.manager
  BY <1>2, <1>7, <1>9 DEF Leaves
<1>16. k.unit[b] = f.unit[b]
  BY <1>2, <1>7
<1>17. /\ g.unit[b].type = t /\ g.unit[b].alive = f.unit[b].alive
       /\ g.unit[b].commands = f.unit[b].commands
  BY <1>9, <1>16
<1>18. /\ \A r \in Resources \ StaticResources : g.amount[r] = f.amount[r]
       /\ \A r \in StaticResources :
                g.amount[r] = f.amount[r] - (IF r \in Costs(t) THEN 0 ELSE Cost[t][r])
  BY <1>11, <1>12
<1> QED BY <1>9, <1>10, <1>13, <1>14, <1>15, <1>17, <1>18

\* What a unit counts for that has no commands.
LEMMA WithoutCommands ==
    ASSUME NEW x \in UnitRecord, x.commands = <<>>
    PROVE  /\ \A p : CountOf(p)[x] = Present(x, p)
           /\ \A r \in Resources : ShareOf(r)[x] = HeldByUnit(x, r)
<1>1. \A p : CountOf(p)[x] = Present(x, p) + SeqTotal(x.commands, IsFor(p)) /\ Present(x, p) \in {0, 1}
  BY ShareTypes
<1>2. \A r \in Resources : ShareOf(r)[x] = Held(x, r) + SeqTotal(x.commands, Holds(r)) /\ Held(x, r) \in Int
  BY ShareTypes
<1>3. \A m : SeqTotal(x.commands, m) = 0
  BY SeqTotalEmpty
<1>4. \A p : CountOf(p)[x] = Present(x, p)
  BY <1>1, <1>3
<1>5. \A r \in Resources : ShareOf(r)[x] = Held(x, r)
  BY <1>2, <1>3
<1> QED BY <1>4, <1>5 DEF Held

LEMMA GoneCounts ==
    /\ Gone \in UnitRecord /\ Gone.commands = <<>>
    /\ \A p \in Restricted \cup Upgrades : CountOf(p)[Gone] = 0
    /\ \A r \in Resources : ShareOf(r)[Gone] = 0 /\ StoreShare(r)[Gone] = 0
<1>1. Gone \in UnitRecord /\ Gone.commands = <<>> /\ Gone.type = NoUnit /\ Gone.alive = FALSE
  <2>1. <<>> \in Seq(KnownCommand)
    OBVIOUS
  <2> HIDE DEF KnownCommand
  <2> QED BY <2>1 DEF Gone, UnitRecord, Skills
<1>2. \A p : Present(Gone, p) = 0
  BY <1>1 DEF Present
<1>3. \A r \in Resources : HeldByUnit(Gone, r) = 0
  BY <1>1 DEF HeldByUnit
<1>4. \A r \in Resources : StoreShare(r)[Gone] = 0
  BY <1>1, EconomyConstants DEF StoreShare
<1> QED BY <1>1, <1>2, <1>3, <1>4, WithoutCommands

\* What a unit counts for that has just come.
IsNew(x, t, skill) == t \in UnitTypes /\ skill \in Skills /\ x = NewUnit(t, skill)

LEMMA NewUnitCounts ==
    ASSUME NEW t, NEW skill, NEW x, IsNew(x, t, skill)
    PROVE  /\ x \in UnitRecord /\ x.commands = <<>> /\ x.type = t /\ x.skill = skill /\ x.alive
           /\ \A p : CountOf(p)[x] = IF skill # "beBuilt" /\ p = t THEN 1 ELSE 0
           /\ \A r \in Resources :
                /\ ShareOf(r)[x] = IF r \in Costs(t) \/ skill # "beBuilt" THEN Cost[t][r] ELSE 0
                /\ StoreShare(r)[x] = IF skill # "beBuilt" THEN Stores[t][r] ELSE 0
<1> t \in UnitTypes /\ skill \in Skills /\ x = NewUnit(t, skill)
  BY DEF IsNew
<1>1. /\ x \in UnitRecord /\ x.commands = <<>> /\ x.type = t /\ x.skill = skill /\ x.alive
  <2>1. <<>> \in Seq(KnownCommand)
    OBVIOUS
  <2> HIDE DEF KnownCommand
  <2> QED BY <2>1 DEF NewUnit, Gone, UnitRecord
<1>2. \A p : Present(x, p) = IF skill # "beBuilt" /\ p = t THEN 1 ELSE 0
  BY <1>1 DEF Present
<1>3. t # NoUnit
  BY EconomyConstants
<1>4. \A r \in Resources : HeldByUnit(x, r) = IF r \in Costs(t) \/ skill # "beBuilt" THEN Cost[t][r] ELSE 0
  BY <1>1, <1>3 DEF HeldByUnit
<1>5. \A r \in Resources : StoreShare(r)[x] = IF skill # "beBuilt" THEN Stores[t][r] ELSE 0
  BY <1>1 DEF StoreShare
<1> QED BY <1>1, <1>2, <1>4, <1>5, WithoutCommands

\* A building that is being built is finished.
LEMMA BornKeeps ==
    ASSUME NEW bound \in [Resources -> Int], NEW f, EcoInv(f, bound), NEW b \in Ids,
           f.unit[b].skill = "beBuilt", NEW g, g = Born(f, b)
    PROVE  EcoInv(g, bound) /\ OthersStay(f, b, g) /\ g.unit[b].skill # "none"
<1>1. f \in Factions /\ UnitSound(f.unit[b])
  BY DEF EcoInv, UnitsSound
<1>2. PICK t : t = f.unit[b].type
  OBVIOUS
<1>3. t \in BuiltTypes /\ t \in UnitTypes /\ f.unit[b].commands = <<>>
  BY <1>1, <1>2 DEF UnitSound
<1>4. /\ g \in Factions /\ OthersStay(f, b, g) /\ g.manager = f.manager
      /\ \A r \in Resources : Stores[t][r] \in Nat /\ g.store[r] = f.store[r] + Stores[t][r]
      /\ \A r \in Resources \ StaticResources : g.amount[r] = f.amount[r]
      /\ \A r \in StaticResources :
           g.amount[r] = f.amount[r] - (IF r \in Costs(t) THEN 0 ELSE Cost[t][r])
      /\ g.unit[b].skill = "stop" /\ g.unit[b].type = t
      /\ g.unit[b].commands = f.unit[b].commands
  BY <1>1, <1>2, <1>3, BornFields
<1>5. PICK x : x = f.unit[b]
  OBVIOUS
<1>6. PICK y : y = g.unit[b]
  OBVIOUS
<1>7. /\ x \in UnitRecord /\ y \in UnitRecord /\ x.commands = <<>> /\ y.commands = <<>>
      /\ x.type = t /\ y.type = t /\ x.skill = "beBuilt" /\ y.skill = "stop"
  BY <1>1, <1>2, <1>3, <1>4, <1>5, <1>6 DEF Factions
<1>8. t # NoUnit
  BY <1>3, EconomyConstants
<1>9. \A p \in Restricted \cup Upgrades : CountOf(p)[x] = 0 /\ CountOf(p)[y] = 0
  <2> TAKE p \in Restricted \cup Upgrades
  <2>1. p # t
    BY <1>3, EconomyConstants DEF Restricted
  <2>2. Present(x, p) = 0 /\ Present(y, p) = 0
    BY <1>7, <2>1 DEF Present
  <2> QED BY <1>7, <2>2, WithoutCommands
<1>10. \A r \in Kept : ShareOf(r)[x] = 0 /\ ShareOf(r)[y] = Cost[t][r] /\ r \notin Costs(t)
  <2> TAKE r \in Kept
  <2>1. r \notin Costs(t) /\ r \in Resources
    BY <1>3 DEF Kept, StaticResources
  <2>2. HeldByUnit(x, r) = 0 /\ HeldByUnit(y, r) = Cost[t][r]
    BY <1>7, <1>8, <2>1 DEF HeldByUnit
  <2> QED BY <1>7, <2>1, <2>2, WithoutCommands
<1>11. \A r \in Resources : StoreShare(r)[x] = 0 /\ StoreShare(r)[y] = Stores[t][r]
  BY <1>3, <1>7 DEF StoreShare
<1>12. Delta(f, x, g, y)
  BY <1>4, <1>5, <1>6, DeltaOfUnit
<1>13. NoGrowth(f, g)
  <2>1. \A r \in Resources : g.store[r] - f.store[r] = Capacity(r, g) - Capacity(r, f)
    <3> TAKE r \in Resources
    <3>1. /\ Capacity(r, f) \in Int /\ Capacity(r, g) \in Int
          /\ Capacity(r, g) = Capacity(r, f) - StoreShare(r)[x] + StoreShare(r)[y]
      BY <1>12 DEF Delta
    <3>2. StoreShare(r)[x] = 0 /\ StoreShare(r)[y] = Stores[t][r]
      BY <1>11
    <3>3. Stores[t][r] \in Nat /\ g.store[r] = f.store[r] + Stores[t][r] /\ f.store[r] \in Int
      BY <1>1, <1>4 DEF Factions
    <3> QED BY <3>1, <3>2, <3>3
  <2>2. \A p \in Restricted \cup Upgrades : Counted(p, g) <= Counted(p, f)
    <3> TAKE p \in Restricted \cup Upgrades
    <3>1. /\ Counted(p, f) \in Int
          /\ Counted(p, g) = Counted(p, f) - CountOf(p)[x] + CountOf(p)[y]
      BY <1>12 DEF Delta
    <3>2. CountOf(p)[x] = 0 /\ CountOf(p)[y] = 0
      BY <1>9
    <3> QED BY <3>1, <3>2
  <2>3. \A r \in Kept : g.amount[r] + InUse(r, g) <= f.amount[r] + InUse(r, f)
    <3> TAKE r \in Kept
    <3>1. r \in Resources /\ r \in StaticResources
      BY DEF Kept, StaticResources
    <3>2. /\ InUse(r, f) \in Int
          /\ InUse(r, g) = InUse(r, f) - ShareOf(r)[x] + ShareOf(r)[y]
      BY <1>12, <3>1 DEF Delta
    <3>3. ShareOf(r)[x] = 0 /\ ShareOf(r)[y] = Cost[t][r] /\ r \notin Costs(t)
      BY <1>10
    <3>4. Cost[t][r] \in Int /\ f.amount[r] \in Int
      BY <1>1, <1>3, <3>1, EconomyConstants DEF Factions
    <3>5. g.amount[r] = f.amount[r] - Cost[t][r]
      BY <1>4, <3>1, <3>3
    <3> QED BY <3>2, <3>3, <3>4, <3>5
  <2> QED BY <1>1, <1>4, <2>1, <2>2, <2>3 DEF NoGrowth
<1>14. UnitsSound(g)
  <2>1. UnitSound(y)
    <3>1. Len(y.commands) = 0
      BY <1>7
    <3> QED BY <1>3, <1>7, <3>1, EconomyConstants DEF UnitSound
  <2> QED BY <1>4, <1>6, <2>1 DEF EcoInv, UnitsSound, OthersStay
<1>15. PaidFor(g)
  <2> SUFFICES ASSUME TechPaid, NEW r \in Resources \ StaticResources
               PROVE  g.amount[r] \in 0 .. g.store[r]
    BY DEF PaidFor, Within
  <2>1. f.amount[r] \in 0 .. f.store[r] /\ f.store[r] \in Int
    BY <1>1 DEF EcoInv, PaidFor, Within, Factions
  <2>2. g.amount[r] = f.amount[r] /\ g.store[r] = f.store[r] + Stores[t][r] /\ Stores[t][r] \in Nat
    BY <1>4
  <2> QED BY <2>1, <2>2
<1> QED BY <1>4, <1>13, <1>14, <1>15, NoGrowthKeeps

\* A unit that has been produced.
LEMMA ProduceKeeps ==
    ASSUME NEW bound \in [Resources -> Int], NEW f, EcoInv(f, bound), NEW u \in Ids,
           f.unit[u].skill \notin {"none", "beBuilt"}, f.unit[u].commands # <<>>,
           NEW c, c = f.unit[u].commands[1], c.class = "produce", NEW g \in ProduceUpdates(f, u, c)
    PROVE  EcoInv(g, bound) /\ g.unit[u].skill # "none"
<1>1. f \in Factions
  BY DEF EcoInv
<1>2. CASE g = WithSkill(f, u, "produce")
  <2>1. "produce" \in Skills \ {"none", "beBuilt"}
    BY DEF Skills
  <2> QED BY <1>2, <2>1, SkillKeeps
<1>3. CASE g = FinishedAndStopped(f, u)
  BY <1>3, FinishedKeeps
<1>4. CASE g = f
  BY <1>4
<1>5. ASSUME NEW n \in Fresh(f),
             g = Born([FinishedAndStopped(f, u) EXCEPT !.unit[n] = NewUnit(c.of, "stop")], n)
      PROVE  EcoInv(g, bound) /\ g.unit[u].skill # "none"
  <2>1. n \in Ids /\ n # u /\ f.unit[n] = Gone
    <3>1. n \in Ids /\ f.unit[n].skill = "none" /\ UnitSound(f.unit[n])
      BY <1>5 DEF Fresh, Standing, EcoInv, UnitsSound
    <3> QED BY <3>1 DEF UnitSound
  <2>2. PICK h : h = FinishedAndStopped(f, u)
    OBVIOUS
  <2>3. EcoInv(h, bound) /\ h.unit[u].skill = "stop"
    BY <2>2, FinishedKeeps
  <2>4. /\ h \in Factions /\ OthersStay(f, u, h) /\ Leaves(f, h)
        /\ Loses(f.unit[u], 1, h.unit[u])
    BY <1>1, <2>2, FinishedFields
  <2>5. c \in KnownCommand /\ LostDelta(f, c, h)
    BY <2>4, LostInAll
  <2>6. PICK t : t = c.of
    OBVIOUS
  <2>7. t \in UnitTypes
    BY <2>5, <2>6, CommandKinds
  <2>8. PICK x : x = NewUnit(t, "stop")
    OBVIOUS
  <2>24. PICK skill : skill = "stop"
    OBVIOUS
  <2>25. IsNew(x, t, skill) /\ skill # "beBuilt"
    BY <2>7, <2>8, <2>24 DEF IsNew, Skills
  <2>9. /\ x \in UnitRecord /\ x.commands = <<>> /\ x.type = t /\ x.skill = "stop" /\ x.alive
    BY <2>24, <2>25, NewUnitCounts
  <2>10. PICK k : k = Put(h, n, x)
    OBVIOUS
  <2>11. /\ OthersStay(h, n, k) /\ k \in Factions /\ k.unit[n] = x
         /\ k.amount = h.amount /\ k.store = h.store /\ k.manager = h.manager
    BY <2>1, <2>4, <2>9, <2>10, UnitPut
  <2>12. g = Born(k, n)
    BY <1>5, <2>2, <2>6, <2>8, <2>10 DEF Put
  <2>13. /\ g \in Factions /\ OthersStay(k, n, g) /\ g.manager = k.manager
         /\ \A r \in Resources : Stores[t][r] \in Nat /\ g.store[r] = k.store[r] + Stores[t][r]
         /\ \A r \in Resources \ StaticResources : g.amount[r] = k.amount[r]
         /\ \A r \in StaticResources :
              g.amount[r] = k.amount[r] - (IF r \in Costs(t) THEN 0 ELSE Cost[t][r])
         /\ g.unit[n].skill = "stop" /\ g.unit[n].type = t /\ g.unit[n].target = NoUnit
         /\ g.unit[n].alive = k.unit[n].alive /\ g.unit[n].commands = k.unit[n].commands
    BY <2>1, <2>7, <2>9, <2>11, <2>12, BornFields
  <2>14. PICK y : y = g.unit[n]
    OBVIOUS
  <2>15. Keeps(x, y)
    <3>1. /\ y \in UnitRecord /\ y.type = x.type /\ y.alive = x.alive /\ y.commands = x.commands
          /\ x.skill # "beBuilt" /\ y.skill # "beBuilt"
      BY <2>1, <2>9, <2>11, <2>13, <2>14 DEF Factions
    <3>2. Alike(x, y)
      BY <2>9, <3>1 DEF Alike
    <3> QED BY <3>1, <3>2 DEF Keeps
  <2>16. OthersStay(h, n, g) /\ h.unit[n] = Gone
    BY <2>1, <2>4, <2>11, <2>13 DEF OthersStay
  <2>17. Delta(h, Gone, g, y)
    BY <2>14, <2>16, DeltaOfUnit
  <2>18. \A r \in Resources : ShareOf(r)[y] = Cost[t][r] /\ StoreShare(r)[y] = Stores[t][r]
    BY <2>15, <2>24, <2>25, NewUnitCounts, KeptCounts
  <2>19. \A p : CountOf(p)[y] = IF p = t THEN 1 ELSE 0
    BY <2>15, <2>24, <2>25, NewUnitCounts, KeptCounts
  <2>20. NoGrowth(f, g)
    <3>1. \A r \in Resources : g.store[r] - f.store[r] = Capacity(r, g) - Capacity(r, f)
      <4> TAKE r \in Resources
      <4>1. /\ Capacity(r, h) \in Int /\ Capacity(r, g) \in Int
            /\ Capacity(r, g) = Capacity(r, h) - StoreShare(r)[Gone] + StoreShare(r)[y]
        BY <2>17 DEF Delta
      <4>2. StoreShare(r)[Gone] = 0 /\ StoreShare(r)[y] = Stores[t][r]
        BY <2>18, GoneCounts
      <4>3. Capacity(r, h) = Capacity(r, f)
        BY <2>5 DEF LostDelta
      <4>4. Stores[t][r] \in Nat /\ g.store[r] = f.store[r] + Stores[t][r] /\ f.store[r] \in Int
        BY <1>1, <2>4, <2>11, <2>13 DEF Factions, Leaves
      <4> QED BY <4>1, <4>2, <4>3, <4>4
    <3>2. \A p \in Restricted \cup Upgrades : Counted(p, g) <= Counted(p, f)
      <4> TAKE p \in Restricted \cup Upgrades
      <4>1. /\ Counted(p, h) \in Int
            /\ Counted(p, g) = Counted(p, h) - CountOf(p)[Gone] + CountOf(p)[y]
        BY <2>17 DEF Delta
      <4>2. CountOf(p)[Gone] = 0 /\ CountOf(p)[y] = IF p = t THEN 1 ELSE 0
        BY <2>19, GoneCounts
      <4>3. Counted(p, f) \in Int /\ Counted(p, h) = Counted(p, f) - (IF t = p THEN 1 ELSE 0)
        BY <2>5, <2>6 DEF LostDelta
      <4> QED BY <4>1, <4>2, <4>3
    <3>3. \A r \in Kept : g.amount[r] + InUse(r, g) <= f.amount[r] + InUse(r, f)
      <4> TAKE r \in Kept
      <4>1. r \in Resources /\ r \in StaticResources
        BY DEF Kept, StaticResources
      <4>2. /\ InUse(r, h) \in Int
            /\ InUse(r, g) = InUse(r, h) - ShareOf(r)[Gone] + ShareOf(r)[y]
        BY <2>17, <4>1 DEF Delta
      <4>3. ShareOf(r)[Gone] = 0 /\ ShareOf(r)[y] = Cost[t][r] /\ Cost[t][r] \in Int
        BY <2>7, <2>18, <4>1, GoneCounts, EconomyConstants
      <4>4. InUse(r, f) \in Int /\ InUse(r, h) = InUse(r, f) - HeldByOrder(c, r)
        BY <2>5, <4>1 DEF LostDelta
      <4>5. HeldByOrder(c, r) = IF r \in Costs(t) THEN Cost[t][r] ELSE 0
        BY <2>6 DEF HeldByOrder, HasProduced
      <4>6. f.amount[r] \in Int /\ g.amount[r] = f.amount[r] - (IF r \in Costs(t) THEN 0 ELSE Cost[t][r])
        BY <1>1, <2>4, <2>11, <2>13, <4>1 DEF Factions, Leaves
      <4> QED BY <4>2, <4>3, <4>4, <4>5, <4>6
    <3>4. g.manager = f.manager
      BY <2>4, <2>11, <2>13 DEF Leaves
    <3> QED BY <1>1, <2>13, <3>1, <3>2, <3>3, <3>4 DEF NoGrowth
  <2>21. UnitsSound(g)
    <3>1. UnitSound(y)
      <4>1. Len(y.commands) = 0 /\ y.skill = "stop" /\ y.type = t
        BY <2>9, <2>11, <2>13, <2>14
      <4> QED BY <2>7, <4>1, EconomyConstants DEF UnitSound
    <3>2. UnitsSound(h)
      BY <2>3 DEF EcoInv
    <3> QED BY <2>14, <2>16, <3>1, <3>2 DEF UnitsSound, OthersStay
  <2>22. PaidFor(g)
    <3> SUFFICES ASSUME TechPaid, NEW r \in Resources \ StaticResources
                 PROVE  g.amount[r] \in 0 .. g.store[r]
      BY DEF PaidFor, Within
    <3>1. h.amount[r] \in 0 .. h.store[r] /\ h.store[r] \in Int
      BY <2>3, <2>4 DEF EcoInv, PaidFor, Within, Factions
    <3>2. g.amount[r] = h.amount[r] /\ g.store[r] = h.store[r] + Stores[t][r] /\ Stores[t][r] \in Nat
      BY <2>11, <2>13
    <3> QED BY <3>1, <3>2
  <2>23. g.unit[u].skill # "none"
    <3>1. g.unit[u] = h.unit[u]
      BY <2>1, <2>16 DEF OthersStay
    <3> QED BY <2>3, <3>1
  <2> QED BY <2>20, <2>21, <2>22, <2>23, NoGrowthKeeps
<1> QED BY <1>2, <1>3, <1>4, <1>5 DEF ProduceUpdates

\* The last command is cancelled.
LEMMA CancelKeeps ==
    ASSUME NEW bound \in [Resources -> Int], NEW f, EcoInv(f, bound), NEW u \in Ids,
           NEW g, g = LastCancelled(f, u)
    PROVE  EcoInv(g, bound) /\ g.unit[u].skill = f.unit[u].skill
<1>1. g \in Fewer(f, u, bound)
  BY FewerItself, LastCancelledFewer
<1> QED BY <1>1 DEF Fewer, Shorter

LEMMA CancelAndStopKeeps ==
    ASSUME NEW bound \in [Resources -> Int], NEW f, EcoInv(f, bound), NEW u \in Ids,
           f.unit[u].skill \notin {"none", "beBuilt"},
           NEW g, g = WithSkill(LastCancelled(f, u), u, "stop")
    PROVE  EcoInv(g, bound) /\ g.unit[u].skill # "none"
<1>1. PICK h : h = LastCancelled(f, u)
  OBVIOUS
<1>2. EcoInv(h, bound) /\ h.unit[u].skill \notin {"none", "beBuilt"}
  BY <1>1, CancelKeeps
<1>3. "stop" \in Skills \ {"none", "beBuilt"}
  BY DEF Skills
<1> QED BY <1>1, <1>2, <1>3, SkillKeeps

\* A new building is put in its place.
Placed(f, u, n, t) == WithSite([f EXCEPT !.unit[n] = NewUnit(t, "beBuilt")], u, n)

LEMMA PlacedKeeps ==
    ASSUME NEW bound \in [Resources -> Int], NEW f, EcoInv(f, bound), NEW u \in Ids,
           f.unit[u].skill \notin {"none", "beBuilt"}, f.unit[u].commands # <<>>,
           NEW c, c = f.unit[u].commands[1], c.class = "build", NEW n \in Fresh(f),
           NEW g, g = Placed(f, u, n, c.of)
    PROVE  EcoInv(g, bound) /\ g.unit[u].skill # "none"
<1>1. f \in Factions
  BY DEF EcoInv
<1>2. n \in Ids /\ n # u /\ f.unit[n] = Gone
  <2>1. n \in Ids /\ f.unit[n].skill = "none" /\ UnitSound(f.unit[n])
    BY DEF Fresh, Standing, EcoInv, UnitsSound
  <2> QED BY <2>1 DEF UnitSound
<1>3. PICK x : x = f.unit[u]
  OBVIOUS
<1>4. x \in UnitRecord /\ x.commands \in Seq(KnownCommand) /\ UnitSound(x)
  BY <1>1, <1>3 DEF Factions, UnitRecord, EcoInv, UnitsSound
<1>5. PICK s \in Seq(KnownCommand) : s = x.commands
  BY <1>4
<1>6. PICK d : d = [c EXCEPT !.site = n]
  OBVIOUS
<1>7. 1 \in 1 .. Len(s) /\ Len(s) \in Nat /\ c = s[1] /\ c \in KnownCommand
  <2> HIDE DEF KnownCommand
  <2> QED BY <1>3, <1>5
<1>8. d \in KnownCommand /\ d.class = c.class /\ d.of = c.of
  <2>1. c \in [class : Classes, of : UnitTypes \cup Upgrades \cup {NoUnit}, site : Ids \cup {NoUnit}]
        /\ [class |-> c.class, of |-> c.of] \in OrderTypes
        /\ (c.class = "build" => c.of \in BuiltTypes)
    BY <1>7 DEF KnownCommand, CommandType
  <2>2. d \in [class : Classes, of : UnitTypes \cup Upgrades \cup {NoUnit}, site : Ids \cup {NoUnit}]
        /\ d.class = c.class /\ d.of = c.of
    BY <1>2, <1>6, <2>1
  <2> QED BY <2>1, <2>2 DEF KnownCommand, CommandType
<1>9. PICK q : q = [s EXCEPT ![1] = d]
  OBVIOUS
<1>10. /\ q \in Seq(KnownCommand) /\ Len(q) = Len(s) /\ q[1] = d
       /\ \A i \in 1 .. Len(s) : i # 1 => q[i] = s[i]
  <2> HIDE DEF KnownCommand
  <2> QED BY <1>7, <1>8, <1>9
<1>11. PICK y : y = [x EXCEPT !.skill = "build", !.target = n, !.commands[1].site = n]
  OBVIOUS
<1>12. /\ y \in UnitRecord /\ y.commands = q /\ y.type = x.type /\ y.alive = x.alive
       /\ y.skill = "build"
  <2>1. "build" \in Skills
    BY DEF Skills
  <2>2. q = [x.commands EXCEPT ![1].site = n]
    BY <1>5, <1>6, <1>7, <1>9
  <2>3. y = [x EXCEPT !.skill = "build", !.target = n, !.commands = q]
    BY <1>4, <1>11, <2>2 DEF UnitRecord
  <2> QED BY <1>2, <1>4, <1>10, <2>1, <2>3 DEF UnitRecord
<1>13. PICK h : h = Put(f, u, y)
  OBVIOUS
<1>14. /\ OthersStay(f, u, h) /\ h \in Factions /\ h.unit[u] = y
       /\ h.amount = f.amount /\ h.store = f.store /\ h.manager = f.manager
  BY <1>1, <1>12, <1>13, UnitPut
<1>15. Keeps(x, y)
  <2>1. Alike(x, y)
    BY <1>3, <1>4, <1>12 DEF Alike
  <2>2. \A i \in 1 .. Len(s) : s[i].class = q[i].class /\ s[i].of = q[i].of
    <3> TAKE i \in 1 .. Len(s)
    <3>1. CASE i = 1
      BY <1>7, <1>8, <1>10, <3>1
    <3>2. CASE i # 1
      BY <1>10, <3>2
    <3> QED BY <3>1, <3>2
  <2> QED BY <1>5, <1>10, <1>12, <2>1, <2>2 DEF Keeps
<1>16. NoGrowth(f, h)
  BY <1>3, <1>14, <1>15, KeptGrowth DEF Leaves
<1>17. UnitsSound(h)
  <2>1. UnitSound(y)
    BY <1>3, <1>4, <1>5, <1>10, <1>12 DEF UnitSound
  <2> QED BY <1>14, <2>1 DEF EcoInv, UnitsSound, OthersStay
<1>18. PaidFor(h)
  BY <1>14 DEF EcoInv, PaidFor, Within
<1>19. EcoInv(h, bound)
  BY <1>16, <1>17, <1>18, NoGrowthKeeps
<1>20. PICK t : t = c.of
  OBVIOUS
<1>21. t \in BuiltTypes /\ t \in UnitTypes
  BY <1>7, <1>20, CommandKinds
<1>22. PICK z : z = NewUnit(t, "beBuilt")
  OBVIOUS
<1>23. PICK skill : skill = "beBuilt"
  OBVIOUS
<1>24. IsNew(z, t, skill)
  BY <1>21, <1>22, <1>23 DEF IsNew, Skills
<1>25. z \in UnitRecord /\ z.commands = <<>> /\ z.type = t /\ z.skill = "beBuilt"
  BY <1>23, <1>24, NewUnitCounts
<1>26. g = Put(h, n, z)
  <2>1. f.unit \in [Ids -> UnitRecord] /\ u \in Ids
    BY <1>1 DEF Factions
  <2>2. PICK w : w = [f.unit EXCEPT ![n] = z]
    OBVIOUS
  <2>3. w[u] = x /\ w = [v \in Ids |-> IF v = n THEN z ELSE f.unit[v]]
    BY <1>2, <1>3, <2>1, <2>2
  <2>6. g = [f EXCEPT !.unit = [w EXCEPT ![u] = y]]
    <3>1. PICK e : e = [f EXCEPT !.unit = w]
      OBVIOUS
    <3>2. e.unit = w /\ e = [f EXCEPT !.unit[n] = z]
      BY <1>1, <2>2, <3>1 DEF Factions
    <3>3. g = [e EXCEPT !.unit[u] = [@ EXCEPT !.skill = "build", !.target = n, !.commands[1].site = n]]
      BY <1>20, <1>22, <3>2 DEF Placed, WithSite
    <3>4. g = [e EXCEPT !.unit[u] = y]
      BY <1>11, <2>3, <3>2, <3>3
    <3>5. g = [e EXCEPT !.unit = [w EXCEPT ![u] = y]]
      BY <3>2, <3>4
    <3> QED BY <1>1, <3>1, <3>5 DEF Factions
  <2>8. [w EXCEPT ![u] = y] = [h.unit EXCEPT ![n] = z]
    <3>1. h.unit = [f.unit EXCEPT ![u] = y]
      BY <1>1, <1>13 DEF Put, Factions
    <3> QED BY <1>2, <2>1, <2>2, <3>1
  <2>9. Put(h, n, z) = [f EXCEPT !.unit = [h.unit EXCEPT ![n] = z]]
    BY <1>1, <1>13 DEF Put, Factions
  <2> QED BY <2>6, <2>8, <2>9
<1>27. /\ OthersStay(h, n, g) /\ g \in Factions /\ g.unit[n] = z
       /\ g.amount = h.amount /\ g.store = h.store /\ g.manager = h.manager
  BY <1>2, <1>14, <1>25, <1>26, UnitPut
<1>28. h.unit[n] = Gone
  BY <1>2, <1>14 DEF OthersStay
<1>29. Delta(h, Gone, g, z)
  BY <1>2, <1>27, <1>28, DeltaOfUnit
<1>34. /\ \A p : CountOf(p)[z] = 0
       /\ \A r \in Resources : StoreShare(r)[z] = 0
       /\ \A r \in Resources : ShareOf(r)[z] = IF r \in Costs(t) THEN Cost[t][r] ELSE 0
  BY <1>23, <1>24, NewUnitCounts
<1>30. NoGrowth(h, g)
  <2>1. \A r \in Resources : g.store[r] - h.store[r] = Capacity(r, g) - Capacity(r, h)
    <3> TAKE r \in Resources
    <3>1. /\ Capacity(r, h) \in Int
          /\ Capacity(r, g) = Capacity(r, h) - StoreShare(r)[Gone] + StoreShare(r)[z]
      BY <1>29 DEF Delta
    <3>2. StoreShare(r)[Gone] = 0 /\ StoreShare(r)[z] = 0
      BY <1>34, GoneCounts
    <3>3. g.store[r] = h.store[r] /\ h.store[r] \in Int
      BY <1>14, <1>27 DEF Factions
    <3> QED BY <3>1, <3>2, <3>3
  <2>2. \A p \in Restricted \cup Upgrades : Counted(p, g) <= Counted(p, h)
    <3> TAKE p \in Restricted \cup Upgrades
    <3>1. /\ Counted(p, h) \in Int
          /\ Counted(p, g) = Counted(p, h) - CountOf(p)[Gone] + CountOf(p)[z]
      BY <1>29 DEF Delta
    <3>2. CountOf(p)[Gone] = 0 /\ CountOf(p)[z] = 0
      BY <1>34, GoneCounts
    <3> QED BY <3>1, <3>2
  <2>3. \A r \in Kept : g.amount[r] + InUse(r, g) <= h.amount[r] + InUse(r, h)
    <3> TAKE r \in Kept
    <3>1. r \in Resources /\ r \notin Costs(t)
      BY <1>21 DEF Kept, StaticResources
    <3>2. /\ InUse(r, h) \in Int
          /\ InUse(r, g) = InUse(r, h) - ShareOf(r)[Gone] + ShareOf(r)[z]
      BY <1>29, <3>1 DEF Delta
    <3>3. ShareOf(r)[Gone] = 0 /\ ShareOf(r)[z] = 0
      BY <1>34, <3>1, GoneCounts
    <3>4. g.amount[r] = h.amount[r] /\ h.amount[r] \in Int
      BY <1>14, <1>27, <3>1 DEF Factions
    <3> QED BY <3>2, <3>3, <3>4
  <2> QED BY <1>14, <1>27, <2>1, <2>2, <2>3 DEF NoGrowth
<1>31. UnitsSound(g)
  <2>1. UnitSound(z)
    <3>1. Len(z.commands) = 0
      BY <1>25
    <3> QED BY <1>21, <1>25, <3>1, EconomyConstants DEF UnitSound
  <2> QED BY <1>17, <1>27, <2>1 DEF UnitsSound, OthersStay
<1>32. PaidFor(g)
  BY <1>18, <1>27 DEF PaidFor, Within
<1>33. g.unit[u].skill = "build"
  <2>1. g.unit[u] = h.unit[u]
    BY <1>2, <1>27 DEF OthersStay
  <2> QED BY <1>12, <1>14, <2>1
<1> QED BY <1>19, <1>30, <1>31, <1>32, <1>33, NoGrowthKeeps

\* A unit that builds, and one on its way to build.
LEMMA BuildKeeps ==
    ASSUME NEW bound \in [Resources -> Int], NEW f, EcoInv(f, bound), NEW u \in Ids,
           f.unit[u].skill \notin {"none", "beBuilt"}, f.unit[u].commands # <<>>,
           NEW c \in KnownCommand, c = f.unit[u].commands[1], c.class = "build",
           NEW g \in BuildUpdates(f, u, c)
    PROVE  EcoInv(g, bound) /\ g.unit[u].skill # "none"
<1>1. f \in Factions
  BY DEF EcoInv
<1>2. CASE f.unit[u].skill # "build"
  <2>1. g \in ApproachUpdates(f, u, c)
    BY <1>2 DEF BuildUpdates
  <2>2. \/ g = f
        \/ g = WithSkill(LastCancelled(f, u), u, "stop")
        \/ g = LastCancelled(f, u)
        \/ \E n \in Fresh(f) : g = Placed(f, u, n, c.of)
    BY <2>1 DEF ApproachUpdates, Placed
  <2>3. CASE g = f
    BY <2>3
  <2>4. CASE g = WithSkill(LastCancelled(f, u), u, "stop")
    BY <2>4, CancelAndStopKeeps
  <2>5. CASE g = LastCancelled(f, u)
    BY <2>5, CancelKeeps
  <2>6. ASSUME NEW n \in Fresh(f), g = Placed(f, u, n, c.of)
        PROVE  EcoInv(g, bound) /\ g.unit[u].skill # "none"
    BY <2>6, PlacedKeeps
  <2> QED BY <2>2, <2>3, <2>4, <2>5, <2>6
<1>3. CASE f.unit[u].skill = "build"
  <2>1. PICK b :
          /\ b \in Standing(f) \cup {NoUnit, Other}
          /\ g \in (IF b # NoUnit /\ b # c.site THEN {WithSkill(f, u, "stop")}
                    ELSE IF b = NoUnit \/ f.unit[b].skill # "beBuilt" THEN {FinishedAndStopped(f, u)}
                    ELSE {f, Born(FinishedAndStopped(f, u), b)})
    BY <1>3 DEF BuildUpdates
  <2>2. CASE g = WithSkill(f, u, "stop")
    <3>1. "stop" \in Skills \ {"none", "beBuilt"}
      BY DEF Skills
    <3> QED BY <2>2, <3>1, SkillKeeps
  <2>3. CASE g = FinishedAndStopped(f, u)
    BY <2>3, FinishedKeeps
  <2>4. CASE g = f
    BY <2>4
  <2>5. ASSUME b # NoUnit, b = c.site, f.unit[b].skill = "beBuilt",
               g = Born(FinishedAndStopped(f, u), b)
        PROVE  EcoInv(g, bound) /\ g.unit[u].skill # "none"
    <3>1. b \in Ids
      <4>1. c.site \in Ids \cup {NoUnit}
        BY DEF KnownCommand, CommandType
      <4> QED BY <2>5, <4>1
    <3>2. b # u
      BY <2>5
    <3>3. PICK h : h = FinishedAndStopped(f, u)
      OBVIOUS
    <3>4. EcoInv(h, bound) /\ h.unit[u].skill = "stop"
      BY <3>3, FinishedKeeps
    <3>5. OthersStay(f, u, h)
      BY <1>1, <3>3, FinishedFields
    <3>6. h.unit[b].skill = "beBuilt"
      BY <2>5, <3>1, <3>2, <3>5 DEF OthersStay
    <3>7. EcoInv(g, bound) /\ OthersStay(h, b, g)
      BY <2>5, <3>1, <3>3, <3>4, <3>6, BornKeeps
    <3>8. g.unit[u] = h.unit[u]
      BY <3>2, <3>7 DEF OthersStay
    <3> QED BY <3>4, <3>7, <3>8
  <2> QED BY <2>1, <2>2, <2>3, <2>4, <2>5
<1> QED BY <1>2, <1>3

-----------------------------------------------------------------------------
(* Units change their type.                                                *)

\* The store of g is that of f without the store of t.
StoreLowered(f, t, g) ==
    /\ g \in Factions /\ g.unit = f.unit /\ g.manager = f.manager
    /\ \A r \in Resources : g.store[r] = f.store[r] - Stores[t][r]
    /\ \A r \in StaticResources : g.amount[r] = f.amount[r]
    /\ \A r \in Resources \ StaticResources :
         g.amount[r] = IF f.amount[r] > g.store[r] THEN g.store[r] ELSE f.amount[r]

LEMMA StoreRemovedFields ==
    ASSUME NEW f \in Factions, NEW t \in UnitTypes, NEW g, g = StoreRemoved(f, t)
    PROVE  StoreLowered(f, t, g)
<1>1. PICK s : s = [r \in Resources |-> f.store[r] - Stores[t][r]]
  OBVIOUS
<1>2. s \in [Resources -> Int]
  BY <1>1, EconomyConstants DEF Factions
<1>3. PICK h : h = StoreReduced(f, t)
  OBVIOUS
<1>4. h = [f EXCEPT !.store = s]
  BY <1>1, <1>3 DEF StoreReduced
<1>5. h \in Factions /\ h.amount = f.amount /\ h.unit = f.unit /\ h.manager = f.manager /\ h.store = s
  BY <1>2, <1>4 DEF Factions
<1>6. PICK a : a = [r \in Resources |->
                      IF Class[r] # "static" /\ h.amount[r] > h.store[r] THEN h.store[r] ELSE h.amount[r]]
  OBVIOUS
<1>7. a \in [Resources -> Int]
  BY <1>5, <1>6 DEF Factions
<1>8. g = [h EXCEPT !.amount = a]
  BY <1>3, <1>6 DEF StoreRemoved, StoreLimited
<1>9. g \in Factions /\ g.store = h.store /\ g.unit = h.unit /\ g.manager = h.manager /\ g.amount = a
  BY <1>5, <1>7, <1>8 DEF Factions
<1>10. \A r \in Resources : g.store[r] = f.store[r] - Stores[t][r]
  BY <1>1, <1>5, <1>9
<1>11. \A r \in StaticResources : g.amount[r] = f.amount[r]
  BY <1>5, <1>6, <1>9 DEF StaticResources
<1>12. \A r \in Resources \ StaticResources :
         g.amount[r] = IF f.amount[r] > g.store[r] THEN g.store[r] ELSE f.amount[r]
  BY <1>5, <1>6, <1>9 DEF StaticResources
<1> QED BY <1>5, <1>9, <1>10, <1>11, <1>12 DEF StoreLowered

LEMMA DiscountValues ==
    ASSUME NEW t \in UnitTypes, NEW d, d = [r \in Resources |-> Percent(Charge(t)[r], Discount[t])]
    PROVE  /\ d \in [Resources -> Int]
           /\ \A r \in Kept : d[r] = 0
           /\ TechPaid => \A r \in Resources : d[r] >= 0
<1>1. PICK charge : charge = Charge(t)
  OBVIOUS
<1>2. charge \in [Resources -> Int] /\ (TechPaid => \A r \in Resources : charge[r] >= 0)
  BY <1>1, ChargeValues
<1>3. PICK percent \in 0 .. 100 : percent = Discount[t]
  BY EconomyConstants
<1>4. ASSUME NEW n \in Int
      PROVE  Percent(n, percent) \in Int /\ (n >= 0 => Percent(n, percent) >= 0)
  <2>1. \A m \in Nat : (m * percent) \div 100 \in Nat
    <3> TAKE m \in Nat
    <3>1. PICK k : k = m * percent
      OBVIOUS
    <3>2. k \in Nat
      BY <3>1
    <3>3. k \div 100 \in Nat
      BY <3>2
    <3> QED BY <3>1, <3>3
  <2>2. CASE n >= 0
    <3>1. n \in Nat
      BY <2>2
    <3>2. (n * percent) \div 100 \in Nat
      BY <2>1, <3>1
    <3>3. Percent(n, percent) = (n * percent) \div 100
      BY <2>2 DEF Percent
    <3> QED BY <3>2, <3>3
  <2>3. CASE ~(n >= 0)
    <3>1. PICK m : m = -n
      OBVIOUS
    <3>2. m \in Nat
      BY <2>3, <3>1
    <3>3. PICK k : k = (m * percent) \div 100
      OBVIOUS
    <3>4. k \in Nat
      BY <2>1, <3>2, <3>3
    <3>5. Percent(n, percent) = -k
      BY <2>3, <3>1, <3>3 DEF Percent
    <3> QED BY <2>3, <3>4, <3>5
  <2> QED BY <2>2, <2>3
<1>5. \A r \in Resources : d[r] = Percent(charge[r], percent)
  BY <1>1, <1>3
<1>6. d \in [Resources -> Int]
  <2>1. \A r \in Resources : d[r] \in Int
    BY <1>2, <1>4, <1>5
  <2> QED BY <2>1
<1>7. \A r \in Kept : d[r] = 0
  <2> TAKE r \in Kept
  <2>1. Undiscounted(r) /\ r \in Resources
    BY DEF Kept, StaticResources
  <2> QED BY <2>1 DEF Undiscounted
<1>8. ASSUME TechPaid, NEW r \in Resources PROVE d[r] >= 0
  <2>1. charge[r] >= 0 /\ charge[r] \in Int
    BY <1>2, <1>8
  <2> QED BY <1>4, <1>5, <2>1
<1> QED BY <1>6, <1>7, <1>8

\* Unit::morph
LEMMA MorphedFields ==
    ASSUME NEW f \in Factions, NEW u \in Ids, NEW old \in UnitTypes, old = f.unit[u].type,
           NEW t \in UnitTypes, NEW g, g = Morphed(f, u, t)
    PROVE  /\ g \in Factions /\ OthersStay(f, u, g) /\ g.manager = f.manager
           /\ g.unit[u].type = t /\ g.unit[u].alive = f.unit[u].alive
           /\ g.unit[u].skill = f.unit[u].skill /\ g.unit[u].commands = f.unit[u].commands
           /\ \A r \in Resources : g.store[r] = f.store[r] + Stores[t][r] - Stores[old][r]
           /\ \A r \in Kept :
                g.amount[r] = f.amount[r] + Cost[old][r] - (IF r \in Costs(t) THEN 0 ELSE Cost[t][r])
           /\ TechPaid /\ Within(f) /\ (\A r \in Resources : g.store[r] >= 0) => Within(g)
<1>1. Stores \in [UnitTypes -> [Resources -> Nat]] /\ Cost \in [UnitTypes \cup Upgrades -> [Resources -> Int]]
  BY EconomyConstants
\* What the old type returns.
<1>2. PICK c1 : c1 = Only(Cost[old], StaticResources \cap RecoupCost)
  OBVIOUS
<1>3. /\ c1 \in [Resources -> Int]
      /\ \A r \in Resources : c1[r] = IF r \in StaticResources \cap RecoupCost THEN Cost[old][r] ELSE 0
  <2>1. PICK R : R = StaticResources \cap RecoupCost
    OBVIOUS
  <2>2. PICK cost : cost = Cost[old]
    OBVIOUS
  <2>3. PICK negated : negated = Negated(c1)
    OBVIOUS
  <2>4. OnlyOf(cost, R, c1, negated)
    BY <1>1, <1>2, <2>1, <2>2, <2>3 DEF OnlyOf
  <2>5. c1 \in [Resources -> Int] /\ \A r \in Resources : c1[r] = IF r \in R THEN cost[r] ELSE 0
    BY <2>4, OnlyValues
  <2> QED BY <2>1, <2>2, <2>5
<1>4. PICK h1 : h1 = Credited(f, c1)
  OBVIOUS
<1>5. /\ h1 \in Factions /\ h1.store = f.store /\ h1.unit = f.unit /\ h1.manager = f.manager
      /\ \A r \in Resources :
           h1.amount[r] = IF c1[r] = 0 \/ Class[r] = "static" \/ f.amount[r] + c1[r] <= f.store[r]
                          THEN f.amount[r] + c1[r] ELSE f.store[r]
  BY <1>3, <1>4, CreditedFields
\* The unit is of the new type.
<1>6. PICK x : x = f.unit[u]
  OBVIOUS
<1>7. PICK y : y = [x EXCEPT !.type = t]
  OBVIOUS
<1>8. /\ y \in UnitRecord /\ y.type = t /\ y.alive = x.alive /\ y.skill = x.skill
      /\ y.commands = x.commands
  <2>1. x \in UnitRecord
    BY <1>6 DEF Factions
  <2> QED BY <1>7, <2>1 DEF UnitRecord
<1>9. PICK h2 : h2 = Put(h1, u, y)
  OBVIOUS
<1>10. /\ OthersStay(h1, u, h2) /\ h2 \in Factions /\ h2.unit[u] = y
       /\ h2.amount = h1.amount /\ h2.store = h1.store /\ h2.manager = h1.manager
  BY <1>5, <1>8, <1>9, UnitPut
<1>11. h2 = [StaticCostsDeapplied(f, old) EXCEPT !.unit[u].type = t]
  BY <1>2, <1>4, <1>5, <1>6, <1>7, <1>9 DEF StaticCostsDeapplied, Put, Factions
\* The discount.
<1>12. PICK d : d = [r \in Resources |-> Percent(Charge(t)[r], Discount[t])]
  OBVIOUS
<1>13. d \in [Resources -> Int] /\ (\A r \in Kept : d[r] = 0) /\ (TechPaid => \A r \in Resources : d[r] >= 0)
  BY <1>12, DiscountValues
<1>14. PICK h3 : h3 = Credited(h2, d)
  OBVIOUS
<1>15. /\ h3 \in Factions /\ h3.store = h2.store /\ h3.unit = h2.unit /\ h3.manager = h2.manager
       /\ \A r \in Resources :
            h3.amount[r] = IF d[r] = 0 \/ Class[r] = "static" \/ h2.amount[r] + d[r] <= h2.store[r]
                           THEN h2.amount[r] + d[r] ELSE h2.store[r]
  BY <1>10, <1>13, <1>14, CreditedFields
\* The store.
<1>16. PICK h4 : h4 = StoreAdded(h3, t)
  OBVIOUS
<1>17. /\ h4 \in Factions /\ h4.amount = h3.amount /\ h4.unit = h3.unit /\ h4.manager = h3.manager
       /\ \A r \in Resources : Stores[t][r] \in Nat /\ h4.store[r] = h3.store[r] + Stores[t][r]
  BY <1>15, <1>16, StoreAddedFields
<1>18. PICK h5 : h5 = StoreRemoved(h4, old)
  OBVIOUS
<1>19. /\ h5 \in Factions /\ h5.unit = h4.unit /\ h5.manager = h4.manager
       /\ \A r \in Resources : h5.store[r] = h4.store[r] - Stores[old][r]
       /\ \A r \in StaticResources : h5.amount[r] = h4.amount[r]
       /\ \A r \in Resources \ StaticResources :
            h5.amount[r] = IF h4.amount[r] > h5.store[r] THEN h5.store[r] ELSE h4.amount[r]
  <2>1. StoreLowered(h4, old, h5)
    BY <1>17, <1>18, StoreRemovedFields
  <2> QED BY <2>1 DEF StoreLowered
\* What the new type adds.
<1>20. PICK only : only = Only(Cost[t], StaticResources \ Costs(t))
  OBVIOUS
<1>21. PICK c2 : c2 = Negated(only)
  OBVIOUS
<1>22. /\ c2 \in [Resources -> Int] /\ only \in [Resources -> Int]
       /\ \A r \in Resources : only[r] = IF r \in StaticResources \ Costs(t) THEN Cost[t][r] ELSE 0
       /\ \A r \in Resources : c2[r] = -only[r]
  <2>1. PICK R : R = StaticResources \ Costs(t)
    OBVIOUS
  <2>2. PICK cost : cost = Cost[t]
    OBVIOUS
  <2>3. OnlyOf(cost, R, only, c2)
    BY <1>1, <1>20, <1>21, <2>1, <2>2 DEF OnlyOf
  <2>4. /\ only \in [Resources -> Int] /\ c2 \in [Resources -> Int]
        /\ \A r \in Resources : /\ only[r] = IF r \in R THEN cost[r] ELSE 0
                                /\ c2[r] = -only[r]
    BY <2>3, OnlyValues
  <2> QED BY <2>1, <2>2, <2>4
<1>23. g = Credited(h5, c2)
  BY <1>11, <1>12, <1>14, <1>16, <1>18, <1>20, <1>21
     DEF Morphed, DiscountApplied, StaticProductionApplied
<1>24. /\ g \in Factions /\ g.store = h5.store /\ g.unit = h5.unit /\ g.manager = h5.manager
       /\ \A r \in Resources :
            g.amount[r] = IF c2[r] = 0 \/ Class[r] = "static" \/ h5.amount[r] + c2[r] <= h5.store[r]
                          THEN h5.amount[r] + c2[r] ELSE h5.store[r]
  BY <1>19, <1>22, <1>23, CreditedFields
\* All together.
<1>25. g.unit = h2.unit /\ g.manager = f.manager
  BY <1>5, <1>10, <1>15, <1>17, <1>19, <1>24
<1>26. OthersStay(f, u, g) /\ g.unit[u] = y
  BY <1>5, <1>10, <1>24, <1>25 DEF OthersStay
<1>27. \A r \in Resources : g.store[r] = f.store[r] + Stores[t][r] - Stores[old][r]
  <2> TAKE r \in Resources
  <2>1. h3.store[r] = f.store[r] /\ h4.store[r] = h3.store[r] + Stores[t][r]
        /\ g.store[r] = h4.store[r] - Stores[old][r]
    BY <1>5, <1>10, <1>15, <1>17, <1>19, <1>24
  <2>2. f.store[r] \in Int /\ Stores[t][r] \in Nat /\ Stores[old][r] \in Nat
    BY <1>1 DEF Factions
  <2> QED BY <2>1, <2>2
<1>28. ASSUME NEW r \in Kept
       PROVE  g.amount[r] = f.amount[r] + Cost[old][r] - (IF r \in Costs(t) THEN 0 ELSE Cost[t][r])
  <2>1. r \in StaticResources /\ r \in RecoupCost /\ r \in Resources /\ Class[r] = "static"
    BY DEF Kept, StaticResources
  <2>2. f.amount[r] \in Int /\ Cost[old][r] \in Int /\ Cost[t][r] \in Int
    BY <1>1, <2>1 DEF Factions
  <2>3. h2.amount[r] = f.amount[r] + Cost[old][r]
    BY <1>3, <1>5, <1>10, <2>1
  <2>4. h3.amount[r] = h2.amount[r] + d[r] /\ d[r] = 0
    BY <1>13, <1>15, <2>1
  <2>5. h5.amount[r] = h3.amount[r]
    BY <1>17, <1>19, <2>1
  <2>6. g.amount[r] = h5.amount[r] + c2[r] /\ c2[r] = -only[r]
        /\ only[r] = (IF r \in Costs(t) THEN 0 ELSE Cost[t][r])
    BY <1>22, <1>24, <2>1
  <2> QED BY <2>2, <2>3, <2>4, <2>5, <2>6
<1>29. ASSUME TechPaid, Within(f), \A r \in Resources : g.store[r] >= 0
       PROVE  Within(g)
  <2> SUFFICES ASSUME NEW r \in Resources \ StaticResources PROVE g.amount[r] \in 0 .. g.store[r]
    BY DEF Within
  <2>1. f.amount[r] \in 0 .. f.store[r] /\ f.store[r] \in Int /\ f.amount[r] \in Int
    BY <1>29 DEF Within, Factions
  <2>2. c1[r] = 0 /\ only[r] = 0 /\ c2[r] = -only[r]
    BY <1>3, <1>22
  <2>3. h2.amount[r] = f.amount[r] /\ h2.store[r] = f.store[r]
    BY <1>5, <1>10, <2>1, <2>2
  <2>4. d[r] \in Int /\ d[r] >= 0 /\ Class[r] # "static"
    BY <1>13, <1>29 DEF StaticResources
  <2>5. h3.amount[r] \in 0 .. f.store[r]
    <3>1. h3.amount[r] = IF d[r] = 0 \/ h2.amount[r] + d[r] <= h2.store[r]
                         THEN h2.amount[r] + d[r] ELSE h2.store[r]
      BY <1>15, <2>4
    <3> QED BY <2>1, <2>3, <2>4, <3>1
  <2>6. h5.amount[r] = IF h3.amount[r] > h5.store[r] THEN h5.store[r] ELSE h3.amount[r]
    BY <1>17, <1>19
  <2>7. g.store[r] = h5.store[r] /\ h5.store[r] \in Int /\ h5.store[r] >= 0
    BY <1>19, <1>24, <1>29 DEF Factions
  <2>8. h5.amount[r] \in 0 .. h5.store[r]
    BY <2>1, <2>5, <2>6, <2>7
  <2>9. g.amount[r] = h5.amount[r] + c2[r]
    BY <1>24, <2>2
  <2> QED BY <2>2, <2>7, <2>8, <2>9
<1>30. /\ g.unit[u].type = t /\ g.unit[u].alive = f.unit[u].alive
       /\ g.unit[u].skill = f.unit[u].skill /\ g.unit[u].commands = f.unit[u].commands
  BY <1>6, <1>8, <1>26
<1> QED BY <1>24, <1>25, <1>26, <1>27, <1>28, <1>29, <1>30

\* A unit that morphs.
LEMMA MorphKeeps ==
    ASSUME NEW bound \in [Resources -> Int], NEW f, EcoInv(f, bound), NEW u \in Ids,
           f.unit[u].skill \notin {"none", "beBuilt"}, f.unit[u].commands # <<>>,
           NEW c, c = f.unit[u].commands[1], c.class = "morph", NEW g \in MorphUpdates(f, u, c)
    PROVE  EcoInv(g, bound) /\ g.unit[u].skill # "none"
<1>1. f \in Factions
  BY DEF EcoInv
<1>2. CASE g = WithSkill(f, u, "morph")
  <2>1. "morph" \in Skills \ {"none", "beBuilt"}
    BY DEF Skills
  <2> QED BY <1>2, <2>1, SkillKeeps
<1>3. CASE g = LastCancelled(f, u)
  BY <1>3, CancelKeeps
<1>4. CASE g = f
  BY <1>4
<1>5. CASE g = WithSkill(LastCancelled(f, u), u, "stop")
  BY <1>5, CancelAndStopKeeps
<1>6. CASE g = FinishedAndStopped(Morphed(f, u, c.of), u)
  <2>1. PICK t : t = c.of
    OBVIOUS
  <2>2. PICK x : x = f.unit[u]
    OBVIOUS
  <2>3. x \in UnitRecord /\ UnitSound(x) /\ x.commands \in Seq(KnownCommand)
    BY <1>1, <2>2 DEF EcoInv, UnitsSound, Factions, UnitRecord
  <2>4. PICK old : old = x.type
    OBVIOUS
  <2>5. old \in UnitTypes
    BY <2>2, <2>3, <2>4 DEF UnitSound
  <2>6. c \in KnownCommand
    <3>1. PICK s \in Seq(KnownCommand) : s = x.commands
      BY <2>3
    <3> HIDE DEF KnownCommand
    <3>2. s[1] \in KnownCommand
      BY <2>2, <3>1
    <3> QED BY <2>2, <3>1, <3>2
  <2>7. t \in UnitTypes
    BY <2>1, <2>6, CommandKinds
  <2>8. PICK k : k = Morphed(f, u, t)
    OBVIOUS
  <2>9. /\ k \in Factions /\ OthersStay(f, u, k) /\ k.manager = f.manager
        /\ k.unit[u].type = t
        /\ k.unit[u].skill = f.unit[u].skill /\ k.unit[u].commands = f.unit[u].commands
        /\ \A r \in Resources : k.store[r] = f.store[r] + Stores[t][r] - Stores[old][r]
        /\ \A r \in Kept :
             k.amount[r] = f.amount[r] + Cost[old][r] - (IF r \in Costs(t) THEN 0 ELSE Cost[t][r])
        /\ TechPaid /\ Within(f) /\ (\A r \in Resources : k.store[r] >= 0) => Within(k)
    BY <1>1, <2>2, <2>4, <2>5, <2>7, <2>8, MorphedFields
  <2>10. PICK y : y = k.unit[u]
    OBVIOUS
  <2>11. /\ y \in UnitRecord /\ y.type = t /\ y.skill = x.skill /\ y.commands = x.commands
         /\ x.skill \notin {"none", "beBuilt"}
    BY <2>2, <2>9, <2>10 DEF Factions
  <2>12. /\ g \in Factions /\ OthersStay(k, u, g) /\ Leaves(k, g)
         /\ g.unit[u].skill = "stop" /\ g.unit[u].type = k.unit[u].type
         /\ Loses(k.unit[u], 1, g.unit[u])
         /\ Len(g.unit[u].commands) <= Len(k.unit[u].commands)
    <3>1. g = FinishedAndStopped(k, u) /\ k.unit[u].skill \notin {"none", "beBuilt"}
      BY <1>6, <2>1, <2>8, <2>9
    <3>2. k.unit[u].commands # <<>> /\ k \in Factions
      BY <2>9
    <3> QED BY <3>1, <3>2, FinishedFields
  <2>13. LostDelta(k, c, g)
    BY <2>9, <2>12, LostInAll
  <2>14. Delta(f, x, k, y)
    BY <2>2, <2>9, <2>10, DeltaOfUnit
  <2>15. \A p : CountOf(p)[y] <= CountOf(p)[x] + (IF t = p THEN 1 ELSE 0)
    <3> SUFFICES ASSUME NEW p PROVE CountOf(p)[y] <= CountOf(p)[x] + (IF t = p THEN 1 ELSE 0)
      OBVIOUS
    <3>1. /\ CountOf(p)[x] = Present(x, p) + SeqTotal(x.commands, IsFor(p))
          /\ Present(x, p) \in {0, 1} /\ SeqTotal(x.commands, IsFor(p)) \in Nat
      BY <2>3, ShareTypes
    <3>2. CountOf(p)[y] = Present(y, p) + SeqTotal(x.commands, IsFor(p))
      BY <2>11, ShareTypes
    <3>3. Present(y, p) = 0 \/ (Present(y, p) = 1 /\ t = p)
      BY <2>11 DEF Present
    <3> QED BY <3>1, <3>2, <3>3
  <2>16. \A r \in Resources : ShareOf(r)[y] = ShareOf(r)[x] - Cost[old][r] + Cost[t][r]
    <3> TAKE r \in Resources
    <3>1. /\ ShareOf(r)[x] = Held(x, r) + SeqTotal(x.commands, Holds(r))
          /\ SeqTotal(x.commands, Holds(r)) \in Nat
      BY <2>3, ShareTypes
    <3>2. ShareOf(r)[y] = Held(y, r) + SeqTotal(x.commands, Holds(r))
      BY <2>11, ShareTypes
    <3>3. Held(x, r) = Cost[old][r] /\ Held(y, r) = Cost[t][r]
      <4>1. t # NoUnit /\ old # NoUnit
        BY <2>5, <2>7, EconomyConstants
      <4> QED BY <2>4, <2>11, <4>1 DEF Held, HeldByUnit
    <3>4. Cost[old][r] \in Int /\ Cost[t][r] \in Int
      BY <2>5, <2>7, EconomyConstants
    <3> QED BY <3>1, <3>2, <3>3, <3>4
  <2>17. \A r \in Resources : StoreShare(r)[x] = Stores[old][r] /\ StoreShare(r)[y] = Stores[t][r]
    BY <2>3, <2>4, <2>5, <2>7, <2>11 DEF StoreShare
  <2>18. \A r \in Resources :
           g.store[r] - f.store[r] = Capacity(r, g) - Capacity(r, f) /\ g.store[r] = Capacity(r, g)
    <3> TAKE r \in Resources
    <3>1. /\ Capacity(r, f) \in Int /\ Capacity(r, k) \in Int
          /\ Capacity(r, k) = Capacity(r, f) - StoreShare(r)[x] + StoreShare(r)[y]
      BY <2>14 DEF Delta
    <3>2. Capacity(r, g) = Capacity(r, k)
      BY <2>13 DEF LostDelta
    <3>3. StoreShare(r)[x] = Stores[old][r] /\ StoreShare(r)[y] = Stores[t][r]
      BY <2>17
    <3>4. Stores[t][r] \in Nat /\ Stores[old][r] \in Nat /\ f.store[r] \in Int
      BY <1>1, <2>5, <2>7, EconomyConstants DEF Factions
    <3>5. g.store[r] = f.store[r] + Stores[t][r] - Stores[old][r]
      BY <2>9, <2>12 DEF Leaves
    <3>6. f.store[r] = Capacity(r, f)
      BY DEF EcoInv, StoreRight
    <3> QED BY <3>1, <3>2, <3>3, <3>4, <3>5, <3>6
  <2>19. NoGrowth(f, g)
    <3>1. \A p \in Restricted \cup Upgrades : Counted(p, g) <= Counted(p, f)
      <4> TAKE p \in Restricted \cup Upgrades
      <4>1. /\ Counted(p, f) \in Int /\ Counted(p, k) \in Int
            /\ CountOf(p)[x] \in Nat /\ CountOf(p)[y] \in Nat
            /\ Counted(p, k) = Counted(p, f) - CountOf(p)[x] + CountOf(p)[y]
        BY <2>14 DEF Delta
      <4>2. Counted(p, g) = Counted(p, k) - (IF t = p THEN 1 ELSE 0)
        BY <2>1, <2>13 DEF LostDelta
      <4>3. CountOf(p)[y] <= CountOf(p)[x] + (IF t = p THEN 1 ELSE 0)
        BY <2>15
      <4> QED BY <4>1, <4>2, <4>3
    <3>2. \A r \in Kept : g.amount[r] + InUse(r, g) <= f.amount[r] + InUse(r, f)
      <4> TAKE r \in Kept
      <4>1. r \in Resources
        BY DEF Kept, StaticResources
      <4>2. /\ InUse(r, f) \in Int /\ InUse(r, k) \in Int
            /\ ShareOf(r)[x] \in Int /\ ShareOf(r)[y] \in Int
            /\ InUse(r, k) = InUse(r, f) - ShareOf(r)[x] + ShareOf(r)[y]
        BY <2>14, <4>1 DEF Delta
      <4>3. ShareOf(r)[y] = ShareOf(r)[x] - Cost[old][r] + Cost[t][r]
        BY <2>16, <4>1
      <4>4. HeldByOrder(c, r) \in Nat /\ InUse(r, g) = InUse(r, k) - HeldByOrder(c, r)
        BY <2>13, <4>1 DEF LostDelta
      <4>5. HeldByOrder(c, r) = IF r \in Costs(t) THEN Cost[t][r] ELSE 0
        BY <2>1 DEF HeldByOrder, HasProduced
      <4>6. Cost[old][r] \in Int /\ Cost[t][r] \in Int /\ f.amount[r] \in Int
        BY <1>1, <2>5, <2>7, <4>1, EconomyConstants DEF Factions
      <4>7. g.amount[r] = f.amount[r] + Cost[old][r] - (IF r \in Costs(t) THEN 0 ELSE Cost[t][r])
        <5>1. k.amount[r] = f.amount[r] + Cost[old][r] - (IF r \in Costs(t) THEN 0 ELSE Cost[t][r])
          BY <2>9
        <5> QED BY <2>12, <5>1 DEF Leaves
      <4>8. InUse(r, g) = InUse(r, f) - Cost[old][r] + Cost[t][r] - HeldByOrder(c, r)
        <5>1. PICK a \in Int : a = Cost[old][r]
          BY <4>6
        <5>2. PICK b \in Int : b = Cost[t][r]
          BY <4>6
        <5>3. ShareOf(r)[y] = ShareOf(r)[x] - a + b
          BY <4>3, <5>1, <5>2
        <5>4. InUse(r, k) = InUse(r, f) - a + b
          BY <4>2, <5>3
        <5> QED BY <4>2, <4>4, <5>1, <5>2, <5>4
      <4>9. CASE r \in Costs(t)
        <5>1. g.amount[r] = f.amount[r] + Cost[old][r]
          BY <4>6, <4>7, <4>9
        <5>2. InUse(r, g) = InUse(r, f) - Cost[old][r]
          BY <4>2, <4>5, <4>6, <4>8, <4>9
        <5> QED BY <4>2, <4>6, <5>1, <5>2
      <4>10. CASE r \notin Costs(t)
        <5>1. g.amount[r] = f.amount[r] + Cost[old][r] - Cost[t][r]
          BY <4>7, <4>10
        <5>2. InUse(r, g) = InUse(r, f) - Cost[old][r] + Cost[t][r]
          BY <4>2, <4>5, <4>6, <4>8, <4>10
        <5> QED BY <4>2, <4>6, <5>1, <5>2
      <4> QED BY <4>9, <4>10
    <3>3. g.manager = f.manager
      BY <2>9, <2>12 DEF Leaves
    <3> QED BY <1>1, <2>12, <2>18, <3>1, <3>2, <3>3 DEF NoGrowth
  <2>20. UnitsSound(g)
    <3>1. UnitSound(g.unit[u])
      <4>1. Len(g.unit[u].commands) \in Nat /\ Len(x.commands) \in Nat
        BY <2>3, <2>12 DEF Factions, UnitRecord
      <4>2. Len(g.unit[u].commands) <= MaxCommands
        <5>1. Len(x.commands) <= MaxCommands /\ Len(g.unit[u].commands) <= Len(x.commands)
          BY <2>2, <2>3, <2>9, <2>12 DEF UnitSound
        <5> QED BY <4>1, <5>1, EconomyConstants
      <4> QED BY <2>7, <2>9, <2>12, <4>2 DEF UnitSound
    <3> QED BY <2>9, <2>12, <3>1 DEF EcoInv, UnitsSound, OthersStay
  <2>21. PaidFor(g)
    <3> SUFFICES ASSUME TechPaid PROVE Within(g)
      BY DEF PaidFor
    <3>1. \A r \in Resources : g.store[r] >= 0
      <4> TAKE r \in Resources
      <4>1. Capacity(r, g) \in Nat
        BY <2>12, SumsTyped
      <4> QED BY <2>18, <4>1
    <3>2. Within(f)
      BY DEF EcoInv, PaidFor
    <3>3. Within(k)
      BY <2>9, <2>12, <3>1, <3>2 DEF Leaves
    <3> QED BY <2>12, <3>3 DEF Within, Leaves
  <2> QED BY <2>12, <2>19, <2>20, <2>21, NoGrowthKeeps
<1> QED BY <1>2, <1>3, <1>4, <1>5, <1>6 DEF MorphUpdates

-----------------------------------------------------------------------------
(* The steps of a unit.                                                    *)

LEMMA CommandUpdatesKeep ==
    ASSUME NEW bound \in [Resources -> Int], NEW f, EcoInv(f, bound), NEW u \in Ids,
           f.unit[u].skill # "none", NEW g \in CommandUpdates(f, u)
    PROVE  EcoInv(g, bound) /\ g.unit[u].skill # "none"
<1>1. CASE f.unit[u].commands = <<>>
  BY <1>1 DEF CommandUpdates
<1>2. CASE f.unit[u].commands # <<>>
  <2>1. f \in Factions /\ UnitSound(f.unit[u])
    BY DEF EcoInv, UnitsSound
  <2>2. f.unit[u].skill \notin {"none", "beBuilt"}
    BY <1>2, <2>1 DEF UnitSound
  <2>3. PICK s \in Seq(KnownCommand) : s = f.unit[u].commands
    BY <2>1 DEF Factions, UnitRecord
  <2>4. PICK c : c = s[1]
    OBVIOUS
  <2>5. c \in KnownCommand /\ Head(s) = c
    <3> HIDE DEF KnownCommand
    <3> QED BY <1>2, <2>3, <2>4
  <2>6. c = f.unit[u].commands[1]
    BY <2>3, <2>4
  <2>7. c.class \in Classes
    BY <2>5, CommandKinds
  <2>8. g \in (CASE c.class = "produce" -> ProduceUpdates(f, u, c)
                 [] c.class = "upgrade" -> UpgradeUpdates(f, u, c)
                 [] c.class = "morph" -> MorphUpdates(f, u, c)
                 [] c.class = "build" -> BuildUpdates(f, u, c)
                 [] c.class = "stop" -> {WithSkill(f, u, "stop")})
    BY <1>2, <2>3, <2>5 DEF CommandUpdates
  <2>9. CASE c.class = "produce"
    <3>1. g \in ProduceUpdates(f, u, c)
      BY <2>8, <2>9
    <3> QED BY <1>2, <2>2, <2>6, <2>9, <3>1, ProduceKeeps
  <2>10. CASE c.class = "upgrade"
    <3>1. g \in UpgradeUpdates(f, u, c)
      BY <2>8, <2>10
    <3> QED BY <1>2, <2>2, <2>5, <2>10, <3>1, UpgradeKeeps
  <2>11. CASE c.class = "morph"
    <3>1. g \in MorphUpdates(f, u, c)
      BY <2>8, <2>11
    <3> QED BY <1>2, <2>2, <2>6, <2>11, <3>1, MorphKeeps
  <2>12. CASE c.class = "build"
    <3>1. g \in BuildUpdates(f, u, c)
      BY <2>8, <2>12
    <3> QED BY <1>2, <2>2, <2>5, <2>6, <2>12, <3>1, BuildKeeps
  <2>13. CASE c.class = "stop"
    <3>1. g = WithSkill(f, u, "stop")
      BY <2>8, <2>13
    <3>2. "stop" \in Skills \ {"none", "beBuilt"}
      BY DEF Skills
    <3> QED BY <2>2, <3>1, <3>2, SkillKeeps
  <2> QED BY <2>7, <2>9, <2>10, <2>11, <2>12, <2>13 DEF Classes
<1> QED BY <1>1, <1>2

\* What a player can order, and what a unit orders itself.
LEMMA OrderedCommand ==
    ASSUME NEW t \in UnitTypes, NEW o \in Orders[t]
    PROVE  Command(o) \in KnownCommand
<1>1. o \in OrderTypes
  BY EconomyConstants
<1>2. PICK class : class = o.class
  OBVIOUS
<1>3. PICK of : of = o.of
  OBVIOUS
<1>4. /\ class \in Classes /\ of \in UnitTypes \cup Upgrades \cup {NoUnit}
      /\ o = [class |-> class, of |-> of]
  BY <1>1, <1>2, <1>3 DEF OrderTypes, Classes
<1>5. o.class = "build" => o.of \in BuiltTypes
  BY DEF BuiltTypes
<1>6. PICK c : c = Command(o)
  OBVIOUS
<1>7. /\ c = [class |-> class, of |-> of, site |-> NoUnit]
      /\ c.class = class /\ c.of = of
  BY <1>2, <1>3, <1>6 DEF Command
<1>8. [class |-> c.class, of |-> c.of] \in OrderTypes
  BY <1>1, <1>4, <1>7
<1>9. c \in [class : Classes, of : UnitTypes \cup Upgrades \cup {NoUnit}, site : Ids \cup {NoUnit}]
  BY <1>4, <1>7
<1>10. c \in CommandType
  BY <1>8, <1>9 DEF CommandType
<1> QED BY <1>2, <1>3, <1>5, <1>6, <1>7, <1>10 DEF KnownCommand

LEMMA IdleKeeps ==
    ASSUME NEW bound \in [Resources -> Int], NEW f, EcoInv(f, bound), NEW u \in Ids,
           f.unit[u].skill # "none", NEW g, g = Idle(f, u)
    PROVE  EcoInv(g, bound) /\ g.unit[u].skill # "none"
<1>1. f \in Factions /\ UnitSound(f.unit[u])
  BY DEF EcoInv, UnitsSound
<1>2. CASE f.unit[u].commands # <<>> \/ ~Operative(f, u)
  BY <1>2 DEF Idle
<1>3. CASE f.unit[u].commands = <<>> /\ Operative(f, u)
  <2>1. f.unit[u].skill \notin {"none", "beBuilt"}
    BY <1>3 DEF Operative
  <2>2. PICK h : h = WithSkill(f, u, "stop")
    OBVIOUS
  <2>3. "stop" \in Skills \ {"none", "beBuilt"}
    BY DEF Skills
  <2>4. EcoInv(h, bound) /\ h.unit[u].skill # "none"
    BY <2>1, <2>2, <2>3, SkillKeeps
  <2>5. PICK stop : stop = [class |-> "stop", of |-> NoUnit]
    OBVIOUS
  <2>6. CASE stop \in Orders[f.unit[u].type]
    <3>1. PICK t : t = f.unit[u].type
      OBVIOUS
    <3>2. t \in UnitTypes
      BY <1>1, <2>1, <3>1 DEF UnitSound
    <3>3. Command(stop) \in KnownCommand
      BY <2>6, <3>1, <3>2, OrderedCommand
    <3>7. PICK c : c = Command(stop)
      OBVIOUS
    <3>8. PICK tryQueue : tryQueue = FALSE
      OBVIOUS
    <3>4. g = Given(h, u, c, tryQueue)
      BY <1>3, <2>2, <2>5, <2>6, <3>7, <3>8 DEF Idle
    <3>9. c \in KnownCommand
      BY <3>3, <3>7
    <3>5. h.unit[u].commands = f.unit[u].commands
      BY <1>1, <2>2, <2>3, SkillFields
    <3>6. Len(h.unit[u].commands) < MaxCommands
      <4>1. Len(h.unit[u].commands) = 0
        BY <1>3, <3>5
      <4> QED BY <4>1, EconomyConstants
    <3> QED BY <2>4, <3>4, <3>6, <3>9, GivenKeeps
  <2>7. CASE stop \notin Orders[f.unit[u].type]
    <3>1. g = h
      BY <1>3, <2>2, <2>5, <2>7 DEF Idle
    <3> QED BY <2>4, <3>1
  <2> QED BY <2>6, <2>7
<1> QED BY <1>2, <1>3

\* What is gone counts for nothing.
LEMMA RemovedKeeps ==
    ASSUME NEW bound \in [Resources -> Int], NEW f, EcoInv(f, bound), NEW u \in Ids,
           NEW t \in UnitTypes, t = f.unit[u].type, f.unit[u].skill # "none",
           NEW returned \in [Resources -> Int],
           \A r \in Kept : returned[r] <= HeldByUnit(f.unit[u], r),
           NEW less \in [Resources -> Int],
           \A r \in Resources : less[r] = bound[r] - returned[r],
           NEW g, g = Put(IF f.unit[u].skill = "beBuilt" THEN f ELSE StoreRemoved(f, t), u, Gone)
    PROVE  EcoInv(g, less)
<1>1. f \in Factions
  BY DEF EcoInv
<1>2. PICK x : x = f.unit[u]
  OBVIOUS
<1>3. x \in UnitRecord /\ UnitSound(x) /\ x.type = t /\ x.skill # "none"
  BY <1>1, <1>2 DEF EcoInv, UnitsSound, Factions
<1>4. PICK h : h = IF x.skill = "beBuilt" THEN f ELSE StoreRemoved(f, t)
  OBVIOUS
<1>5. /\ h \in Factions /\ h.unit = f.unit /\ h.manager = f.manager
      /\ \A r \in StaticResources : h.amount[r] = f.amount[r]
      /\ \A r \in Resources : h.store[r] = f.store[r] - (IF x.skill = "beBuilt" THEN 0 ELSE Stores[t][r])
      /\ \A r \in Resources \ StaticResources :
           \/ h.amount[r] = f.amount[r] /\ h.store[r] = f.store[r]
           \/ h.amount[r] = IF f.amount[r] > h.store[r] THEN h.store[r] ELSE f.amount[r]
  <2>1. CASE x.skill = "beBuilt"
    <3>1. h = f
      BY <1>4, <2>1
    <3>2. \A r \in Resources : f.store[r] \in Int
      BY <1>1 DEF Factions
    <3> QED BY <1>1, <2>1, <3>1, <3>2
  <2>2. CASE x.skill # "beBuilt"
    <3>1. h = StoreRemoved(f, t)
      BY <1>4, <2>2
    <3> QED BY <1>1, <2>2, <3>1, StoreRemovedFields DEF StoreLowered
  <2> QED BY <2>1, <2>2
<1>6. Gone \in UnitRecord
  BY GoneCounts
<1>7. g = Put(h, u, Gone)
  BY <1>2, <1>4
<1>8. /\ OthersStay(h, u, g) /\ g \in Factions /\ g.unit[u] = Gone
      /\ g.amount = h.amount /\ g.store = h.store /\ g.manager = h.manager
  BY <1>5, <1>6, <1>7, UnitPut
<1>9. OthersStay(f, u, g)
  BY <1>1, <1>5, <1>8 DEF OthersStay
<1>10. Delta(f, x, g, Gone)
  BY <1>2, <1>8, <1>9, DeltaOfUnit
<1>11. \A r \in Resources : g.store[r] = Capacity(r, g)
  <2> TAKE r \in Resources
  <2>1. /\ Capacity(r, f) \in Int
        /\ Capacity(r, g) = Capacity(r, f) - StoreShare(r)[x] + StoreShare(r)[Gone]
    BY <1>10 DEF Delta
  <2>2. StoreShare(r)[x] = (IF x.skill = "beBuilt" THEN 0 ELSE Stores[t][r]) /\ StoreShare(r)[x] \in Int
    BY <1>3, EconomyConstants DEF StoreShare
  <2>3. StoreShare(r)[Gone] = 0
    BY GoneCounts
  <2>4. g.store[r] = f.store[r] - StoreShare(r)[x] /\ f.store[r] = Capacity(r, f)
    BY <1>5, <1>8, <2>2 DEF EcoInv, StoreRight
  <2> QED BY <2>1, <2>2, <2>3, <2>4
<1>12. \A p \in Restricted \cup Upgrades : Counted(p, g) <= Counted(p, f)
  <2> TAKE p \in Restricted \cup Upgrades
  <2>1. /\ Counted(p, f) \in Int /\ CountOf(p)[x] \in Nat
        /\ Counted(p, g) = Counted(p, f) - CountOf(p)[x] + CountOf(p)[Gone]
    BY <1>10 DEF Delta
  <2>2. CountOf(p)[Gone] = 0
    BY GoneCounts
  <2> QED BY <2>1, <2>2
<1>13. NothingGained(g, less)
  <2> SUFFICES ASSUME NEW r \in Kept PROVE g.amount[r] + InUse(r, g) <= less[r]
    BY DEF NothingGained
  <2>1. r \in Resources /\ r \in StaticResources
    BY DEF Kept, StaticResources
  <2>2. /\ InUse(r, f) \in Int /\ ShareOf(r)[x] \in Int
        /\ InUse(r, g) = InUse(r, f) - ShareOf(r)[x] + ShareOf(r)[Gone]
    BY <1>10, <2>1 DEF Delta
  <2>3. ShareOf(r)[Gone] = 0
    BY <2>1, GoneCounts
  <2>4. returned[r] <= ShareOf(r)[x]
    <3>1. /\ ShareOf(r)[x] = Held(x, r) + SeqTotal(x.commands, Holds(r))
          /\ SeqTotal(x.commands, Holds(r)) \in Nat /\ Held(x, r) \in Int
      BY <1>3, <2>1, ShareTypes
    <3>2. returned[r] <= Held(x, r) /\ returned[r] \in Int
      BY <1>2, <2>1 DEF Held
    <3> QED BY <3>1, <3>2
  <2>5. g.amount[r] = f.amount[r] /\ f.amount[r] \in Int
    BY <1>1, <1>5, <1>8, <2>1 DEF Factions
  <2>6. f.amount[r] + InUse(r, f) <= bound[r]
    BY DEF EcoInv, NothingGained
  <2>7. less[r] = bound[r] - returned[r] /\ bound[r] \in Int /\ returned[r] \in Int
    BY <2>1
  <2> QED BY <2>2, <2>3, <2>4, <2>5, <2>6, <2>7
<1>14. CountsKept(g)
  <2> SUFFICES ASSUME StartWithinMaximum, NEW p \in Restricted PROVE Counted(p, g) <= MaxUnitCount[p]
    BY DEF CountsKept
  <2>1. Counted(p, f) <= MaxUnitCount[p] /\ MaxUnitCount[p] \in Nat
    BY EconomyConstants DEF EcoInv, CountsKept, Restricted
  <2>2. Counted(p, g) <= Counted(p, f)
    BY <1>12
  <2>3. Counted(p, f) \in Int /\ Counted(p, g) \in Int
    BY <1>10 DEF Delta
  <2> QED BY <2>1, <2>2, <2>3
<1>15. ResearchKnown(g)
  <2> SUFFICES ASSUME NEW v \in Upgrades
               PROVE  Counted(v, g) <= 1 /\ (Counted(v, g) >= 1 => IsKnown(g.manager, v))
    BY DEF ResearchKnown
  <2>1. Counted(v, f) <= 1 /\ (Counted(v, f) >= 1 => IsKnown(f.manager, v))
    BY DEF EcoInv, ResearchKnown
  <2>2. Counted(v, g) <= Counted(v, f) /\ g.manager = f.manager
    BY <1>5, <1>8, <1>12
  <2>3. Counted(v, f) \in Int /\ Counted(v, g) \in Int
    BY <1>10 DEF Delta
  <2> QED BY <2>1, <2>2, <2>3
<1>16. UnitsSound(g)
  <2>1. UnitSound(Gone)
    <3>1. Gone.skill = "none" /\ Gone.commands = <<>>
      BY DEF Gone
    <3>2. Len(Gone.commands) = 0
      BY <3>1
    <3> QED BY <3>1, <3>2, EconomyConstants DEF UnitSound
  <2> QED BY <1>8, <1>9, <2>1 DEF EcoInv, UnitsSound, OthersStay
<1>17. PaidFor(g)
  <2> SUFFICES ASSUME TechPaid, NEW r \in Resources \ StaticResources
               PROVE  g.amount[r] \in 0 .. g.store[r]
    BY DEF PaidFor, Within
  <2>1. f.amount[r] \in 0 .. f.store[r] /\ f.store[r] \in Int
    BY <1>1 DEF EcoInv, PaidFor, Within, Factions
  <2>2. Capacity(r, g) \in Nat
    BY <1>8, SumsTyped
  <2>3. g.store[r] \in Nat /\ h.store[r] = g.store[r] /\ h.amount[r] = g.amount[r]
    BY <1>8, <1>11, <2>2
  <2> QED BY <1>5, <2>1, <2>3
<1> QED BY <1>8, <1>11, <1>13, <1>14, <1>15, <1>16, <1>17 DEF EcoInv, StoreRight

\* kill: what the costs of the unit return is what the unit held.
LEMMA KilledKeeps ==
    ASSUME NEW bound \in [Resources -> Int], NEW f, EcoInv(f, bound), NEW u \in Ids,
           f.unit[u].skill # "none", NEW g, g = Killed(f, u)
    PROVE  EcoInv(g, bound)
<1>1. f \in Factions /\ UnitSound(f.unit[u])
  BY DEF EcoInv, UnitsSound
<1>2. PICK t : t = f.unit[u].type
  OBVIOUS
<1>3. t \in UnitTypes /\ (f.unit[u].skill = "beBuilt" => t \in BuiltTypes)
  BY <1>1, <1>2 DEF UnitSound
<1>4. PICK R : R = IF f.unit[u].skill = "beBuilt" THEN StaticResources \cap Costs(t)
                                                  ELSE StaticResources \cap RecoupCost
  OBVIOUS
<1>5. PICK cost : cost = Cost[t]
  OBVIOUS
<1>6. PICK returned : returned = Only(cost, R)
  OBVIOUS
<1>7. /\ returned \in [Resources -> Int]
      /\ \A r \in Resources : returned[r] = IF r \in R THEN cost[r] ELSE 0
  <2>1. PICK negated : negated = Negated(returned)
    OBVIOUS
  <2>2. OnlyOf(cost, R, returned, negated)
    BY <1>3, <1>5, <1>6, <2>1, EconomyConstants DEF OnlyOf
  <2> QED BY <2>2, OnlyValues
<1>8. PICK h : h = Credited(f, returned)
  OBVIOUS
<1>9. /\ h \in Factions /\ h.store = f.store /\ h.unit = f.unit /\ h.manager = f.manager
      /\ \A r \in Resources :
           h.amount[r] = IF returned[r] = 0 \/ Class[r] = "static" \/ f.amount[r] + returned[r] <= f.store[r]
                         THEN f.amount[r] + returned[r] ELSE f.store[r]
  BY <1>1, <1>7, <1>8, CreditedFields
<1>10. PICK more : more = [r \in Resources |-> bound[r] + returned[r]]
  OBVIOUS
<1>11. more \in [Resources -> Int] /\ \A r \in Resources : bound[r] = more[r] - returned[r]
  <2>1. more \in [Resources -> Int]
    BY <1>7, <1>10
  <2>2. \A r \in Resources : bound[r] = more[r] - returned[r]
    BY <1>7, <1>10
  <2> QED BY <2>1, <2>2
<1>12. EcoInv(h, more)
  <2>1. UnitsSound(h) /\ CountsKept(h) /\ ResearchKnown(h) /\ StoreRight(h)
    BY <1>9 DEF EcoInv, UnitsSound, CountsKept, ResearchKnown, StoreRight, Counted, Capacity, Weigh
  <2>2. PaidFor(h)
    <3> SUFFICES ASSUME TechPaid, NEW r \in Resources \ StaticResources
                 PROVE  h.amount[r] \in 0 .. h.store[r]
      BY DEF PaidFor, Within
    <3>1. f.amount[r] \in 0 .. f.store[r] /\ f.store[r] \in Int
      BY <1>1 DEF EcoInv, PaidFor, Within, Factions
    <3>2. returned[r] = 0
      BY <1>4, <1>7
    <3>3. h.amount[r] = f.amount[r] + 0 /\ h.store[r] = f.store[r]
      BY <1>9, <3>2
    <3> QED BY <3>1, <3>3
  <2>3. NothingGained(h, more)
    <3> SUFFICES ASSUME NEW r \in Kept PROVE h.amount[r] + InUse(r, h) <= more[r]
      BY DEF NothingGained
    <3>1. r \in Resources /\ Class[r] = "static"
      BY DEF Kept, StaticResources
    <3>2. h.amount[r] = f.amount[r] + returned[r]
      BY <1>9, <3>1
    <3>3. InUse(r, h) = InUse(r, f) /\ InUse(r, f) \in Int
      BY <1>1, <1>9, <3>1, SumsTyped DEF InUse, Weigh
    <3>4. f.amount[r] \in Int /\ returned[r] \in Int /\ bound[r] \in Int /\ more[r] = bound[r] + returned[r]
      BY <1>1, <1>7, <1>10, <3>1 DEF Factions
    <3>5. f.amount[r] + InUse(r, f) <= bound[r]
      BY DEF EcoInv, NothingGained
    <3> QED BY <3>2, <3>3, <3>4, <3>5
  <2> QED BY <1>9, <2>1, <2>2, <2>3 DEF EcoInv
<1>13. PICK k : k = Cleared(h, u)
  OBVIOUS
<1>14. k \in Fewer(h, u, more)
  BY <1>11, <1>12, <1>13, ClearedFewer
<1>15. EcoInv(k, more) /\ k.unit[u].type = t /\ k.unit[u].skill = f.unit[u].skill
  BY <1>2, <1>9, <1>14 DEF Fewer, Shorter
<1>16. \A r \in Kept : returned[r] <= HeldByUnit(k.unit[u], r)
  <2> TAKE r \in Kept
  <2>1. r \in Resources /\ r \in StaticResources /\ r \in RecoupCost
    BY DEF Kept, StaticResources
  <2>2. cost[r] \in Int /\ cost[r] = Cost[t][r] /\ t # NoUnit
    BY <1>3, <1>5, <2>1, EconomyConstants
  <2>3. CASE f.unit[u].skill = "beBuilt"
    <3>1. r \notin Costs(t)
      BY <1>3, <2>3 DEF Kept
    <3>2. returned[r] = 0 /\ HeldByUnit(k.unit[u], r) = 0
      BY <1>4, <1>7, <1>15, <2>1, <2>3, <3>1 DEF HeldByUnit
    <3> QED BY <3>2
  <2>4. CASE f.unit[u].skill # "beBuilt"
    <3>1. returned[r] = cost[r]
      BY <1>4, <1>7, <2>1, <2>4
    <3>2. HeldByUnit(k.unit[u], r) = cost[r]
      BY <1>15, <2>2, <2>4 DEF HeldByUnit
    <3> QED BY <2>2, <3>1, <3>2
  <2> QED BY <2>3, <2>4
<1>17. g = Put(IF k.unit[u].skill = "beBuilt" THEN k ELSE StoreRemoved(k, t), u, Gone)
  <2>1. h = IF f.unit[u].skill = "beBuilt" THEN StaticConsumptionDeapplied(f, t) ELSE StaticCostsDeapplied(f, t)
    BY <1>4, <1>5, <1>6, <1>8 DEF StaticConsumptionDeapplied, StaticCostsDeapplied
  <2>2. PICK l : l = IF f.unit[u].skill = "beBuilt" THEN k ELSE StoreRemoved(k, t)
    OBVIOUS
  <2>3. g = [l EXCEPT !.unit[u] = Gone]
    BY <1>2, <1>13, <2>1, <2>2 DEF Killed
  <2>4. g = Put(l, u, Gone)
    BY <2>3 DEF Put
  <2> QED BY <1>15, <2>2, <2>4
<1>18. k.unit[u].skill # "none"
  BY <1>15
<1> QED BY <1>3, <1>7, <1>11, <1>15, <1>16, <1>17, <1>18, RemovedKeeps

-----------------------------------------------------------------------------
(* The steps of the world.                                                 *)

\* Some units die of hunger, or one of a wound.
Fades(f, g) ==
    /\ f \in Factions /\ g \in Factions /\ g.store = f.store /\ g.manager = f.manager
    /\ \A u \in Ids : /\ g.unit[u].type = f.unit[u].type /\ g.unit[u].skill = f.unit[u].skill
                      /\ g.unit[u].commands = f.unit[u].commands
                      /\ g.unit[u].target = f.unit[u].target
                      /\ g.unit[u].alive => f.unit[u].alive
    /\ \A u \in Ids : f.unit[u].skill = "none" => g.unit[u] = f.unit[u]
    /\ \A r \in Kept : g.amount[r] = f.amount[r]

LEMMA FadingKeeps ==
    ASSUME NEW bound \in [Resources -> Int], NEW f, EcoInv(f, bound), NEW g, Fades(f, g), PaidFor(g)
    PROVE  EcoInv(g, bound)
<1>1. /\ f \in Factions /\ g \in Factions /\ g.store = f.store /\ g.manager = f.manager
      /\ \A u \in Ids : f.unit[u] \in UnitRecord /\ g.unit[u] \in UnitRecord
  BY DEF Fades, Factions
<1>2. \A u \in Ids : \A p : CountOf(p)[g.unit[u]] <= CountOf(p)[f.unit[u]]
  <2> SUFFICES ASSUME NEW u \in Ids, NEW p PROVE CountOf(p)[g.unit[u]] <= CountOf(p)[f.unit[u]]
    OBVIOUS
  <2>1. PICK x \in UnitRecord : x = f.unit[u]
    BY <1>1
  <2>2. PICK y \in UnitRecord : y = g.unit[u]
    BY <1>1
  <2>3. /\ CountOf(p)[x] = Present(x, p) + SeqTotal(x.commands, IsFor(p))
        /\ SeqTotal(x.commands, IsFor(p)) \in Nat /\ Present(x, p) \in {0, 1}
    BY ShareTypes
  <2>4. /\ CountOf(p)[y] = Present(y, p) + SeqTotal(y.commands, IsFor(p)) /\ Present(y, p) \in {0, 1}
    BY ShareTypes
  <2>5. y.commands = x.commands
    BY <2>1, <2>2 DEF Fades
  <2>6. Present(y, p) = 1 => Present(x, p) = 1
    BY <2>1, <2>2 DEF Fades, Present
  <2>7. Present(y, p) <= Present(x, p)
    BY <2>3, <2>4, <2>6
  <2> QED BY <2>1, <2>2, <2>3, <2>4, <2>5, <2>7
<1>3. \A u \in Ids : \A r \in Resources :
        /\ ShareOf(r)[g.unit[u]] = ShareOf(r)[f.unit[u]]
        /\ StoreShare(r)[g.unit[u]] = StoreShare(r)[f.unit[u]]
  <2> TAKE u \in Ids
  <2> TAKE r \in Resources
  <2>1. PICK x \in UnitRecord : x = f.unit[u]
    BY <1>1
  <2>2. PICK y \in UnitRecord : y = g.unit[u]
    BY <1>1
  <2>3. y.commands = x.commands /\ y.type = x.type /\ y.skill = x.skill
    BY <2>1, <2>2 DEF Fades
  <2>4. /\ ShareOf(r)[x] = Held(x, r) + SeqTotal(x.commands, Holds(r))
        /\ ShareOf(r)[y] = Held(y, r) + SeqTotal(y.commands, Holds(r))
    BY ShareTypes
  <2>5. Held(y, r) = Held(x, r) /\ StoreShare(r)[y] = StoreShare(r)[x]
    BY <2>3 DEF Held, HeldByUnit, StoreShare
  <2> QED BY <2>1, <2>2, <2>3, <2>4, <2>5
<1>4. \A r \in Resources : Capacity(r, g) = Capacity(r, f) /\ InUse(r, g) = InUse(r, f)
  <2> TAKE r \in Resources
  <2>1. [u \in Ids |-> StoreShare(r)[g.unit[u]]] = [u \in Ids |-> StoreShare(r)[f.unit[u]]]
    BY <1>3
  <2>2. [u \in Ids |-> ShareOf(r)[g.unit[u]]] = [u \in Ids |-> ShareOf(r)[f.unit[u]]]
    BY <1>3
  <2> QED BY <2>1, <2>2 DEF Capacity, InUse, Weigh
<1>5. ASSUME NEW p
      PROVE  Counted(p, g) <= Counted(p, f)
  <2>1. PICK a : a = [u \in Ids |-> CountOf(p)[f.unit[u]]]
    OBVIOUS
  <2>2. PICK b : b = [u \in Ids |-> CountOf(p)[g.unit[u]]]
    OBVIOUS
  <2>3. PICK d : d = [u \in Ids |-> CountOf(p)[f.unit[u]] - CountOf(p)[g.unit[u]]]
    OBVIOUS
  <2>4. \A u \in Ids : /\ CountOf(p)[f.unit[u]] \in Nat /\ CountOf(p)[g.unit[u]] \in Nat
                       /\ CountOf(p)[g.unit[u]] <= CountOf(p)[f.unit[u]]
    BY <1>1, <1>2, ShareTypes
  <2>5. a \in [Ids -> Int] /\ b \in [Ids -> Int]
    BY <2>1, <2>2, <2>4
  <2>6. d \in [Ids -> Nat]
    BY <2>3, <2>4
  <2>7. \A u \in Ids : a[u] = b[u] + d[u]
    BY <2>1, <2>2, <2>3, <2>4
  <2>8. AddedUp(Ids, b, d, a)
    BY <2>5, <2>6, <2>7, EconomyConstants DEF AddedUp
  <2>9. Total(a) = Total(b) + Total(d)
    BY <2>8, TotalOfBoth
  <2>10. Total(d) \in Nat
    BY <2>6, TotalNatural, EconomyConstants
  <2>11. Counted(p, f) = Total(a) /\ Counted(p, g) = Total(b)
    BY <2>1, <2>2 DEF Counted, Weigh
  <2>12. Counted(p, f) \in Int /\ Counted(p, g) \in Int
    BY <1>1, SumsTyped
  <2> QED BY <2>9, <2>10, <2>11, <2>12
<1>6. NoGrowth(f, g)
  <2>1. \A r \in Resources : g.store[r] - f.store[r] = Capacity(r, g) - Capacity(r, f)
    <3> TAKE r \in Resources
    <3>1. Capacity(r, g) = Capacity(r, f) /\ Capacity(r, f) \in Int /\ f.store[r] \in Int /\ g.store[r] = f.store[r]
      BY <1>1, <1>4, SumsTyped DEF Factions
    <3> QED BY <3>1
  <2>2. \A r \in Kept : g.amount[r] + InUse(r, g) <= f.amount[r] + InUse(r, f)
    <3> TAKE r \in Kept
    <3>1. r \in Resources /\ g.amount[r] = f.amount[r] /\ f.amount[r] \in Int
      BY <1>1 DEF Kept, StaticResources, Fades, Factions
    <3>2. InUse(r, g) = InUse(r, f) /\ InUse(r, f) \in Int
      BY <1>1, <1>4, <3>1, SumsTyped
    <3> QED BY <3>1, <3>2
  <2> QED BY <1>1, <1>5, <2>1, <2>2 DEF NoGrowth
<1>7. UnitsSound(g)
  <2> SUFFICES ASSUME NEW u \in Ids PROVE UnitSound(g.unit[u])
    BY DEF UnitsSound
  <2>1. UnitSound(f.unit[u])
    BY DEF EcoInv, UnitsSound
  <2> QED BY <2>1 DEF Fades, UnitSound
<1> QED BY <1>6, <1>7, NoGrowthKeeps

-----------------------------------------------------------------------------
(* The actions.                                                            *)

\* An order is executed, or taken back.
LEMMA GiveKeeps ==
    ASSUME NEW bound \in [Resources -> Int], EcoInv(faction, bound), NEW u \in Ids, GiveCommand(u)
    PROVE  EcoInv(faction', bound)
<1>1. faction.unit[u].skill # "none" /\ Len(faction.unit[u].commands) < MaxCommands
  BY DEF GiveCommand, Standing
<1>2. faction.unit[u] \in UnitRecord /\ UnitSound(faction.unit[u])
  BY DEF EcoInv, Factions, UnitsSound
<1>3. PICK t \in UnitTypes : t = faction.unit[u].type
  BY <1>1, <1>2 DEF UnitSound
<1>4. PICK s \in UnitTypes : \E o \in Orders[s] : \E tryQueue \in BOOLEAN :
        faction' = Given(faction, u, Command(o), tryQueue)
  BY <1>3 DEF GiveCommand
<1> PICK o \in Orders[s] : \E tryQueue \in BOOLEAN :
        faction' = Given(faction, u, Command(o), tryQueue)
  BY <1>4
<1> PICK tryQueue : faction' = Given(faction, u, Command(o), tryQueue)
  OBVIOUS
<1>5. PICK c \in KnownCommand : c = Command(o)
  BY OrderedCommand
<1>6. faction' = Given(faction, u, c, tryQueue)
  BY <1>5
<1> QED BY <1>1, <1>6, GivenKeeps

LEMMA TakeBackKeeps ==
    ASSUME NEW bound \in [Resources -> Int], EcoInv(faction, bound), NEW u \in Ids, CancelCommand(u)
    PROVE  EcoInv(faction', bound)
<1>1. faction' = LastCancelled(faction, u)
  BY DEF CancelCommand
<1> QED BY <1>1, CancelKeeps

\* A unit is updated, and killed when it has died.
LEMMA UpdateKeeps ==
    ASSUME NEW bound \in [Resources -> Int], EcoInv(faction, bound), NEW u \in Ids, UpdateUnit(u)
    PROVE  EcoInv(faction', bound)
<1>1. faction.unit[u].skill # "none"
  BY DEF UpdateUnit, Standing
<1>2. PICK f \in {faction} \cup {Idle(g, u) : g \in CommandUpdates(faction, u)} :
        faction' = IF faction.unit[u].alive THEN f ELSE Killed(f, u)
  BY DEF UpdateUnit
<1>3. EcoInv(f, bound) /\ f.unit[u].skill # "none"
  <2>1. CASE f = faction
    BY <1>1, <2>1
  <2>2. CASE f # faction
    <3>1. PICK g \in CommandUpdates(faction, u) : f = Idle(g, u)
      BY <1>2, <2>2
    <3>2. EcoInv(g, bound) /\ g.unit[u].skill # "none"
      BY <1>1, CommandUpdatesKeep
    <3> QED BY <3>1, <3>2, IdleKeeps
  <2> QED BY <2>1, <2>2
<1>4. EcoInv(Killed(f, u), bound)
  BY <1>3, KilledKeeps
<1> QED BY <1>2, <1>3, <1>4

LEMMA FinishKeeps ==
    ASSUME NEW bound \in [Resources -> Int], EcoInv(faction, bound), NEW b \in Ids, FinishBuilding(b)
    PROVE  EcoInv(faction', bound)
<1>1. faction' = Born(faction, b) /\ faction.unit[b].skill = "beBuilt"
  BY DEF FinishBuilding
<1> QED BY <1>1, BornKeeps

\* A unit dies.
LEMMA DieKeeps ==
    ASSUME NEW bound \in [Resources -> Int], EcoInv(faction, bound), NEW u \in Ids, Die(u)
    PROVE  EcoInv(faction', bound)
<1>1. PICK x : x = faction.unit[u]
  OBVIOUS
<1>2. x \in UnitRecord /\ UnitSound(x) /\ faction \in Factions
  BY <1>1 DEF EcoInv, Factions, UnitsSound
<1>3. x.alive
  BY <1>1 DEF Die
<1>4. x.skill # "none"
  <2>1. x # Gone
    BY <1>3 DEF Gone
  <2> QED BY <1>2, <2>1 DEF UnitSound
<1>5. PICK y : y = [x EXCEPT !.alive = FALSE]
  OBVIOUS
<1>6. /\ y \in UnitRecord /\ y.type = x.type /\ y.skill = x.skill /\ y.commands = x.commands
      /\ y.target = x.target /\ ~y.alive
  BY <1>2, <1>5 DEF UnitRecord
<1>7. faction' = Put(faction, u, y)
  <2>1. faction' = [faction EXCEPT !.unit[u].alive = FALSE]
    BY DEF Die
  <2> QED BY <1>1, <1>2, <1>5, <2>1 DEF Put, Factions
<1>8. /\ OthersStay(faction, u, faction') /\ faction'.unit[u] = y
      /\ faction'.amount = faction.amount /\ faction'.store = faction.store
      /\ faction'.manager = faction.manager
  BY <1>2, <1>6, <1>7, UnitPut
<1>9. Fades(faction, faction')
  BY <1>1, <1>4, <1>6, <1>8 DEF Fades, OthersStay
<1>10. PaidFor(faction')
  BY <1>8 DEF EcoInv, PaidFor, Within
<1> QED BY <1>9, <1>10, FadingKeeps

\* Resources come in, whatever of them is used up.
LEMMA CreditFades ==
    ASSUME NEW f \in Factions, NEW r \in Resources, Class[r] # "static", NEW n \in Int,
           NEW g, g = Credited(f, [s \in Resources |-> IF s = r THEN n ELSE 0])
    PROVE  /\ Fades(f, g) /\ g.unit = f.unit
           /\ \A s \in Resources \ {r} : g.amount[s] = f.amount[s]
           /\ Within(f) /\ (f.amount[r] + n >= 0 \/ g.amount[r] >= 0) => Within(g)
<1>1. PICK change : change = [s \in Resources |-> IF s = r THEN n ELSE 0]
  OBVIOUS
<1>2. /\ change \in [Resources -> Int]
      /\ change[r] = n /\ \A s \in Resources \ {r} : change[s] = 0
  BY <1>1
<1>3. g = Credited(f, change)
  BY <1>1
<1>4. /\ g \in Factions /\ g.store = f.store /\ g.unit = f.unit /\ g.manager = f.manager
      /\ \A s \in Resources :
           g.amount[s] = IF change[s] = 0 \/ Class[s] = "static" \/ f.amount[s] + change[s] <= f.store[s]
                         THEN f.amount[s] + change[s] ELSE f.store[s]
  BY <1>2, <1>3, CreditedFields
<1>5. \A s \in Resources : f.amount[s] \in Int /\ f.store[s] \in Int
  BY DEF Factions
<1>6. \A s \in Kept : g.amount[s] = f.amount[s]
  <2> TAKE s \in Kept
  <2>1. s \in Resources /\ s # r
    BY DEF Kept, StaticResources
  <2> QED BY <1>2, <1>4, <1>5, <2>1
<1>7. Fades(f, g)
  BY <1>4, <1>6 DEF Fades
<1>8. ASSUME Within(f), f.amount[r] + n >= 0 \/ g.amount[r] >= 0
      PROVE  Within(g)
  <2>1. r \in Resources \ StaticResources
    BY DEF StaticResources
  <2>2. f.amount[r] \in 0 .. f.store[r]
    BY <1>8, <2>1 DEF Within
  <2>3. f.amount[r] + n >= 0
    <3>1. CASE g.amount[r] = f.amount[r] + n
      BY <1>8, <3>1
    <3>2. CASE g.amount[r] # f.amount[r] + n
      <4>1. ~(f.amount[r] + n <= f.store[r])
        BY <1>2, <1>4, <3>2
      <4> QED BY <1>5, <2>2, <4>1
    <3> QED BY <3>1, <3>2
  <2>4. \A s \in Resources \ StaticResources : f.amount[s] + change[s] >= 0
    <3> TAKE s \in Resources \ StaticResources
    <3>1. f.amount[s] \in 0 .. f.store[s]
      BY <1>8 DEF Within
    <3>2. CASE s = r
      BY <1>2, <2>3, <3>2
    <3>3. CASE s # r
      BY <1>2, <1>5, <3>1, <3>3
    <3> QED BY <3>2, <3>3
  <2> QED BY <1>2, <1>3, <1>8, <2>4, CreditedWithin
<1>9. \A s \in Resources \ {r} : g.amount[s] = f.amount[s]
  BY <1>2, <1>4, <1>5
<1> QED BY <1>4, <1>7, <1>8, <1>9

LEMMA HarvestKeeps ==
    ASSUME NEW bound \in [Resources -> Int], EcoInv(faction, bound), NEW r \in Resources, Harvest(r)
    PROVE  EcoInv(faction', bound)
<1>1. faction \in Factions /\ PaidFor(faction) /\ Class[r] # "static"
  BY DEF EcoInv, Harvest
<1> PICK n \in Int : n = 1
  OBVIOUS
<1>2. faction' = Credited(faction, [s \in Resources |-> IF s = r THEN n ELSE 0])
  BY DEF Harvest
<1>3. /\ Fades(faction, faction')
      /\ Within(faction) /\ (faction.amount[r] + n >= 0 \/ faction'.amount[r] >= 0) => Within(faction')
  BY <1>1, <1>2, CreditFades
<1>4. Within(faction) => faction.amount[r] + n >= 0
  <2> HAVE Within(faction)
  <2>1. faction.amount[r] \in 0 .. faction.store[r] /\ faction.store[r] \in Int
    BY <1>1 DEF Within, StaticResources, Factions
  <2> QED BY <2>1
<1>5. PaidFor(faction')
  BY <1>1, <1>3, <1>4 DEF PaidFor
<1> QED BY <1>3, <1>5, FadingKeeps

\* What the units eat and bring of a resource is a number.
LEMMA UsageIsNumber ==
    ASSUME NEW f \in Factions, UnitsSound(f), NEW r \in Resources, NEW units \in SUBSET Ids,
           \A u \in units : Operative(f, u)
    PROVE  SumOf([u \in units |-> -Cost[f.unit[u].type][r]]) \in Int
<1>1. IsFiniteSet(units)
  BY EconomyConstants, FS_Subset
<1>2. \A u \in units : Cost[f.unit[u].type][r] \in Int
  <2> TAKE u \in units
  <2>1. f.unit[u] \in UnitRecord /\ UnitSound(f.unit[u]) /\ f.unit[u].alive
    BY DEF Factions, UnitsSound, Operative
  <2>2. f.unit[u].skill # "none"
    BY <2>1 DEF UnitSound, Gone
  <2>3. f.unit[u].type \in UnitTypes
    BY <2>1, <2>2 DEF UnitSound
  <2> QED BY <2>3, EconomyConstants
<1>3. PICK g : g = [u \in units |-> -Cost[f.unit[u].type][r]]
  OBVIOUS
<1>4. g \in [units -> Int]
  BY <1>2, <1>3
<1>5. PICK h : Additive(units, g, h) /\ Total(g) = h[units]
  BY <1>1, <1>4, TotalAdds
<1>6. Total(g) \in Int
  BY <1>5 DEF Additive
<1> QED BY <1>3, <1>6 DEF SumOf, Total

\* Units that starve.
Starved(f, r, starved) ==
    [f EXCEPT !.amount[r] = 0,
              !.unit = [u \in Ids |-> IF u \in starved THEN [@[u] EXCEPT !.alive = FALSE]
                                                       ELSE @[u]]]

\* Nothing but r is owed.
OnlyOwes(f, r) ==
    \A s \in Resources \ StaticResources :
        0 <= f.store[s] /\ (s # r => f.amount[s] \in 0 .. f.store[s])

LEMMA StarvedFades ==
    ASSUME NEW f \in Factions, UnitsSound(f), NEW r \in Resources, Class[r] # "static",
           NEW starved \in SUBSET Ids, \A u \in starved : Operative(f, u),
           NEW g, g = Starved(f, r, starved)
    PROVE  Fades(f, g) /\ (OnlyOwes(f, r) => Within(g))
<1>1. PICK unit : unit = [u \in Ids |-> IF u \in starved THEN [f.unit[u] EXCEPT !.alive = FALSE]
                                                         ELSE f.unit[u]]
  OBVIOUS
<1>2. PICK amount : amount = [f.amount EXCEPT ![r] = 0]
  OBVIOUS
<1>3. g = [f EXCEPT !.amount = amount, !.unit = unit]
  BY <1>1, <1>2 DEF Starved, Factions
<1>4. \A u \in Ids : /\ unit[u] \in UnitRecord
                     /\ unit[u].type = f.unit[u].type /\ unit[u].skill = f.unit[u].skill
                     /\ unit[u].commands = f.unit[u].commands
                     /\ unit[u].target = f.unit[u].target
                     /\ (unit[u].alive => f.unit[u].alive)
                     /\ (u \notin starved => unit[u] = f.unit[u])
  <2> TAKE u \in Ids
  <2>1. f.unit[u] \in UnitRecord
    BY DEF Factions
  <2>2. CASE u \in starved
    <3>1. unit[u] = [f.unit[u] EXCEPT !.alive = FALSE]
      BY <1>1, <2>2
    <3> QED BY <2>1, <2>2, <3>1 DEF UnitRecord
  <2>3. CASE u \notin starved
    <3>1. unit[u] = f.unit[u]
      BY <1>1, <2>3
    <3> QED BY <2>1, <2>3, <3>1
  <2> QED BY <2>2, <2>3
<1>5. amount \in [Resources -> Int] /\ amount[r] = 0 /\ \A s \in Resources \ {r} : amount[s] = f.amount[s]
  BY <1>2 DEF Factions
<1>6. unit \in [Ids -> UnitRecord]
  BY <1>1, <1>4
<1>7. g \in Factions /\ g.amount = amount /\ g.unit = unit /\ g.store = f.store /\ g.manager = f.manager
  BY <1>3, <1>5, <1>6 DEF Factions
<1>8. \A u \in Ids : f.unit[u].skill = "none" => u \notin starved
  <2> TAKE u \in Ids
  <2>1. UnitSound(f.unit[u])
    BY DEF UnitsSound
  <2> QED BY <2>1 DEF UnitSound, Operative, Gone
<1>9. \A s \in Kept : g.amount[s] = f.amount[s]
  BY <1>5, <1>7 DEF Kept, StaticResources
<1>10. Fades(f, g)
  BY <1>4, <1>7, <1>8, <1>9 DEF Fades
<1>11. ASSUME OnlyOwes(f, r)
       PROVE  Within(g)
  <2> SUFFICES ASSUME NEW s \in Resources \ StaticResources
               PROVE  g.amount[s] \in 0 .. g.store[s]
    BY DEF Within
  <2>1. 0 <= f.store[s] /\ f.store[s] \in Int /\ (s # r => f.amount[s] \in 0 .. f.store[s])
    BY <1>11 DEF OnlyOwes, Factions
  <2>2. CASE s = r
    BY <1>5, <1>7, <2>1, <2>2
  <2>3. CASE s # r
    BY <1>5, <1>7, <2>1, <2>3
  <2> QED BY <2>2, <2>3
<1> QED BY <1>10, <1>11

Eaters(f, r) == {u \in Ids : Operative(f, u) /\ Cost[f.unit[u].type][r] # 0}
Usage(f, r) == SumOf([u \in Eaters(f, r) |-> -Cost[f.unit[u].type][r]])
Fed(f, r) == Credited(f, [s \in Resources |-> IF s = r THEN Usage(f, r) ELSE 0])

LEMMA ConsumeKeeps ==
    ASSUME NEW bound \in [Resources -> Int], EcoInv(faction, bound), NEW r \in Resources, Consume(r)
    PROVE  EcoInv(faction', bound)
<1>1. faction \in Factions /\ UnitsSound(faction) /\ PaidFor(faction) /\ Class[r] # "static"
  BY DEF EcoInv, Consume
<1>2. IF Fed(faction, r).amount[r] >= 0 THEN faction' = Fed(faction, r)
      ELSE \E starved \in SUBSET {u \in Eaters(faction, r) : Cost[faction.unit[u].type][r] > 0} :
             faction' = Starved(Fed(faction, r), r, starved)
  BY Zenon DEF Consume, Eaters, Usage, Fed, Starved
<1>3. PICK n \in Int : n = Usage(faction, r)
  <2>1. Eaters(faction, r) \in SUBSET Ids /\ \A u \in Eaters(faction, r) : Operative(faction, u)
    BY DEF Eaters
  <2>2. Usage(faction, r) \in Int
    BY <1>1, <2>1, UsageIsNumber DEF Usage
  <2> QED BY <2>2
<1>4. PICK f : f = Fed(faction, r)
  OBVIOUS
<1>5. f = Credited(faction, [s \in Resources |-> IF s = r THEN n ELSE 0])
  BY <1>3, <1>4 DEF Fed
<1>6. /\ Fades(faction, f) /\ f.unit = faction.unit
      /\ \A s \in Resources \ {r} : f.amount[s] = faction.amount[s]
      /\ Within(faction) /\ (faction.amount[r] + n >= 0 \/ f.amount[r] >= 0) => Within(f)
  BY <1>1, <1>5, CreditFades
<1>7. CASE f.amount[r] >= 0
  <2>1. faction' = f
    BY <1>2, <1>4, <1>7
  <2>2. PaidFor(f)
    BY <1>1, <1>6, <1>7 DEF PaidFor
  <2> QED BY <1>6, <2>1, <2>2, FadingKeeps
<1>8. CASE ~(f.amount[r] >= 0)
  <2>1. PICK starved \in SUBSET Eaters(faction, r) : faction' = Starved(f, r, starved)
    BY <1>2, <1>4, <1>8
  <2>2. f \in Factions /\ UnitsSound(f) /\ f.store = faction.store
    BY <1>1, <1>6 DEF Fades, UnitsSound
  <2>3. \A u \in starved : Operative(f, u)
    <3>1. \A u \in starved : Operative(faction, u)
      BY DEF Eaters
    <3> QED BY <1>6, <3>1 DEF Operative
  <2>4. starved \in SUBSET Ids
    BY DEF Eaters
  <2>5. Fades(f, faction') /\ (OnlyOwes(f, r) => Within(faction'))
    BY <1>1, <2>1, <2>2, <2>3, <2>4, StarvedFades
  <2>6. Within(faction) => OnlyOwes(f, r)
    <3>1. ASSUME Within(faction), NEW s \in Resources \ StaticResources
          PROVE  0 <= f.store[s] /\ (s # r => f.amount[s] \in 0 .. f.store[s])
      <4>1. faction.amount[s] \in 0 .. faction.store[s] /\ faction.store[s] \in Int
        BY <1>1, <3>1 DEF Within, Factions
      <4> QED BY <1>6, <2>2, <4>1
    <3> QED BY <3>1 DEF OnlyOwes
  <2>7. Fades(faction, faction')
    BY <1>6, <2>5 DEF Fades
  <2>8. PaidFor(faction')
    BY <1>1, <2>5, <2>6 DEF PaidFor
  <2> QED BY <2>7, <2>8, FadingKeeps
<1> QED BY <1>7, <1>8

\* Every step keeps the invariant.
LEMMA StepKeeps ==
    ASSUME NEW bound \in [Resources -> Int], EcoInv(faction, bound), [Next]_faction
    PROVE  EcoInv(faction', bound)
<1>1. ASSUME NEW u \in Ids, GiveCommand(u) PROVE EcoInv(faction', bound)
  BY <1>1, GiveKeeps
<1>2. ASSUME NEW u \in Ids, CancelCommand(u) PROVE EcoInv(faction', bound)
  BY <1>2, TakeBackKeeps
<1>3. ASSUME NEW u \in Ids, UpdateUnit(u) PROVE EcoInv(faction', bound)
  BY <1>3, UpdateKeeps
<1>4. ASSUME NEW u \in Ids, Die(u) PROVE EcoInv(faction', bound)
  BY <1>4, DieKeeps
<1>5. ASSUME NEW u \in Ids, FinishBuilding(u) PROVE EcoInv(faction', bound)
  BY <1>5, FinishKeeps
<1>6. ASSUME NEW r \in Resources, Harvest(r) PROVE EcoInv(faction', bound)
  BY <1>6, HarvestKeeps
<1>7. ASSUME NEW r \in Resources, Consume(r) PROVE EcoInv(faction', bound)
  BY <1>7, ConsumeKeeps
<1>8. CASE UNCHANGED faction
  BY <1>8
<1> QED BY <1>1, <1>2, <1>3, <1>4, <1>5, <1>6, <1>7, <1>8 DEF Next

-----------------------------------------------------------------------------
(* The start.                                                              *)

Empty == [amount |-> StartAmount, store |-> [r \in Resources |-> 0],
          unit |-> [u \in Ids |-> Gone], manager |-> NoUpgrades]
Created(f, u) ==
    Born([StaticCostsApplied(f, Start[u]) EXCEPT !.unit[u] = NewUnit(Start[u], "none")], u)

\* Some of the units at the start are there, and have no commands yet.
Begun(f) ==
    /\ f \in Factions /\ UnitsSound(f) /\ StoreRight(f) /\ f.manager = NoUpgrades
    /\ \A r \in Resources \ StaticResources : f.amount[r] = StartAmount[r]
    /\ NothingGained(f, StartAmount)
    /\ \A u \in Ids : /\ f.unit[u].commands = <<>>
                      /\ f.unit[u].skill # "none" => u \in DOMAIN Start /\ f.unit[u].type = Start[u]

LEMMA NoUpgradesMatch ==
    NoUpgrades \in Managers
<1>0. <<>> \in Seq(Entry) /\ Len(<<>>) = 0
  OBVIOUS
<1>1. PICK list \in Seq(Entry) : list = <<>> /\ Len(list) = 0
  BY <1>0
<1>2. PICK S \in SUBSET Upgrades : S = {}
  OBVIOUS
<1>3. PICK f : f = [u \in {} |-> 0]
  OBVIOUS
<1>4. f \in [S -> 1 .. Len(list)]
  BY <1>2, <1>3
<1>5. IsFiniteSet(S) /\ Cardinality(S) = Len(list)
  BY <1>1, <1>2, FS_EmptySet
<1>6. NoUpgrades = [upgrades |-> list, lookup |-> f]
  BY <1>1, <1>3 DEF NoUpgrades
<1>7. Matching(NoUpgrades)
  BY <1>4, <1>5, <1>6, MatchingFields
<1> QED BY <1>7 DEF Managers, Matching

\* Where there are no units nothing is counted.
LEMMA NothingWeighed ==
    ASSUME NEW f, f.unit = [u \in Ids |-> Gone], NEW w, w[Gone] = 0
    PROVE  Weigh(w, f) = 0
<1>1. PICK g : g = [u \in Ids |-> w[f.unit[u]]]
  OBVIOUS
<1>2. g \in [Ids -> {0, 1}] /\ {u \in Ids : g[u] = 1} = {}
  BY <1>1
<1>3. IsFiniteSet(Ids)
  BY EconomyConstants
<1>4. Total(g) = Cardinality({})
  BY <1>2, <1>3, TotalOfMarks
<1> QED BY <1>1, <1>4, FS_EmptySet DEF Weigh

LEMMA EmptyBegun ==
    Begun(Empty)
<1>1. StartAmount \in [Resources -> Int] /\ [r \in Resources |-> 0] \in [Resources -> Int]
  BY EconomyConstants
<1>2. Gone \in UnitRecord /\ Gone.commands = <<>> /\ Gone.skill = "none"
  BY GoneCounts DEF Gone
<1>3. Empty \in Factions
  BY <1>1, <1>2, NoUpgradesMatch DEF Empty, Factions
<1>4. Empty.unit = [u \in Ids |-> Gone] /\ Empty.amount = StartAmount /\ Empty.manager = NoUpgrades
      /\ \A r \in Resources : Empty.store[r] = 0
  BY DEF Empty
<1>5. UnitSound(Gone)
  <2>1. Gone.commands = <<>> /\ Len(Gone.commands) = 0
    BY <1>2
  <2> QED BY <1>2, <2>1, EconomyConstants DEF UnitSound
<1>6. UnitsSound(Empty)
  BY <1>4, <1>5 DEF UnitsSound
<1>7. StoreRight(Empty)
  <2> SUFFICES ASSUME NEW r \in Resources PROVE Empty.store[r] = Capacity(r, Empty)
    BY DEF StoreRight
  <2>1. PICK w : w = StoreShare(r)
    OBVIOUS
  <2>2. w[Gone] = 0
    BY <2>1, GoneCounts
  <2>3. Weigh(w, Empty) = 0
    BY <1>4, <2>2, NothingWeighed
  <2> QED BY <1>4, <2>1, <2>3 DEF Capacity
<1>8. NothingGained(Empty, StartAmount)
  <2> SUFFICES ASSUME NEW r \in Kept PROVE Empty.amount[r] + InUse(r, Empty) <= StartAmount[r]
    BY DEF NothingGained
  <2>0. r \in Resources
    BY DEF Kept, StaticResources
  <2>1. PICK w : w = ShareOf(r)
    OBVIOUS
  <2>2. w[Gone] = 0
    BY <2>0, <2>1, GoneCounts
  <2>3. Weigh(w, Empty) = 0
    BY <1>4, <2>2, NothingWeighed
  <2>4. InUse(r, Empty) = 0 /\ Empty.amount[r] = StartAmount[r] /\ StartAmount[r] \in Int
    BY <1>1, <1>4, <2>0, <2>1, <2>3 DEF InUse
  <2> QED BY <2>4
<1> QED BY <1>2, <1>3, <1>4, <1>6, <1>7, <1>8 DEF Begun

\* A unit is created: what comes with it.
LEMMA CreatedFields ==
    ASSUME NEW f \in Factions, NEW u \in DOMAIN Start, NEW t, t = Start[u], NEW g, g = Created(f, u)
    PROVE  /\ u \in Ids /\ t \in UnitTypes
           /\ g \in Factions /\ OthersStay(f, u, g) /\ g.manager = f.manager
           /\ \A r \in Resources : Stores[t][r] \in Nat /\ g.store[r] = f.store[r] + Stores[t][r]
           /\ \A r \in Resources \ StaticResources : g.amount[r] = f.amount[r]
           /\ \A r \in StaticResources : g.amount[r] = f.amount[r] - Cost[t][r]
           /\ g.unit[u].skill = "stop" /\ g.unit[u].type = t /\ g.unit[u].commands = <<>>
<1>1. u \in Ids /\ t \in UnitTypes
  BY EconomyConstants
<1>2. PICK only : only = Only(Cost[t], StaticResources \cap Costs(t))
  OBVIOUS
<1>3. PICK change : change = Negated(only)
  OBVIOUS
<1>4. Cost[t] \in [Resources -> Int]
  BY <1>1, EconomyConstants
<1>5. OnlyOf(Cost[t], StaticResources \cap Costs(t), only, change)
  BY <1>2, <1>3, <1>4 DEF OnlyOf
<1>6. /\ change \in [Resources -> Int] /\ only \in [Resources -> Int]
      /\ \A r \in Resources : /\ only[r] = IF r \in StaticResources \cap Costs(t) THEN Cost[t][r] ELSE 0
                              /\ change[r] = -only[r]
  BY <1>5, OnlyValues
<1>7. PICK h : h = StaticCostsApplied(f, t)
  OBVIOUS
<1>8. h = Credited(f, change)
  BY <1>2, <1>3, <1>7 DEF StaticCostsApplied
<1>9. /\ h \in Factions /\ h.store = f.store /\ h.unit = f.unit /\ h.manager = f.manager
      /\ \A r \in Resources :
           h.amount[r] = IF change[r] = 0 \/ Class[r] = "static" \/ f.amount[r] + change[r] <= f.store[r]
                         THEN f.amount[r] + change[r] ELSE f.store[r]
  BY <1>6, <1>8, CreditedFields
<1>10. PICK x : x = NewUnit(t, "none")
  OBVIOUS
<1>11. x \in UnitRecord /\ x.commands = <<>> /\ x.type = t
  <2>1. PICK skill \in Skills : skill = "none"
    BY DEF Skills
  <2>2. IsNew(x, t, skill)
    BY <1>1, <1>10, <2>1 DEF IsNew
  <2> QED BY <2>2, NewUnitCounts
<1>12. PICK k : k = Put(h, u, x)
  OBVIOUS
<1>13. /\ OthersStay(h, u, k) /\ k \in Factions /\ k.unit[u] = x
       /\ k.amount = h.amount /\ k.store = h.store /\ k.manager = h.manager
  BY <1>1, <1>9, <1>11, <1>12, UnitPut
<1>14. g = Born(k, u)
  BY <1>7, <1>10, <1>12 DEF Created, Put
<1>15. k.unit[u].type = t
  BY <1>11, <1>13
<1>16. /\ g \in Factions /\ OthersStay(k, u, g) /\ g.manager = k.manager
       /\ \A r \in Resources : Stores[t][r] \in Nat /\ g.store[r] = k.store[r] + Stores[t][r]
       /\ \A r \in Resources \ StaticResources : g.amount[r] = k.amount[r]
       /\ \A r \in StaticResources :
            g.amount[r] = k.amount[r] - (IF r \in Costs(t) THEN 0 ELSE Cost[t][r])
       /\ g.unit[u].skill = "stop" /\ g.unit[u].type = t
       /\ g.unit[u].commands = k.unit[u].commands
  BY <1>1, <1>13, <1>14, <1>15, BornFields
<1>17. OthersStay(f, u, g)
  BY <1>1, <1>9, <1>13, <1>16 DEF OthersStay
<1>18. \A r \in Resources \ StaticResources : g.amount[r] = f.amount[r]
  <2> TAKE r \in Resources \ StaticResources
  <2>1. change[r] = 0
    BY <1>6
  <2>2. h.amount[r] = f.amount[r] + change[r] /\ f.amount[r] \in Int
    BY <1>9, <2>1 DEF Factions
  <2> QED BY <1>13, <1>16, <2>1, <2>2
<1>19. \A r \in StaticResources : g.amount[r] = f.amount[r] - Cost[t][r]
  <2> TAKE r \in StaticResources
  <2>1. r \in Resources /\ Class[r] = "static"
    BY DEF StaticResources
  <2>2. h.amount[r] = f.amount[r] + change[r] /\ f.amount[r] \in Int /\ Cost[t][r] \in Int
    BY <1>4, <1>9, <2>1 DEF Factions
  <2>3. CASE r \in Costs(t)
    <3>1. change[r] = -Cost[t][r]
      BY <1>6, <2>1, <2>3
    <3>2. g.amount[r] = h.amount[r] - 0
      BY <1>13, <1>16, <2>3
    <3> QED BY <2>2, <3>1, <3>2
  <2>4. CASE r \notin Costs(t)
    <3>1. change[r] = 0
      BY <1>6, <2>1, <2>4
    <3>2. g.amount[r] = h.amount[r] - Cost[t][r]
      BY <1>13, <1>16, <2>4
    <3> QED BY <2>2, <3>1, <3>2
  <2> QED BY <2>3, <2>4
<1> QED BY <1>1, <1>9, <1>11, <1>13, <1>16, <1>17, <1>18, <1>19

LEMMA CreatedBegun ==
    ASSUME NEW f, Begun(f), NEW u \in DOMAIN Start, f.unit[u] = Gone, NEW g, g = Created(f, u)
    PROVE  Begun(g) /\ OthersStay(f, u, g)
<1>1. f \in Factions
  BY DEF Begun
<1>2. PICK t : t = Start[u]
  OBVIOUS
<1>3. /\ u \in Ids /\ t \in UnitTypes
      /\ g \in Factions /\ OthersStay(f, u, g) /\ g.manager = f.manager
      /\ \A r \in Resources : Stores[t][r] \in Nat /\ g.store[r] = f.store[r] + Stores[t][r]
      /\ \A r \in Resources \ StaticResources : g.amount[r] = f.amount[r]
      /\ \A r \in StaticResources : g.amount[r] = f.amount[r] - Cost[t][r]
      /\ g.unit[u].skill = "stop" /\ g.unit[u].type = t /\ g.unit[u].commands = <<>>
  BY <1>1, <1>2, CreatedFields
<1>4. PICK y : y = g.unit[u]
  OBVIOUS
<1>5. /\ y \in UnitRecord /\ y.skill = "stop" /\ y.type = t /\ y.commands = <<>>
  BY <1>3, <1>4 DEF Factions
<1>6. Delta(f, f.unit[u], g, g.unit[u])
  BY <1>3, DeltaOfUnit
<1>7. Delta(f, Gone, g, y)
  BY <1>4, <1>6
<1>8. UnitsSound(g)
  <2>1. UnitSound(y)
    <3>1. Len(y.commands) = 0
      BY <1>5
    <3> QED BY <1>3, <1>5, <3>1, EconomyConstants DEF UnitSound
  <2> QED BY <1>3, <1>4, <2>1 DEF Begun, UnitsSound, OthersStay
<1>9. StoreRight(g)
  <2> SUFFICES ASSUME NEW r \in Resources PROVE g.store[r] = Capacity(r, g)
    BY DEF StoreRight
  <2>1. /\ Capacity(r, f) \in Int
        /\ Capacity(r, g) = Capacity(r, f) - StoreShare(r)[Gone] + StoreShare(r)[y]
    BY <1>7 DEF Delta
  <2>2. StoreShare(r)[Gone] = 0
    BY GoneCounts
  <2>3. StoreShare(r)[y] = Stores[t][r]
    BY <1>3, <1>5 DEF StoreShare
  <2>4. f.store[r] = Capacity(r, f) /\ g.store[r] = f.store[r] + Stores[t][r] /\ Stores[t][r] \in Nat
    BY <1>3 DEF Begun, StoreRight
  <2> QED BY <2>1, <2>2, <2>3, <2>4
<1>10. NothingGained(g, StartAmount)
  <2> SUFFICES ASSUME NEW r \in Kept PROVE g.amount[r] + InUse(r, g) <= StartAmount[r]
    BY DEF NothingGained
  <2>1. r \in Resources /\ r \in StaticResources
    BY DEF Kept, StaticResources
  <2>2. /\ InUse(r, f) \in Int
        /\ InUse(r, g) = InUse(r, f) - ShareOf(r)[Gone] + ShareOf(r)[y]
    BY <1>7, <2>1 DEF Delta
  <2>3. ShareOf(r)[Gone] = 0
    BY <2>1, GoneCounts
  <2>4. t # NoUnit
    BY <1>3, EconomyConstants
  <2>5. HeldByUnit(y, r) = Cost[t][r]
    BY <1>5, <2>4 DEF HeldByUnit
  <2>6. ShareOf(r)[y] = Cost[t][r]
    BY <1>5, <2>1, <2>5, WithoutCommands
  <2>7. Cost[t][r] \in Int /\ f.amount[r] \in Int /\ StartAmount[r] \in Int
    BY <1>1, <1>3, <2>1, EconomyConstants DEF Factions
  <2>8. g.amount[r] = f.amount[r] - Cost[t][r]
    BY <1>3, <2>1
  <2>9. f.amount[r] + InUse(r, f) <= StartAmount[r]
    BY DEF Begun, NothingGained
  <2> QED BY <2>2, <2>3, <2>6, <2>7, <2>8, <2>9
<1>11. \A v \in Ids : /\ g.unit[v].commands = <<>>
                      /\ g.unit[v].skill # "none" => v \in DOMAIN Start /\ g.unit[v].type = Start[v]
  <2> TAKE v \in Ids
  <2>1. CASE v = u
    BY <1>2, <1>3, <2>1
  <2>2. CASE v # u
    BY <1>3, <2>2 DEF OthersStay, Begun
  <2> QED BY <2>1, <2>2
<1> QED BY <1>3, <1>8, <1>9, <1>10, <1>11 DEF Begun

\* All units that the sequence names are created.
Populated(s) == FoldLeft(Created, Empty, s)

\* k of them are there.
Underway(s, n) ==
    {x \in (0 .. n) \X Factions :
        Begun(x[2]) /\ \A i \in 1 .. n : i > x[1] => x[2].unit[s[i]] = Gone}

LEMMA OneMoreUnderway ==
    ASSUME NEW n \in Nat, NEW s \in [1 .. n -> DOMAIN Start],
           \A i, j \in 1 .. n : s[i] = s[j] => i = j,
           NEW k \in 0 .. n - 1, NEW f, <<k, f>> \in Underway(s, n), NEW g, g = Created(f, s[k + 1])
    PROVE  <<k + 1, g>> \in Underway(s, n)
<1>1. k \in Nat /\ k + 1 \in 1 .. n /\ k + 1 \in 0 .. n /\ k + 1 > k
  OBVIOUS
<1>2. Begun(f) /\ f \in Factions /\ \A i \in 1 .. n : i > k => f.unit[s[i]] = Gone
  BY DEF Underway
<1>3. PICK u \in DOMAIN Start : u = s[k + 1]
  BY <1>1
<1>4. f.unit[u] = Gone
  BY <1>1, <1>2, <1>3
<1>5. Begun(g) /\ OthersStay(f, u, g)
  BY <1>2, <1>3, <1>4, CreatedBegun
<1>6. \A i \in 1 .. n : i > k + 1 => g.unit[s[i]] = Gone
  <2> SUFFICES ASSUME NEW i \in 1 .. n, i > k + 1 PROVE g.unit[s[i]] = Gone
    OBVIOUS
  <2>1. i # k + 1 /\ i > k
    BY <1>1
  <2>2. s[i] # u /\ s[i] \in Ids
    BY <1>1, <1>3, <2>1, EconomyConstants
  <2> QED BY <1>2, <1>5, <2>1, <2>2 DEF OthersStay
<1>7. g \in Factions
  BY <1>5 DEF Begun
<1> QED BY <1>1, <1>5, <1>6, <1>7 DEF Underway

LEMMA PopulatedBegun ==
    ASSUME NEW n \in Nat, NEW s \in [1 .. n -> DOMAIN Start],
           \A i, j \in 1 .. n : s[i] = s[j] => i = j
    PROVE  Begun(Populated(s))
<1> PICK G : G = Factions
  OBVIOUS
<1>1. Empty \in G
  BY EmptyBegun DEF Begun
<1> DEFINE F == [x \in G \X (1 .. n) |-> Created(x[1], s[x[2]])]
<1>2. \A g \in G : \A i \in 1 .. n : Created(g, s[i]) \in G
  BY CreatedFields
<1>3. F \in [G \X (1 .. n) -> G]
  BY <1>2
<1>4. \A g \in G : \A i \in 1 .. n : F[<<g, i>>] = Created(g, s[i])
  OBVIOUS
<1> HIDE DEF F
<1>5. PICK h \in [SUBSET (1 .. n) -> G] : Folds(F, Empty, n, h)
  BY <1>1, <1>3, FoldExists
<1>6. \A t \in SUBSET (1 .. n) : t # {} => Max(t) \in 1 .. n /\ t \ {Max(t)} \in SUBSET (1 .. n)
  BY GreatestNumber
<1>7. h = [t \in SUBSET (1 .. n) |-> IF t = {} THEN Empty ELSE Created(h[t \ {Max(t)}], s[Max(t)])]
  <2>1. ASSUME NEW t \in SUBSET (1 .. n)
        PROVE  h[t] = IF t = {} THEN Empty ELSE Created(h[t \ {Max(t)}], s[Max(t)])
    <3>1. CASE t = {}
      BY <1>5, <3>1 DEF Folds
    <3>2. CASE t # {}
      <4>1. PICK i : i = Max(t)
        OBVIOUS
      <4>2. PICK r : r = t \ {i}
        OBVIOUS
      <4>3. i \in 1 .. n /\ r \in SUBSET (1 .. n)
        BY <1>6, <3>2, <4>1, <4>2
      <4>4. h[t] = F[<<h[r], i>>]
        BY <1>5, <3>2, <4>1, <4>2 DEF Folds
      <4>5. h[r] \in G
        BY <4>3
      <4>6. F[<<h[r], i>>] = Created(h[r], s[i])
        BY <1>4, <4>3, <4>5
      <4> QED BY <3>2, <4>1, <4>2, <4>4, <4>6
    <3> QED BY <3>1, <3>2
  <2>2. h = [t \in SUBSET (1 .. n) |-> h[t]]
    OBVIOUS
  <2> QED BY <2>1, <2>2
<1>8. PICK iter : iter = CHOOSE e : e = [t \in SUBSET (1 .. n) |->
                                           IF t = {} THEN Empty ELSE Created(e[t \ {Max(t)}], s[Max(t)])]
  OBVIOUS
<1>9. Populated(s) = iter[1 .. n]
  <2>1. DOMAIN s = 1 .. n
    OBVIOUS
  <2> QED BY <1>8, <2>1 DEF Populated, FoldLeft, MapThenFoldSet
<1>10. iter = [t \in SUBSET (1 .. n) |-> IF t = {} THEN Empty ELSE Created(iter[t \ {Max(t)}], s[Max(t)])]
  BY <1>7, <1>8
<1> DEFINE a == [k \in 0 .. n |-> <<k, iter[1 .. k]>>]
<1> PICK U : U = Underway(s, n)
  OBVIOUS
<1>11. a[0] \in U
  <2>1. iter[1 .. 0] = Empty /\ 1 .. 0 = {}
    BY <1>10
  <2>2. Begun(Empty) /\ Empty \in Factions /\ \A u \in Ids : Empty.unit[u] = Gone
    BY EmptyBegun DEF Begun, Empty
  <2>3. \A i \in 1 .. n : Empty.unit[s[i]] = Gone
    BY <2>2, EconomyConstants
  <2>4. <<0, Empty>> \in Underway(s, n)
    BY <2>2, <2>3 DEF Underway
  <2>5. a[0] = <<0, Empty>>
    BY <2>1
  <2> QED BY <2>4, <2>5
<1>12. ASSUME NEW k \in 0 .. n - 1, a[k] \in U
       PROVE  a[k + 1] \in U
  <2>1. Max(1 .. k + 1) = k + 1 /\ (1 .. k + 1) \ {k + 1} = 1 .. k /\ k + 1 \in 1 .. n
    <3>1. k \in Nat /\ k + 1 \in 1 .. n
      OBVIOUS
    <3>2. Max(1 .. k + 1) = k + 1 /\ (1 .. k + 1) \ {k + 1} = 1 .. k
      BY <3>1, LastPlace
    <3> QED BY <3>1, <3>2
  <2>2. k \in 0 .. n /\ k + 1 \in 0 .. n
    OBVIOUS
  <2>3. PICK f : f = iter[1 .. k]
    OBVIOUS
  <2>4. PICK g : g = iter[1 .. k + 1]
    OBVIOUS
  <2>5. a[k] = <<k, f>> /\ a[k + 1] = <<k + 1, g>>
    BY <2>2, <2>3, <2>4
  <2> HIDE DEF a
  <2>6. g = Created(f, s[k + 1])
    <3>1. PICK t \in SUBSET (1 .. n) : t = 1 .. k + 1
      BY <2>1
    <3>2. t # {} /\ Max(t) = k + 1 /\ t \ {Max(t)} = 1 .. k
      BY <2>1, <3>1
    <3>3. iter[t] = Created(iter[t \ {Max(t)}], s[Max(t)])
      BY <1>10, <3>2
    <3> QED BY <2>3, <2>4, <3>1, <3>2, <3>3
  <2>7. <<k, f>> \in Underway(s, n)
    BY <1>12, <2>5
  <2>8. <<k + 1, g>> \in Underway(s, n)
    BY <2>6, <2>7, OneMoreUnderway
  <2> QED BY <2>5, <2>8
<1> HIDE DEF a
<1>13. \A k \in 0 .. n : a[k] \in U
  BY <1>11, <1>12, StepByStep
<1>14. a[n] \in U /\ a[n] = <<n, iter[1 .. n]>>
  <2>1. n \in 0 .. n
    OBVIOUS
  <2>2. a[n] \in U
    BY <1>13, <2>1
  <2>3. a[n] = <<n, iter[1 .. n]>>
    BY <2>1 DEF a
  <2> QED BY <2>2, <2>3
<1>15. Begun(iter[1 .. n])
  BY <1>14 DEF Underway
<1> QED BY <1>9, <1>15

\* The units at the start in some order.
LEMMA StartInOrder ==
    \E n \in Nat : \E s \in [1 .. n -> DOMAIN Start] :
       s = SetToSeq(DOMAIN Start) /\ \A i, j \in 1 .. n : s[i] = s[j] => i = j
<1> PICK S : S = DOMAIN Start
  OBVIOUS
<1>1. IsFiniteSet(S)
  BY EconomyConstants, FS_Subset
<1>2. PICK n \in Nat : ExistsBijection(1 .. n, S)
  BY <1>1, FS_NatBijection
<1>3. Cardinality(S) = n
  BY <1>2, FS_CountingElements
<1>4. \E f \in [1 .. n -> S] : IsInjective(f)
  BY <1>2 DEF ExistsBijection, Bijection, Injection
<1>5. SetToSeq(S) = CHOOSE f \in [1 .. n -> S] : IsInjective(f)
  BY <1>3 DEF SetToSeq
<1>6. PICK s : s = SetToSeq(S)
  OBVIOUS
<1>7. s \in [1 .. n -> S] /\ IsInjective(s)
  BY <1>4, <1>5, <1>6
<1>8. \A i, j \in 1 .. n : s[i] = s[j] => i = j
  BY <1>7 DEF IsInjective
<1> QED BY <1>6, <1>7, <1>8

LEMMA StoreLimitedFields ==
    ASSUME NEW f \in Factions, NEW g, g = StoreLimited(f)
    PROVE  /\ g \in Factions /\ g.unit = f.unit /\ g.manager = f.manager /\ g.store = f.store
           /\ \A r \in StaticResources : g.amount[r] = f.amount[r]
           /\ \A r \in Resources \ StaticResources :
                g.amount[r] = IF f.amount[r] > f.store[r] THEN f.store[r] ELSE f.amount[r]
<1>1. PICK a : a = [r \in Resources |->
                      IF Class[r] # "static" /\ f.amount[r] > f.store[r] THEN f.store[r] ELSE f.amount[r]]
  OBVIOUS
<1>2. a \in [Resources -> Int]
  BY <1>1 DEF Factions
<1>3. g = [f EXCEPT !.amount = a]
  BY <1>1 DEF StoreLimited
<1>4. g \in Factions /\ g.store = f.store /\ g.unit = f.unit /\ g.manager = f.manager /\ g.amount = a
  BY <1>2, <1>3 DEF Factions
<1>5. \A r \in StaticResources : g.amount[r] = f.amount[r]
  BY <1>1, <1>4 DEF StaticResources
<1>6. \A r \in Resources \ StaticResources :
        g.amount[r] = IF f.amount[r] > f.store[r] THEN f.store[r] ELSE f.amount[r]
  BY <1>1, <1>4 DEF StaticResources
<1> QED BY <1>4, <1>5, <1>6

\* Units without commands are counted by their types.
LEMMA BegunCounts ==
    ASSUME NEW f, Begun(f)
    PROVE  /\ StartWithinMaximum => \A t \in Restricted : Counted(t, f) <= MaxUnitCount[t]
           /\ \A v \in Upgrades : Counted(v, f) = 0
<1>1. f \in Factions /\ UnitsSound(f)
  BY DEF Begun
<1>2. \A u \in Ids : Len(f.unit[u].commands) <= MaxCommands
  BY <1>1 DEF UnitsSound, UnitSound
<1>3. \A p : /\ Cardinality(OperativeOf(f, p)) \in Nat /\ IsFiniteSet(OperativeOf(f, p))
             /\ Counted(p, f) = Cardinality(OperativeOf(f, p)) + Cardinality(CommandsFor(f, p))
  BY <1>1, <1>2, CountByParts
<1>4. \A p : CommandsFor(f, p) = {}
  BY DEF CommandsFor, Begun
<1>5. \A p : Counted(p, f) = Cardinality(OperativeOf(f, p))
  BY <1>3, <1>4, FS_EmptySet
<1>6. \A u \in Ids : Operative(f, u) =>
        u \in DOMAIN Start /\ f.unit[u].type = Start[u] /\ f.unit[u].type \in UnitTypes
  <2> TAKE u \in Ids
  <2> HAVE Operative(f, u)
  <2>1. UnitSound(f.unit[u]) /\ f.unit[u].alive
    BY <1>1 DEF UnitsSound, Operative
  <2>2. f.unit[u].skill # "none"
    BY <2>1 DEF UnitSound, Gone
  <2> QED BY <2>1, <2>2 DEF UnitSound, Begun
<1>7. ASSUME NEW v \in Upgrades
      PROVE  Counted(v, f) = 0
  <2>1. OperativeOf(f, v) = {}
    BY <1>6, EconomyConstants DEF OperativeOf
  <2> QED BY <1>5, <2>1, FS_EmptySet
<1>8. ASSUME StartWithinMaximum, NEW t \in Restricted
      PROVE  Counted(t, f) <= MaxUnitCount[t]
  <2>1. PICK S : S = {u \in DOMAIN Start : Start[u] = t}
    OBVIOUS
  <2>2. IsFiniteSet(S)
    <3>1. S \subseteq Ids /\ IsFiniteSet(Ids)
      BY <2>1, EconomyConstants
    <3> QED BY <3>1, FS_Subset
  <2>3. OperativeOf(f, t) \subseteq S
    BY <1>6, <2>1 DEF OperativeOf
  <2>4. Cardinality(OperativeOf(f, t)) <= Cardinality(S) /\ Cardinality(S) \in Nat
    BY <2>2, <2>3, FS_Subset, FS_CardinalityType
  <2>5. Cardinality(S) <= MaxUnitCount[t] /\ MaxUnitCount[t] \in Nat
    BY <1>8, <2>1, EconomyConstants DEF StartWithinMaximum, Restricted
  <2> QED BY <1>3, <1>5, <2>4, <2>5
<1> QED BY <1>7, <1>8

LEMMA InitKeeps ==
    ASSUME Init
    PROVE  EcoInv(faction, StartAmount)
<1>1. PICK n \in Nat : \E s \in [1 .. n -> DOMAIN Start] :
        s = SetToSeq(DOMAIN Start) /\ \A i, j \in 1 .. n : s[i] = s[j] => i = j
  BY StartInOrder
<1>2. PICK s \in [1 .. n -> DOMAIN Start] :
        s = SetToSeq(DOMAIN Start) /\ \A i, j \in 1 .. n : s[i] = s[j] => i = j
  BY <1>1
<1>3. PICK f : f = Populated(s)
  OBVIOUS
<1>4. Begun(f)
  BY <1>2, <1>3, PopulatedBegun
<1>5. faction = StoreLimited(Populated(SetToSeq(DOMAIN Start)))
  BY DEF Init, Empty, Created, Populated
<1>6. faction = StoreLimited(f)
  BY <1>2, <1>3, <1>5
<1>7. f \in Factions
  BY <1>4 DEF Begun
<1>8. PICK g : g = faction
  OBVIOUS
<1>9. /\ g \in Factions /\ g.unit = f.unit /\ g.manager = f.manager /\ g.store = f.store
      /\ \A r \in StaticResources : g.amount[r] = f.amount[r]
      /\ \A r \in Resources \ StaticResources :
           g.amount[r] = IF f.amount[r] > f.store[r] THEN f.store[r] ELSE f.amount[r]
  BY <1>6, <1>7, <1>8, StoreLimitedFields
<1>10. UnitsSound(g)
  BY <1>4, <1>9 DEF Begun, UnitsSound
<1>11. \A w : Weigh(w, g) = Weigh(w, f)
  BY <1>9 DEF Weigh
<1>12. StoreRight(g)
  BY <1>4, <1>9, <1>11 DEF Begun, StoreRight, Capacity
<1>13. PaidFor(g)
  <2> SUFFICES ASSUME NEW r \in Resources \ StaticResources PROVE g.amount[r] \in 0 .. g.store[r]
    BY DEF PaidFor, Within
  <2>1. f.amount[r] = StartAmount[r] /\ StartAmount[r] \in Nat
    BY <1>4, EconomyConstants DEF Begun
  <2>2. f.store[r] = Capacity(r, f) /\ Capacity(r, f) \in Nat
    BY <1>4, <1>7, SumsTyped DEF Begun, StoreRight
  <2>3. g.amount[r] = IF f.amount[r] > f.store[r] THEN f.store[r] ELSE f.amount[r]
    BY <1>9
  <2> QED BY <1>9, <2>1, <2>2, <2>3
<1>14. CountsKept(g)
  BY <1>4, <1>11, BegunCounts DEF CountsKept, Counted
<1>15. ResearchKnown(g)
  <2>1. \A v \in Upgrades : Counted(v, g) = 0
    BY <1>4, <1>11, BegunCounts DEF Counted
  <2> QED BY <2>1 DEF ResearchKnown
<1>16. NothingGained(g, StartAmount)
  <2> SUFFICES ASSUME NEW r \in Kept PROVE g.amount[r] + InUse(r, g) <= StartAmount[r]
    BY DEF NothingGained
  <2>1. r \in StaticResources
    BY DEF Kept
  <2>2. InUse(r, g) = InUse(r, f)
    BY <1>11 DEF InUse
  <2>3. f.amount[r] + InUse(r, f) <= StartAmount[r]
    BY <1>4 DEF Begun, NothingGained
  <2> QED BY <1>9, <2>1, <2>2, <2>3
<1> QED BY <1>8, <1>9, <1>10, <1>12, <1>13, <1>14, <1>15, <1>16 DEF EcoInv

-----------------------------------------------------------------------------
(* What holds always.                                                      *)

LEMMA EconomyInvariant ==
    Spec => []EcoInv(faction, StartAmount)
<1>1. StartAmount \in [Resources -> Int]
  BY EconomyConstants
<1>2. Init => EcoInv(faction, StartAmount)
  BY InitKeeps
<1>3. ASSUME EcoInv(faction, StartAmount), [Next]_faction
      PROVE  EcoInv(faction', StartAmount)
  <2> PICK bound \in [Resources -> Int] : bound = StartAmount
    BY <1>1
  <2>1. EcoInv(faction, bound)
    BY <1>3
  <2>2. EcoInv(faction', bound)
    BY <1>3, <2>1, StepKeeps
  <2> QED BY <2>2
<1>4. EcoInv(faction, StartAmount) /\ [Next]_faction => EcoInv(faction, StartAmount)'
  BY <1>3
<1> QED BY <1>2, <1>4, PTL DEF Spec

LEMMA TypesOfInvariant ==
    EcoInv(faction, StartAmount) => TypeOK
<1> SUFFICES ASSUME EcoInv(faction, StartAmount) PROVE TypeOK
  OBVIOUS
<1> PICK f : f = faction
  OBVIOUS
<1>1. f \in Factions /\ UnitsSound(f) /\ StoreRight(f)
  BY DEF EcoInv
<1>2. f.amount \in [Resources -> Int]
  BY <1>1 DEF Factions
<1>3. f.store \in [Resources -> Nat]
  <2>1. \A r \in Resources : f.store[r] \in Nat
    BY <1>1, SumsTyped DEF StoreRight
  <2>2. f.store = [r \in Resources |-> f.store[r]]
    BY <1>1 DEF Factions
  <2> QED BY <2>1, <2>2
<1>4. ASSUME NEW u \in Ids, NEW x, x = f.unit[u]
      PROVE  /\ x.type \in UnitTypes \cup {NoUnit} /\ x.alive \in BOOLEAN
             /\ x.skill \in Skills /\ x.target \in Ids \cup {NoUnit}
             /\ x.commands \in Seq(CommandType) /\ Len(x.commands) <= MaxCommands
  <2>1. x \in UnitRecord /\ UnitSound(x)
    BY <1>1, <1>4 DEF Factions, UnitsSound
  <2>2. x.commands \in Seq(KnownCommand)
    BY <2>1 DEF UnitRecord
  <2>3. PICK S : S = KnownCommand
    OBVIOUS
  <2>4. PICK T : T = CommandType
    OBVIOUS
  <2>5. S \subseteq T
    BY <2>3, <2>4 DEF KnownCommand
  <2>6. x.commands \in Seq(S)
    BY <2>2, <2>3
  <2>7. x.commands \in Seq(T)
    BY ONLY <2>5, <2>6
  <2> HIDE DEF KnownCommand
  <2> QED BY <2>1, <2>4, <2>7 DEF UnitRecord, UnitSound
<1>5. f.manager \in Managers
  BY <1>1 DEF Factions
<1>6. f.manager.upgrades \in Seq([type : Upgrades, done : BOOLEAN]) /\ PlacesExist(f.manager)
  BY <1>5 DEF Managers, Matching, Entry
<1> QED BY <1>2, <1>3, <1>4, <1>6 DEF TypeOK

\* Every value has its type at any time, and every place in the upgrade manager's map is
\* one of its list.
THEOREM EconomyTypeCorrect ==
    Spec => []TypeOK
BY EconomyInvariant, TypesOfInvariant, PTL

\* finishUpgrade and isUpgraded never index the manager's list out of range.
THEOREM PlacesAlwaysExist ==
    Spec => []PlacesExist(faction.manager)
<1>1. TypeOK => PlacesExist(faction.manager)
  BY DEF TypeOK
<1> QED BY <1>1, EconomyTypeCorrect, PTL

\* With any units, orders and costs, as long as nothing is paid for with a negative amount
\* of a tech resource: nothing is overspent, and no more is kept than can be stored.
THEOREM NeverOverspentOrOverfull ==
    ASSUME TechPaid
    PROVE  Spec => []WithinStore
<1>1. EcoInv(faction, StartAmount) => WithinStore
  BY DEF EcoInv, PaidFor, Within, WithinStore
<1> QED BY <1>1, EconomyInvariant, PTL

LEMMA CountsOfInvariant ==
    ASSUME NEW f, EcoInv(f, StartAmount), NEW p
    PROVE  /\ Cardinality(OperativeOf(f, p)) \in Nat /\ Cardinality(CommandsFor(f, p)) \in Nat
           /\ IsFiniteSet(CommandsFor(f, p))
           /\ Counted(p, f) = Cardinality(OperativeOf(f, p)) + Cardinality(CommandsFor(f, p))
<1>1. f \in Factions /\ \A u \in Ids : Len(f.unit[u].commands) <= MaxCommands
  BY DEF EcoInv, UnitsSound, UnitSound
<1> QED BY <1>1, CountByParts

\* However many units of a type are ordered, at whichever units: with those that there are
\* they never exceed the maximum, if the units at the start do not.
THEOREM MaximumKept ==
    ASSUME StartWithinMaximum
    PROVE  Spec => []MaxUnitCountKept
<1>1. EcoInv(faction, StartAmount) => MaxUnitCountKept
  <2> SUFFICES ASSUME EcoInv(faction, StartAmount), NEW t \in UnitTypes \ BuiltTypes, MaxUnitCount[t] > 0
               PROVE  Cardinality(OperativeOf(faction, t)) + Cardinality(CommandsFor(faction, t))
                        <= MaxUnitCount[t]
    BY DEF MaxUnitCountKept
  <2>1. Counted(t, faction) <= MaxUnitCount[t]
    BY DEF EcoInv, CountsKept, Restricted
  <2> QED BY <2>1, CountsOfInvariant
<1> QED BY <1>1, EconomyInvariant, PTL

\* An upgrade is worked at by one unit at most, and is known to the manager as long as it is.
THEOREM OneWorksAtAnUpgrade ==
    Spec => []OneCommandPerUpgrade
<1>1. EcoInv(faction, StartAmount) => OneCommandPerUpgrade
  <2> SUFFICES ASSUME EcoInv(faction, StartAmount), NEW v \in Upgrades
               PROVE  /\ Cardinality(CommandsFor(faction, v)) <= 1
                      /\ CommandsFor(faction, v) # {} => IsKnown(faction.manager, v)
    BY DEF OneCommandPerUpgrade
  <2>1. Counted(v, faction) <= 1 /\ (Counted(v, faction) >= 1 => IsKnown(faction.manager, v))
    BY DEF EcoInv, ResearchKnown
  <2>2. /\ Cardinality(OperativeOf(faction, v)) \in Nat /\ Cardinality(CommandsFor(faction, v)) \in Nat
        /\ IsFiniteSet(CommandsFor(faction, v))
        /\ Counted(v, faction) = Cardinality(OperativeOf(faction, v)) + Cardinality(CommandsFor(faction, v))
    BY CountsOfInvariant
  <2>3. CommandsFor(faction, v) # {} => Cardinality(CommandsFor(faction, v)) # 0
    BY <2>2, FS_EmptySet
  <2> QED BY <2>1, <2>2, <2>3
<1> QED BY <1>1, EconomyInvariant, PTL

LEMMA SumIsTotal ==
    ASSUME NEW g
    PROVE  SumOf(g) = Total(g)
BY DEF SumOf, Total

\* The balance is what is left and what is in use.
LEMMA BalanceInUse ==
    ASSUME NEW f \in Factions, NEW r \in Resources
    PROVE  StaticBalance(f, r) = f.amount[r] + InUse(r, f)
<1>1. ASSUME NEW x \in UnitRecord
      PROVE  HeldBy(x, r) = ShareOf(r)[x]
  <2>1. PICK s : s = x.commands
    OBVIOUS
  <2>2. s \in Seq(KnownCommand)
    BY <2>1 DEF UnitRecord
  <2> HIDE DEF KnownCommand
  <2>3. DOMAIN s = 1 .. Len(s) /\ \A i \in 1 .. Len(s) : s[i] \in KnownCommand
    BY <2>2
  <2>4. [i \in DOMAIN s |-> HeldByOrder(s[i], r)] = [i \in 1 .. Len(s) |-> Holds(r)[s[i]]]
    BY <2>3 DEF Holds
  <2>5. SumOf([i \in DOMAIN s |-> HeldByOrder(s[i], r)]) = SeqTotal(s, Holds(r))
    <3>1. PICK g : g = [i \in DOMAIN s |-> HeldByOrder(s[i], r)]
      OBVIOUS
    <3>2. g = [i \in 1 .. Len(s) |-> Holds(r)[s[i]]]
      BY <2>4, <3>1
    <3>3. SumOf(g) = Total(g)
      BY SumIsTotal
    <3>4. Total(g) = SeqTotal(s, Holds(r))
      BY <3>2 DEF SeqTotal
    <3> QED BY <3>1, <3>3, <3>4
  <2>6. ShareOf(r)[x] = Held(x, r) + SeqTotal(x.commands, Holds(r))
    BY ShareTypes
  <2> QED BY <2>1, <2>5, <2>6 DEF HeldBy, Held
<1>2. \A u \in Ids : f.unit[u] \in UnitRecord
  BY DEF Factions
<1>3. [u \in Ids |-> HeldBy(f.unit[u], r)] = [u \in Ids |-> ShareOf(r)[f.unit[u]]]
  BY <1>1, <1>2
<1>4. SumOf([u \in Ids |-> HeldBy(f.unit[u], r)]) = InUse(r, f)
  <2>1. PICK g : g = [u \in Ids |-> HeldBy(f.unit[u], r)]
    OBVIOUS
  <2>2. g = [u \in Ids |-> ShareOf(r)[f.unit[u]]]
    BY <1>3, <2>1
  <2>3. SumOf(g) = Total(g)
    BY SumIsTotal
  <2>4. Total(g) = InUse(r, f)
    BY <2>2 DEF InUse, Weigh
  <2> QED BY <2>1, <2>3, <2>4
<1> QED BY <1>4 DEF StaticBalance

\* Whatever a faction orders, cancels, builds, morphs and loses, what is left of the
\* population and what is in use together never exceed what it began with.
THEOREM NoPopulationGained ==
    Spec => []PopulationNeverGained
<1>1. EcoInv(faction, StartAmount) => PopulationNeverGained
  <2> SUFFICES ASSUME EcoInv(faction, StartAmount), NEW r \in StaticResources \cap RecoupCost,
                      Undiscounted(r), \A t \in BuiltTypes : r \notin Costs(t)
               PROVE  StaticBalance(faction, r) <= StartAmount[r]
    BY DEF PopulationNeverGained
  <2>1. faction.amount[r] + InUse(r, faction) <= StartAmount[r]
    BY DEF EcoInv, NothingGained, Kept
  <2>2. faction \in Factions /\ r \in Resources
    BY DEF EcoInv, StaticResources
  <2> QED BY <2>1, <2>2, BalanceInUse
<1> QED BY <1>1, EconomyInvariant, PTL
=============================================================================
