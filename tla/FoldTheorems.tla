---------------------------- MODULE FoldTheorems ----------------------------
(***************************************************************************)
(* What the proofs need to know of folds over sequences and of sums.       *)
(* FoldLeft and MapThenSumSet are defined by a recursive function over the *)
(* subsets of a set; that there is such a function, that what it computes  *)
(* stays in a set which each step keeps, and that a sum does not depend on *)
(* the order, follows by looking at a least exception.  The step of a fold *)
(* is a function here, whose first argument is the value so far and whose  *)
(* second one is a place in the sequence.                                  *)
(***************************************************************************)
EXTENDS Integers, Sequences, FiniteSets, FiniteSetsExt, FiniteSetTheorems, NaturalsInduction,
        WellFoundedInduction, TLAPS

\* A set of numbers that is not empty has a least one.
LEMMA LeastNumber ==
    ASSUME NEW S, S \subseteq Nat, S # {}
    PROVE  Min(S) \in S /\ \A n \in S : Min(S) <= n
<1> DEFINE R == {ss \in Nat \X Nat : ss[1] < ss[2]}
<1>1. IsWellFoundedOn(R, Nat)
  <2>1. OpToRel(<, Nat) = R
    BY DEF OpToRel
  <2> QED BY <2>1, NatLessThanWellFounded
<1> HIDE DEF R
<1>2. PICK n \in S : \A m \in S : ~(<<m, n>> \in R)
  BY <1>1, WFMin
<1>3. \A m \in S : n <= m
  <2> TAKE m \in S
  <2>1. m \in Nat /\ n \in Nat /\ ~(<<m, n>> \in R)
    BY <1>2
  <2>2. ~(m < n)
    BY <2>1 DEF R
  <2> QED BY <2>1, <2>2
<1> QED BY <1>2, <1>3 DEF Min

\* A set of places has a greatest one.
LEMMA GreatestNumber ==
    ASSUME NEW n \in Nat, NEW s \in SUBSET (1 .. n), s # {}
    PROVE  Max(s) \in s /\ \A x \in s : x <= Max(s)
<1> DEFINE T == {n - x : x \in s}
<1>1. T \subseteq Nat /\ T # {}
  <2>1. \A x \in s : x \in 1 .. n /\ n - x \in Nat
    OBVIOUS
  <2>2. PICK x : x \in s
    OBVIOUS
  <2> QED BY <2>1, <2>2
<1> HIDE DEF T
<1>2. Min(T) \in T /\ \A t \in T : Min(T) <= t
  BY <1>1, LeastNumber
<1>3. PICK x \in s : Min(T) = n - x
  BY <1>2 DEF T
<1>4. \A y \in s : x >= y
  <2> TAKE y \in s
  <2>1. Min(T) <= n - y /\ x \in 1 .. n /\ y \in 1 .. n
    BY <1>2 DEF T
  <2> QED BY <1>3, <2>1
<1> QED BY <1>4 DEF Max

\* What holds at the start and is kept by each of n steps holds at the end.
LEMMA StepByStep ==
    ASSUME NEW n \in Nat, NEW G, NEW a, a[0] \in G,
           \A k \in 0 .. n - 1 : a[k] \in G => a[k + 1] \in G
    PROVE  \A k \in 0 .. n : a[k] \in G
<1> DEFINE S == {k \in 0 .. n : a[k] \notin G}
<1> SUFFICES ASSUME S # {} PROVE FALSE
  OBVIOUS
<1>1. S \subseteq Nat
  OBVIOUS
<1> HIDE DEF S
<1>2. PICK m : m = Min(S)
  OBVIOUS
<1>3. m \in S /\ \A k \in S : m <= k
  BY <1>1, <1>2, LeastNumber
<1>4. m \in 0 .. n /\ a[m] \notin G /\ m # 0
  BY <1>3 DEF S
<1>5. m - 1 \in 0 .. n - 1 /\ m - 1 \notin S
  BY <1>3, <1>4
<1>6. a[m - 1] \in G
  BY <1>5 DEF S
<1>7. a[(m - 1) + 1] \in G
  BY <1>5, <1>6
<1> QED BY <1>4, <1>7

LEMMA LastPlace ==
    ASSUME NEW k \in Nat
    PROVE  Max(1 .. k + 1) = k + 1 /\ (1 .. k + 1) \ {k + 1} = 1 .. k
<1> PICK n \in Nat : n = k + 1
  OBVIOUS
<1>1. PICK s \in SUBSET (1 .. n) : s = 1 .. n
  OBVIOUS
<1>2. n \in s /\ s # {}
  BY <1>1
<1>3. Max(s) \in s /\ \A x \in s : x <= Max(s)
  BY <1>2, GreatestNumber
<1>4. Max(s) \in 1 .. n /\ n <= Max(s)
  BY <1>1, <1>2, <1>3
<1>5. Max(s) = n
  BY <1>4
<1>6. (1 .. k + 1) \ {k + 1} = 1 .. k
  OBVIOUS
<1> QED BY <1>1, <1>5, <1>6

-----------------------------------------------------------------------------
\* The sets of the places up to k, and what the fold makes of each of them.
Folds(F, base, k, h) ==
    /\ h = [s \in SUBSET (1 .. k) |-> IF s = {} THEN base ELSE F[<<h[s \ {Max(s)}], Max(s)>>]]

LEMMA OneMorePlace ==
    ASSUME NEW n \in Nat, NEW G, NEW base \in G, NEW F \in [G \X (1 .. n) -> G],
           NEW k \in 0 .. n - 1, NEW h \in [SUBSET (1 .. k) -> G], Folds(F, base, k, h)
    PROVE  \E g \in [SUBSET (1 .. k + 1) -> G] : Folds(F, base, k + 1, g)
<1> DEFINE g == [s \in SUBSET (1 .. k + 1) |->
                    IF k + 1 \in s THEN F[<<h[s \ {k + 1}], k + 1>>] ELSE h[s]]
<1>1. ASSUME NEW s \in SUBSET (1 .. k + 1)
      PROVE  /\ g[s] \in G
             /\ g[s] = IF s = {} THEN base ELSE F[<<g[s \ {Max(s)}], Max(s)>>]
  <2>1. CASE k + 1 \in s
    <3>1. Max(s) = k + 1
      <4>1. PICK K \in Nat : K = k + 1
        OBVIOUS
      <4>2. s \in SUBSET (1 .. K) /\ s # {}
        BY <2>1, <4>1
      <4>3. Max(s) \in s /\ \A x \in s : x <= Max(s)
        BY <4>2, GreatestNumber
      <4>4. Max(s) \in 1 .. k + 1 /\ k + 1 <= Max(s)
        BY <2>1, <4>3
      <4> QED BY <4>4
    <3>2. s \ {k + 1} \in SUBSET (1 .. k)
      OBVIOUS
    <3>3. g[s \ {k + 1}] = h[s \ {k + 1}] /\ h[s \ {k + 1}] \in G
      BY <3>2
    <3>4. g[s] = F[<<h[s \ {k + 1}], k + 1>>]
      BY <2>1
    <3>5. <<h[s \ {k + 1}], k + 1>> \in G \X (1 .. n)
      BY <3>3
    <3> HIDE DEF g
    <3> QED BY <2>1, <3>1, <3>3, <3>4, <3>5
  <2>2. CASE k + 1 \notin s /\ s # {}
    <3>1. s \in SUBSET (1 .. k) /\ s \ {Max(s)} \in SUBSET (1 .. k)
      <4>1. \A x \in s : x \in 1 .. k + 1 /\ x # k + 1
        BY <2>2
      <4>2. \A x \in s : x \in 1 .. k
        BY <4>1
      <4> QED BY <4>2, Zenon
    <3>2. g[s] = h[s] /\ g[s \ {Max(s)}] = h[s \ {Max(s)}]
      BY <2>2, <3>1
    <3> HIDE DEF g
    <3>3. h[s] = F[<<h[s \ {Max(s)}], Max(s)>>] /\ h[s] \in G
      BY <2>2, <3>1 DEF Folds
    <3> QED BY <2>2, <3>2, <3>3
  <2>3. CASE s = {}
    <3>1. s \in SUBSET (1 .. k) /\ g[s] = h[s]
      BY <2>3
    <3> HIDE DEF g
    <3>2. h[s] = base
      BY <2>3, <3>1 DEF Folds
    <3> QED BY <2>3, <3>1, <3>2
  <2> QED BY <2>1, <2>2, <2>3
<1>2. DOMAIN g = SUBSET (1 .. k + 1) /\ g = [s \in SUBSET (1 .. k + 1) |-> g[s]]
  OBVIOUS
<1> HIDE DEF g
<1>3. g \in [SUBSET (1 .. k + 1) -> G]
  BY <1>1, <1>2
<1>4. g = [s \in SUBSET (1 .. k + 1) |-> IF s = {} THEN base ELSE F[<<g[s \ {Max(s)}], Max(s)>>]]
  BY <1>1, <1>2
<1> QED BY <1>3, <1>4 DEF Folds

\* The function by which a fold is defined exists.
LEMMA FoldExists ==
    ASSUME NEW n \in Nat, NEW G, NEW base \in G, NEW F \in [G \X (1 .. n) -> G]
    PROVE  \E h \in [SUBSET (1 .. n) -> G] : Folds(F, base, n, h)
<1> DEFINE H(k) == {h \in [SUBSET (1 .. k) -> G] : Folds(F, base, k, h)}
           a == [k \in 0 .. n |-> H(k)]
           NotEmpty == {x \in {H(k) : k \in 0 .. n} : x # {}}
<1>1. H(0) # {}
  <2>1. SUBSET (1 .. 0) = {{}}
    OBVIOUS
  <2>2. PICK h : h = [s \in SUBSET (1 .. 0) |-> base]
    OBVIOUS
  <2>3. h \in [SUBSET (1 .. 0) -> G]
    BY <2>2
  <2>4. h = [s \in SUBSET (1 .. 0) |-> IF s = {} THEN base ELSE F[<<h[s \ {Max(s)}], Max(s)>>]]
    BY <2>1, <2>2
  <2> QED BY <2>3, <2>4 DEF Folds
<1>2. ASSUME NEW k \in 0 .. n - 1, H(k) # {}
      PROVE  H(k + 1) # {}
  <2>1. PICK h \in [SUBSET (1 .. k) -> G] : Folds(F, base, k, h)
    BY <1>2
  <2> QED BY <2>1, OneMorePlace
<1> HIDE DEF H
<1>3. a[0] \in NotEmpty
  BY <1>1
<1>4. \A k \in 0 .. n - 1 : a[k] \in NotEmpty => a[k + 1] \in NotEmpty
  BY <1>2
<1> HIDE DEF a
<1>5. \A k \in 0 .. n : a[k] \in NotEmpty
  <2> HIDE DEF NotEmpty
  <2> QED BY <1>3, <1>4, StepByStep
<1>6. H(n) # {}
  BY <1>5 DEF a
<1> QED BY <1>6 DEF H

-----------------------------------------------------------------------------
\* Sums over finite sets.  What h makes of a set is the sum of g over it.
Additive(S, g, h) ==
    /\ h \in [SUBSET S -> Int] /\ h[{}] = 0
    /\ \A s \in SUBSET S : \A x \in s : h[s] = g[x] + h[s \ {x}]

\* A sum that takes the greatest place first may take any place first.
LEMMA AnyPlaceFirst ==
    ASSUME NEW n \in Nat, NEW g \in [1 .. n -> Int], NEW h \in [SUBSET (1 .. n) -> Int],
           \A s \in SUBSET (1 .. n) : s # {} => h[s] = h[s \ {Max(s)}] + g[Max(s)]
    PROVE  \A s \in SUBSET (1 .. n) : \A i \in s : h[s] = g[i] + h[s \ {i}]
<1> DEFINE Fine(s) == \A i \in s : h[s] = g[i] + h[s \ {i}]
           Bad == {s \in SUBSET (1 .. n) : ~Fine(s)}
           Places == {Max(s) : s \in Bad}
<1> SUFFICES ASSUME Bad # {} PROVE FALSE
  OBVIOUS
<1>1. \A s \in Bad : s # {} /\ s \in SUBSET (1 .. n)
  OBVIOUS
<1>2. \A s \in SUBSET (1 .. n) : s # {} => Max(s) \in s /\ \A x \in s : x <= Max(s)
  BY GreatestNumber
<1> HIDE DEF Bad
<1>3. Places \subseteq Nat /\ Places # {}
  <2>1. \A s \in Bad : Max(s) \in 1 .. n
    BY <1>1, <1>2
  <2> QED BY <2>1
<1> HIDE DEF Places
<1>4. Min(Places) \in Places /\ \A k \in Places : Min(Places) <= k
  BY <1>3, LeastNumber
<1>5. PICK s \in Bad : Min(Places) = Max(s)
  BY <1>4 DEF Places
<1>6. PICK m : m = Max(s)
  OBVIOUS
<1>7. /\ s \in SUBSET (1 .. n) /\ m \in s /\ m \in 1 .. n /\ \A x \in s : x <= m
      /\ h[s] = h[s \ {m}] + g[m]
  BY <1>1, <1>2, <1>6
<1>8. PICK i \in s : h[s] # g[i] + h[s \ {i}]
  BY DEF Bad
<1>9. i # m
  <2> SUFFICES ASSUME i = m PROVE FALSE
    OBVIOUS
  <2>1. PICK t \in SUBSET (1 .. n) : t = s \ {m}
    BY <1>7
  <2>2. g[m] \in Int /\ h[t] \in Int /\ h[s] = h[t] + g[m]
    BY <1>7, <2>1
  <2>3. h[s] # g[m] + h[t]
    BY <1>8, <2>1
  <2> QED BY <2>2, <2>3
<1>10. PICK t \in SUBSET (1 .. n) : t = s \ {m}
  BY <1>7
<1>11. t \notin Bad
  <2> SUFFICES ASSUME t \in Bad PROVE FALSE
    OBVIOUS
  <2>1. m <= Max(t)
    BY <1>4, <1>5, <1>6 DEF Places
  <2>2. Max(t) \in t
    BY <1>1, <1>2
  <2>3. Max(t) \in s /\ Max(t) # m
    BY <1>10, <2>2
  <2>4. Max(t) \in 1 .. n /\ Max(t) <= m
    BY <1>7, <2>3
  <2> QED BY <1>7, <2>1, <2>3, <2>4
<1>12. h[t] = g[i] + h[t \ {i}]
  <2>1. i \in t
    BY <1>9, <1>10
  <2> QED BY <1>11, <2>1 DEF Bad
<1>13. PICK v \in SUBSET (1 .. n) : v = s \ {i}
  BY <1>7
<1>14. Max(v) = m
  <2>1. m \in v
    BY <1>7, <1>9, <1>13
  <2>2. Max(v) \in v /\ m <= Max(v)
    BY <1>2, <2>1
  <2>3. Max(v) <= m /\ Max(v) \in 1 .. n
    BY <1>7, <1>13, <2>2
  <2> QED BY <1>7, <2>2, <2>3
<1>15. h[v] = h[v \ {m}] + g[m]
  <2>1. v # {}
    BY <1>7, <1>9, <1>13
  <2> QED BY <1>14, <2>1
<1>16. v \ {m} = t \ {i}
  BY <1>10, <1>13
<1>17. PICK w \in SUBSET (1 .. n) : w = t \ {i}
  BY <1>10
<1>18. h[s] = h[t] + g[m] /\ h[t] = g[i] + h[w] /\ h[v] = h[w] + g[m] /\ h[s] # g[i] + h[v]
  BY <1>7, <1>8, <1>10, <1>12, <1>13, <1>15, <1>16, <1>17
<1>19. h[s] \in Int /\ h[t] \in Int /\ h[w] \in Int /\ h[v] \in Int /\ g[m] \in Int /\ g[i] \in Int
  BY <1>7
<1> QED BY <1>18, <1>19

\* Every function on a finite set has a sum.
LEMMA SumExists ==
    ASSUME NEW S, IsFiniteSet(S), NEW g \in [S -> Int]
    PROVE  \E h : Additive(S, g, h)
<1>1. PICK n \in Nat : ExistsBijection(1 .. n, S)
  BY FS_NatBijection
<1>2. PICK b \in Bijection(1 .. n, S) : TRUE
  BY <1>1 DEF ExistsBijection
<1>3. b \in [1 .. n -> S] /\ (\A i, j \in 1 .. n : b[i] = b[j] => i = j)
      /\ \A x \in S : \E i \in 1 .. n : b[i] = x
  BY <1>2 DEF Bijection, Injection, Surjection, IsInjective
<1> DEFINE c == [i \in 1 .. n |-> g[b[i]]]
           F == [x \in Int \X (1 .. n) |-> x[1] + c[x[2]]]
<1>4. c \in [1 .. n -> Int]
  BY <1>3
<1> HIDE DEF c
<1>5. F \in [Int \X (1 .. n) -> Int]
  BY <1>4
<1>6. \A k \in Int : \A i \in 1 .. n : F[<<k, i>>] = k + c[i]
  OBVIOUS
<1> HIDE DEF F
<1>7. 0 \in Int
  OBVIOUS
<1>8. PICK t \in [SUBSET (1 .. n) -> Int] : Folds(F, 0, n, t)
  BY <1>5, <1>7, FoldExists
<1>9. ASSUME NEW s \in SUBSET (1 .. n), s # {}
      PROVE  t[s] = t[s \ {Max(s)}] + c[Max(s)]
  <2>1. Max(s) \in 1 .. n /\ s \ {Max(s)} \in SUBSET (1 .. n)
    BY <1>9, GreatestNumber
  <2>2. t[s] = F[<<t[s \ {Max(s)}], Max(s)>>]
    BY <1>8, <1>9 DEF Folds
  <2>3. t[s \ {Max(s)}] \in Int
    BY <2>1
  <2> QED BY <1>6, <2>1, <2>2, <2>3
<1>10. \A s \in SUBSET (1 .. n) : \A i \in s : t[s] = c[i] + t[s \ {i}]
  BY <1>4, <1>9, AnyPlaceFirst
<1>11. t[{}] = 0
  BY <1>8 DEF Folds
<1> DEFINE Of(s) == {i \in 1 .. n : b[i] \in s}
           h == [s \in SUBSET S |-> t[Of(s)]]
<1>12. h \in [SUBSET S -> Int]
  OBVIOUS
<1>13. h[{}] = 0
  <2>1. Of({}) = {}
    OBVIOUS
  <2> QED BY <1>11, <2>1
<1>14. ASSUME NEW s \in SUBSET S, NEW x \in s
       PROVE  h[s] = g[x] + h[s \ {x}]
  <2>1. PICK i \in 1 .. n : b[i] = x
    BY <1>3
  <2>2. Of(s \ {x}) = Of(s) \ {i}
    BY <1>3, <2>1
  <2>3. i \in Of(s) /\ Of(s) \in SUBSET (1 .. n)
    BY <2>1
  <2>4. h[s] = t[Of(s)] /\ h[s \ {x}] = t[Of(s \ {x})]
    OBVIOUS
  <2>5. c[i] = g[x]
    BY <2>1 DEF c
  <2>6. PICK r \in SUBSET (1 .. n) : r = Of(s)
    BY <2>3
  <2>7. t[r] = c[i] + t[r \ {i}]
    BY <1>10, <2>3, <2>6
  <2> HIDE DEF Of, h
  <2> QED BY <2>2, <2>4, <2>5, <2>6, <2>7
<1> HIDE DEF h
<1> QED BY <1>12, <1>13, <1>14 DEF Additive

\* The sum over a set is determined by what is summed over it.
LEMMA SumsAgree ==
    ASSUME NEW S, IsFiniteSet(S), NEW g, NEW h, Additive(S, g, h),
           NEW T, NEW f, NEW k, Additive(T, f, k),
           NEW U \in SUBSET S, U \subseteq T, \A x \in U : g[x] = f[x]
    PROVE  h[U] = k[U]
<1> DEFINE Bad == {s \in SUBSET U : h[s] # k[s]}
           Sizes == {Cardinality(s) : s \in Bad}
<1> SUFFICES ASSUME Bad # {} PROVE FALSE
  OBVIOUS
<1>1. \A s \in SUBSET U : IsFiniteSet(s) /\ Cardinality(s) \in Nat /\ s \in SUBSET S /\ s \in SUBSET T
  <2>1. \A s \in SUBSET U : s \in SUBSET S /\ s \in SUBSET T
    OBVIOUS
  <2>2. \A s \in SUBSET S : IsFiniteSet(s) /\ Cardinality(s) \in Nat
    BY FS_Subset, FS_CardinalityType
  <2> QED BY <2>1, <2>2
<1>2. Sizes \subseteq Nat /\ Sizes # {}
  BY <1>1
<1> HIDE DEF Sizes
<1>3. Min(Sizes) \in Sizes /\ \A z \in Sizes : Min(Sizes) <= z
  BY <1>2, LeastNumber
<1>4. PICK s \in Bad : Min(Sizes) = Cardinality(s)
  BY <1>3 DEF Sizes
<1>5. s # {}
  BY DEF Additive
<1>6. PICK x \in s : TRUE
  BY <1>5
<1>7. PICK t \in SUBSET U : t = s \ {x}
  OBVIOUS
<1>8. Cardinality(t) < Cardinality(s)
  <2>1. IsFiniteSet(s) /\ Cardinality(s) \in Nat
    BY <1>1
  <2>2. Cardinality(t) = Cardinality(s) - 1
    BY <1>6, <1>7, <2>1, FS_RemoveElement
  <2> QED BY <2>1, <2>2
<1>9. h[t] = k[t]
  <2> SUFFICES ASSUME h[t] # k[t] PROVE FALSE
    OBVIOUS
  <2>1. Cardinality(t) \in Sizes
    BY DEF Sizes
  <2>2. Cardinality(s) <= Cardinality(t) /\ Cardinality(s) \in Nat /\ Cardinality(t) \in Nat
    BY <1>1, <1>3, <1>4, <2>1
  <2> QED BY <1>8, <2>2
<1>10. h[s] = g[x] + h[t] /\ k[s] = f[x] + k[t] /\ g[x] = f[x]
  BY <1>1, <1>6, <1>7 DEF Additive
<1> QED BY <1>9, <1>10

\* A function that adds a chosen element first is a sum.
Chosen(s) == CHOOSE x \in s : TRUE
Sums(S, g, h) ==
    h = [s \in SUBSET S |-> IF s = {} THEN 0 ELSE g[Chosen(s)] + h[s \ {Chosen(s)}]]

LEMMA SumsAreAdditive ==
    ASSUME NEW S, IsFiniteSet(S), NEW g \in [S -> Int], NEW h, Sums(S, g, h)
    PROVE  Additive(S, g, h)
<1>1. PICK k : Additive(S, g, k)
  BY SumExists
<1>2. \A s \in SUBSET S : s # {} => Chosen(s) \in s
  BY DEF Chosen
<1> DEFINE Bad == {s \in SUBSET S : h[s] # k[s]}
           Sizes == {Cardinality(s) : s \in Bad}
<1>3. Bad = {}
  <2> SUFFICES ASSUME Bad # {} PROVE FALSE
    OBVIOUS
  <2>1. \A s \in SUBSET S : IsFiniteSet(s) /\ Cardinality(s) \in Nat
    BY FS_Subset, FS_CardinalityType
  <2>2. Sizes \subseteq Nat /\ Sizes # {}
    BY <2>1
  <2> HIDE DEF Sizes
  <2>3. Min(Sizes) \in Sizes /\ \A z \in Sizes : Min(Sizes) <= z
    BY <2>2, LeastNumber
  <2>4. PICK s \in Bad : Min(Sizes) = Cardinality(s)
    BY <2>3 DEF Sizes
  <2>5. s # {}
    <3>1. h[{}] = 0 /\ k[{}] = 0
      BY <1>1 DEF Additive, Sums
    <3> QED BY <3>1
  <2>6. PICK x \in s : x = Chosen(s)
    BY <1>2, <2>5
  <2>7. PICK t \in SUBSET S : t = s \ {x}
    OBVIOUS
  <2>8. Cardinality(t) < Cardinality(s)
    <3>1. IsFiniteSet(s) /\ Cardinality(s) \in Nat
      BY <2>1
    <3>2. Cardinality(t) = Cardinality(s) - 1
      BY <2>6, <2>7, <3>1, FS_RemoveElement
    <3> QED BY <3>1, <3>2
  <2>9. h[t] = k[t]
    <3> SUFFICES ASSUME h[t] # k[t] PROVE FALSE
      OBVIOUS
    <3>1. Cardinality(t) \in Sizes
      BY DEF Sizes
    <3>2. Cardinality(s) <= Cardinality(t) /\ Cardinality(s) \in Nat /\ Cardinality(t) \in Nat
      BY <2>1, <2>3, <2>4, <3>1
    <3> QED BY <2>8, <3>2
  <2>10. h[s] = g[x] + h[t]
    BY <2>5, <2>6, <2>7 DEF Sums
  <2>11. k[s] = g[x] + k[t]
    BY <1>1, <2>6, <2>7 DEF Additive
  <2> QED BY <2>9, <2>10, <2>11
<1>4. h = k
  <2>1. DOMAIN h = SUBSET S /\ h = [s \in SUBSET S |-> h[s]]
    BY DEF Sums
  <2>2. k = [s \in SUBSET S |-> k[s]]
    BY <1>1 DEF Additive
  <2> QED BY <1>3, <2>1, <2>2
<1> QED BY <1>1, <1>4

-----------------------------------------------------------------------------
\* The sum of a function.
Total(g) == MapThenSumSet(LAMBDA x : g[x], DOMAIN g)

LEMMA TotalAdds ==
    ASSUME NEW S, IsFiniteSet(S), NEW g \in [S -> Int]
    PROVE  \E h : Additive(S, g, h) /\ Total(g) = h[S]
<1>1. PICK k : Additive(S, g, k)
  BY SumExists
<1>2. k = [s \in SUBSET S |-> IF s = {} THEN 0 ELSE g[Chosen(s)] + k[s \ {Chosen(s)}]]
  <2>1. k = [s \in SUBSET S |-> k[s]]
    BY <1>1 DEF Additive
  <2>2. \A s \in SUBSET S : k[s] = IF s = {} THEN 0 ELSE g[Chosen(s)] + k[s \ {Chosen(s)}]
    <3>1. \A s \in SUBSET S : s # {} => Chosen(s) \in s
      BY DEF Chosen
    <3> QED BY <1>1, <3>1 DEF Additive
  <2> QED BY <2>1, <2>2
<1>3. PICK iter : iter = CHOOSE h : h = [s \in SUBSET S |-> IF s = {} THEN 0 ELSE g[Chosen(s)] + h[s \ {Chosen(s)}]]
  OBVIOUS
<1>4. DOMAIN g = S
  OBVIOUS
<1>5. Total(g) = iter[S]
  BY <1>3, <1>4 DEF Total, MapThenSumSet, MapThenFoldSet, Chosen
<1>6. iter = [s \in SUBSET S |-> IF s = {} THEN 0 ELSE g[Chosen(s)] + iter[s \ {Chosen(s)}]]
  BY <1>2, <1>3
<1>7. Sums(S, g, iter)
  BY <1>6 DEF Sums
<1> QED BY <1>5, <1>7, SumsAreAdditive

\* g is a function from S, and r is g without x.
OneLess(S, g, x, R, r) ==
    /\ IsFiniteSet(S) /\ g \in [S -> Int] /\ x \in S
    /\ R = S \ {x} /\ r \in [R -> Int] /\ \A y \in R : r[y] = g[y]

\* A sum is that of all elements but one, and that one.
LEMMA TotalWithout ==
    ASSUME NEW S, NEW g, NEW x, NEW R, NEW r, OneLess(S, g, x, R, r)
    PROVE  Total(g) \in Int /\ Total(r) \in Int /\ Total(g) = g[x] + Total(r)
<1> USE DEF OneLess
<1>1. PICK h : Additive(S, g, h) /\ Total(g) = h[S]
  BY TotalAdds
<1>3. IsFiniteSet(R) /\ r \in [R -> Int]
  BY FS_RemoveElement
<1>4. PICK k : Additive(R, r, k) /\ Total(r) = k[R]
  BY <1>3, TotalAdds
<1>5. (\A y \in R : g[y] = r[y]) /\ R \in SUBSET S /\ R \subseteq R /\ IsFiniteSet(S)
  OBVIOUS
<1>6. h[R] = k[R]
  <2> HIDE DEF OneLess
  <2> QED BY <1>1, <1>4, <1>5, SumsAgree
<1>7. h[S] = g[x] + h[R] /\ h[S] \in Int
  BY <1>1 DEF Additive
<1>8. k[R] \in Int
  BY <1>4 DEF Additive
<1> QED BY <1>1, <1>4, <1>6, <1>7, <1>8

\* f and g agree on all of S but x.
AllButOne(S, g, x, f) ==
    /\ IsFiniteSet(S) /\ x \in S /\ g \in [S -> Int] /\ f \in [S -> Int]
    /\ \A y \in S \ {x} : f[y] = g[y]

\* What two functions sum to that agree on all but one element.
LEMMA TotalChanged ==
    ASSUME NEW S, NEW g, NEW x, NEW f, AllButOne(S, g, x, f)
    PROVE  Total(g) \in Int /\ Total(f) \in Int /\ Total(f) = Total(g) - g[x] + f[x]
<1>1. PICK R : R = S \ {x}
  OBVIOUS
<1>2. PICK r : r = [y \in R |-> g[y]]
  OBVIOUS
<1>3. OneLess(S, g, x, R, r)
  BY <1>1, <1>2 DEF OneLess, AllButOne
<1>4. OneLess(S, f, x, R, r)
  BY <1>1, <1>2 DEF OneLess, AllButOne
<1>5. Total(g) \in Int /\ Total(r) \in Int /\ Total(g) = g[x] + Total(r)
  BY <1>3, TotalWithout
<1>6. Total(f) \in Int /\ Total(f) = f[x] + Total(r)
  BY <1>4, TotalWithout
<1>7. g[x] \in Int /\ f[x] \in Int
  BY DEF AllButOne
<1> QED BY <1>5, <1>6, <1>7

\* A sum of numbers is a number.
LEMMA TotalNatural ==
    ASSUME NEW S, IsFiniteSet(S), NEW g \in [S -> Nat]
    PROVE  Total(g) \in Nat
<1>1. g \in [S -> Int]
  OBVIOUS
<1>2. PICK h : Additive(S, g, h) /\ Total(g) = h[S]
  BY <1>1, TotalAdds
<1> DEFINE Bad == {s \in SUBSET S : h[s] \notin Nat}
           Sizes == {Cardinality(s) : s \in Bad}
<1>3. Bad = {}
  <2> SUFFICES ASSUME Bad # {} PROVE FALSE
    OBVIOUS
  <2>1. \A s \in SUBSET S : IsFiniteSet(s) /\ Cardinality(s) \in Nat
    BY FS_Subset, FS_CardinalityType
  <2>2. Sizes \subseteq Nat /\ Sizes # {}
    BY <2>1
  <2> HIDE DEF Sizes, Bad
  <2>3. Min(Sizes) \in Sizes /\ \A z \in Sizes : Min(Sizes) <= z
    BY <2>2, LeastNumber
  <2>4. PICK s \in Bad : Min(Sizes) = Cardinality(s)
    BY <2>3 DEF Sizes
  <2>5. s \in SUBSET S /\ h[s] \notin Nat
    BY <2>4 DEF Bad
  <2>6. PICK x \in s : TRUE
    <3>1. h[{}] \in Nat
      BY <1>2 DEF Additive
    <3>2. s # {}
      BY <2>5, <3>1
    <3> QED BY <3>2
  <2>7. PICK t \in SUBSET S : t = s \ {x}
    BY <2>5
  <2>8. Cardinality(t) < Cardinality(s)
    <3>1. IsFiniteSet(s) /\ Cardinality(s) \in Nat
      BY <2>1, <2>5
    <3>2. Cardinality(t) = Cardinality(s) - 1
      BY <2>6, <2>7, <3>1, FS_RemoveElement
    <3> QED BY <3>1, <3>2
  <2>9. h[t] \in Nat
    <3> SUFFICES ASSUME h[t] \notin Nat PROVE FALSE
      OBVIOUS
    <3>1. Cardinality(t) \in Sizes
      BY DEF Sizes, Bad
    <3>2. Cardinality(s) <= Cardinality(t) /\ Cardinality(s) \in Nat /\ Cardinality(t) \in Nat
      BY <2>1, <2>3, <2>4, <2>5, <3>1
    <3> QED BY <2>8, <3>2
  <2>10. h[s] = g[x] + h[t] /\ g[x] \in Nat
    BY <1>2, <2>5, <2>6, <2>7 DEF Additive
  <2> QED BY <2>5, <2>9, <2>10
<1> QED BY <1>2, <1>3

\* f is g on other names of its elements: b tells the name in T of each one in S.
Renumbered(S, f, T, g, b) ==
    /\ IsFiniteSet(S) /\ IsFiniteSet(T) /\ g \in [T -> Int] /\ f \in [S -> Int]
    /\ b \in [S -> T] /\ (\A x, y \in S : b[x] = b[y] => x = y)
    /\ (\A y \in T : \E x \in S : b[x] = y) /\ \A x \in S : f[x] = g[b[x]]

\* A sum does not depend on how its elements are numbered.
LEMMA TotalRenumbered ==
    ASSUME NEW S, NEW f, NEW T, NEW g, NEW b, Renumbered(S, f, T, g, b)
    PROVE  Total(f) = Total(g)
<1> USE DEF Renumbered
<1> DEFINE To(s) == {b[x] : x \in s}
<1>1. f \in [S -> Int]
  OBVIOUS
<1>2. PICK h : Additive(T, g, h) /\ Total(g) = h[T]
  BY TotalAdds
<1> DEFINE k == [s \in SUBSET S |-> h[To(s)]]
<1>3. \A s \in SUBSET S : To(s) \in SUBSET T
  OBVIOUS
<1>4. Additive(S, f, k)
  <2>1. k \in [SUBSET S -> Int]
    BY <1>2, <1>3 DEF Additive
  <2>2. k[{}] = 0
    <3>1. To({}) = {}
      OBVIOUS
    <3> QED BY <1>2, <3>1 DEF Additive
  <2>3. ASSUME NEW s \in SUBSET S, NEW x \in s
        PROVE  k[s] = f[x] + k[s \ {x}]
    <3>1. PICK v \in SUBSET T : v = To(s)
      BY <1>3
    <3>2. b[x] \in v
      BY <3>1
    <3>3. To(s \ {x}) = v \ {b[x]}
      BY <3>1
    <3>4. h[v] = g[b[x]] + h[v \ {b[x]}]
      BY <1>2, <3>2 DEF Additive
    <3>5. k[s] = h[v] /\ k[s \ {x}] = h[v \ {b[x]}]
      BY <3>1, <3>3
    <3>6. f[x] = g[b[x]]
      OBVIOUS
    <3> QED BY <3>4, <3>5, <3>6
  <2> HIDE DEF k
  <2> QED BY <2>1, <2>2, <2>3 DEF Additive
<1>5. PICK l : Additive(S, f, l) /\ Total(f) = l[S]
  BY <1>1, TotalAdds
<1>6. l[S] = k[S]
  <2>1. S \in SUBSET S /\ S \subseteq S /\ \A x \in S : f[x] = f[x]
    OBVIOUS
  <2> HIDE DEF k
  <2> QED BY <1>4, <1>5, <2>1, SumsAgree
<1>7. k[S] = h[T]
  <2>1. To(S) = T
    OBVIOUS
  <2> QED BY <2>1
<1> QED BY <1>2, <1>5, <1>6, <1>7

\* Nothing sums to nothing.
LEMMA TotalOfNone ==
    ASSUME NEW g, DOMAIN g = {}, g = [x \in {} |-> 0]
    PROVE  Total(g) = 0
<1>1. IsFiniteSet({}) /\ g \in [{} -> Int]
  BY FS_EmptySet
<1>2. PICK h : Additive({}, g, h) /\ Total(g) = h[{}]
  BY <1>1, TotalAdds
<1> QED BY <1>2 DEF Additive

\* e is the sum of f and g.
AddedUp(S, f, g, e) ==
    /\ IsFiniteSet(S) /\ f \in [S -> Int] /\ g \in [S -> Int] /\ e \in [S -> Int]
    /\ \A x \in S : e[x] = f[x] + g[x]

LEMMA TotalOfBoth ==
    ASSUME NEW S, NEW f, NEW g, NEW e, AddedUp(S, f, g, e)
    PROVE  Total(e) = Total(f) + Total(g)
<1> USE DEF AddedUp
<1>1. PICK h : Additive(S, f, h) /\ Total(f) = h[S]
  BY TotalAdds
<1>2. PICK k : Additive(S, g, k) /\ Total(g) = k[S]
  BY TotalAdds
<1>3. PICK l : Additive(S, e, l) /\ Total(e) = l[S]
  BY TotalAdds
<1>4. PICK m : m = [s \in SUBSET S |-> h[s] + k[s]]
  OBVIOUS
<1>5. \A s \in SUBSET S : h[s] \in Int /\ k[s] \in Int /\ m[s] = h[s] + k[s]
  BY <1>1, <1>2, <1>4 DEF Additive
<1>6. Additive(S, e, m)
  <2>1. m \in [SUBSET S -> Int]
    <3>1. ASSUME NEW s \in SUBSET S PROVE h[s] + k[s] \in Int
      BY <1>5
    <3> QED BY <1>4, <3>1
  <2>2. m[{}] = 0
    BY <1>1, <1>2, <1>4 DEF Additive
  <2>3. ASSUME NEW s \in SUBSET S, NEW x \in s
        PROVE  m[s] = e[x] + m[s \ {x}]
    <3>1. PICK t \in SUBSET S : t = s \ {x}
      OBVIOUS
    <3>2. h[s] = f[x] + h[t] /\ k[s] = g[x] + k[t]
      BY <1>1, <1>2, <3>1 DEF Additive
    <3>3. f[x] \in Int /\ g[x] \in Int /\ e[x] = f[x] + g[x]
      OBVIOUS
    <3>4. h[t] \in Int /\ k[t] \in Int /\ m[t] = h[t] + k[t] /\ m[s] = h[s] + k[s]
      BY <1>5
    <3>5. m[s] = (f[x] + h[t]) + (g[x] + k[t]) /\ m[s \ {x}] = h[t] + k[t]
      BY <3>1, <3>2, <3>4
    <3> QED BY ONLY <3>3, <3>4, <3>5
  <2> QED BY <2>1, <2>2, <2>3 DEF Additive
<1>7. S \in SUBSET S /\ S \subseteq S /\ \A x \in S : e[x] = e[x]
  OBVIOUS
<1>8. l[S] = m[S]
  BY <1>3, <1>6, <1>7, SumsAgree
<1> QED BY <1>1, <1>2, <1>3, <1>5, <1>8

\* g goes on after f with one more value, or it begins with a before it.
GoesOn(n, g, f) ==
    /\ n \in Nat /\ g \in [1 .. n + 1 -> Int] /\ f \in [1 .. n -> Int]
    /\ \A i \in 1 .. n : f[i] = g[i]
BeginsWith(a, n, g, f) ==
    /\ n \in Nat /\ g[1] = a /\ g \in [1 .. n + 1 -> Int] /\ f \in [1 .. n -> Int]
    /\ \A i \in 1 .. n : f[i] = g[i + 1]

LEMMA TotalOfLonger ==
    ASSUME NEW n, NEW g, NEW f, GoesOn(n, g, f)
    PROVE  Total(f) \in Int /\ Total(g) = Total(f) + g[n + 1]
<1> PICK k \in Nat : k = n + 1
  BY DEF GoesOn
<1> PICK S : S = 1 .. k
  OBVIOUS
<1>1. n \in Nat /\ k = n + 1
  BY DEF GoesOn
<1>2. IsFiniteSet(S)
  BY FS_Interval
<1>3. k \in S /\ 1 .. n = S \ {k}
  BY <1>1
<1>4. g \in [S -> Int] /\ f \in [S \ {k} -> Int] /\ \A y \in S \ {k} : f[y] = g[y]
  BY <1>3 DEF GoesOn
<1>5. PICK R : R = S \ {k}
  OBVIOUS
<1>6. OneLess(S, g, k, R, f)
  BY <1>2, <1>3, <1>4, <1>5 DEF OneLess
<1>7. Total(g) \in Int /\ Total(f) \in Int /\ Total(g) = g[k] + Total(f)
  BY <1>6, TotalWithout
<1>8. g[k] \in Int
  BY <1>3, <1>4
<1> QED BY <1>7, <1>8

LEMMA TotalOfTail ==
    ASSUME NEW a, NEW n, NEW g, NEW f, BeginsWith(a, n, g, f)
    PROVE  Total(f) \in Int /\ Total(g) = a + Total(f)
<1> PICK k \in Nat : k = n + 1
  BY DEF BeginsWith
<1> PICK S : S = 1 .. k
  OBVIOUS
<1> PICK T : T = 1 .. n
  OBVIOUS
<1> PICK R : R = S \ {1}
  OBVIOUS
<1> PICK r : r = [i \in R |-> g[i]]
  OBVIOUS
<1> PICK b : b = [i \in T |-> i + 1]
  OBVIOUS
<1>1. n \in Nat /\ k = n + 1
  BY DEF BeginsWith
<1>2. IsFiniteSet(S) /\ IsFiniteSet(T)
  <2>1. n \in Int /\ k \in Int /\ 1 \in Int
    BY <1>1
  <2> QED BY <2>1, FS_Interval
<1>3. 1 \in S /\ IsFiniteSet(R)
  <2>1. 1 \in S
    BY <1>1
  <2> QED BY <1>2, <2>1, FS_RemoveElement
<1>4. g \in [S -> Int] /\ f \in [T -> Int] /\ \A i \in T : f[i] = g[i + 1]
  BY DEF BeginsWith
<1>5. r \in [R -> Int] /\ \A y \in R : r[y] = g[y]
  BY <1>4
<1>6. OneLess(S, g, 1, R, r)
  BY <1>2, <1>3, <1>4, <1>5 DEF OneLess
<1>7. \A i \in T : b[i] = i + 1 /\ i + 1 \in R
  BY <1>1
<1>8. b \in [T -> R] /\ \A x, y \in T : b[x] = b[y] => x = y
  BY <1>7
<1>9. \A y \in R : \E x \in T : b[x] = y
  <2> TAKE y \in R
  <2>1. y - 1 \in T /\ b[y - 1] = y
    BY <1>1, <1>7
  <2> QED BY <2>1
<1>10. \A x \in T : f[x] = r[b[x]]
  BY <1>4, <1>5, <1>7
<1>11. Renumbered(T, f, R, r, b)
  BY <1>2, <1>3, <1>4, <1>5, <1>8, <1>9, <1>10 DEF Renumbered
<1>12. Total(f) = Total(r)
  BY <1>11, TotalRenumbered
<1>13. Total(g) \in Int /\ Total(r) \in Int /\ Total(g) = g[1] + Total(r)
  BY <1>6, TotalWithout
<1>14. g[1] = a
  BY DEF BeginsWith
<1> QED BY <1>12, <1>13, <1>14

\* The pairs in M whose first element is in s.
PairsIn(M, s) == {y \in M : y[1] \in s}

\* A set of pairs is as large as the numbers of the pairs from each element together.
LEMMA TotalOfPairs ==
    ASSUME NEW S, IsFiniteSet(S), NEW M, IsFiniteSet(M), \A y \in M : y[1] \in S,
           NEW g \in [S -> Int], \A x \in S : g[x] = Cardinality(PairsIn(M, {x}))
    PROVE  Total(g) = Cardinality(M)
<1>1. PICK h : Additive(S, g, h) /\ Total(g) = h[S]
  BY TotalAdds
<1>2. PICK k : k = [s \in SUBSET S |-> Cardinality(PairsIn(M, s))]
  OBVIOUS
<1>3. \A s : PairsIn(M, s) \in SUBSET M
  BY DEF PairsIn
<1>4. \A s : IsFiniteSet(PairsIn(M, s)) /\ Cardinality(PairsIn(M, s)) \in Nat
  BY <1>3, FS_Subset, FS_CardinalityType
<1>5. Additive(S, g, k)
  <2>1. k \in [SUBSET S -> Int]
    BY <1>2, <1>4
  <2>2. k[{}] = 0
    <3>1. PairsIn(M, {}) = {}
      BY DEF PairsIn
    <3> QED BY <1>2, <3>1, FS_EmptySet
  <2>3. ASSUME NEW s \in SUBSET S, NEW x \in s
        PROVE  k[s] = g[x] + k[s \ {x}]
    <3>1. PICK t \in SUBSET S : t = s \ {x}
      OBVIOUS
    <3>2. PairsIn(M, s) = PairsIn(M, {x}) \cup PairsIn(M, t) /\ PairsIn(M, {x}) \cap PairsIn(M, t) = {}
      BY <3>1 DEF PairsIn
    <3>3. PICK A : A = PairsIn(M, {x})
      OBVIOUS
    <3>4. PICK B : B = PairsIn(M, t)
      OBVIOUS
    <3>5. IsFiniteSet(A) /\ IsFiniteSet(B) /\ Cardinality(A) \in Nat /\ Cardinality(B) \in Nat
      BY <1>4, <3>3, <3>4
    <3>6. A \cap B = {} /\ PairsIn(M, s) = A \cup B
      BY <3>2, <3>3, <3>4
    <3>7. Cardinality(A \cup B) = Cardinality(A) + Cardinality(B) - Cardinality(A \cap B)
      BY <3>5, FS_Union
    <3>8. Cardinality(PairsIn(M, s)) = Cardinality(A) + Cardinality(B)
      <4>1. Cardinality(A \cap B) = 0
        BY <3>6, FS_EmptySet
      <4> QED BY <3>5, <3>6, <3>7, <4>1
    <3>9. g[x] = Cardinality(A) /\ k[t] = Cardinality(B) /\ k[s] = Cardinality(PairsIn(M, s))
      BY <1>2, <3>3, <3>4
    <3> QED BY <3>1, <3>8, <3>9
  <2> QED BY <2>1, <2>2, <2>3 DEF Additive
<1>6. S \in SUBSET S /\ S \subseteq S /\ \A x \in S : g[x] = g[x]
  OBVIOUS
<1>7. h[S] = k[S]
  BY <1>1, <1>5, <1>6, SumsAgree
<1>8. PairsIn(M, S) = M
  BY DEF PairsIn
<1> QED BY <1>1, <1>2, <1>6, <1>7, <1>8

\* The places of S are as many as their marks come to.
LEMMA TotalOfMarks ==
    ASSUME NEW S, IsFiniteSet(S), NEW g \in [S -> {0, 1}],
           NEW T, T = {x \in S : g[x] = 1}
    PROVE  IsFiniteSet(T) /\ Total(g) = Cardinality(T)
<1>1. g \in [S -> Int]
  OBVIOUS
<1>2. PICK h : Additive(S, g, h) /\ Total(g) = h[S]
  BY <1>1, TotalAdds
<1>3. PICK k : k = [s \in SUBSET S |-> Cardinality(s \cap T)]
  OBVIOUS
<1>4. T \in SUBSET S /\ IsFiniteSet(T)
  BY FS_Subset
<1>5. \A s : IsFiniteSet(s \cap T) /\ Cardinality(s \cap T) \in Nat
  BY <1>4, FS_Intersection, FS_CardinalityType
<1>6. Additive(S, g, k)
  <2>1. k \in [SUBSET S -> Int]
    <3>1. ASSUME NEW s \in SUBSET S PROVE Cardinality(s \cap T) \in Int
      BY <1>5
    <3> QED BY <1>3, <3>1
  <2>2. k[{}] = 0
    <3>1. {} \cap T = {}
      OBVIOUS
    <3> QED BY <1>3, <3>1, FS_EmptySet
  <2>3. ASSUME NEW s \in SUBSET S, NEW x \in s
        PROVE  k[s] = g[x] + k[s \ {x}]
    <3>1. PICK t \in SUBSET S : t = s \ {x}
      OBVIOUS
    <3>2. PICK A : A = s \cap T
      OBVIOUS
    <3>3. PICK B : B = t \cap T
      OBVIOUS
    <3>4. B = A \ {x} /\ IsFiniteSet(A) /\ Cardinality(A) \in Nat /\ (x \in A <=> g[x] = 1)
      BY <1>5, <3>1, <3>2, <3>3
    <3>5. Cardinality(A \ {x}) = IF x \in A THEN Cardinality(A) - 1 ELSE Cardinality(A)
      BY <3>4, FS_RemoveElement
    <3>6. k[s] = Cardinality(A) /\ k[t] = Cardinality(B) /\ g[x] \in {0, 1}
      BY <1>3, <3>2, <3>3
    <3> QED BY <3>1, <3>4, <3>5, <3>6
  <2> QED BY <2>1, <2>2, <2>3 DEF Additive
<1>7. S \in SUBSET S /\ S \subseteq S /\ \A x \in S : g[x] = g[x]
  OBVIOUS
<1>8. h[S] = k[S]
  BY <1>2, <1>6, <1>7, SumsAgree
<1>9. S \cap T = T
  OBVIOUS
<1> QED BY <1>2, <1>3, <1>4, <1>7, <1>8, <1>9
=============================================================================
