--------------------------- MODULE RTRuntimeProofs ---------------------------
(***************************************************************************)
(* Theorems about RTRuntime, for code of any shape, any threads and any    *)
(* width of the counters: where the hooks end up and what they count.      *)
(***************************************************************************)
EXTENDS RTRuntime, RTInduction, FiniteSetTheorems, SequencesExt, TLAPS

(***************************************************************************)
(* Counters that wrap around: a number and its remainder differ by a       *)
(* multiple of the modulus.                                                *)
(***************************************************************************)
LEMMA NoMultiple ==
  ASSUME NEW m \in Nat \ {0}, NEW x \in 0 .. m - 1, NEW y \in 0 .. m - 1, NEW q \in Int, x - y = q * m
  PROVE  x = y
OBVIOUS

\* A number is its remainder and a multiple of the modulus.
LEMMA Divided ==
  ASSUME NEW m \in Nat \ {0}, NEW x \in Int
  PROVE  x % m \in 0 .. m - 1 /\ \E q \in Int : x = (x % m) + q * m
<1>1. x % m \in 0 .. m - 1
  OBVIOUS
<1>2. x \div m \in Int
  OBVIOUS
<1>3. x = (x % m) + (x \div m) * m
  OBVIOUS
<1> QED
  BY <1>1, <1>2, <1>3

\* Numbers that differ by a multiple have the same remainder.
LEMMA SameRemainder ==
  ASSUME NEW m \in Nat \ {0}, NEW x \in Int, NEW y \in Int, NEW q \in Int, x = y + q * m
  PROVE  x % m = y % m
<1>1. PICK a \in Int : x = (x % m) + a * m
  BY Divided
<1>2. PICK b \in Int : y = (y % m) + b * m
  BY Divided
<1>3. x % m \in 0 .. m - 1 /\ y % m \in 0 .. m - 1
  BY Divided
<1> DEFINE r == x % m
           s == y % m
<1>4. r \in 0 .. m - 1 /\ s \in 0 .. m - 1 /\ x = r + a * m /\ y = s + b * m
  BY <1>1, <1>2, <1>3
<1> HIDE DEF r, s
<1>5. r - s = (b + q - a) * m
  <2> DEFINE A == a * m
             B == b * m
             C == q * m
  <2>1. r + A = s + B + C
    BY <1>4
  <2>2. A \in Int /\ B \in Int /\ C \in Int
    OBVIOUS
  <2>3. (b + q - a) * m = B + C - A
    OBVIOUS
  <2> HIDE DEF A, B, C
  <2> QED
    BY <2>1, <2>2, <2>3, <1>4
<1>6. r = s
  BY <1>4, <1>5, NoMultiple
<1> QED
  BY <1>6 DEF r, s

\* One more, with wrap-around.
LEMMA PlusOne ==
  ASSUME NEW m \in Nat \ {0}, NEW x \in 0 .. m - 1
  PROVE  (x + 1) % m \in 0 .. m - 1 /\ \E q \in Int : (x + 1) % m = x + 1 + q * m
<1>1. x + 1 \in Int
  OBVIOUS
<1>2. PICK q \in Int : x + 1 = ((x + 1) % m) + q * m
  BY <1>1, Divided
<1>3. (x + 1) % m \in 0 .. m - 1
  BY <1>1, Divided
<1>4. (-q) * m = -(q * m) /\ -q \in Int
  OBVIOUS
<1> QED
  BY <1>2, <1>3, <1>4
-----------------------------------------------------------------------------
(***************************************************************************)
(* Sums over the threads: the fold takes away one thread after the other.  *)
(***************************************************************************)
Pick(s) == CHOOSE x \in s : TRUE
Rest(s) == s \ {Pick(s)}

\* What is picked is there, and one less is left.
LEMMA Picked ==
  ASSUME NEW s, IsFiniteSet(s), s # {}
  PROVE  /\ Pick(s) \in s /\ IsFiniteSet(Rest(s))
         /\ Cardinality(s) \in Nat /\ Cardinality(Rest(s)) \in Nat
         /\ Cardinality(Rest(s)) = Cardinality(s) - 1
<1> DEFINE r == s \ {Pick(s)}
<1>1. Pick(s) \in s
  BY DEF Pick
<1>2. IsFiniteSet(r) /\ Cardinality(r) = Cardinality(s) - 1
  BY <1>1, FS_RemoveElement
<1>3. Cardinality(s) \in Nat /\ Cardinality(r) \in Nat
  BY <1>2, FS_CardinalityType
<1>4. Rest(s) = r
  BY DEF Rest
<1> HIDE DEF r
<1> QED
  BY <1>1, <1>2, <1>3, <1>4

\* In a set, and without what was picked.
LEMMA PickRest ==
  ASSUME NEW T, NEW s \in SUBSET T, s # {}
  PROVE  /\ Pick(s) \in s /\ Pick(s) \in T /\ Rest(s) \in SUBSET T /\ Pick(s) \notin Rest(s)
         /\ \A t : t \in s <=> t = Pick(s) \/ t \in Rest(s)
BY DEF Pick, Rest

\* The subsets by their sizes.
LEMMA Sized ==
  ASSUME NEW T, IsFiniteSet(T), NEW s \in SUBSET T
  PROVE  /\ IsFiniteSet(s) /\ Cardinality(s) \in Nat /\ Cardinality(s) <= Cardinality(T)
         /\ Cardinality(s) <= 0 => s = {}
<1>1. IsFiniteSet(s) /\ Cardinality(s) \in Nat /\ Cardinality(s) <= Cardinality(T)
  BY FS_Subset, FS_CardinalityType
<1>2. Cardinality(s) = 0 => s = {}
  BY <1>1, FS_EmptySet
<1> QED
  BY <1>1, <1>2

\* A recursion has values as far as one goes.
Staged(g, X, b, F, m) == g \in [0 .. m -> X] /\ g[0] = b /\ \A n \in 1 .. m : g[n] = F[n][g[n - 1]]

\* A function applied stage by stage has its stages.
LEMMA StagesExist ==
  ASSUME NEW X, NEW b \in X, NEW F \in [Nat -> [X -> X]], NEW m \in Nat
  PROVE  \E g : Staged(g, X, b, F, m)
<1>1. PICK g \in [0 .. m -> X] : g[0] = b /\ \A n \in 1 .. m : g[n] = F[n][g[n - 1]]
  BY RecursionExists, Z3
<1> QED
  BY <1>1 DEF Staged

\* One step of the recursion, from the sums over smaller sets.
SumStep(T, f, h) == [s \in SUBSET T |-> IF s = {} THEN 0 ELSE f[Pick(s)] + h[Rest(s)]]

Summed(it, T, f) == it = SumStep(T, f, it)

\* One step of the sum, at a set.
LEMMA SumStepAt ==
  ASSUME NEW T, NEW f, NEW h, NEW s \in SUBSET T
  PROVE  /\ s = {} => SumStep(T, f, h)[s] = 0
         /\ s # {} => SumStep(T, f, h)[s] = f[Pick(s)] + h[Rest(s)]
BY DEF SumStep

\* A step leads from numbers to numbers.
LEMMA SumStepType ==
  ASSUME NEW T, NEW f \in [T -> Int], NEW h \in [SUBSET T -> Int]
  PROVE  SumStep(T, f, h) \in [SUBSET T -> Int]
<1>1. ASSUME NEW s \in SUBSET T PROVE (IF s = {} THEN 0 ELSE f[Pick(s)] + h[Rest(s)]) \in Int
  <2>1. CASE s = {}
    BY <2>1
  <2>2. CASE s # {}
    <3>1. Pick(s) \in T /\ Rest(s) \in SUBSET T
      BY <2>2, PickRest
    <3>2. f[Pick(s)] \in Int /\ h[Rest(s)] \in Int
      BY <3>1
    <3> QED
      BY <2>2, <3>2
  <2> QED
    BY <2>1, <2>2
<1> QED
  BY <1>1 DEF SumStep

\* Stages of the recursion.
LEMMA SumStages ==
  ASSUME NEW T, NEW f \in [T -> Int], NEW m \in Nat
  PROVE  \E g \in [0 .. m -> [SUBSET T -> Int]] : \A n \in 1 .. m : g[n] = SumStep(T, f, g[n - 1])
<1> DEFINE U == [SUBSET T -> Int]
           b == [s \in SUBSET T |-> 0]
           F == [n \in Nat |-> [h \in U |-> SumStep(T, f, h)]]
<1>1. b \in U
  OBVIOUS
<1>2. F \in [Nat -> [U -> U]]
  BY SumStepType
<1>3. \A n \in Nat, h \in U : F[n][h] = SumStep(T, f, h)
  OBVIOUS
<1> HIDE DEF U, b, F
<1>4. PICK g : Staged(g, U, b, F, m)
  BY <1>1, <1>2, StagesExist
<1>5. \A n \in 1 .. m : n - 1 \in 0 .. m /\ n \in Nat
  OBVIOUS
<1>6. ASSUME NEW n \in 1 .. m PROVE g[n] = SumStep(T, f, g[n - 1])
  <2>1. g[n - 1] \in U /\ n \in Nat
    BY <1>4, <1>5 DEF Staged
  <2> QED
    BY <1>3, <1>4, <2>1 DEF Staged
<1> QED
  BY <1>4, <1>6 DEF U, Staged

\* There is a sum.
LEMMA SumExists ==
  ASSUME NEW T, IsFiniteSet(T), NEW f \in [T -> Int]
  PROVE  \E it : Summed(it, T, f)
<1> DEFINE c == Cardinality(T)
<1>1. c \in Nat
  BY FS_CardinalityType
<1> HIDE DEF c
<1>2. PICK g \in [0 .. c + 2 -> [SUBSET T -> Int]] : \A n \in 1 .. c + 2 : g[n] = SumStep(T, f, g[n - 1])
  <2>1. c + 2 \in Nat
    BY <1>1
  <2> QED
    BY <2>1, SumStages
<1>3. ASSUME NEW n \in Nat, n <= c + 1
      PROVE  g[n + 1] = SumStep(T, f, g[n])
  <2>1. n + 1 \in 1 .. c + 2 /\ (n + 1) - 1 = n
    BY <1>1, <1>3
  <2> QED
    BY <1>2, <2>1
<1> DEFINE A == {n \in Nat : n <= c => \A s \in SUBSET T : Cardinality(s) <= n => g[n + 2][s] = g[n + 1][s]}
<1>4. 0 \in A
  <2> SUFFICES ASSUME NEW s \in SUBSET T, Cardinality(s) <= 0 PROVE g[0 + 2][s] = g[0 + 1][s]
    OBVIOUS
  <2>1. s = {}
    BY Sized
  <2>2. g[0 + 1] = SumStep(T, f, g[0]) /\ g[1 + 1] = SumStep(T, f, g[1])
    BY <1>1, <1>3
  <2>3. g[0 + 1][s] = 0
    BY <2>1, <2>2, SumStepAt
  <2>4. g[1 + 1][s] = 0
    BY <2>1, <2>2, SumStepAt
  <2> QED
    BY <2>3, <2>4
<1>5. ASSUME NEW n \in Nat, n \in A PROVE n + 1 \in A
  <2> SUFFICES ASSUME n + 1 <= c, NEW s \in SUBSET T, Cardinality(s) <= n + 1
               PROVE  g[(n + 1) + 2][s] = g[(n + 1) + 1][s]
    OBVIOUS
  <2> DEFINE u == Rest(s)
             k == n + 1
             l == n + 2
  <2>1. k \in Nat /\ k <= c + 1 /\ l \in Nat /\ l <= c + 1 /\ l + 1 = (n + 1) + 2 /\ k + 1 = l /\ l = (n + 1) + 1
    BY <1>1
  <2>2. ASSUME s # {} PROVE g[l][u] = g[k][u]
    <3>1. IsFiniteSet(s)
      BY Sized
    <3>2. Cardinality(u) \in Nat /\ Cardinality(u) = Cardinality(s) - 1 /\ Cardinality(s) \in Nat
      BY <2>2, <3>1, Picked
    <3>3. Cardinality(u) <= n
      BY <3>2
    <3>4. u \in SUBSET T
      BY <2>2, PickRest
    <3>5. n <= c
      BY <1>1
    <3> QED
      BY <1>5, <3>3, <3>4, <3>5
  <2>3. g[l + 1] = SumStep(T, f, g[l])
    BY <1>3, <2>1
  <2>4. g[k + 1] = SumStep(T, f, g[k])
    BY <1>3, <2>1
  <2>5. g[l + 1][s] = g[k + 1][s]
    <3>1. CASE s = {}
      BY <2>3, <2>4, <3>1, SumStepAt
    <3>2. CASE s # {}
      BY <2>2, <2>3, <2>4, <3>2, SumStepAt
    <3> QED
      BY <3>1, <3>2
  <2> QED
    BY <2>1, <2>5
<1>6. c \in A
  <2> HIDE DEF A
  <2>1. Nat \subseteq A
    BY <1>4, <1>5, SetInduction
  <2> QED
    BY <1>1, <2>1
<1> DEFINE it == g[c + 1]
<1>7. it \in [SUBSET T -> Int]
  <2>1. c + 1 \in 0 .. c + 2
    BY <1>1
  <2> QED
    BY <1>2, <2>1
<1>8. g[c + 1] = SumStep(T, f, g[c])
  BY <1>1, <1>3
<1>9. g[c + 2] = SumStep(T, f, it)
  <2>1. c + 1 \in Nat /\ c + 1 <= c + 1 /\ (c + 1) + 1 = c + 2
    BY <1>1
  <2> QED
    BY <1>3, <2>1
<1>10. \A s \in SUBSET T : g[c + 2][s] = it[s]
  <2>1. \A s \in SUBSET T : Cardinality(s) <= c
    BY Sized DEF c
  <2> QED
    BY <1>1, <1>6, <2>1
<1>11. SumStep(T, f, it) = it
  <2>1. SumStep(T, f, it) \in [SUBSET T -> Int]
    BY <1>7, SumStepType
  <2> HIDE DEF it
  <2> QED
    BY <1>7, <1>9, <1>10, <2>1
<1> HIDE DEF it
<1> QED
  BY <1>11 DEF Summed

\* A sum, part by part.
LEMMA SumParts ==
  ASSUME NEW T, IsFiniteSet(T), NEW f \in [T -> Int], NEW it, Summed(it, T, f), NEW s \in SUBSET T
  PROVE  /\ s = {} => it[s] = 0
         /\ s # {} => it[s] = f[Pick(s)] + it[Rest(s)]
<1>1. it = SumStep(T, f, it)
  BY DEF Summed
<1>2. /\ s = {} => SumStep(T, f, it)[s] = 0
      /\ s # {} => SumStep(T, f, it)[s] = f[Pick(s)] + it[Rest(s)]
  BY SumStepAt
<1> QED
  BY <1>1, <1>2

\* The sum of no terms.
LEMMA SumOfNone ==
  ASSUME NEW T, IsFiniteSet(T), NEW f \in [T -> Int], NEW it, Summed(it, T, f)
  PROVE  it[{}] = 0
<1>1. {} \in SUBSET T
  OBVIOUS
<1>2. SumStep(T, f, it)[{}] = 0
  BY <1>1 DEF SumStep
<1> QED
  BY <1>2 DEF Summed

\* If one of the terms changes by d, so do the sums in which it occurs.
LEMMA SumChanges ==
  ASSUME NEW T, IsFiniteSet(T), NEW f \in [T -> Int], NEW g \in [T -> Int], NEW t \in T, NEW d \in Int,
         \A x \in T : g[x] = IF x = t THEN f[x] + d ELSE f[x],
         NEW i, Summed(i, T, f), NEW j, Summed(j, T, g)
  PROVE  i[T] \in Int /\ j[T] = i[T] + d
<1> DEFINE Sums(s) == i[s] \in Int /\ j[s] = i[s] + (IF t \in s THEN d ELSE 0)
           A == {n \in Nat : \A s \in SUBSET T : Cardinality(s) <= n => Sums(s)}
<1>1. i[{}] = 0
  BY SumOfNone
<1>2. j[{}] = 0
  BY SumOfNone
<1>3. 0 \in A
  <2> SUFFICES ASSUME NEW s \in SUBSET T, Cardinality(s) <= 0 PROVE Sums(s)
    OBVIOUS
  <2>1. s = {}
    BY Sized
  <2>2. i[s] = 0
    BY <2>1, <1>1
  <2>3. j[s] = 0
    BY <2>1, <1>2
  <2> QED
    BY <2>1, <2>2, <2>3
<1>4. ASSUME NEW n \in Nat, n \in A PROVE n + 1 \in A
  <2> SUFFICES ASSUME NEW s \in SUBSET T, Cardinality(s) <= n + 1 PROVE Sums(s)
    OBVIOUS
  <2>1. CASE s = {}
    <3>1. i[s] = 0
      BY <2>1, <1>1
    <3>2. j[s] = 0
      BY <2>1, <1>2
    <3> QED
      BY <2>1, <3>1, <3>2
  <2>2. CASE s # {}
    <3> DEFINE p == Pick(s)
               u == Rest(s)
    <3>1. p \in s /\ p \in T /\ u \in SUBSET T /\ p \notin u /\ \A x : x \in s <=> x = p \/ x \in u
      BY <2>2, PickRest
    <3>2. Cardinality(u) <= n
      <4>1. IsFiniteSet(s)
        BY Sized
      <4>2. Cardinality(u) \in Nat /\ Cardinality(u) = Cardinality(s) - 1 /\ Cardinality(s) \in Nat
        BY <4>1, <2>2, Picked
      <4> QED
        BY <4>2
    <3>3. Sums(u)
      BY <1>4, <3>1, <3>2
    <3>4. i[s] = f[p] + i[u]
      BY <2>2, SumParts
    <3>5. j[s] = g[p] + j[u]
      BY <2>2, SumParts
    <3>6. f[p] \in Int /\ g[p] = (IF p = t THEN f[p] + d ELSE f[p])
      BY <3>1
    <3>7. (t \in s <=> p = t \/ t \in u) /\ (p = t => t \notin u)
      BY <3>1
    <3> HIDE DEF p, u
    <3>8. i[s] \in Int
      BY <3>3, <3>4, <3>6
    <3>9. j[s] = i[s] + (IF t \in s THEN d ELSE 0)
      BY <3>3, <3>4, <3>5, <3>6, <3>7
    <3> QED
      BY <3>8, <3>9
  <2> QED
    BY <2>1, <2>2
<1>5. Nat \subseteq A
  <2> HIDE DEF A
  <2> QED
    BY <1>3, <1>4, SetInduction
<1>6. Cardinality(T) \in A /\ T \in SUBSET T
  BY <1>5, FS_CardinalityType
<1>7. Sums(T)
  <2>1. Cardinality(T) \in Nat
    BY FS_CardinalityType
  <2>2. \A s \in SUBSET T : Cardinality(s) <= Cardinality(T) => Sums(s)
    BY <1>6
  <2> QED
    BY <2>1, <2>2
<1> QED
  BY <1>7

\* The sum of nothing but zeros.
LEMMA SumOfZeros ==
  ASSUME NEW T, IsFiniteSet(T), NEW f \in [T -> Int], \A x \in T : f[x] = 0,
         NEW i, Summed(i, T, f)
  PROVE  i[T] = 0
<1> DEFINE A == {n \in Nat : \A s \in SUBSET T : Cardinality(s) <= n => i[s] = 0}
<1>1. 0 \in A
  <2> SUFFICES ASSUME NEW s \in SUBSET T, Cardinality(s) <= 0 PROVE i[s] = 0
    OBVIOUS
  <2>1. s = {}
    BY Sized
  <2> QED
    BY <2>1, SumParts
<1>2. ASSUME NEW n \in Nat, n \in A PROVE n + 1 \in A
  <2> SUFFICES ASSUME NEW s \in SUBSET T, Cardinality(s) <= n + 1 PROVE i[s] = 0
    OBVIOUS
  <2>1. CASE s = {}
    BY <2>1, SumParts
  <2>2. CASE s # {}
    <3> DEFINE p == Pick(s)
               u == Rest(s)
    <3>1. p \in s /\ p \in T /\ u \in SUBSET T /\ p \notin u /\ \A x : x \in s <=> x = p \/ x \in u
      BY <2>2, PickRest
    <3>2. Cardinality(u) <= n
      <4>1. IsFiniteSet(s)
        BY Sized
      <4>2. Cardinality(u) \in Nat /\ Cardinality(u) = Cardinality(s) - 1 /\ Cardinality(s) \in Nat
        BY <4>1, <2>2, Picked
      <4> QED
        BY <4>2
    <3>3. i[u] = 0 /\ f[p] = 0
      BY <1>2, <3>1, <3>2
    <3>4. i[s] = f[p] + i[u]
      BY <2>2, SumParts
    <3> QED
      BY <3>3, <3>4
  <2> QED
    BY <2>1, <2>2
<1>3. Nat \subseteq A
  <2> HIDE DEF A
  <2> QED
    BY <1>1, <1>2, SetInduction
<1>4. Cardinality(T) \in A /\ Cardinality(T) \in Nat
  BY <1>3, FS_CardinalityType
<1> QED
  BY <1>4
-----------------------------------------------------------------------------
(***************************************************************************)
(* The shim.  After a calm reset, and while it is under way, the counters  *)
(* tell how many threads are inside.                                       *)
(***************************************************************************)
Sum(f) == (CHOOSE it : Summed(it, Threads, f))[Threads]

\* The fold of the model is this sum.
LEMMA FoldIsSum == Shim!FoldSet(LAMBDA t, n : inside[t] + n, 0, Threads) = Sum(inside)
BY DEF Shim!FoldSet, Shim!MapThenFoldSet, Sum, Summed, SumStep, Pick, Rest

\* One thread changes the sum as its term changes.
Differ(f, g, t, d) == \A x \in Threads : g[x] = IF x = t THEN f[x] + d ELSE f[x]

\* What one thread counts, the sum counts.
LEMMA SumPlus ==
  ASSUME IsFiniteSet(Threads), NEW f \in [Threads -> Int], NEW g \in [Threads -> Int], NEW t \in Threads, NEW d \in Int,
         Differ(f, g, t, d)
  PROVE  Sum(f) \in Int /\ Sum(g) = Sum(f) + d
<1> DEFINE i == CHOOSE it : Summed(it, Threads, f)
           j == CHOOSE it : Summed(it, Threads, g)
<1>1. Summed(i, Threads, f)
  BY SumExists
<1>2. Summed(j, Threads, g)
  BY SumExists
<1>3. Sum(f) = i[Threads] /\ Sum(g) = j[Threads]
  BY DEF Sum
<1> HIDE DEF i, j
<1>4. i[Threads] \in Int /\ j[Threads] = i[Threads] + d
  BY <1>1, <1>2, SumChanges DEF Differ
<1> QED
  BY <1>3, <1>4

\* Nobody inside.
LEMMA SumZero ==
  ASSUME IsFiniteSet(Threads), NEW f \in [Threads -> Int], \A x \in Threads : f[x] = 0
  PROVE  Sum(f) = 0
<1> DEFINE i == CHOOSE it : Summed(it, Threads, f)
<1>1. Summed(i, Threads, f)
  BY SumExists
<1>2. Sum(f) = i[Threads]
  BY DEF Sum
<1> HIDE DEF i
<1>3. i[Threads] = 0
  BY <1>1, SumOfZeros
<1> QED
  BY <1>2, <1>3

\* The sum is a number.
LEMMA SumTyped ==
  ASSUME IsFiniteSet(Threads), NEW f \in [Threads -> Int]
  PROVE  Sum(f) \in Int
<1>1. CASE Threads = {}
  <2>1. \A x \in Threads : f[x] = 0
    BY <1>1
  <2>2. Sum(f) = 0
    BY <2>1, SumZero
  <2> QED
    BY <2>2
<1>2. CASE Threads # {}
  <2>1. PICK t \in Threads : TRUE
    BY <1>2
  <2>2. Differ(f, f, t, 0)
    BY DEF Differ
  <2> QED
    BY <2>2, SumPlus
<1> QED
  BY <1>1, <1>2

AllQuiet == \A r \in Resetters : stores[r] = {}
Exceeds  == \E q \in Int : enterCount - exitCount = Sum(inside) + q * Modulus
Level    == calm /\ AllQuiet => Exceeds
Stored   == /\ Shim!Nobody
            /\ enterCount # 0 => \E r \in Resetters : "enters" \in stores[r]
            /\ exitCount # 0 => \E r \in Resetters : "exits" \in stores[r]
Clearing == calm /\ ~AllQuiet => Stored
ShimInv  == Shim!TypeOK /\ Level /\ Clearing

\* What is assumed of the constants.
LEMMA ShimSizes == ASSUME Shim!ShimAssumption PROVE IsFiniteSet(Threads) /\ Modulus \in Nat \ {0} /\ MaxNesting \in Nat
BY DEF Shim!ShimAssumption, Shim!IsFiniteSet, IsFiniteSet

\* The counters start equal, with nobody inside.
LEMMA ShimStart == ASSUME Shim!ShimAssumption, Shim!Init PROVE ShimInv
<1> USE DEF Shim!ShimAssumption, Shim!Init
<1>1. Shim!TypeOK
  BY DEF Shim!TypeOK
<1>2. Exceeds
  <2>1. Sum(inside) = 0
    <3>1. inside \in [Threads -> Int] /\ \A x \in Threads : inside[x] = 0
      OBVIOUS
    <3>2. IsFiniteSet(Threads)
      BY ShimSizes
    <3> QED
      BY <3>1, <3>2, SumZero
  <2>2. enterCount - exitCount = Sum(inside) + 0 * Modulus
    BY <2>1
  <2> QED
    BY <2>2 DEF Exceeds
<1>3. AllQuiet
  BY DEF AllQuiet
<1> QED
  BY <1>1, <1>2, <1>3 DEF ShimInv, Level, Clearing

\* A thread enters.
LEMMA ShimEnters ==
  ASSUME Shim!ShimAssumption, ShimInv, NEW t \in Threads, Shim!RealtimeEnter(t)
  PROVE  ShimInv'
<1> USE DEF Shim!ShimAssumption
<1>1. Shim!TypeOK
  BY DEF ShimInv
<1>2. PICK q \in Int : enterCount' = enterCount + 1 + q * Modulus
  BY <1>1, PlusOne DEF Shim!TypeOK, Shim!RealtimeEnter, Shim!Plus
<1>3. enterCount' \in 0 .. Modulus - 1
  BY <1>1, PlusOne DEF Shim!TypeOK, Shim!RealtimeEnter, Shim!Plus
<1>4. inside' \in [Threads -> -MaxNesting .. MaxNesting]
  BY <1>1 DEF Shim!TypeOK, Shim!RealtimeEnter
<1>5. Shim!TypeOK'
  <2>1. calm' \in BOOLEAN
    BY <1>1 DEF Shim!TypeOK, Shim!RealtimeEnter, Shim!Undisturbed
  <2> QED
    BY <1>1, <1>3, <1>4, <2>1 DEF Shim!TypeOK, Shim!RealtimeEnter
<1>6. calm' = (calm /\ AllQuiet) /\ AllQuiet' = AllQuiet /\ exitCount' = exitCount
  BY DEF Shim!RealtimeEnter, Shim!Undisturbed, AllQuiet
<1>7. ASSUME calm', AllQuiet' PROVE Exceeds'
  <2>1. PICK p \in Int : enterCount - exitCount = Sum(inside) + p * Modulus
    BY <1>6, <1>7 DEF ShimInv, Level, Exceeds
  <2>2. inside \in [Threads -> Int] /\ inside' \in [Threads -> Int]
    BY <1>1, <1>4 DEF Shim!TypeOK
  <2>3. Differ(inside, inside', t, 1)
    BY <1>1 DEF Differ, Shim!TypeOK, Shim!RealtimeEnter
  <2>4. Sum(inside) \in Int /\ Sum(inside') = Sum(inside) + 1
    <3>1. IsFiniteSet(Threads)
      BY ShimSizes
    <3>2. Sum(inside) \in Int
      BY <2>2, <2>3, <3>1, SumPlus
    <3>3. Sum(inside') = Sum(inside) + 1
      BY <2>2, <2>3, <3>1, SumPlus
    <3> QED
      BY <3>2, <3>3
  <2>5. enterCount' - exitCount' = Sum(inside') + (p + q) * Modulus
    <3> DEFINE A == p * Modulus
               B == q * Modulus
    <3>1. A \in Int /\ B \in Int /\ (p + q) * Modulus = A + B
      OBVIOUS
    <3>2. enterCount \in Int /\ exitCount \in Int
      BY <1>1 DEF Shim!TypeOK
    <3>3. enterCount - exitCount = Sum(inside) + A /\ enterCount' = enterCount + 1 + B
      BY <1>2, <2>1
    <3> DEFINE S == Sum(inside)
               Z == Sum(inside')
    <3>4. S \in Int /\ Z = S + 1 /\ enterCount - exitCount = S + A
      BY <2>4, <3>3
    <3> HIDE DEF A, B, S, Z
    <3>5. enterCount' - exitCount' = Z + (A + B)
      BY <1>6, <3>1, <3>2, <3>3, <3>4
    <3> QED
      BY <3>1, <3>5 DEF Z
  <2>6. p + q \in Int /\ Sum(inside)' = Sum(inside')
    BY DEF Sum
  <2> QED
    BY <2>5, <2>6 DEF Exceeds
<1> QED
  BY <1>5, <1>6, <1>7 DEF ShimInv, Level, Clearing

\* A thread leaves.
LEMMA ShimLeaves ==
  ASSUME Shim!ShimAssumption, ShimInv, NEW t \in Threads, Shim!RealtimeExit(t)
  PROVE  ShimInv'
<1> USE DEF Shim!ShimAssumption
<1>1. Shim!TypeOK
  BY DEF ShimInv
<1>2. PICK q \in Int : exitCount' = exitCount + 1 + q * Modulus
  BY <1>1, PlusOne DEF Shim!TypeOK, Shim!RealtimeExit, Shim!Plus
<1>3. exitCount' \in 0 .. Modulus - 1
  BY <1>1, PlusOne DEF Shim!TypeOK, Shim!RealtimeExit, Shim!Plus
<1>4. inside' \in [Threads -> -MaxNesting .. MaxNesting]
  BY <1>1 DEF Shim!TypeOK, Shim!RealtimeExit
<1>5. Shim!TypeOK'
  <2>1. calm' \in BOOLEAN
    BY <1>1 DEF Shim!TypeOK, Shim!RealtimeExit, Shim!Undisturbed
  <2> QED
    BY <1>1, <1>3, <1>4, <2>1 DEF Shim!TypeOK, Shim!RealtimeExit
<1>6. calm' = (calm /\ AllQuiet) /\ AllQuiet' = AllQuiet /\ enterCount' = enterCount
  BY DEF Shim!RealtimeExit, Shim!Undisturbed, AllQuiet
<1>7. ASSUME calm', AllQuiet' PROVE Exceeds'
  <2>1. PICK p \in Int : enterCount - exitCount = Sum(inside) + p * Modulus
    BY <1>6, <1>7 DEF ShimInv, Level, Exceeds
  <2>2. inside \in [Threads -> Int] /\ inside' \in [Threads -> Int]
    BY <1>1, <1>4 DEF Shim!TypeOK
  <2>3. Differ(inside, inside', t, -1)
    BY <1>1 DEF Differ, Shim!TypeOK, Shim!RealtimeExit
  <2>4. Sum(inside) \in Int /\ Sum(inside') = Sum(inside) - 1
    <3>1. IsFiniteSet(Threads)
      BY ShimSizes
    <3>2. Sum(inside) \in Int
      BY <2>2, <2>3, <3>1, SumPlus
    <3>3. Sum(inside') = Sum(inside) + (-1)
      BY <2>2, <2>3, <3>1, SumPlus
    <3> QED
      BY <3>2, <3>3
  <2>5. enterCount' - exitCount' = Sum(inside') + (p - q) * Modulus
    <3> DEFINE A == p * Modulus
               B == q * Modulus
    <3>1. A \in Int /\ B \in Int /\ (p - q) * Modulus = A - B
      OBVIOUS
    <3>2. enterCount \in Int /\ exitCount \in Int
      BY <1>1 DEF Shim!TypeOK
    <3>3. enterCount - exitCount = Sum(inside) + A /\ exitCount' = exitCount + 1 + B
      BY <1>2, <2>1
    <3> DEFINE S == Sum(inside)
               Z == Sum(inside')
    <3>4. S \in Int /\ Z = S - 1 /\ enterCount - exitCount = S + A
      BY <2>4, <3>3
    <3> HIDE DEF A, B, S, Z
    <3>5. enterCount' - exitCount' = Z + (A - B)
      BY <1>6, <3>1, <3>2, <3>3, <3>4
    <3> QED
      BY <3>1, <3>5 DEF Z
  <2>6. p - q \in Int /\ Sum(inside)' = Sum(inside')
    BY DEF Sum
  <2> QED
    BY <2>5, <2>6 DEF Exceeds
<1> QED
  BY <1>5, <1>6, <1>7 DEF ShimInv, Level, Clearing

\* A reset is called.
LEMMA ShimResets ==
  ASSUME Shim!ShimAssumption, ShimInv, NEW r \in Resetters, Shim!Reset(r)
  PROVE  ShimInv'
<1>1. Shim!TypeOK
  BY DEF ShimInv
<1>2. stores' \in [Resetters -> SUBSET {"enters", "exits"}] /\ stores'[r] = {"enters", "exits"}
  BY <1>1 DEF Shim!TypeOK, Shim!Reset
<1>3. calm' => Shim!Nobody
  BY DEF Shim!Reset
<1>4. Shim!TypeOK'
  <2>1. calm' \in BOOLEAN
    BY DEF Shim!Reset
  <2> QED
    BY <1>1, <1>2, <2>1 DEF Shim!TypeOK, Shim!Reset
<1>5. ~AllQuiet'
  BY <1>2 DEF AllQuiet
<1>6. calm' => Stored'
  BY <1>2, <1>3 DEF Stored, Shim!Nobody, Shim!Reset
<1> QED
  BY <1>4, <1>5, <1>6 DEF ShimInv, Level, Clearing

\* One of the stores of a reset, the other one is still to come or has been.
LEMMA ShimStores ==
  ASSUME Shim!ShimAssumption, ShimInv, NEW r \in Resetters, Shim!ResetEnters(r) \/ Shim!ResetExits(r)
  PROVE  ShimInv'
<1>1. Shim!TypeOK
  BY DEF ShimInv
<1>2. ~AllQuiet
  BY DEF AllQuiet, Shim!ResetEnters, Shim!ResetExits
<1>3. 0 \in 0 .. Modulus - 1
  BY ShimSizes
<1>4. Shim!TypeOK'
  BY <1>1, <1>3 DEF Shim!TypeOK, Shim!ResetEnters, Shim!ResetExits
<1>5. inside' = inside /\ calm' = calm
  BY DEF Shim!ResetEnters, Shim!ResetExits
<1>6. ASSUME calm' PROVE Stored'
  <2>1. Stored
    BY <1>2, <1>5, <1>6 DEF ShimInv, Clearing
  <2>2. CASE Shim!ResetEnters(r)
    <3>1. enterCount' = 0 /\ exitCount' = exitCount
      BY <2>2 DEF Shim!ResetEnters
    <3>2. \A x \in Resetters : "exits" \in stores[x] => "exits" \in stores'[x]
      BY <1>1, <2>2 DEF Shim!TypeOK, Shim!ResetEnters
    <3> QED
      BY <1>5, <2>1, <3>1, <3>2 DEF Stored, Shim!Nobody
  <2>3. CASE Shim!ResetExits(r)
    <3>1. exitCount' = 0 /\ enterCount' = enterCount
      BY <2>3 DEF Shim!ResetExits
    <3>2. \A x \in Resetters : "enters" \in stores[x] => "enters" \in stores'[x]
      BY <1>1, <2>3 DEF Shim!TypeOK, Shim!ResetExits
    <3> QED
      BY <1>5, <2>1, <3>1, <3>2 DEF Stored, Shim!Nobody
  <2> QED
    BY <2>2, <2>3
<1>7. ASSUME calm', AllQuiet' PROVE Exceeds'
  <2>1. enterCount' = 0 /\ exitCount' = 0
    BY <1>6, <1>7 DEF AllQuiet, Stored
  <2>2. Sum(inside') = 0
    <3>1. inside' \in [Threads -> Int] /\ \A x \in Threads : inside'[x] = 0
      <4>1. inside \in [Threads -> Int]
        BY <1>1, ShimSizes DEF Shim!TypeOK
      <4> QED
        BY <1>5, <1>6, <1>7, <4>1 DEF Stored, Shim!Nobody
    <3>2. IsFiniteSet(Threads)
      BY ShimSizes
    <3> QED
      BY <3>1, <3>2, SumZero
  <2>3. enterCount' - exitCount' = Sum(inside') + 0 * Modulus
    BY <2>1, <2>2, ShimSizes
  <2>4. Sum(inside)' = Sum(inside')
    BY DEF Sum
  <2> QED
    BY <2>3, <2>4 DEF Exceeds
<1> QED
  BY <1>4, <1>6, <1>7 DEF ShimInv, Level, Clearing

\* Nothing happens.
LEMMA ShimRests == ASSUME ShimInv, UNCHANGED shimVars PROVE ShimInv'
BY DEF ShimInv, shimVars, Shim!TypeOK, Level, Clearing, AllQuiet, Exceeds, Stored, Shim!Nobody, Sum

\* What the counters tell.
LEMMA ShimCounts == ASSUME Shim!ShimAssumption, ShimInv PROVE Shim!BalancedWhenCalm
<1>1. SUFFICES ASSUME Shim!Undisturbed
               PROVE  (enterCount - exitCount) % Modulus = Sum(inside) % Modulus
  BY FoldIsSum DEF Shim!BalancedWhenCalm
<1>2. PICK q \in Int : enterCount - exitCount = Sum(inside) + q * Modulus
  BY <1>1 DEF ShimInv, Level, Exceeds, Shim!Undisturbed, AllQuiet
<1>3. Sum(inside) \in Int
  <2>1. Sum(inside) \in Int
    <3>1. inside \in [Threads -> Int]
      BY ShimSizes DEF ShimInv, Shim!TypeOK
    <3> QED
      BY <3>1, SumTyped, ShimSizes
  <2> QED
    BY <2>1
<1>4. enterCount - exitCount \in Int
  BY ShimSizes DEF ShimInv, Shim!TypeOK
<1> DEFINE S == Sum(inside)
           C == enterCount - exitCount
<1> HIDE DEF S, C
<1>5. C \in Int /\ S \in Int /\ C = S + q * Modulus
  BY <1>2, <1>3, <1>4 DEF S, C
<1>6. C % Modulus = S % Modulus
  BY <1>5, ShimSizes, SameRemainder
<1> QED
  BY <1>6 DEF S, C

\* With nobody inside, the counters agree.
LEMMA ShimAgrees ==
  ASSUME Shim!ShimAssumption, ShimInv, Shim!Undisturbed, \A t \in Threads : inside[t] = 0
  PROVE  enterCount = exitCount
<1>1. PICK q \in Int : enterCount - exitCount = Sum(inside) + q * Modulus
  BY DEF ShimInv, Level, Exceeds, Shim!Undisturbed, AllQuiet
<1>2. Sum(inside) = 0
  <2>1. inside \in [Threads -> Int] /\ \A x \in Threads : inside[x] = 0
    BY ShimSizes DEF ShimInv, Shim!TypeOK
  <2> QED
    BY <2>1, SumZero, ShimSizes
<1>3. enterCount - exitCount = q * Modulus
  BY <1>1, <1>2, ShimSizes
<1>4. enterCount \in 0 .. Modulus - 1 /\ exitCount \in 0 .. Modulus - 1
  BY DEF ShimInv, Shim!TypeOK
<1> QED
  BY <1>3, <1>4, NoMultiple, ShimSizes

-----------------------------------------------------------------------------
(***************************************************************************)
(* The hooks.  First what the insertions do to a block.                    *)
(***************************************************************************)
Skip    == {"phi", "pad"}
HookIns == {"enter", "exit", "wrapped"}

\* Phis come first, pads behind them.
Ordered(s) == \A i, j \in DOMAIN s : /\ s[j] = "phi" /\ i < j => s[i] = "phi"
                                     /\ s[j] = "pad" /\ i < j => s[i] = "phi"
Padded(s)  == \E i \in DOMAIN s : s[i] = "pad"

\* The place behind phis and pads.
HeadEnd(s, p) == /\ p \in 1 .. Len(s) + 1
                 /\ \A j \in 1 .. p - 1 : s[j] \in Skip
                 /\ \A j \in p .. Len(s) : s[j] \notin Skip
InHead(s, i)  == \A j \in 1 .. i - 1 : s[j] \in Skip

\* An element more.
Inserted(s, p, x, t) ==
  /\ t \in Seq(Hooks!Ins) /\ Len(t) = Len(s) + 1
  /\ t[p] = x
  /\ \A j \in 1 .. p - 1 : t[j] = s[j]
  /\ \A j \in p + 1 .. Len(s) + 1 : t[j] = s[j - 1]

\* Three pieces of code.
Joined(u, w, v, t) ==
  /\ Len(t) = Len(u) + Len(w) + Len(v)
  /\ \A j \in 1 .. Len(u) : t[j] = u[j]
  /\ \A j \in 1 .. Len(w) : t[Len(u) + j] = w[j]
  /\ \A j \in 1 .. Len(v) : t[Len(u) + Len(w) + j] = v[j]

\* Concatenation joins pieces.
LEMMA Pieces ==
  ASSUME NEW X, NEW u \in Seq(X), NEW w \in Seq(X), NEW v \in Seq(X)
  PROVE  u \o w \o v \in Seq(X) /\ Joined(u, w, v, u \o w \o v)
<1> DEFINE t == u \o w \o v
<1> DEFINE z == u \o w
<1>1. z \in Seq(X) /\ Len(z) = Len(u) + Len(w)
  OBVIOUS
<1>2. \A j \in 1 .. Len(u) : z[j] = u[j]
  OBVIOUS
<1>3. \A j \in 1 .. Len(w) : z[Len(u) + j] = w[j]
  OBVIOUS
<1>4. t = z \o v
  OBVIOUS
<1> HIDE DEF z, t
<1>5. t \in Seq(X)
  BY <1>1, <1>4
<1>6. Len(t) = Len(z) + Len(v)
  <2>1. Len(z \o v) = Len(z) + Len(v)
    BY <1>1, SMTT(30)
  <2> QED
    BY <1>4, <2>1
<1>7. \A j \in 1 .. Len(z) : t[j] = z[j]
  BY <1>1, <1>4
<1>8. \A j \in 1 .. Len(v) : t[Len(z) + j] = v[j]
  BY <1>1, <1>4
<1>9. Len(u) \in Nat /\ Len(w) \in Nat /\ Len(v) \in Nat
  OBVIOUS
<1>10. \A j \in 1 .. Len(u) : t[j] = u[j]
  BY <1>1, <1>2, <1>7, <1>9
<1>11. \A j \in 1 .. Len(w) : t[Len(u) + j] = w[j]
  <2>1. \A j \in 1 .. Len(w) : Len(u) + j \in 1 .. Len(z)
    BY <1>1, <1>9
  <2> QED
    BY <1>3, <1>7, <2>1
<1> QED
  <2>1. Joined(u, w, v, t)
    BY <1>1, <1>6, <1>8, <1>9, <1>10, <1>11 DEF Joined
  <2> QED
    BY <1>5, <2>1 DEF t

\* InsertAt inserts.
LEMMA InsertAtIs ==
  ASSUME NEW s \in Seq(Hooks!Ins), NEW p \in 1 .. Len(s) + 1, NEW x \in Hooks!Ins
  PROVE  Inserted(s, p, x, Hooks!InsertAt(s, p, x))
<1> DEFINE t == Hooks!InsertAt(s, p, x)
<1>1. t = SubSeq(s, 1, p - 1) \o <<x>> \o SubSeq(s, p, Len(s))
  BY DEF Hooks!InsertAt
<1>2. SubSeq(s, 1, p - 1) \in Seq(Hooks!Ins) /\ Len(SubSeq(s, 1, p - 1)) = p - 1
  OBVIOUS
<1>3. SubSeq(s, p, Len(s)) \in Seq(Hooks!Ins) /\ Len(SubSeq(s, p, Len(s))) = Len(s) - p + 1
  OBVIOUS
<1>4. \A j \in 1 .. p - 1 : SubSeq(s, 1, p - 1)[j] = s[j]
  OBVIOUS
<1>5. \A j \in 1 .. Len(s) - p + 1 : SubSeq(s, p, Len(s))[j] = s[p + j - 1]
  OBVIOUS
<1> DEFINE u == SubSeq(s, 1, p - 1)
           v == SubSeq(s, p, Len(s))
<1> HIDE DEF u, v, t
<1>6. u \in Seq(Hooks!Ins) /\ Len(u) = p - 1 /\ v \in Seq(Hooks!Ins) /\ Len(v) = Len(s) - p + 1
  BY <1>2, <1>3 DEF u, v
<1>7. t = u \o <<x>> \o v
  BY <1>1 DEF u, v
<1>8. <<x>> \in Seq(Hooks!Ins) /\ Len(<<x>>) = 1 /\ <<x>>[1] = x
  OBVIOUS
<1> DEFINE w == <<x>>
<1> HIDE DEF w
<1>9. w \in Seq(Hooks!Ins) /\ Len(w) = 1 /\ w[1] = x /\ t = u \o w \o v
  BY <1>7, <1>8 DEF w
<1>10. t \in Seq(Hooks!Ins) /\ Joined(u, w, v, t)
  BY <1>6, <1>9, Pieces
<1>11. t[p] = x
  <2>1. \A j \in 1 .. Len(w) : t[Len(u) + j] = w[j]
    BY <1>10 DEF Joined
  <2>2. 1 \in 1 .. Len(w) /\ Len(u) + 1 = p
    BY <1>6, <1>9
  <2> QED
    BY <1>9, <2>1, <2>2
<1>12. ASSUME NEW j \in 1 .. p - 1 PROVE t[j] = s[j]
  <2>1. \A k \in 1 .. Len(u) : t[k] = u[k]
    BY <1>10 DEF Joined
  <2>2. u[j] = s[j]
    BY <1>4 DEF u
  <2> QED
    BY <1>6, <2>1, <2>2
<1>13. ASSUME NEW j \in p + 1 .. Len(s) + 1 PROVE t[j] = s[j - 1]
  <2>1. \A k \in 1 .. Len(v) : t[Len(u) + Len(w) + k] = v[k]
    BY <1>10 DEF Joined
  <2>2. j - p \in 1 .. Len(v) /\ Len(u) + Len(w) + (j - p) = j /\ p + (j - p) - 1 = j - 1
    BY <1>6, <1>9
  <2>3. v[j - p] = s[p + (j - p) - 1]
    BY <1>5, <1>6, <2>2 DEF v
  <2> QED
    BY <2>1, <2>2, <2>3
<1>14. Len(t) = Len(s) + 1
  BY <1>6, <1>9, <1>10 DEF Joined
<1> QED
  BY <1>10, <1>11, <1>12, <1>13, <1>14 DEF Inserted, t

\* Append inserts at the end.
LEMMA AppendIs ==
  ASSUME NEW s \in Seq(Hooks!Ins), NEW x \in Hooks!Ins
  PROVE  Inserted(s, Len(s) + 1, x, Append(s, x))
BY DEF Inserted

\* A call between its hooks.
Bracket(s, i, t) ==
  /\ t \in Seq(Hooks!Ins) /\ Len(t) = Len(s) + 2
  /\ t[i] = "enter" /\ t[i + 1] = "wrapped" /\ t[i + 2] = "exit"
  /\ \A j \in 1 .. i - 1 : t[j] = s[j]
  /\ \A j \in i + 3 .. Len(s) + 2 : t[j] = s[j - 2]

\* Around puts a call in brackets.
LEMMA AroundIs ==
  ASSUME NEW s \in Seq(Hooks!Ins), NEW i \in DOMAIN s
  PROVE  Bracket(s, i, Hooks!Around(s, i))
<1> DEFINE t == Hooks!Around(s, i)
           w == <<"enter", "wrapped", "exit">>
           u == SubSeq(s, 1, i - 1)
           v == SubSeq(s, i + 1, Len(s))
<1>1. t = u \o w \o v
  BY DEF Hooks!Around
<1>2. u \in Seq(Hooks!Ins) /\ Len(u) = i - 1
  OBVIOUS
<1>3. v \in Seq(Hooks!Ins) /\ Len(v) = Len(s) - i
  OBVIOUS
<1>4. \A j \in 1 .. i - 1 : u[j] = s[j]
  OBVIOUS
<1>5. \A j \in 1 .. Len(s) - i : v[j] = s[i + j]
  OBVIOUS
<1>6. w \in Seq(Hooks!Ins) /\ Len(w) = 3 /\ w[1] = "enter" /\ w[2] = "wrapped" /\ w[3] = "exit"
  BY DEF Hooks!Ins
<1> HIDE DEF t, u, v, w
<1>7. t \in Seq(Hooks!Ins) /\ Joined(u, w, v, t)
  BY <1>1, <1>2, <1>3, <1>6, Pieces
<1>8. Len(t) = Len(s) + 2
  BY <1>2, <1>3, <1>6, <1>7, SMTT(30) DEF Joined
<1>9. t[i] = "enter" /\ t[i + 1] = "wrapped" /\ t[i + 2] = "exit"
  <2>1. \A j \in 1 .. Len(w) : t[Len(u) + j] = w[j]
    BY <1>7 DEF Joined
  <2>2. Len(u) + 1 = i /\ Len(u) + 2 = i + 1 /\ Len(u) + 3 = i + 2
    BY <1>2
  <2>3. 1 \in 1 .. Len(w) /\ 2 \in 1 .. Len(w) /\ 3 \in 1 .. Len(w)
    BY <1>6
  <2> QED
    BY <1>6, <2>1, <2>2, <2>3
<1>10. ASSUME NEW j \in 1 .. i - 1 PROVE t[j] = s[j]
  <2>1. \A k \in 1 .. Len(u) : t[k] = u[k]
    BY <1>7 DEF Joined
  <2> QED
    BY <1>2, <1>4, <2>1
<1>11. ASSUME NEW j \in i + 3 .. Len(s) + 2 PROVE t[j] = s[j - 2]
  <2>1. \A k \in 1 .. Len(v) : t[Len(u) + Len(w) + k] = v[k]
    BY <1>7 DEF Joined
  <2>2. j - i - 2 \in 1 .. Len(s) - i /\ i + (j - i - 2) = j - 2
    OBVIOUS
  <2>4. Len(u) + Len(w) + (j - i - 2) = j /\ Len(v) = Len(s) - i
    BY <1>2, <1>3, <1>6
  <2>3. v[j - i - 2] = s[i + (j - i - 2)]
    BY <1>5, <2>2
  <2> QED
    BY <2>1, <2>2, <2>3, <2>4
<1>12. t \in Seq(Hooks!Ins)
  BY <1>7
<1> QED
  BY <1>8, <1>9, <1>10, <1>11, <1>12 DEF Bracket, t

-----------------------------------------------------------------------------
(***************************************************************************)
(* What a block looks like, per call site: a call between its hooks; an    *)
(* enter at the end; exits that belong to invokes of other blocks.         *)
(***************************************************************************)
EndsOpen(s)    == Len(s) > 0 /\ s[Len(s)] = "enter"
After(s, i, x) == i > 1 /\ s[i - 1] = x
Before(s, i, x) == i < Len(s) /\ s[i + 1] = x
Bracketed(s)   == \A i \in DOMAIN s :
                     /\ s[i] = "enter" => i = Len(s) \/ Before(s, i, "wrapped")
                     /\ s[i] = "wrapped" => After(s, i, "enter") /\ Before(s, i, "exit")
FreeExit(s, i) == i \in DOMAIN s /\ s[i] = "exit" /\ ~After(s, i, "wrapped")
HeadExit(s, i) == i \in DOMAIN s /\ s[i] = "exit" /\ InHead(s, i)

\* A hook behind all phis and pads changes nothing of them.
LEMMA InsertedOrder ==
  ASSUME NEW s \in Seq(Hooks!Ins), NEW p \in 1 .. Len(s) + 1, NEW x \in HookIns, NEW t,
         Inserted(s, p, x, t), \A j \in p .. Len(s) : s[j] \notin Skip, Ordered(s)
  PROVE  Ordered(t) /\ (Padded(t) <=> Padded(s))
<1>1. x # "phi" /\ x # "pad"
  BY DEF HookIns
<1>2. \A j \in DOMAIN t : t[j] \in Skip => j < p /\ j \in DOMAIN s /\ t[j] = s[j]
  BY <1>1 DEF Inserted, Skip
<1>3. Ordered(t)
  <2> SUFFICES ASSUME NEW i \in DOMAIN t, NEW j \in DOMAIN t, i < j, t[j] \in Skip
               PROVE  t[i] = "phi"
    BY DEF Ordered, Skip
  <2>1. j < p /\ j \in DOMAIN s /\ t[j] = s[j]
    BY <1>2
  <2>2. i \in DOMAIN s /\ t[i] = s[i]
    BY <2>1 DEF Inserted
  <2>3. s[i] = "phi"
    BY <2>1, <2>2 DEF Ordered, Skip
  <2> QED
    BY <2>2, <2>3
<1>4. Padded(t) => Padded(s)
  BY <1>2 DEF Padded, Skip
<1>5. Padded(s) => Padded(t)
  <2> SUFFICES ASSUME NEW i \in DOMAIN s, s[i] = "pad" PROVE Padded(t)
    BY DEF Padded
  <2>1. i \in 1 .. p - 1
    BY DEF Skip
  <2>2. t[i] = "pad" /\ i \in DOMAIN t
    BY <2>1 DEF Inserted
  <2> QED
    BY <2>2 DEF Padded
<1> QED
  BY <1>3, <1>4, <1>5

\* Hooks around a call change nothing of phis and pads.
LEMMA BracketOrder ==
  ASSUME NEW s \in Seq(Hooks!Ins), NEW i \in DOMAIN s, s[i] = "tagged", NEW t, Bracket(s, i, t), Ordered(s)
  PROVE  Ordered(t) /\ (Padded(t) <=> Padded(s))
<1>1. \A j \in DOMAIN s : s[j] \in Skip => j < i
  BY DEF Ordered, Skip
<1>2. \A j \in DOMAIN t : t[j] \in Skip => j < i /\ j \in DOMAIN s /\ t[j] = s[j]
  <2> SUFFICES ASSUME NEW j \in DOMAIN t, t[j] \in Skip PROVE j < i /\ j \in DOMAIN s /\ t[j] = s[j]
    OBVIOUS
  <2>1. CASE j < i
    BY <2>1 DEF Bracket
  <2>2. CASE j \in {i, i + 1, i + 2}
    BY <2>2 DEF Bracket, Skip
  <2>3. CASE j > i + 2
    <3>1. j \in i + 3 .. Len(s) + 2 /\ j - 2 \in DOMAIN s /\ ~(j - 2 < i)
      BY <2>3 DEF Bracket
    <3>2. t[j] = s[j - 2]
      BY <3>1 DEF Bracket
    <3> QED
      BY <1>1, <3>1, <3>2
  <2> QED
    BY <2>1, <2>2, <2>3
<1>3. Ordered(t)
  <2> SUFFICES ASSUME NEW k \in DOMAIN t, NEW j \in DOMAIN t, k < j, t[j] \in Skip
               PROVE  t[k] = "phi"
    BY DEF Ordered, Skip
  <2>1. j < i /\ j \in DOMAIN s /\ t[j] = s[j]
    BY <1>2
  <2>2. k \in DOMAIN s /\ t[k] = s[k]
    <3>1. k \in 1 .. i - 1
      BY <2>1 DEF Bracket
    <3> QED
      BY <3>1 DEF Bracket
  <2>3. s[k] = "phi"
    BY <2>1, <2>2 DEF Ordered, Skip
  <2> QED
    BY <2>2, <2>3
<1>4. Padded(t) => Padded(s)
  BY <1>2 DEF Padded, Skip
<1>5. Padded(s) => Padded(t)
  <2> SUFFICES ASSUME NEW j \in DOMAIN s, s[j] = "pad" PROVE Padded(t)
    BY DEF Padded
  <2>1. j \in 1 .. i - 1
    BY <1>1 DEF Skip
  <2>2. t[j] = "pad" /\ j \in DOMAIN t
    BY <2>1 DEF Bracket
  <2> QED
    BY <2>2 DEF Padded
<1> QED
  BY <1>3, <1>4, <1>5

\* An enter at the end of a block.
LEMMA OpenEnd ==
  ASSUME NEW s \in Seq(Hooks!Ins), Bracketed(s), ~EndsOpen(s), NEW t, Inserted(s, Len(s) + 1, "enter", t)
  PROVE  Bracketed(t) /\ EndsOpen(t) /\ \A i : FreeExit(t, i) => FreeExit(s, i)
<1>1. Len(s) \in Nat /\ Len(t) = Len(s) + 1 /\ t[Len(s) + 1] = "enter" /\ t \in Seq(Hooks!Ins)
  BY DEF Inserted
<1>2. \A j \in DOMAIN s : t[j] = s[j]
  BY DEF Inserted
<1>3. EndsOpen(t)
  BY <1>1 DEF EndsOpen
<1>4. ASSUME NEW i \in DOMAIN t, t[i] = "enter" PROVE i = Len(t) \/ Before(t, i, "wrapped")
  <2>1. CASE i = Len(t)
    BY <2>1
  <2>2. CASE i # Len(t)
    <3>1. i \in DOMAIN s /\ i # Len(s) /\ s[i] = "enter"
      BY <1>1, <1>2, <1>4, <2>2 DEF EndsOpen
    <3>2. Before(s, i, "wrapped")
      BY <3>1 DEF Bracketed
    <3> QED
      BY <1>1, <1>2, <3>1, <3>2 DEF Before
  <2> QED
    BY <2>1, <2>2
<1>5. ASSUME NEW i \in DOMAIN t, t[i] = "wrapped" PROVE After(t, i, "enter") /\ Before(t, i, "exit")
  <2>1. i \in DOMAIN s /\ s[i] = "wrapped"
    BY <1>1, <1>2, <1>5
  <2>2. After(s, i, "enter") /\ Before(s, i, "exit")
    BY <2>1 DEF Bracketed
  <2>3. After(t, i, "enter")
    BY <1>1, <1>2, <2>1, <2>2 DEF After
  <2>4. Before(t, i, "exit")
    BY <1>1, <1>2, <2>1, <2>2 DEF Before
  <2> QED
    BY <2>3, <2>4
<1>6. ASSUME NEW i, FreeExit(t, i) PROVE FreeExit(s, i)
  <2>1. i \in DOMAIN s /\ s[i] = "exit"
    BY <1>1, <1>2, <1>6 DEF FreeExit
  <2>2. ~After(s, i, "wrapped")
    BY <1>1, <1>2, <1>6, <2>1 DEF FreeExit, After
  <2> QED
    BY <2>1, <2>2 DEF FreeExit
<1> QED
  BY <1>3, <1>4, <1>5, <1>6 DEF Bracketed

\* An exit behind phis and pads.
LEMMA ExitInHead ==
  ASSUME NEW s \in Seq(Hooks!Ins), Bracketed(s), NEW p, HeadEnd(s, p), NEW t, Inserted(s, p, "exit", t)
  PROVE  /\ Bracketed(t) /\ (EndsOpen(t) <=> EndsOpen(s)) /\ HeadExit(t, p)
         /\ \A i : FreeExit(t, i) => i = p \/ \E j : FreeExit(s, j)
<1>1. Len(s) \in Nat /\ Len(t) = Len(s) + 1 /\ t[p] = "exit" /\ t \in Seq(Hooks!Ins) /\ p \in 1 .. Len(s) + 1
  BY DEF Inserted, HeadEnd
<1>2. \A j \in 1 .. p - 1 : t[j] = s[j] /\ j \in DOMAIN s /\ s[j] \in Skip
  BY DEF Inserted, HeadEnd
<1>3. \A j \in p + 1 .. Len(s) + 1 : t[j] = s[j - 1] /\ j - 1 \in DOMAIN s
  BY <1>1 DEF Inserted
<1>4. HeadExit(t, p)
  BY <1>1, <1>2 DEF HeadExit, InHead
<1>5. EndsOpen(t) <=> EndsOpen(s)
  <2>1. CASE p = Len(s) + 1
    <3>1. ~EndsOpen(t)
      BY <1>1, <2>1 DEF EndsOpen
    <3>2. ~EndsOpen(s)
      BY <1>1, <1>2, <2>1 DEF EndsOpen, Skip
    <3> QED
      BY <3>1, <3>2
  <2>2. CASE p # Len(s) + 1
    <3>1. Len(t) \in p + 1 .. Len(s) + 1 /\ Len(t) - 1 = Len(s) /\ Len(t) > 0 /\ Len(s) > 0
      BY <1>1, <2>2
    <3>2. t[Len(t)] = s[Len(s)]
      BY <1>3, <3>1
    <3> QED
      BY <3>1, <3>2 DEF EndsOpen
  <2> QED
    BY <2>1, <2>2
<1>6. ASSUME NEW i \in DOMAIN t, t[i] \in HookIns, i # p
      PROVE  i \in p + 1 .. Len(s) + 1 /\ i - 1 \in DOMAIN s /\ t[i] = s[i - 1]
  <2>1. ~(i < p)
    <3>1. i < p => i \in 1 .. p - 1
      BY <1>1
    <3> QED
      BY <1>2, <1>6, <3>1 DEF HookIns, Skip
  <2>2. i \in p + 1 .. Len(s) + 1
    BY <1>1, <1>6, <2>1
  <2> QED
    BY <1>3, <2>2
<1>7. ASSUME NEW i \in DOMAIN t, t[i] = "enter" PROVE i = Len(t) \/ Before(t, i, "wrapped")
  <2>1. i \in p + 1 .. Len(s) + 1 /\ i - 1 \in DOMAIN s /\ s[i - 1] = "enter"
    BY <1>1, <1>6, <1>7 DEF HookIns
  <2>2. CASE i - 1 = Len(s)
    BY <1>1, <2>1, <2>2
  <2>3. CASE i - 1 # Len(s)
    <3>1. i - 1 < Len(s) /\ s[(i - 1) + 1] = "wrapped"
      BY <2>1, <2>3 DEF Bracketed, Before
    <3>2. i + 1 \in p + 1 .. Len(s) + 1 /\ (i - 1) + 1 = i /\ (i + 1) - 1 = i /\ i < Len(t)
      BY <1>1, <2>1, <3>1
    <3>3. t[i + 1] = "wrapped"
      BY <1>3, <3>1, <3>2
    <3> QED
      BY <3>2, <3>3 DEF Before
  <2> QED
    BY <2>2, <2>3
<1>8. ASSUME NEW i \in DOMAIN t, t[i] = "wrapped" PROVE After(t, i, "enter") /\ Before(t, i, "exit")
  <2>1. i \in p + 1 .. Len(s) + 1 /\ i - 1 \in DOMAIN s /\ s[i - 1] = "wrapped"
    BY <1>1, <1>6, <1>8 DEF HookIns
  <2>2. After(s, i - 1, "enter") /\ Before(s, i - 1, "exit")
    BY <2>1 DEF Bracketed
  <2>3. Before(t, i, "exit")
    <3>1. i - 1 < Len(s) /\ s[(i - 1) + 1] = "exit"
      BY <2>2 DEF Before
    <3>2. i + 1 \in p + 1 .. Len(s) + 1 /\ (i - 1) + 1 = i /\ (i + 1) - 1 = i /\ i < Len(t)
      BY <1>1, <2>1, <3>1
    <3>3. t[i + 1] = "exit"
      BY <1>3, <3>1, <3>2
    <3> QED
      BY <3>2, <3>3 DEF Before
  <2>4. After(t, i, "enter")
    <3>1. i - 1 > 1 /\ s[(i - 1) - 1] = "enter"
      BY <2>2 DEF After
    <3>2. i - 1 # p
      <4>1. i - 1 = p => (i - 1) - 1 \in 1 .. p - 1
        BY <1>1, <2>1, <3>1
      <4> QED
        BY <1>2, <3>1, <4>1 DEF Skip
    <3>3. i - 1 \in p + 1 .. Len(s) + 1 /\ i > 1
      BY <1>1, <2>1, <3>1, <3>2
    <3>4. t[i - 1] = "enter"
      BY <1>3, <3>1, <3>3
    <3> QED
      BY <3>3, <3>4 DEF After
  <2> QED
    BY <2>3, <2>4
<1>9. ASSUME NEW i, FreeExit(t, i), i # p PROVE FreeExit(s, i - 1)
  <2>1. i \in p + 1 .. Len(s) + 1 /\ i - 1 \in DOMAIN s /\ s[i - 1] = "exit"
    BY <1>6, <1>9 DEF FreeExit, HookIns
  <2>2. ~After(s, i - 1, "wrapped")
    <3> SUFFICES ASSUME i - 1 > 1, s[(i - 1) - 1] = "wrapped" PROVE FALSE
      BY DEF After
    <3>1. i - 1 # p
      <4>1. i - 1 = p => (i - 1) - 1 \in 1 .. p - 1
        BY <1>1, <2>1
      <4> QED
        BY <1>2, <4>1 DEF Skip
    <3>2. i - 1 \in p + 1 .. Len(s) + 1 /\ i > 1
      BY <1>1, <2>1, <3>1
    <3>3. t[i - 1] = "wrapped"
      BY <1>3, <3>2
    <3> QED
      BY <1>9, <3>2, <3>3 DEF FreeExit, After
  <2> QED
    BY <2>1, <2>2 DEF FreeExit
<1>10. Bracketed(t)
  BY <1>7, <1>8 DEF Bracketed
<1>11. \A i : FreeExit(t, i) => i = p \/ \E j : FreeExit(s, j)
  BY <1>9
<1> QED
  BY <1>4, <1>5, <1>10, <1>11

\* A call between its hooks.
LEMMA CallBracketed ==
  ASSUME NEW s \in Seq(Hooks!Ins), Bracketed(s), NEW i \in DOMAIN s, s[i] = "tagged", NEW t, Bracket(s, i, t)
  PROVE  /\ Bracketed(t) /\ (EndsOpen(t) <=> EndsOpen(s))
         /\ \A j : FreeExit(t, j) => (j < i /\ FreeExit(s, j)) \/ (j > i + 2 /\ FreeExit(s, j - 2))
         /\ \A j : HeadExit(s, j) => HeadExit(t, j)
<1>1. Len(s) \in Nat /\ i \in 1 .. Len(s) /\ Len(t) = Len(s) + 2 /\ t \in Seq(Hooks!Ins)
  BY DEF Bracket
<1>2. \A j \in 1 .. i - 1 : t[j] = s[j] /\ j \in DOMAIN s
  BY DEF Bracket
<1>3. \A j \in i + 3 .. Len(s) + 2 : t[j] = s[j - 2] /\ j - 2 \in DOMAIN s
  BY <1>1 DEF Bracket
<1>4. t[i] = "enter" /\ t[i + 1] = "wrapped" /\ t[i + 2] = "exit"
  BY DEF Bracket
<1>5. \A j \in DOMAIN t : j \in 1 .. i - 1 \/ j = i \/ j = i + 1 \/ j = i + 2 \/ j \in i + 3 .. Len(s) + 2
  BY <1>1
<1>6. EndsOpen(t) <=> EndsOpen(s)
  <2>1. CASE i = Len(s)
    <3>1. Len(t) = i + 2
      BY <1>1, <2>1
    <3> QED
      BY <1>1, <1>4, <2>1, <3>1 DEF EndsOpen
  <2>2. CASE i # Len(s)
    <3>1. Len(t) \in i + 3 .. Len(s) + 2 /\ Len(t) - 2 = Len(s) /\ Len(t) > 0 /\ Len(s) > 0
      BY <1>1, <2>2
    <3>2. t[Len(t)] = s[Len(s)]
      BY <1>3, <3>1
    <3> QED
      BY <3>1, <3>2 DEF EndsOpen
  <2> QED
    BY <2>1, <2>2
<1>7. ASSUME NEW j \in DOMAIN t, t[j] = "enter" PROVE j = Len(t) \/ Before(t, j, "wrapped")
  <2>1. CASE j \in 1 .. i - 1
    <3>1. j \in DOMAIN s /\ s[j] = "enter" /\ j # Len(s)
      BY <1>1, <1>2, <1>7, <2>1
    <3>2. s[j + 1] = "wrapped"
      BY <3>1 DEF Bracketed, Before
    <3>3. j + 1 \in 1 .. i - 1
      <4>1. j + 1 # i
        BY <3>2
      <4> QED
        BY <1>1, <2>1, <4>1
    <3> QED
      BY <1>1, <1>2, <3>2, <3>3 DEF Before
  <2>2. CASE j = i
    BY <1>1, <1>4, <2>2 DEF Before
  <2>3. CASE j \in i + 3 .. Len(s) + 2
    <3>1. j - 2 \in DOMAIN s /\ s[j - 2] = "enter"
      BY <1>3, <1>7, <2>3
    <3>2. CASE j - 2 = Len(s)
      BY <1>1, <2>3, <3>2
    <3>3. CASE j - 2 # Len(s)
      <4>1. s[(j - 2) + 1] = "wrapped" /\ j - 2 < Len(s)
        BY <3>1, <3>3 DEF Bracketed, Before
      <4>2. j + 1 \in i + 3 .. Len(s) + 2 /\ (j + 1) - 2 = (j - 2) + 1 /\ j < Len(t)
        BY <1>1, <2>3, <4>1
      <4>3. t[j + 1] = "wrapped"
        BY <1>3, <4>1, <4>2
      <4> QED
        BY <4>2, <4>3 DEF Before
    <3> QED
      BY <3>2, <3>3
  <2> QED
    BY <1>4, <1>5, <1>7, <2>1, <2>2, <2>3
<1>8. ASSUME NEW j \in DOMAIN t, t[j] = "wrapped" PROVE After(t, j, "enter") /\ Before(t, j, "exit")
  <2>1. CASE j \in 1 .. i - 1
    <3>1. j \in DOMAIN s /\ s[j] = "wrapped"
      BY <1>2, <1>8, <2>1
    <3>2. j > 1 /\ s[j - 1] = "enter" /\ s[j + 1] = "exit"
      BY <3>1 DEF Bracketed, After, Before
    <3>3. j + 1 # i
      BY <3>2
    <3>4. j + 1 \in 1 .. i - 1 /\ j - 1 \in 1 .. i - 1 /\ j < Len(t)
      BY <1>1, <2>1, <3>2, <3>3
    <3>5. t[j - 1] = "enter" /\ t[j + 1] = "exit"
      BY <1>2, <3>2, <3>4
    <3> QED
      BY <3>2, <3>4, <3>5 DEF After, Before
  <2>2. CASE j = i + 1
    <3>1. j - 1 = i /\ j + 1 = i + 2 /\ j > 1 /\ j < Len(t)
      BY <1>1, <2>2
    <3> QED
      BY <1>4, <3>1 DEF After, Before
  <2>3. CASE j \in i + 3 .. Len(s) + 2
    <3>1. j - 2 \in DOMAIN s /\ s[j - 2] = "wrapped"
      BY <1>3, <1>8, <2>3
    <3>2. s[(j - 2) - 1] = "enter" /\ s[(j - 2) + 1] = "exit" /\ j - 2 > 1 /\ j - 2 < Len(s)
      BY <3>1 DEF Bracketed, After, Before
    <3>3. j # i + 3
      <4>1. j = i + 3 => (j - 2) - 1 = i
        BY <1>1
      <4> QED
        BY <3>2, <4>1
    <3>4. j + 1 \in i + 3 .. Len(s) + 2 /\ (j + 1) - 2 = (j - 2) + 1 /\ j < Len(t)
      BY <1>1, <2>3, <3>2, SMTT(30)
    <3>5. j - 1 \in i + 3 .. Len(s) + 2 /\ (j - 1) - 2 = (j - 2) - 1 /\ j > 1
      BY <1>1, <2>3, <3>2, <3>3, SMTT(30)
    <3>6. t[j - 1] = "enter" /\ t[j + 1] = "exit"
      BY <1>3, <3>2, <3>4, <3>5
    <3> QED
      BY <3>4, <3>5, <3>6 DEF After, Before
  <2> QED
    BY <1>4, <1>5, <1>8, <2>1, <2>2, <2>3
<1>9. ASSUME NEW j, FreeExit(t, j) PROVE (j < i /\ FreeExit(s, j)) \/ (j > i + 2 /\ FreeExit(s, j - 2))
  <2>1. j \in DOMAIN t /\ t[j] = "exit" /\ ~After(t, j, "wrapped")
    BY <1>9 DEF FreeExit
  <2>2. j # i + 2
    <3>1. j = i + 2 => j - 1 = i + 1 /\ j > 1
      BY <1>1
    <3> QED
      BY <1>4, <2>1, <3>1 DEF After
  <2>3. CASE j \in 1 .. i - 1
    <3>1. j \in DOMAIN s /\ s[j] = "exit"
      BY <1>2, <2>1, <2>3
    <3>2. ASSUME j > 1, s[j - 1] = "wrapped" PROVE FALSE
      <4>1. j - 1 \in 1 .. i - 1
        BY <2>3, <3>2
      <4> QED
        BY <1>2, <2>1, <3>2, <4>1 DEF After
    <3> QED
      BY <2>3, <3>1, <3>2 DEF FreeExit, After
  <2>4. CASE j \in i + 3 .. Len(s) + 2
    <3>1. j - 2 \in DOMAIN s /\ s[j - 2] = "exit"
      BY <1>3, <2>1, <2>4
    <3>2. ASSUME j - 2 > 1, s[(j - 2) - 1] = "wrapped" PROVE FALSE
      <4>1. j # i + 3
        <5>1. j = i + 3 => (j - 2) - 1 = i
          BY <1>1
        <5> QED
          BY <3>2, <5>1
      <4>2. j - 1 \in i + 3 .. Len(s) + 2 /\ (j - 1) - 2 = (j - 2) - 1 /\ j > 1
        BY <1>1, <2>4, <4>1
      <4>3. t[j - 1] = "wrapped"
        BY <1>3, <3>2, <4>2
      <4> QED
        BY <2>1, <4>2, <4>3 DEF After
    <3>3. j > i + 2
      BY <1>1, <2>4
    <3> QED
      BY <3>1, <3>2, <3>3 DEF FreeExit, After
  <2> QED
    BY <1>4, <1>5, <2>1, <2>2, <2>3, <2>4
<1>10. ASSUME NEW j, HeadExit(s, j) PROVE HeadExit(t, j)
  <2>1. j \in DOMAIN s /\ s[j] = "exit" /\ \A k \in 1 .. j - 1 : s[k] \in Skip
    BY <1>10 DEF HeadExit, InHead
  <2>2. j \in 1 .. i - 1
    <3>1. j # i
      BY <2>1
    <3>2. ~(i \in 1 .. j - 1)
      BY <2>1 DEF Skip
    <3> QED
      BY <1>1, <2>1, <3>1, <3>2
  <2>3. \A k \in 1 .. j - 1 : k \in 1 .. i - 1
    BY <2>2
  <2>4. j \in DOMAIN t /\ t[j] = "exit" /\ \A k \in 1 .. j - 1 : t[k] \in Skip
    BY <1>1, <1>2, <2>1, <2>2, <2>3
  <2> QED
    BY <2>4 DEF HeadExit, InHead
<1>11. Bracketed(t)
  BY <1>7, <1>8 DEF Bracketed
<1> QED
  BY <1>6, <1>9, <1>10, <1>11

-----------------------------------------------------------------------------
(***************************************************************************)
(* The code: an insertion changes one block, and neither the edges nor     *)
(* what the verifier demands.                                              *)
(***************************************************************************)
Edited(c, b, x, e) ==
  /\ e \in Seq(Hooks!Block) /\ DOMAIN e = DOMAIN c
  /\ e[b].ins = x /\ e[b].term = c[b].term
  /\ \A d \in DOMAIN c \ {b} : e[d] = c[d]

\* The parts of a block.
LEMMA BlockParts ==
  ASSUME NEW c \in Seq(Hooks!Block), NEW b \in DOMAIN c
  PROVE  /\ c[b] \in Hooks!Block
         /\ c[b].ins \in Seq(Hooks!Ins)
         /\ c[b].term.op \in Hooks!Ops
         /\ c[b].term.tag \in BOOLEAN
         /\ c[b].term.to \in Seq(Nat \ {0})
<1>1. c[b] \in Hooks!Block
  OBVIOUS
<1> QED
  BY <1>1 DEF Hooks!Block

\* Other instructions for one block.
LEMMA EditIs ==
  ASSUME NEW c \in Seq(Hooks!Block), NEW b \in DOMAIN c, NEW x \in Seq(Hooks!Ins)
  PROVE  Edited(c, b, x, [c EXCEPT ![b].ins = x])
<1> DEFINE n == [c[b] EXCEPT !.ins = x]
           e == [c EXCEPT ![b] = n]
<1>1. [c EXCEPT ![b].ins = x] = e
  OBVIOUS
<1>2. c[b] \in Hooks!Block
  OBVIOUS
<1>3. n.ins = x /\ n.term = c[b].term /\ n \in Hooks!Block
  BY <1>2 DEF Hooks!Block
<1> HIDE DEF n
<1>4. e[b] = n /\ DOMAIN e = DOMAIN c /\ \A d \in DOMAIN c \ {b} : e[d] = c[d]
  OBVIOUS
<1>5. e \in Seq(Hooks!Block)
  BY <1>3
<1> HIDE DEF e
<1>6. Edited(c, b, x, e)
  BY <1>3, <1>4, <1>5 DEF Edited
<1> QED
  BY <1>1, <1>6

\* The place that InsertPast finds is the one behind phis and pads.
LEMMA InsertPastIs ==
  ASSUME NEW c \in Seq(Hooks!Block), NEW b \in DOMAIN c, Ordered(c[b].ins), NEW hook \in HookIns, NEW these,
         these = Skip \/ (these = {"phi"} /\ ~Padded(c[b].ins)), NEW e, e = Hooks!InsertPast(c, b, these, hook)
  PROVE  Edited(c, b, e[b].ins, e) /\ \E p : HeadEnd(c[b].ins, p) /\ Inserted(c[b].ins, p, hook, e[b].ins)
<1> DEFINE s == c[b].ins
           First(i) == (i <= Len(s) => s[i] \notin these) /\ \A j \in 1 .. i - 1 : s[j] \in these
           p == CHOOSE i \in 1 .. Len(s) + 1 : First(i)
           x == Hooks!InsertAt(s, p, hook)
<1>1. s \in Seq(Hooks!Ins)
  BY BlockParts
<1>2. \E i \in 1 .. Len(s) + 1 : First(i)
  <2> HIDE DEF s
  <2> DEFINE T == {i \in Nat : i >= 1 /\ (i <= Len(s) => s[i] \notin these)}
  <2>1. Len(s) + 1 \in T /\ T \in SUBSET Nat
    BY <1>1
  <2> HIDE DEF T
  <2>2. PICK i \in T : \A y \in T : i <= y
    BY <2>1, LeastNat
  <2> USE DEF T
  <2>3. i \in 1 .. Len(s) + 1
    BY <1>1, <2>1, <2>2
  <2>4. ASSUME NEW j \in 1 .. i - 1 PROVE s[j] \in these
    <3>1. j \notin T
      BY <2>2, <2>3
    <3> QED
      BY <2>3, <3>1
  <2>5. First(i)
    BY <2>2, <2>4
  <2> QED
    BY <2>3, <2>5
<1>3. p \in 1 .. Len(s) + 1 /\ First(p)
  BY <1>2
<1>4. e = [c EXCEPT ![b].ins = x]
  BY DEF Hooks!InsertPast
<1> HIDE DEF p, s, x
<1>5. Ordered(s) /\ (these = Skip \/ (these = {"phi"} /\ ~Padded(s)))
  BY DEF s
<1>6. HeadEnd(s, p)
  <2>1. \A j \in 1 .. p - 1 : s[j] \in Skip
    BY <1>3, <1>5 DEF Skip
  <2>2. ASSUME NEW j \in p .. Len(s) PROVE s[j] \notin Skip
    <3>1. p \in DOMAIN s /\ j \in DOMAIN s
      BY <1>1, <1>3
    <3>2. s[p] \notin Skip
      BY <1>1, <1>3, <1>5, <3>1 DEF Skip, Padded
    <3>3. p < j => s[j] \notin Skip
      BY <1>5, <3>1, <3>2 DEF Ordered, Skip
    <3> QED
      BY <1>3, <3>2, <3>3
  <2> QED
    BY <1>3, <2>1, <2>2 DEF HeadEnd
<1>7. hook \in Hooks!Ins
  BY DEF HookIns, Hooks!Ins
<1>8. Inserted(s, p, hook, x)
  BY <1>1, <1>3, <1>7, InsertAtIs DEF x
<1>9. x \in Seq(Hooks!Ins)
  BY <1>8 DEF Inserted
<1>10. Edited(c, b, x, e)
  <2>1. Edited(c, b, x, [c EXCEPT ![b].ins = x])
    BY <1>9, EditIs
  <2> QED
    BY <1>4, <2>1
<1>11. e[b].ins = x
  BY <1>10 DEF Edited
<1> QED
  BY <1>6, <1>8, <1>10, <1>11 DEF s

\* InsertLast inserts before the terminator.
LEMMA InsertLastIs ==
  ASSUME NEW c \in Seq(Hooks!Block), NEW b \in DOMAIN c, NEW hook \in HookIns, NEW e, e = Hooks!InsertLast(c, b, hook)
  PROVE  Edited(c, b, e[b].ins, e) /\ Inserted(c[b].ins, Len(c[b].ins) + 1, hook, e[b].ins)
<1> DEFINE s == c[b].ins
           x == Append(s, hook)
<1>1. s \in Seq(Hooks!Ins)
  BY BlockParts
<1>2. hook \in Hooks!Ins
  BY DEF HookIns, Hooks!Ins
<1>3. e = [c EXCEPT ![b].ins = x]
  BY DEF Hooks!InsertLast
<1> HIDE DEF s
<1>4. Inserted(s, Len(s) + 1, hook, x)
  BY <1>1, <1>2, AppendIs
<1>5. x \in Seq(Hooks!Ins)
  BY <1>1, <1>2
<1> HIDE DEF x
<1>6. Edited(c, b, x, e)
  BY <1>3, <1>5, EditIs, ZenonT(40)
<1>7. e[b].ins = x
  BY <1>6 DEF Edited
<1> QED
  BY <1>4, <1>6, <1>7 DEF s

\* Code with the same edges, in which phis and pads are where they were.
SameFlow(c, e) ==
  /\ e \in Seq(Hooks!Block) /\ DOMAIN e = DOMAIN c
  /\ \A b \in DOMAIN c : /\ e[b].term.op = c[b].term.op
                         /\ e[b].term.to = c[b].term.to
                         /\ e[b].term.tag => c[b].term.tag
                         /\ Padded(e[b].ins) <=> Padded(c[b].ins)
                         /\ Ordered(c[b].ins) => Ordered(e[b].ins)

\* Same flow, same edges.
LEMMA SameEdges ==
  ASSUME NEW c, NEW e, SameFlow(c, e), NEW a \in DOMAIN c, NEW d
  PROVE  /\ Hooks!Edge(e, a, d) <=> Hooks!Edge(c, a, d)
         /\ Hooks!Unwinds(e, a, d) <=> Hooks!Unwinds(c, a, d)
BY DEF SameFlow, Hooks!Edge, Hooks!Unwinds

\* What the verifier demands, part by part.
LEMMA ValidIs ==
  ASSUME NEW c, Hooks!Valid(c)
  PROVE  /\ c \in Seq(Hooks!Block)
         /\ \A b \in DOMAIN c : Ordered(c[b].ins)
         /\ \A b \in DOMAIN c : c[b].term.tag => c[b].term.op = "invoke"
         /\ \A b, d \in DOMAIN c : Hooks!Edge(c, b, d) => (Padded(c[d].ins) <=> Hooks!Unwinds(c, b, d))
         /\ \A b \in DOMAIN c : \A i \in DOMAIN c[b].term.to : c[b].term.to[i] \in DOMAIN c \ {1}
         /\ \A b \in DOMAIN c : c[b].term.op = "invoke" => Len(c[b].term.to) = 2 /\ c[b].term.to[1] # c[b].term.to[2]
BY DEF Hooks!Valid, Ordered, Padded, Hooks!HasPad

\* Code of the same flow is as valid.
LEMMA ValidKeeps ==
  ASSUME NEW c, Hooks!Valid(c), NEW e, SameFlow(c, e)
  PROVE  Hooks!Valid(e)
<1>1. e \in Seq(Hooks!Block) /\ DOMAIN e = DOMAIN c
  BY DEF SameFlow
<1>2. e # <<>>
  <2>1. c # <<>> /\ c \in Seq(Hooks!Block)
    BY DEF Hooks!Valid
  <2>2. 1 \in DOMAIN c
    BY <2>1
  <2> QED
    BY <1>1, <2>2
<1>3. ASSUME NEW b \in DOMAIN e
      PROVE  /\ \A i \in DOMAIN e[b].term.to : e[b].term.to[i] \in DOMAIN e \ {1}
             /\ e[b].term.op = "invoke" => Len(e[b].term.to) = 2 /\ e[b].term.to[1] # e[b].term.to[2]
             /\ e[b].term.tag => e[b].term.op = "invoke"
  BY <1>1, <1>3, ValidIs DEF SameFlow
<1>4. ASSUME NEW b \in DOMAIN e, NEW d \in DOMAIN e, Hooks!Edge(e, b, d)
      PROVE  Hooks!HasPad(e, d) <=> Hooks!Unwinds(e, b, d)
  <2>1. b \in DOMAIN c /\ d \in DOMAIN c
    BY <1>1
  <2>2. Hooks!Edge(c, b, d) /\ (Hooks!Unwinds(e, b, d) <=> Hooks!Unwinds(c, b, d))
    BY <1>4, <2>1, SameEdges
  <2>3. Padded(c[d].ins) <=> Hooks!Unwinds(c, b, d)
    BY <2>1, <2>2, ValidIs
  <2>4. Padded(e[d].ins) <=> Padded(c[d].ins)
    BY <2>1 DEF SameFlow
  <2> QED
    BY <2>2, <2>3, <2>4 DEF Padded, Hooks!HasPad
<1>5. ASSUME NEW b \in DOMAIN e PROVE Ordered(e[b].ins)
  BY <1>1, <1>5, ValidIs DEF SameFlow
<1> QED
  BY <1>1, <1>2, <1>3, <1>4, <1>5 DEF Hooks!Valid, Ordered

-----------------------------------------------------------------------------
(***************************************************************************)
(* The code while hooks are put around call sites: an exit that belongs to *)
(* no call of its block is there for an invoke that leads to the block,    *)
(* and it is behind phis and pads if that is the only way to the block.    *)
(***************************************************************************)
LandingIn(c, d) == \E b \in DOMAIN c : EndsOpen(c[b].ins) /\ Hooks!Edge(c, b, d)
LoneIn(c, d)    == \A a, b \in DOMAIN c : Hooks!Edge(c, a, d) /\ Hooks!Edge(c, b, d) => a = b

BlockFits(c, b) ==
  /\ Bracketed(c[b].ins)
  /\ EndsOpen(c[b].ins) => c[b].term.op = "invoke" /\ ~c[b].term.tag
  /\ \A i : FreeExit(c[b].ins, i) => LandingIn(c, b) /\ (LoneIn(c, b) => HeadExit(c[b].ins, i))
  /\ LandingIn(c, b) => \E i : HeadExit(c[b].ins, i)

SitesShape(c) == \A b \in DOMAIN c : BlockFits(c, b)

Clean(c) == \A b \in DOMAIN c : \A i \in DOMAIN c[b].ins : c[b].ins[i] \notin HookIns

\* Code without hooks has that shape.
LEMMA CleanShape == ASSUME NEW c \in Seq(Hooks!Block), Clean(c) PROVE SitesShape(c)
<1> SUFFICES ASSUME NEW b \in DOMAIN c PROVE BlockFits(c, b)
  BY DEF SitesShape
<1>1. \A d \in DOMAIN c : ~EndsOpen(c[d].ins)
  BY BlockParts DEF Clean, EndsOpen, HookIns
<1>2. ~LandingIn(c, b)
  BY <1>1 DEF LandingIn
<1>3. Bracketed(c[b].ins) /\ \A i : ~FreeExit(c[b].ins, i)
  BY DEF Clean, Bracketed, FreeExit, HookIns
<1> QED
  BY <1>1, <1>2, <1>3 DEF BlockFits

\* Without an enter there is no hook at all.
LEMMA NoEnterClean ==
  ASSUME NEW c \in Seq(Hooks!Block), SitesShape(c),
         ~ \E b \in DOMAIN c : \E i \in DOMAIN c[b].ins : c[b].ins[i] = "enter"
  PROVE  Clean(c)
<1> SUFFICES ASSUME NEW b \in DOMAIN c, NEW i \in DOMAIN c[b].ins, c[b].ins[i] \in HookIns PROVE FALSE
  BY DEF Clean
<1>1. BlockFits(c, b)
  BY DEF SitesShape
<1>2. c[b].ins \in Seq(Hooks!Ins)
  BY BlockParts
<1>3. ASSUME NEW j \in DOMAIN c[b].ins, c[b].ins[j] = "wrapped" PROVE FALSE
  <2>1. After(c[b].ins, j, "enter")
    BY <1>1, <1>3 DEF BlockFits, Bracketed
  <2>2. j - 1 \in DOMAIN c[b].ins /\ c[b].ins[j - 1] = "enter"
    BY <1>2, <2>1 DEF After
  <2> QED
    BY <2>2
<1>4. CASE c[b].ins[i] = "exit"
  <2>1. ~After(c[b].ins, i, "wrapped")
    <3> SUFFICES ASSUME After(c[b].ins, i, "wrapped") PROVE FALSE
      OBVIOUS
    <3>1. i - 1 \in DOMAIN c[b].ins /\ c[b].ins[i - 1] = "wrapped"
      BY <1>2 DEF After
    <3> QED
      BY <1>3, <3>1
  <2>2. LandingIn(c, b)
    BY <1>1, <1>4, <2>1 DEF BlockFits, FreeExit
  <2>3. PICK a \in DOMAIN c : EndsOpen(c[a].ins)
    BY <2>2 DEF LandingIn
  <2>4. c[a].ins \in Seq(Hooks!Ins)
    BY BlockParts
  <2>5. Len(c[a].ins) \in DOMAIN c[a].ins /\ c[a].ins[Len(c[a].ins)] = "enter"
    BY <2>3, <2>4 DEF EndsOpen
  <2> QED
    BY <2>5
<1> QED
  BY <1>3, <1>4 DEF HookIns

\* Nothing of this depends on more than the edges and where blocks end open.
LEMMA SameLanding ==
  ASSUME NEW c, NEW e, SameFlow(c, e), \A d \in DOMAIN c : EndsOpen(e[d].ins) <=> EndsOpen(c[d].ins),
         NEW d \in DOMAIN c
  PROVE  LandingIn(e, d) <=> LandingIn(c, d)
<1>1. DOMAIN e = DOMAIN c
  BY DEF SameFlow
<1>2. \A b \in DOMAIN c : Hooks!Edge(e, b, d) <=> Hooks!Edge(c, b, d)
  BY SameEdges
<1> QED
  BY <1>1, <1>2 DEF LandingIn

\* Nor does it depend on more whether a way is the only one.
LEMMA SameLone ==
  ASSUME NEW c, NEW e, SameFlow(c, e), NEW d \in DOMAIN c
  PROVE  LoneIn(e, d) <=> LoneIn(c, d)
<1>1. DOMAIN e = DOMAIN c
  BY DEF SameFlow
<1>2. \A b \in DOMAIN c : Hooks!Edge(e, b, d) <=> Hooks!Edge(c, b, d)
  BY SameEdges
<1> QED
  BY <1>1, <1>2 DEF LoneIn

\* Hooks around a call.
LEMMA CallWrapped ==
  ASSUME NEW c, Hooks!Valid(c), SitesShape(c), NEW b \in DOMAIN c, NEW i \in DOMAIN c[b].ins, c[b].ins[i] = "tagged",
         NEW e, Edited(c, b, e[b].ins, e), Bracket(c[b].ins, i, e[b].ins)
  PROVE  SameFlow(c, e) /\ SitesShape(e)
<1>1. c \in Seq(Hooks!Block) /\ Ordered(c[b].ins)
  BY ValidIs
<1>2. c[b].ins \in Seq(Hooks!Ins)
  BY <1>1, BlockParts
<1>3. Ordered(e[b].ins) /\ (Padded(e[b].ins) <=> Padded(c[b].ins))
  BY <1>1, <1>2, BracketOrder
<1>4. SameFlow(c, e)
  <2> SUFFICES ASSUME NEW d \in DOMAIN c
               PROVE  /\ e[d].term = c[d].term
                      /\ Padded(e[d].ins) <=> Padded(c[d].ins)
                      /\ Ordered(c[d].ins) => Ordered(e[d].ins)
    BY DEF SameFlow, Edited
  <2>1. CASE d = b
    BY <1>3, <2>1 DEF Edited
  <2>2. CASE d # b
    BY <2>2 DEF Edited
  <2> QED
    BY <2>1, <2>2
<1>5. BlockFits(c, b)
  BY DEF SitesShape
<1> DEFINE s == c[b].ins
           t == e[b].ins
<1>6. Bracketed(t) /\ (EndsOpen(t) <=> EndsOpen(s))
      /\ (\A j : FreeExit(t, j) => (j < i /\ FreeExit(s, j)) \/ (j > i + 2 /\ FreeExit(s, j - 2)))
      /\ (\A j : HeadExit(s, j) => HeadExit(t, j))
  BY <1>2, <1>5, CallBracketed DEF BlockFits
<1>7. \A d \in DOMAIN c : EndsOpen(e[d].ins) <=> EndsOpen(c[d].ins)
  BY <1>6 DEF Edited
<1>8. \A d \in DOMAIN c : (LandingIn(e, d) <=> LandingIn(c, d)) /\ (LoneIn(e, d) <=> LoneIn(c, d))
  BY <1>4, <1>7, SameLanding, SameLone
<1>9. ASSUME NEW d \in DOMAIN c PROVE BlockFits(e, d)
  <2>0. BlockFits(c, d)
    BY DEF SitesShape
  <2>1. CASE d # b
    <3>1. e[d] = c[d]
      BY <2>1 DEF Edited
    <3> QED
      BY <1>8, <2>0, <3>1 DEF BlockFits
  <2>2. CASE d = b
    <3>1. ASSUME NEW j, FreeExit(t, j) PROVE LandingIn(c, b) /\ (LoneIn(c, b) => HeadExit(t, j))
      <4>1. CASE j < i /\ FreeExit(s, j)
        BY <1>5, <1>6, <4>1 DEF BlockFits
      <4>2. CASE j > i + 2 /\ FreeExit(s, j - 2)
        <5>1. LandingIn(c, b)
          BY <1>5, <4>2 DEF BlockFits
        <5>2. ~HeadExit(s, j - 2)
          <6>1. j - 2 \in DOMAIN s
            BY <4>2 DEF FreeExit
          <6>3. j \in DOMAIN t /\ t \in Seq(Hooks!Ins)
            BY <3>1 DEF FreeExit, Bracket
          <6>4. j \in Nat
            BY <6>3
          <6>2. i \in 1 .. (j - 2) - 1
            BY <1>2, <4>2, <6>1, <6>4
          <6> QED
            BY <6>2 DEF HeadExit, InHead, Skip
        <5>3. ~LoneIn(c, b)
          BY <1>5, <4>2, <5>2 DEF BlockFits
        <5> QED
          BY <5>1, <5>3
      <4> QED
        BY <1>6, <3>1, <4>1, <4>2
    <3>2. EndsOpen(t) => e[b].term.op = "invoke" /\ ~e[b].term.tag
      BY <1>5, <1>6 DEF BlockFits, Edited
    <3>3. LandingIn(c, b) => \E j : HeadExit(t, j)
      BY <1>5, <1>6 DEF BlockFits
    <3> QED
      BY <1>6, <1>8, <2>2, <3>1, <3>2, <3>3 DEF BlockFits
  <2> QED
    BY <2>1, <2>2
<1>10. SitesShape(e)
  BY <1>9 DEF SitesShape, Edited
<1> QED
  BY <1>4, <1>10

(***************************************************************************)
(* Hooks around an invoke: the enter at the end of its block, an exit in   *)
(* each of the two blocks it leads to, which may be its own.               *)
(***************************************************************************)
EnterAt(c, b, d, s1) == IF d = b THEN Inserted(c[d].ins, Len(c[d].ins) + 1, "enter", s1) ELSE s1 = c[d].ins
Headed(s1, t)        == \E p : HeadEnd(s1, p) /\ Inserted(s1, p, "exit", t)
Invoked(c, b, d, e)  ==
  \E s1 \in Seq(Hooks!Ins) :
    /\ EnterAt(c, b, d, s1)
    /\ IF d \in {c[b].term.to[1], c[b].term.to[2]} THEN Headed(s1, e[d].ins) ELSE e[d].ins = s1

Untagged(c, b) == [c EXCEPT ![b].term.tag = FALSE]

UntaggedAt(c, b, d, e) == /\ e[d].ins = c[d].ins
                          /\ e[d].term.op = c[d].term.op
                          /\ e[d].term.to = c[d].term.to
                          /\ e[d].term.tag = (d # b /\ c[d].term.tag)

\* An invoke whose tag is taken away.
LEMMA UntaggedIs ==
  ASSUME NEW c \in Seq(Hooks!Block), NEW b \in DOMAIN c
  PROVE  /\ Untagged(c, b) \in Seq(Hooks!Block) /\ DOMAIN Untagged(c, b) = DOMAIN c
         /\ \A d \in DOMAIN c : UntaggedAt(c, b, d, Untagged(c, b))
<1> DEFINE m == [c[b].term EXCEPT !.tag = FALSE]
           n == [c[b] EXCEPT !.term = m]
           e == [c EXCEPT ![b] = n]
<1>1. Untagged(c, b) = e
  BY DEF Untagged
<1>2. c[b] \in Hooks!Block
  OBVIOUS
<1>3. m.op = c[b].term.op /\ m.to = c[b].term.to /\ m.tag = FALSE
      /\ m \in [op : Hooks!Ops, tag : BOOLEAN, to : Seq(Nat \ {0})]
  BY <1>2 DEF Hooks!Block
<1> HIDE DEF m
<1>4. n.ins = c[b].ins /\ n.term = m /\ n \in Hooks!Block
  BY <1>2, <1>3 DEF Hooks!Block
<1> HIDE DEF n
<1>5. e[b] = n /\ DOMAIN e = DOMAIN c /\ \A d \in DOMAIN c \ {b} : e[d] = c[d]
  OBVIOUS
<1>6. e \in Seq(Hooks!Block)
  BY <1>4
<1> HIDE DEF e
<1>7. ASSUME NEW d \in DOMAIN c
      PROVE  /\ e[d].ins = c[d].ins
             /\ e[d].term.op = c[d].term.op
             /\ e[d].term.to = c[d].term.to
             /\ e[d].term.tag = (d # b /\ c[d].term.tag)
  <2>1. CASE d = b
    BY <1>3, <1>4, <1>5, <2>1
  <2>2. CASE d # b
    <3>1. e[d] = c[d]
      BY <1>5, <2>2
    <3>2. c[d].term.tag \in BOOLEAN
      BY BlockParts
    <3> QED
      BY <2>2, <3>1, <3>2
  <2> QED
    BY <2>1, <2>2
<1>8. \A d \in DOMAIN c : UntaggedAt(c, b, d, e)
  BY <1>7 DEF UntaggedAt
<1> QED
  BY <1>1, <1>5, <1>6, <1>8

\* WrapInvoke: an enter at the end of the block, exits behind phis and pads of both destinations.
LEMMA InvokeIs ==
  ASSUME NEW c, Hooks!Valid(c), NEW b \in DOMAIN c, c[b].term.tag,
         NEW e, e = Untagged(Hooks!WithExits(Hooks!InsertLast(c, b, "enter"), c[b].term.to[1], c[b].term.to[2]), b)
  PROVE  /\ e \in Seq(Hooks!Block) /\ DOMAIN e = DOMAIN c
         /\ \A d \in DOMAIN c : /\ Invoked(c, b, d, e)
                                /\ e[d].term.op = c[d].term.op
                                /\ e[d].term.to = c[d].term.to
                                /\ e[d].term.tag = (d # b /\ c[d].term.tag)
<1> DEFINE n  == c[b].term.to[1]
           u  == c[b].term.to[2]
           c1 == Hooks!InsertLast(c, b, "enter")
           c2 == Hooks!InsertPast(c1, n, {"phi"}, "exit")
           c3 == Hooks!InsertPast(c2, u, {"phi", "pad"}, "exit")
<1>1. e = Untagged(c3, b)
  BY DEF Hooks!WithExits
<1>2. c \in Seq(Hooks!Block) /\ c[b].term.op = "invoke" /\ Len(c[b].term.to) = 2 /\ n # u
  BY ValidIs
<1>3. c[b].term.to \in Seq(Nat \ {0})
  BY <1>2, BlockParts
<1>4. 1 \in DOMAIN c[b].term.to /\ 2 \in DOMAIN c[b].term.to
  BY <1>2, <1>3
<1>5. n \in DOMAIN c /\ u \in DOMAIN c /\ Hooks!Edge(c, b, n) /\ Hooks!Edge(c, b, u)
  BY <1>4, ValidIs DEF Hooks!Edge
<1>6. ~Padded(c[n].ins)
  <2>1. ~Hooks!Unwinds(c, b, n)
    BY <1>2 DEF Hooks!Unwinds
  <2> QED
    BY <1>5, <2>1, ValidIs
<1> HIDE DEF n, u
<1>7. Edited(c, b, c1[b].ins, c1) /\ Inserted(c[b].ins, Len(c[b].ins) + 1, "enter", c1[b].ins)
  <2>1. "enter" \in HookIns
    BY DEF HookIns
  <2> QED
    BY <1>2, <2>1, InsertLastIs
<1> HIDE DEF c1
<1>8. c1 \in Seq(Hooks!Block) /\ DOMAIN c1 = DOMAIN c
  BY <1>7 DEF Edited
<1>9. ASSUME NEW d \in DOMAIN c
      PROVE  EnterAt(c, b, d, c1[d].ins) /\ Ordered(c1[d].ins) /\ (Padded(c1[d].ins) <=> Padded(c[d].ins))
  <2>1. Ordered(c[d].ins)
    BY ValidIs
  <2>2. CASE d = b
    <3>1. c[b].ins \in Seq(Hooks!Ins)
      BY <1>2, BlockParts
    <3>2. Len(c[b].ins) + 1 \in 1 .. Len(c[b].ins) + 1 /\ \A j \in Len(c[b].ins) + 1 .. Len(c[b].ins) : c[b].ins[j] \notin Skip
      BY <3>1
    <3>3. "enter" \in HookIns
      BY DEF HookIns
    <3>4. Ordered(c1[b].ins) /\ (Padded(c1[b].ins) <=> Padded(c[b].ins))
      BY <1>7, <2>1, <2>2, <3>1, <3>2, <3>3, InsertedOrder
    <3> QED
      BY <1>7, <2>2, <3>4 DEF EnterAt
  <2>3. CASE d # b
    <3>1. c1[d] = c[d]
      BY <1>7, <2>3 DEF Edited
    <3> QED
      BY <2>1, <2>3, <3>1 DEF EnterAt
  <2> QED
    BY <2>2, <2>3
<1>10. "exit" \in HookIns
  BY DEF HookIns
<1>11. Edited(c1, n, c2[n].ins, c2) /\ Headed(c1[n].ins, c2[n].ins)
  <2>1. Ordered(c1[n].ins) /\ ~Padded(c1[n].ins) /\ n \in DOMAIN c1
    BY <1>5, <1>6, <1>8, <1>9
  <2> QED
    BY <1>8, <1>10, <2>1, InsertPastIs DEF Headed
<1> HIDE DEF c2
<1>12. c2 \in Seq(Hooks!Block) /\ DOMAIN c2 = DOMAIN c /\ c2[u] = c1[u]
  BY <1>2, <1>5, <1>8, <1>11 DEF Edited, n, u
<1>13. Edited(c2, u, c3[u].ins, c3) /\ Headed(c2[u].ins, c3[u].ins)
  <2>1. Ordered(c2[u].ins) /\ u \in DOMAIN c2
    BY <1>5, <1>9, <1>12
  <2>2. {"phi", "pad"} = Skip
    BY DEF Skip
  <2>3. c3 = Hooks!InsertPast(c2, u, Skip, "exit")
    BY <2>2
  <2> HIDE DEF c3
  <2> QED
    BY <1>10, <1>12, <2>1, <2>3, InsertPastIs DEF Headed
<1> HIDE DEF c3
<1>14. c3 \in Seq(Hooks!Block) /\ DOMAIN c3 = DOMAIN c
  BY <1>12, <1>13 DEF Edited
<1>15. ASSUME NEW d \in DOMAIN c
       PROVE  IF d \in {n, u} THEN Headed(c1[d].ins, c3[d].ins) ELSE c3[d].ins = c1[d].ins
  <2>1. CASE d = u
    BY <1>12, <1>13, <2>1
  <2>2. CASE d = n /\ d # u
    <3>1. c3[n] = c2[n]
      BY <1>5, <1>12, <1>13, <2>2 DEF Edited
    <3> QED
      BY <1>11, <2>2, <3>1
  <2>3. CASE d # n /\ d # u
    <3>1. c3[d] = c2[d] /\ c2[d] = c1[d]
      BY <1>8, <1>11, <1>12, <1>13, <2>3 DEF Edited
    <3> QED
      BY <2>3, <3>1
  <2> QED
    BY <2>1, <2>2, <2>3
<1>16. \A d \in DOMAIN c : c3[d].term = c[d].term
  <2>1. \A d \in DOMAIN c : c1[d].term = c[d].term
    BY <1>7 DEF Edited
  <2>2. \A d \in DOMAIN c : c2[d].term = c1[d].term
    BY <1>8, <1>11 DEF Edited
  <2>3. \A d \in DOMAIN c : c3[d].term = c2[d].term
    BY <1>12, <1>13 DEF Edited
  <2> QED
    BY <2>1, <2>2, <2>3
<1>17. e \in Seq(Hooks!Block) /\ DOMAIN e = DOMAIN c
  BY <1>1, <1>14, UntaggedIs
<1>18. ASSUME NEW d \in DOMAIN c
       PROVE  /\ e[d].ins = c3[d].ins
              /\ e[d].term.op = c[d].term.op
              /\ e[d].term.to = c[d].term.to
              /\ e[d].term.tag = (d # b /\ c[d].term.tag)
  <2>1. UntaggedAt(c3, b, d, e)
    BY <1>1, <1>14, UntaggedIs
  <2> QED
    BY <1>16, <2>1 DEF UntaggedAt
<1>19. ASSUME NEW d \in DOMAIN c PROVE Invoked(c, b, d, e)
  <2>1. c1[d].ins \in Seq(Hooks!Ins)
    BY <1>8, BlockParts
  <2> QED
    BY <1>9, <1>15, <1>18, <2>1, SMTT(30) DEF Invoked, n, u
<1> QED
  BY <1>17, <1>18, <1>19

\* Hooks around an invoke.
LEMMA InvokeWrapped ==
  ASSUME NEW c, Hooks!Valid(c), SitesShape(c), NEW b \in DOMAIN c, c[b].term.tag,
         NEW e, e \in Seq(Hooks!Block), DOMAIN e = DOMAIN c,
         \A d \in DOMAIN c : /\ Invoked(c, b, d, e)
                             /\ e[d].term.op = c[d].term.op
                             /\ e[d].term.to = c[d].term.to
                             /\ e[d].term.tag = (d # b /\ c[d].term.tag)
  PROVE  SameFlow(c, e) /\ SitesShape(e)
<1> DEFINE Target(d) == d \in {c[b].term.to[1], c[b].term.to[2]}
<1>1. c \in Seq(Hooks!Block) /\ c[b].term.op = "invoke" /\ Len(c[b].term.to) = 2
  BY ValidIs
<1>2. \A d : Target(d) <=> Hooks!Edge(c, b, d)
  <2>1. c[b].term.to \in Seq(Nat \ {0})
    BY <1>1, BlockParts
  <2>2. DOMAIN c[b].term.to = {1, 2}
    BY <1>1, <2>1
  <2> QED
    BY <2>2 DEF Hooks!Edge
<1>3. ~EndsOpen(c[b].ins)
  BY DEF SitesShape, BlockFits
<1> HIDE DEF Target
<1>4. ASSUME NEW d \in DOMAIN c
      PROVE  \E s1 \in Seq(Hooks!Ins) :
               /\ Bracketed(s1) /\ (EndsOpen(s1) <=> d = b \/ EndsOpen(c[d].ins))
               /\ \A i : FreeExit(s1, i) => FreeExit(c[d].ins, i)
               /\ \A i : HeadExit(c[d].ins, i) => HeadExit(s1, i)
               /\ Ordered(s1) /\ (Padded(s1) <=> Padded(c[d].ins))
               /\ IF Target(d) THEN Headed(s1, e[d].ins) ELSE e[d].ins = s1
  <2> DEFINE s == c[d].ins
  <2>1. s \in Seq(Hooks!Ins) /\ Bracketed(s) /\ Ordered(s)
    BY <1>1, BlockParts, ValidIs DEF SitesShape, BlockFits
  <2>2. PICK s1 \in Seq(Hooks!Ins) : EnterAt(c, b, d, s1) /\ (IF Target(d) THEN Headed(s1, e[d].ins) ELSE e[d].ins = s1)
    BY DEF Invoked, Target
  <2>3. CASE d # b
    <3>1. s1 = s
      BY <2>2, <2>3 DEF EnterAt
    <3> QED
      BY <2>1, <2>2, <2>3, <3>1
  <2>4. CASE d = b
    <3> HIDE DEF s
    <3>1. Inserted(s, Len(s) + 1, "enter", s1) /\ ~EndsOpen(s)
      BY <1>3, <2>2, <2>4 DEF EnterAt, s
    <3>2. Bracketed(s1) /\ EndsOpen(s1) /\ \A i : FreeExit(s1, i) => FreeExit(s, i)
      BY <2>1, <3>1, OpenEnd
    <3>3. Ordered(s1) /\ (Padded(s1) <=> Padded(s))
      <4>1. Len(s) + 1 \in 1 .. Len(s) + 1 /\ \A j \in Len(s) + 1 .. Len(s) : s[j] \notin Skip
        BY <2>1
      <4>2. "enter" \in HookIns
        BY DEF HookIns
      <4> QED
        BY <2>1, <3>1, <4>1, <4>2, InsertedOrder
    <3>4. ASSUME NEW i, HeadExit(s, i) PROVE HeadExit(s1, i)
      <4>1. i \in 1 .. Len(s) /\ s[i] = "exit" /\ \A k \in 1 .. i - 1 : s[k] \in Skip
        BY <2>1, <3>4 DEF HeadExit, InHead
      <4>2. \A k \in 1 .. Len(s) : s1[k] = s[k]
        BY <2>1, <3>1 DEF Inserted
      <4>3. i \in DOMAIN s1
        BY <2>1, <3>1, <4>1 DEF Inserted
      <4>4. \A k \in 1 .. i - 1 : s1[k] \in Skip
        BY <2>1, <4>1, <4>2, SMTT(30)
      <4> QED
        BY <4>1, <4>2, <4>3, <4>4 DEF HeadExit, InHead
    <3> QED
      BY <2>2, <2>4, <3>2, <3>3, <3>4 DEF s
  <2> QED
    BY <2>3, <2>4
<1>5. ASSUME NEW d \in DOMAIN c
      PROVE  /\ Bracketed(e[d].ins) /\ (EndsOpen(e[d].ins) <=> d = b \/ EndsOpen(c[d].ins))
             /\ Ordered(e[d].ins) /\ (Padded(e[d].ins) <=> Padded(c[d].ins))
             /\ Target(d) => \E p : /\ HeadExit(e[d].ins, p)
                                    /\ \A i : FreeExit(e[d].ins, i) => i = p \/ \E j : FreeExit(c[d].ins, j)
             /\ ~Target(d) => /\ \A i : FreeExit(e[d].ins, i) => FreeExit(c[d].ins, i)
                              /\ \A i : HeadExit(c[d].ins, i) => HeadExit(e[d].ins, i)
  <2> DEFINE s == c[d].ins
             t == e[d].ins
  <2> HIDE DEF s, t
  <2>1. PICK s1 \in Seq(Hooks!Ins) :
               /\ Bracketed(s1) /\ (EndsOpen(s1) <=> d = b \/ EndsOpen(s))
               /\ \A i : FreeExit(s1, i) => FreeExit(s, i)
               /\ \A i : HeadExit(s, i) => HeadExit(s1, i)
               /\ Ordered(s1) /\ (Padded(s1) <=> Padded(s))
               /\ IF Target(d) THEN Headed(s1, t) ELSE t = s1
    BY <1>4 DEF s, t
  <2>2. CASE Target(d)
    <3>1. PICK p : HeadEnd(s1, p) /\ Inserted(s1, p, "exit", t)
      BY <2>1, <2>2 DEF Headed
    <3>2. /\ Bracketed(t) /\ (EndsOpen(t) <=> EndsOpen(s1)) /\ HeadExit(t, p)
          /\ \A i : FreeExit(t, i) => i = p \/ \E j : FreeExit(s1, j)
      BY <2>1, <3>1, ExitInHead
    <3>3. Ordered(t) /\ (Padded(t) <=> Padded(s1))
      <4>1. "exit" \in HookIns
        BY DEF HookIns
      <4>2. p \in 1 .. Len(s1) + 1 /\ \A j \in p .. Len(s1) : s1[j] \notin Skip
        BY <3>1 DEF HeadEnd
      <4> QED
        BY <2>1, <3>1, <4>1, <4>2, InsertedOrder
    <3>4. \A i : FreeExit(t, i) => i = p \/ \E j : FreeExit(s, j)
      BY <2>1, <3>2
    <3> QED
      BY <2>1, <2>2, <3>2, <3>3, <3>4 DEF s, t
  <2>3. CASE ~Target(d)
    <3>1. t = s1
      BY <2>1, <2>3
    <3> QED
      BY <2>1, <2>3, <3>1 DEF s, t
  <2> QED
    BY <2>2, <2>3
<1>6. SameFlow(c, e)
  BY <1>5 DEF SameFlow
<1>7. \A d \in DOMAIN c : LoneIn(e, d) <=> LoneIn(c, d)
  BY <1>6, SameLone
<1>8. ASSUME NEW d \in DOMAIN c PROVE LandingIn(e, d) <=> Target(d) \/ LandingIn(c, d)
  <2>1. \A a \in DOMAIN c : Hooks!Edge(e, a, d) <=> Hooks!Edge(c, a, d)
    BY <1>6, SameEdges
  <2>2. \A a \in DOMAIN c : EndsOpen(e[a].ins) <=> a = b \/ EndsOpen(c[a].ins)
    BY <1>5
  <2> QED
    BY <1>2, <2>1, <2>2 DEF LandingIn
<1>9. ASSUME NEW d \in DOMAIN c PROVE BlockFits(e, d)
  <2>1. BlockFits(c, d)
    BY DEF SitesShape
  <2>2. EndsOpen(e[d].ins) => e[d].term.op = "invoke" /\ ~e[d].term.tag
    <3>1. d = b => e[d].term.op = "invoke" /\ ~e[d].term.tag
      BY <1>1
    <3>2. EndsOpen(c[d].ins) => e[d].term.op = "invoke" /\ ~e[d].term.tag
      BY <2>1 DEF BlockFits
    <3> QED
      BY <1>5, <3>1, <3>2
  <2>3. ASSUME NEW i, FreeExit(e[d].ins, i) PROVE LandingIn(e, d) /\ (LoneIn(e, d) => HeadExit(e[d].ins, i))
    <3>1. CASE Target(d)
      <4>1. PICK p : /\ HeadExit(e[d].ins, p)
                     /\ \A k : FreeExit(e[d].ins, k) => k = p \/ \E j : FreeExit(c[d].ins, j)
        BY <1>5, <3>1
      <4>2. LandingIn(e, d)
        BY <1>8, <3>1
      <4>3. ASSUME LoneIn(c, d), NEW j, FreeExit(c[d].ins, j) PROVE FALSE
        <5>1. LandingIn(c, d)
          BY <2>1, <4>3 DEF BlockFits
        <5>2. PICK a \in DOMAIN c : EndsOpen(c[a].ins) /\ Hooks!Edge(c, a, d)
          BY <5>1 DEF LandingIn
        <5>3. a = b
          BY <1>2, <3>1, <4>3, <5>2 DEF LoneIn
        <5> QED
          BY <1>3, <5>2, <5>3
      <4> QED
        BY <1>7, <2>3, <4>1, <4>2, <4>3
    <3>2. CASE ~Target(d)
      <4>1. FreeExit(c[d].ins, i)
        BY <1>5, <2>3, <3>2
      <4>2. LandingIn(c, d) /\ (LoneIn(c, d) => HeadExit(c[d].ins, i))
        BY <2>1, <4>1 DEF BlockFits
      <4> QED
        BY <1>5, <1>7, <1>8, <3>2, <4>2
    <3> QED
      BY <3>1, <3>2
  <2>4. ASSUME LandingIn(e, d) PROVE \E i : HeadExit(e[d].ins, i)
    <3>1. CASE Target(d)
      BY <1>5, <3>1
    <3>2. CASE ~Target(d)
      <4>1. LandingIn(c, d)
        BY <1>8, <2>4, <3>2
      <4>2. PICK i : HeadExit(c[d].ins, i)
        BY <2>1, <4>1 DEF BlockFits
      <4> QED
        BY <1>5, <3>2, <4>2
    <3> QED
      BY <3>1, <3>2
  <2>5. Bracketed(e[d].ins)
    BY <1>5
  <2> QED
    BY <2>2, <2>3, <2>4, <2>5 DEF BlockFits
<1>10. SitesShape(e)
  BY <1>9 DEF SitesShape
<1> QED
  BY <1>6, <1>10

-----------------------------------------------------------------------------
(***************************************************************************)
(* The code of a function that is wrapped whole: one enter, in the first   *)
(* block behind phis and pads, and an exit at the end of each block that   *)
(* leaves the function.                                                    *)
(***************************************************************************)
LeaveOps == {"ret", "resume", "cleanupret", "catchret"}

WholeShape(c) ==
  /\ \E p \in DOMAIN c[1].ins : c[1].ins[p] = "enter" /\ InHead(c[1].ins, p)
  /\ \A b \in DOMAIN c : \A i \in DOMAIN c[b].ins :
        /\ c[b].ins[i] = "enter" => b = 1 /\ InHead(c[1].ins, i)
        /\ c[b].ins[i] = "exit" => i = Len(c[b].ins) /\ c[b].term.op \in LeaveOps
  /\ \A b \in DOMAIN c : c[b].term.op \in LeaveOps => Len(c[b].ins) > 0 /\ c[b].ins[Len(c[b].ins)] = "exit"

\* wrapWholeFunction gives code without hooks this shape.
LEMMA WholeWrapped ==
  ASSUME Hooks!Valid(code), Clean(code), NEW e, NEW entered,
         entered = Hooks!InsertPast(code, 1, {"phi", "pad"}, "enter"),
         e = [b \in DOMAIN code |-> IF Hooks!Exits(b) THEN Hooks!InsertLast(entered, b, "exit")[b] ELSE entered[b]]
  PROVE  SameFlow(code, e) /\ WholeShape(e)
<1>1. code \in Seq(Hooks!Block) /\ 1 \in DOMAIN code
  <2>1. code \in Seq(Hooks!Block) /\ code # <<>>
    BY DEF Hooks!Valid
  <2> QED
    BY <2>1
<1>2. "enter" \in HookIns /\ "exit" \in HookIns
  BY DEF HookIns
<1>3. Edited(code, 1, entered[1].ins, entered)
      /\ \E p : HeadEnd(code[1].ins, p) /\ Inserted(code[1].ins, p, "enter", entered[1].ins)
  <2>1. Ordered(code[1].ins)
    BY <1>1, ValidIs
  <2>2. entered = Hooks!InsertPast(code, 1, Skip, "enter")
    BY DEF Skip
  <2> QED
    BY <1>1, <1>2, <2>1, <2>2, InsertPastIs
<1>4. entered \in Seq(Hooks!Block) /\ DOMAIN entered = DOMAIN code
  BY <1>3 DEF Edited
<1>5. PICK p : HeadEnd(code[1].ins, p) /\ Inserted(code[1].ins, p, "enter", entered[1].ins)
  BY <1>3
<1>6. ASSUME NEW d \in DOMAIN code
      PROVE  /\ Ordered(entered[d].ins) /\ (Padded(entered[d].ins) <=> Padded(code[d].ins))
             /\ entered[d].term = code[d].term /\ entered[d].ins \in Seq(Hooks!Ins)
             /\ \A i \in DOMAIN entered[d].ins :
                   entered[d].ins[i] \in HookIns => d = 1 /\ i = p /\ entered[d].ins[i] = "enter"
  <2>1. code[d].ins \in Seq(Hooks!Ins) /\ Ordered(code[d].ins)
    BY <1>1, BlockParts, ValidIs
  <2>2. CASE d # 1
    <3>1. entered[d] = code[d]
      BY <1>3, <2>2 DEF Edited
    <3> QED
      BY <2>1, <3>1 DEF Clean
  <2>3. CASE d = 1
    <3> DEFINE s == code[1].ins
               t == entered[1].ins
    <3>1. s \in Seq(Hooks!Ins) /\ Ordered(s) /\ HeadEnd(s, p) /\ Inserted(s, p, "enter", t)
      BY <1>5, <2>1, <2>3
    <3>2. \A i \in DOMAIN s : s[i] \notin HookIns
      BY <2>3 DEF Clean
    <3>3. entered[1].term = code[1].term
      BY <1>3 DEF Edited
    <3> HIDE DEF s, t
    <3>4. p \in 1 .. Len(s) + 1 /\ \A j \in p .. Len(s) : s[j] \notin Skip
      BY <3>1 DEF HeadEnd
    <3>5. Ordered(t) /\ (Padded(t) <=> Padded(s))
      BY <1>2, <3>1, <3>4, InsertedOrder
    <3>6. t \in Seq(Hooks!Ins) /\ Len(t) = Len(s) + 1 /\ t[p] = "enter"
      BY <3>1 DEF Inserted
    <3>7. ASSUME NEW i \in DOMAIN t, t[i] \in HookIns PROVE i = p
      <4>1. CASE i < p
        <5>1. i \in 1 .. p - 1 /\ i \in DOMAIN s
          BY <3>1, <3>4, <3>6, <4>1
        <5> QED
          BY <3>1, <3>2, <3>7, <5>1 DEF Inserted
      <4>2. CASE i > p
        <5>1. i \in p + 1 .. Len(s) + 1 /\ i - 1 \in DOMAIN s
          BY <3>1, <3>4, <3>6, <4>2
        <5> QED
          BY <3>1, <3>2, <3>7, <5>1 DEF Inserted
      <4> QED
        BY <3>1, <3>4, <3>6, <4>1, <4>2
    <3>8. \A i \in DOMAIN t : t[i] \in HookIns => i = p /\ t[i] = "enter"
      BY <3>6, <3>7
    <3> QED
      BY <2>3, <3>3, <3>5, <3>6, <3>8 DEF s, t
  <2> QED
    BY <2>2, <2>3
<1>7. \A d \in DOMAIN code : Hooks!Exits(d) <=> code[d].term.op \in LeaveOps
  BY DEF Hooks!Exits, LeaveOps
<1>8. DOMAIN e = DOMAIN code
  OBVIOUS
<1>9. ASSUME NEW d \in DOMAIN code, Hooks!Exits(d)
      PROVE  e[d] \in Hooks!Block /\ e[d].term = code[d].term /\ Inserted(entered[d].ins, Len(entered[d].ins) + 1, "exit", e[d].ins)
  <2> DEFINE c2 == Hooks!InsertLast(entered, d, "exit")
  <2>1. e[d] = c2[d]
    BY <1>9
  <2> HIDE DEF c2
  <2>2. Edited(entered, d, c2[d].ins, c2) /\ Inserted(entered[d].ins, Len(entered[d].ins) + 1, "exit", c2[d].ins)
    BY <1>2, <1>4, InsertLastIs DEF c2
  <2>3. c2 \in Seq(Hooks!Block) /\ d \in DOMAIN c2 /\ c2[d].term = entered[d].term
    BY <1>4, <2>2 DEF Edited
  <2> QED
    BY <1>6, <2>1, <2>2, <2>3
<1>10. ASSUME NEW d \in DOMAIN code, ~Hooks!Exits(d)
       PROVE  e[d] = entered[d] /\ e[d] \in Hooks!Block
  BY <1>4, <1>10
<1> HIDE DEF Hooks!Exits
<1>11. e \in Seq(Hooks!Block)
  <2>1. \A d \in DOMAIN code : e[d] \in Hooks!Block
    BY <1>9, <1>10
  <2>2. DOMAIN code = 1 .. Len(code) /\ Len(code) \in Nat
    BY <1>1
  <2>3. e \in [1 .. Len(code) -> Hooks!Block]
    BY <2>1, <2>2
  <2> QED
    BY <2>2, <2>3
<1>12. ASSUME NEW d \in DOMAIN code
       PROVE  /\ Ordered(e[d].ins) /\ (Padded(e[d].ins) <=> Padded(code[d].ins)) /\ e[d].term = code[d].term
              /\ e[d].ins \in Seq(Hooks!Ins)
              /\ \A i \in DOMAIN entered[d].ins : i \in DOMAIN e[d].ins /\ e[d].ins[i] = entered[d].ins[i]
              /\ \A i \in DOMAIN e[d].ins : i \in DOMAIN entered[d].ins \/ (i = Len(e[d].ins) /\ Hooks!Exits(d) /\ e[d].ins[i] = "exit")
              /\ Hooks!Exits(d) => Len(e[d].ins) > 0 /\ e[d].ins[Len(e[d].ins)] = "exit"
  <2>1. CASE ~Hooks!Exits(d)
    BY <1>6, <1>10, <2>1
  <2>2. CASE Hooks!Exits(d)
    <3> DEFINE s == entered[d].ins
               t == e[d].ins
    <3>1. s \in Seq(Hooks!Ins) /\ Ordered(s) /\ (Padded(s) <=> Padded(code[d].ins))
      BY <1>6
    <3>2. Inserted(s, Len(s) + 1, "exit", t) /\ e[d].term = code[d].term
      BY <1>9, <2>2
    <3> HIDE DEF s, t
    <3>3. Len(s) + 1 \in 1 .. Len(s) + 1 /\ \A j \in Len(s) + 1 .. Len(s) : s[j] \notin Skip
      BY <3>1
    <3>4. Ordered(t) /\ (Padded(t) <=> Padded(s))
      BY <1>2, <3>1, <3>2, <3>3, InsertedOrder
    <3>5. t \in Seq(Hooks!Ins) /\ Len(t) = Len(s) + 1 /\ t[Len(s) + 1] = "exit" /\ \A j \in 1 .. Len(s) : t[j] = s[j]
      BY <3>1, <3>2 DEF Inserted
    <3>6. \A i \in DOMAIN s : i \in DOMAIN t /\ t[i] = s[i]
      BY <3>1, <3>5
    <3>7. \A i \in DOMAIN t : i \in DOMAIN s \/ (i = Len(t) /\ t[i] = "exit")
      BY <3>1, <3>5
    <3>8. Len(t) > 0 /\ t[Len(t)] = "exit"
      BY <3>1, <3>5
    <3> QED
      BY <2>2, <3>1, <3>2, <3>4, <3>5, <3>6, <3>7, <3>8 DEF s, t
  <2> QED
    BY <2>1, <2>2
<1>13. SameFlow(code, e)
  BY <1>8, <1>11, <1>12 DEF SameFlow
<1>14. p \in DOMAIN e[1].ins /\ e[1].ins[p] = "enter" /\ InHead(e[1].ins, p)
  <2>1. p \in DOMAIN entered[1].ins /\ entered[1].ins[p] = "enter"
    BY <1>5 DEF HeadEnd, Inserted
  <2>2. \A j \in 1 .. p - 1 : entered[1].ins[j] \in Skip /\ j \in DOMAIN entered[1].ins
    <3>1. code[1].ins \in Seq(Hooks!Ins)
      BY <1>1, BlockParts
    <3>2. p \in 1 .. Len(code[1].ins) + 1 /\ Len(entered[1].ins) = Len(code[1].ins) + 1 /\ entered[1].ins \in Seq(Hooks!Ins)
      BY <1>5 DEF HeadEnd, Inserted
    <3>3. \A j \in 1 .. p - 1 : entered[1].ins[j] \in Skip
      BY <1>5 DEF HeadEnd, Inserted
    <3> QED
      BY <3>1, <3>2, <3>3
  <2> QED
    BY <1>1, <1>12, <2>1, <2>2 DEF InHead
<1>15. ASSUME NEW d \in DOMAIN code, NEW i \in DOMAIN e[d].ins
       PROVE  /\ e[d].ins[i] = "enter" => d = 1 /\ i = p
              /\ e[d].ins[i] = "exit" => i = Len(e[d].ins) /\ Hooks!Exits(d)
  <2>1. CASE i \in DOMAIN entered[d].ins
    <3>1. e[d].ins[i] = entered[d].ins[i]
      BY <1>12, <2>1
    <3> QED
      BY <1>2, <1>6, <2>1, <3>1
  <2>2. CASE i = Len(e[d].ins) /\ Hooks!Exits(d) /\ e[d].ins[i] = "exit"
    BY <2>2
  <2> QED
    BY <1>12, <2>1, <2>2
<1>16. \A d \in DOMAIN code : e[d].term.op = code[d].term.op
  BY <1>12
<1> QED
  <2>1. \A b \in DOMAIN e : \A i \in DOMAIN e[b].ins :
        /\ e[b].ins[i] = "enter" => b = 1 /\ InHead(e[1].ins, i)
        /\ e[b].ins[i] = "exit" => i = Len(e[b].ins) /\ e[b].term.op \in LeaveOps
    BY <1>7, <1>8, <1>14, <1>15, <1>16
  <2>2. \A b \in DOMAIN e : e[b].term.op \in LeaveOps => Len(e[b].ins) > 0 /\ e[b].ins[Len(e[b].ins)] = "exit"
    BY <1>7, <1>8, <1>12, <1>16
  <2> QED
    BY <1>13, <1>14, <2>1, <2>2 DEF WholeShape

-----------------------------------------------------------------------------
(***************************************************************************)
(* A run through the code: how many hooks have been entered and not left   *)
(* before the instruction at i of block b, or before its terminator.       *)
(***************************************************************************)
WholeOwed(c, b, i) == IF After(c[b].ins, i, "exit") \/ (b = 1 /\ \A j \in 1 .. i - 1 : c[1].ins[j] # "enter")
                      THEN 0 ELSE 1
SitesOwed(c, b, i) == IF \/ After(c[b].ins, i, "enter") \/ After(c[b].ins, i, "wrapped")
                         \/ LandingIn(c, b) /\ InHead(c[b].ins, i)
                      THEN 1 ELSE 0
WholeFits(c) == \A b \in DOMAIN c : c[b].term.op \in LeaveOps => c[b].term.to = <<>>
SitesFits(c) == \A b \in DOMAIN c : EndsOpen(c[b].ins) =>
                   \A a, d \in DOMAIN c : Hooks!Edge(c, a, d) /\ Hooks!Edge(c, b, d) => a = b

\* What a run owes before and after each instruction, if the function is wrapped whole.
LEMMA WholeHere ==
  ASSUME NEW c \in Seq(Hooks!Block), WholeShape(c), NEW b \in DOMAIN c, NEW i \in DOMAIN c[b].ins
  PROVE  /\ c[b].ins[i] = "enter" => WholeOwed(c, b, i) = 0 /\ WholeOwed(c, b, i + 1) = 1
         /\ c[b].ins[i] = "exit" => WholeOwed(c, b, i) = 1 /\ WholeOwed(c, b, i + 1) = 0
         /\ c[b].ins[i] \notin {"enter", "exit"} => WholeOwed(c, b, i + 1) = WholeOwed(c, b, i)
         /\ c[b].ins[i] \in Hooks!Calls => WholeOwed(c, b, i) = 1
<1>0. c[b].ins \in Seq(Hooks!Ins) /\ i \in 1 .. Len(c[b].ins) /\ Len(c[b].ins) \in Nat
  BY BlockParts
<1>1. ~After(c[b].ins, i, "exit")
  <2> SUFFICES ASSUME i > 1, c[b].ins[i - 1] = "exit" PROVE FALSE
    BY DEF After
  <2>1. i - 1 \in DOMAIN c[b].ins
    BY <1>0
  <2>2. i - 1 = Len(c[b].ins)
    BY <2>1 DEF WholeShape
  <2> QED
    BY <1>0, <2>2
<1>2. After(c[b].ins, i + 1, "exit") <=> c[b].ins[i] = "exit"
  BY <1>0 DEF After
<1>3. PICK p \in DOMAIN c[1].ins : c[1].ins[p] = "enter" /\ InHead(c[1].ins, p)
  BY DEF WholeShape
<1>4. 1 \in DOMAIN c
  BY <1>0
<1>5. c[1].ins \in Seq(Hooks!Ins)
  BY <1>4, BlockParts
<1>6. \A j \in DOMAIN c[1].ins : c[1].ins[j] = "enter" => j = p
  <2> SUFFICES ASSUME NEW j \in DOMAIN c[1].ins, c[1].ins[j] = "enter", j # p PROVE FALSE
    OBVIOUS
  <2>1. InHead(c[1].ins, j)
    BY <1>4 DEF WholeShape
  <2>2. CASE j < p
    <3>1. j \in 1 .. p - 1
      BY <1>5, <2>2
    <3> QED
      BY <1>3, <3>1 DEF InHead, Skip
  <2>3. CASE p < j
    <3>1. p \in 1 .. j - 1
      BY <1>5, <2>3
    <3> QED
      BY <1>3, <2>1, <3>1 DEF InHead, Skip
  <2> QED
    BY <1>5, <2>2, <2>3
<1>7. \A k \in 1 .. Len(c[1].ins) + 1 : (\A j \in 1 .. k - 1 : c[1].ins[j] # "enter") <=> k <= p
  <2> SUFFICES ASSUME NEW k \in 1 .. Len(c[1].ins) + 1
               PROVE  (\A j \in 1 .. k - 1 : c[1].ins[j] # "enter") <=> k <= p
    OBVIOUS
  <2>1. p \in 1 .. Len(c[1].ins) /\ Len(c[1].ins) \in Nat
    BY <1>5
  <2>2. CASE k <= p
    <3>1. \A j \in 1 .. k - 1 : j \in DOMAIN c[1].ins /\ j # p
      BY <1>5, <2>1, <2>2
    <3> QED
      BY <1>6, <2>2, <3>1
  <2>3. CASE ~(k <= p)
    <3>1. p \in 1 .. k - 1
      BY <2>1, <2>3
    <3> QED
      BY <1>3, <2>3, <3>1
  <2> QED
    BY <2>2, <2>3
<1>8. CASE b # 1
  <2>1. c[b].ins[i] # "enter"
    BY <1>8 DEF WholeShape
  <2>2. WholeOwed(c, b, i) = 1
    BY <1>1, <1>8 DEF WholeOwed
  <2>3. WholeOwed(c, b, i + 1) = IF c[b].ins[i] = "exit" THEN 0 ELSE 1
    BY <1>2, <1>8 DEF WholeOwed
  <2> QED
    BY <2>1, <2>2, <2>3
<1>9. CASE b = 1
  <2>1. i \in 1 .. Len(c[1].ins) + 1 /\ i + 1 \in 1 .. Len(c[1].ins) + 1
    BY <1>0, <1>9
  <2>2. WholeOwed(c, b, i) = IF i <= p THEN 0 ELSE 1
    <3>1. (\A j \in 1 .. i - 1 : c[1].ins[j] # "enter") <=> i <= p
      BY <1>7, <2>1
    <3> QED
      BY <1>1, <1>9, <3>1 DEF WholeOwed
  <2>3. WholeOwed(c, b, i + 1) = IF c[b].ins[i] = "exit" \/ i + 1 <= p THEN 0 ELSE 1
    <3>1. (\A j \in 1 .. (i + 1) - 1 : c[1].ins[j] # "enter") <=> i + 1 <= p
      BY <1>7, <2>1
    <3> QED
      BY <1>2, <1>9, <3>1 DEF WholeOwed
  <2>4. c[b].ins[i] = "enter" <=> i = p
    BY <1>3, <1>6, <1>9
  <2>5. c[b].ins[i] \notin Skip => ~(i < p)
    <3>1. i < p => i \in 1 .. p - 1
      BY <1>0, <1>5
    <3> QED
      BY <1>3, <1>9, <3>1 DEF InHead
  <2>6. p \in Nat /\ i \in Nat
    BY <1>0, <1>5
  <2>7. c[b].ins[i] = "enter" => WholeOwed(c, b, i) = 0 /\ WholeOwed(c, b, i + 1) = 1
    BY <2>2, <2>3, <2>4, <2>6
  <2>8. c[b].ins[i] = "exit" => WholeOwed(c, b, i) = 1 /\ WholeOwed(c, b, i + 1) = 0
    BY <2>2, <2>3, <2>4, <2>5, <2>6 DEF Skip
  <2>9. c[b].ins[i] \notin {"enter", "exit"} => WholeOwed(c, b, i + 1) = WholeOwed(c, b, i)
    BY <2>2, <2>3, <2>4, <2>6
  <2>10. c[b].ins[i] \in Hooks!Calls => WholeOwed(c, b, i) = 1
    BY <2>2, <2>4, <2>5, <2>6 DEF Skip, Hooks!Calls
  <2> QED
    BY <2>7, <2>8, <2>9, <2>10
<1> QED
  BY <1>8, <1>9

\* At the terminator, and where it leads.
LEMMA WholeEnd ==
  ASSUME NEW c \in Seq(Hooks!Block), WholeShape(c), NEW b \in DOMAIN c
  PROVE  /\ WholeOwed(c, b, Len(c[b].ins) + 1) = IF c[b].term.op \in LeaveOps THEN 0 ELSE 1
         /\ b # 1 => WholeOwed(c, b, 1) = 1
         /\ WholeOwed(c, 1, 1) = 0
<1>0. c[b].ins \in Seq(Hooks!Ins) /\ Len(c[b].ins) \in Nat
  BY BlockParts
<1>1. \A d : ~After(c[d].ins, 1, "exit")
  BY DEF After
<1>2. b # 1 => WholeOwed(c, b, 1) = 1
  BY <1>1 DEF WholeOwed
<1>3. WholeOwed(c, 1, 1) = 0
  BY DEF WholeOwed
<1>4. After(c[b].ins, Len(c[b].ins) + 1, "exit") <=> c[b].term.op \in LeaveOps
  <2>1. ASSUME c[b].term.op \in LeaveOps PROVE After(c[b].ins, Len(c[b].ins) + 1, "exit")
    BY <1>0, <2>1 DEF WholeShape, After
  <2>2. ASSUME After(c[b].ins, Len(c[b].ins) + 1, "exit") PROVE c[b].term.op \in LeaveOps
    <3>1. Len(c[b].ins) \in DOMAIN c[b].ins /\ c[b].ins[Len(c[b].ins)] = "exit"
      BY <1>0, <2>2 DEF After
    <3> QED
      BY <3>1 DEF WholeShape
  <2> QED
    BY <2>1, <2>2
<1>5. b = 1 => ~ \A j \in 1 .. (Len(c[b].ins) + 1) - 1 : c[1].ins[j] # "enter"
  <2>1. PICK p \in DOMAIN c[1].ins : c[1].ins[p] = "enter"
    BY DEF WholeShape
  <2>2. b = 1 => p \in 1 .. (Len(c[b].ins) + 1) - 1
    BY <1>0, <2>1
  <2> QED
    BY <2>1, <2>2
<1>6. WholeOwed(c, b, Len(c[b].ins) + 1) = IF c[b].term.op \in LeaveOps THEN 0 ELSE 1
  BY <1>4, <1>5 DEF WholeOwed
<1> QED
  BY <1>2, <1>3, <1>6

\* Where an invoke with hooks leads, no other way leads.
LEMMA FitsLone ==
  ASSUME NEW c, SitesFits(c), NEW d \in DOMAIN c, LandingIn(c, d)
  PROVE  LoneIn(c, d)
<1>1. PICK b \in DOMAIN c : EndsOpen(c[b].ins) /\ Hooks!Edge(c, b, d)
  BY DEF LandingIn
<1>2. \A a \in DOMAIN c : Hooks!Edge(c, a, d) => a = b
  BY <1>1 DEF SitesFits
<1> QED
  BY <1>2 DEF LoneIn

\* What a run owes before and after each instruction, if call sites are wrapped.
LEMMA SitesHere ==
  ASSUME NEW c \in Seq(Hooks!Block), SitesShape(c), SitesFits(c), NEW b \in DOMAIN c, NEW i \in DOMAIN c[b].ins
  PROVE  /\ c[b].ins[i] = "enter" => SitesOwed(c, b, i) = 0 /\ SitesOwed(c, b, i + 1) = 1
         /\ c[b].ins[i] = "exit" => SitesOwed(c, b, i) = 1 /\ SitesOwed(c, b, i + 1) = 0
         /\ c[b].ins[i] \notin {"enter", "exit"} => SitesOwed(c, b, i + 1) = SitesOwed(c, b, i)
         /\ c[b].ins[i] \in Hooks!Calls => (SitesOwed(c, b, i) = 1 <=> c[b].ins[i] = "wrapped")
<1> DEFINE s == c[b].ins
<1>0. s \in Seq(Hooks!Ins) /\ i \in 1 .. Len(s) /\ Len(s) \in Nat
  BY BlockParts
<1>1. BlockFits(c, b)
  BY DEF SitesShape
<1>2. Bracketed(s)
  BY <1>1 DEF BlockFits
<1> DEFINE Land == LandingIn(c, b)
<1>3. Land => \E j : HeadExit(s, j)
  BY <1>1 DEF BlockFits
<1>4. \A j : FreeExit(s, j) => Land /\ HeadExit(s, j)
  BY <1>1, FitsLone DEF BlockFits
<1>5. \A k : SitesOwed(c, b, k) = IF After(s, k, "enter") \/ After(s, k, "wrapped") \/ (Land /\ InHead(s, k)) THEN 1 ELSE 0
  BY DEF SitesOwed
<1> HIDE DEF s, Land
<1>6. After(s, i, "enter") => s[i] = "wrapped"
  <2> SUFFICES ASSUME i > 1, s[i - 1] = "enter" PROVE s[i] = "wrapped"
    BY DEF After
  <2>1. i - 1 \in DOMAIN s /\ i - 1 # Len(s) /\ (i - 1) + 1 = i
    BY <1>0
  <2>2. Before(s, i - 1, "wrapped")
    BY <1>2, <2>1 DEF Bracketed
  <2> QED
    BY <2>1, <2>2 DEF Before
<1>7. After(s, i, "wrapped") => s[i] = "exit"
  <2> SUFFICES ASSUME i > 1, s[i - 1] = "wrapped" PROVE s[i] = "exit"
    BY DEF After
  <2>1. i - 1 \in DOMAIN s /\ (i - 1) + 1 = i
    BY <1>0
  <2>2. Before(s, i - 1, "exit")
    BY <1>2, <2>1 DEF Bracketed
  <2> QED
    BY <2>1, <2>2 DEF Before
<1>8. s[i] = "wrapped" => After(s, i, "enter")
  BY <1>0, <1>2 DEF Bracketed
<1>9. ASSUME Land, InHead(s, i), s[i] \notin Skip PROVE HeadExit(s, i)
  <2>1. PICK j : HeadExit(s, j)
    BY <1>3, <1>9
  <2>2. j \in DOMAIN s /\ s[j] = "exit" /\ \A k \in 1 .. j - 1 : s[k] \in Skip
    BY <2>1 DEF HeadExit, InHead
  <2>3. CASE j < i
    <3>1. j \in 1 .. i - 1
      BY <1>0, <2>2, <2>3
    <3> QED
      BY <1>9, <2>2, <3>1 DEF InHead, Skip
  <2>4. CASE i < j
    <3>1. i \in 1 .. j - 1
      BY <1>0, <2>2, <2>4
    <3> QED
      BY <1>9, <2>2, <3>1
  <2>5. CASE i = j
    BY <2>1, <2>5
  <2> QED
    BY <1>0, <2>2, <2>3, <2>4, <2>5
<1>10. \A x : After(s, i + 1, x) <=> s[i] = x
  BY <1>0 DEF After
<1>11. InHead(s, i + 1) <=> InHead(s, i) /\ s[i] \in Skip
  <2>1. 1 .. (i + 1) - 1 = (1 .. i - 1) \cup {i}
    BY <1>0
  <2> QED
    BY <2>1 DEF InHead
<1>12. s[i] = "enter" => SitesOwed(c, b, i) = 0 /\ SitesOwed(c, b, i + 1) = 1
  <2> SUFFICES ASSUME s[i] = "enter" PROVE SitesOwed(c, b, i) = 0 /\ SitesOwed(c, b, i + 1) = 1
    OBVIOUS
  <2>1. ~After(s, i, "enter") /\ ~After(s, i, "wrapped")
    BY <1>6, <1>7
  <2>2. ~(Land /\ InHead(s, i))
    BY <1>9 DEF Skip, HeadExit
  <2>3. SitesOwed(c, b, i) = 0
    BY <1>5, <2>1, <2>2
  <2>4. After(s, i + 1, "enter")
    BY <1>10
  <2>5. SitesOwed(c, b, i + 1) = 1
    BY <1>5, <2>4
  <2> QED
    BY <2>3, <2>5
<1>13. s[i] = "exit" => SitesOwed(c, b, i) = 1 /\ SitesOwed(c, b, i + 1) = 0
  <2> SUFFICES ASSUME s[i] = "exit" PROVE SitesOwed(c, b, i) = 1 /\ SitesOwed(c, b, i + 1) = 0
    OBVIOUS
  <2>1. After(s, i, "wrapped") \/ (Land /\ InHead(s, i))
    BY <1>0, <1>4 DEF FreeExit, HeadExit
  <2>2. SitesOwed(c, b, i) = 1
    BY <1>5, <2>1
  <2>3. ~After(s, i + 1, "enter") /\ ~After(s, i + 1, "wrapped") /\ ~InHead(s, i + 1)
    BY <1>10, <1>11 DEF Skip
  <2>4. SitesOwed(c, b, i + 1) = 0
    BY <1>5, <2>3
  <2> QED
    BY <2>2, <2>4
<1>14. s[i] = "wrapped" => SitesOwed(c, b, i) = 1 /\ SitesOwed(c, b, i + 1) = 1
  <2> SUFFICES ASSUME s[i] = "wrapped" PROVE SitesOwed(c, b, i) = 1 /\ SitesOwed(c, b, i + 1) = 1
    OBVIOUS
  <2>1. SitesOwed(c, b, i) = 1
    BY <1>5, <1>8
  <2>2. After(s, i + 1, "wrapped")
    BY <1>10
  <2>3. SitesOwed(c, b, i + 1) = 1
    BY <1>5, <2>2
  <2> QED
    BY <2>1, <2>3
<1>15. s[i] \notin HookIns /\ s[i] \notin Skip => SitesOwed(c, b, i) = 0 /\ SitesOwed(c, b, i + 1) = 0
  <2> SUFFICES ASSUME s[i] \notin HookIns, s[i] \notin Skip PROVE SitesOwed(c, b, i) = 0 /\ SitesOwed(c, b, i + 1) = 0
    OBVIOUS
  <2>1. ~After(s, i, "enter") /\ ~After(s, i, "wrapped")
    BY <1>6, <1>7 DEF HookIns
  <2>2. ~(Land /\ InHead(s, i))
    BY <1>9 DEF HeadExit, HookIns
  <2>3. SitesOwed(c, b, i) = 0
    BY <1>5, <2>1, <2>2
  <2>4. ~After(s, i + 1, "enter") /\ ~After(s, i + 1, "wrapped") /\ ~InHead(s, i + 1)
    BY <1>10, <1>11 DEF HookIns
  <2>5. SitesOwed(c, b, i + 1) = 0
    BY <1>5, <2>4
  <2> QED
    BY <2>3, <2>5
<1>16. s[i] \in Skip => SitesOwed(c, b, i + 1) = SitesOwed(c, b, i)
  <2> SUFFICES ASSUME s[i] \in Skip PROVE SitesOwed(c, b, i + 1) = SitesOwed(c, b, i)
    OBVIOUS
  <2>1. ~After(s, i, "enter") /\ ~After(s, i, "wrapped")
    BY <1>6, <1>7 DEF Skip
  <2>2. ~After(s, i + 1, "enter") /\ ~After(s, i + 1, "wrapped")
    BY <1>10 DEF Skip
  <2>3. InHead(s, i + 1) <=> InHead(s, i)
    BY <1>11
  <2> QED
    BY <1>5, <2>1, <2>2, <2>3
<1>17. s[i] \notin {"enter", "exit"} => SitesOwed(c, b, i + 1) = SitesOwed(c, b, i)
  BY <1>14, <1>15, <1>16 DEF HookIns
<1>18. s[i] \in Hooks!Calls => (SitesOwed(c, b, i) = 1 <=> s[i] = "wrapped")
  BY <1>14, <1>15 DEF HookIns, Skip, Hooks!Calls
<1> QED
  BY <1>12, <1>13, <1>17, <1>18 DEF s

\* At the terminator, and where it leads.
LEMMA SitesEnd ==
  ASSUME NEW c \in Seq(Hooks!Block), SitesShape(c), SitesFits(c), NEW b \in DOMAIN c
  PROVE  /\ SitesOwed(c, b, Len(c[b].ins) + 1) = IF EndsOpen(c[b].ins) THEN 1 ELSE 0
         /\ \A d \in DOMAIN c : Hooks!Edge(c, b, d) => SitesOwed(c, d, 1) = IF EndsOpen(c[b].ins) THEN 1 ELSE 0
         /\ SitesOwed(c, b, 1) = IF LandingIn(c, b) THEN 1 ELSE 0
<1> DEFINE s == c[b].ins
<1>0. s \in Seq(Hooks!Ins) /\ Len(s) \in Nat
  BY BlockParts
<1>1. BlockFits(c, b)
  BY DEF SitesShape
<1>2. \A d : SitesOwed(c, d, 1) = IF LandingIn(c, d) THEN 1 ELSE 0
  <2>1. \A d, x : ~After(c[d].ins, 1, x)
    BY DEF After
  <2>2. \A d : InHead(c[d].ins, 1)
    BY DEF InHead
  <2> QED
    BY <2>1, <2>2 DEF SitesOwed
<1>3. ASSUME NEW d \in DOMAIN c, Hooks!Edge(c, b, d) PROVE LandingIn(c, d) <=> EndsOpen(s)
  <2>1. EndsOpen(s) => LandingIn(c, d)
    BY <1>3 DEF LandingIn
  <2>2. ASSUME LandingIn(c, d) PROVE EndsOpen(s)
    <3>1. LoneIn(c, d)
      BY <2>2, FitsLone
    <3>2. PICK a \in DOMAIN c : EndsOpen(c[a].ins) /\ Hooks!Edge(c, a, d)
      BY <2>2 DEF LandingIn
    <3>3. a = b
      BY <1>3, <3>1, <3>2 DEF LoneIn
    <3> QED
      BY <3>2, <3>3
  <2> QED
    BY <2>1, <2>2
<1>4. SitesOwed(c, b, Len(s) + 1) = IF EndsOpen(s) THEN 1 ELSE 0
  <2>1. After(s, Len(s) + 1, "enter") <=> EndsOpen(s)
    BY <1>0 DEF After, EndsOpen
  <2>2. ~After(s, Len(s) + 1, "wrapped")
    <3> SUFFICES ASSUME Len(s) > 0, s[Len(s)] = "wrapped" PROVE FALSE
      BY <1>0 DEF After
    <3>1. Len(s) \in DOMAIN s
      BY <1>0
    <3>2. Before(s, Len(s), "exit")
      BY <1>1, <3>1 DEF BlockFits, Bracketed
    <3> QED
      BY <1>0, <3>2 DEF Before
  <2>3. ~(LandingIn(c, b) /\ InHead(s, Len(s) + 1))
    <3> SUFFICES ASSUME LandingIn(c, b), InHead(s, Len(s) + 1) PROVE FALSE
      OBVIOUS
    <3>1. PICK j : HeadExit(s, j)
      BY <1>1 DEF BlockFits
    <3>2. j \in 1 .. (Len(s) + 1) - 1 /\ s[j] = "exit"
      BY <1>0, <3>1 DEF HeadExit
    <3> QED
      BY <3>2 DEF InHead, Skip
  <2> QED
    BY <2>1, <2>2, <2>3 DEF SitesOwed
<1> QED
  BY <1>2, <1>3, <1>4

-----------------------------------------------------------------------------
(***************************************************************************)
(* The run.  The conditions of the model under which the hooks are right,  *)
(* in the words of the lemmas.                                             *)
(***************************************************************************)
Right == IF mode = "whole" THEN WholeFits(code) ELSE SitesFits(code)
OwedAt(b, i) == IF mode = "whole" THEN WholeOwed(code, b, i) ELSE SitesOwed(code, b, i)

\* Where hooks are right, no more is owed than one exit.
LEMMA OwedFew == \A b, i : OwedAt(b, i) \in {0, 1}
BY DEF OwedAt, WholeOwed, SitesOwed

\* In code wrapped per call site, a hooked invoke is a block that ends open.
LEMMA HookedOpen ==
  ASSUME code \in Seq(Hooks!Block), SitesShape(code), NEW b \in DOMAIN code
  PROVE  Hooks!Hooked(b) <=> EndsOpen(code[b].ins)
<1>1. code[b].ins \in Seq(Hooks!Ins)
  BY BlockParts
<1>2. EndsOpen(code[b].ins) => code[b].term.op = "invoke"
  BY DEF SitesShape, BlockFits
<1>3. code[b].ins # <<>> <=> Len(code[b].ins) > 0
  BY <1>1
<1> QED
  BY <1>2, <1>3 DEF Hooks!Hooked, Hooks!Last, EndsOpen

\* The model's condition on the code.
LEMMA FitsRight ==
  ASSUME code \in Seq(Hooks!Block), mode \in {"whole", "sites"}, mode = "sites" => SitesShape(code)
  PROVE  Hooks!Fits <=> Right
<1>1. CASE mode = "whole"
  BY <1>1 DEF Hooks!Fits, Right, WholeFits, Hooks!Exits, LeaveOps
<1>2. CASE mode = "sites"
  <2>1. \A b \in DOMAIN code : Hooks!Hooked(b) <=> EndsOpen(code[b].ins)
    BY <1>2, HookedOpen
  <2> QED
    BY <1>2, <2>1 DEF Hooks!Fits, Right, SitesFits, Hooks!Dedicated
<1> QED
  BY <1>1, <1>2

\* Where the run is.
LEMMA NowIs ==
  ASSUME code \in Seq(Hooks!Block), blk \in DOMAIN code, at \in 1 .. Len(code[blk].ins) + 1
  PROVE  /\ Hooks!Now \notin Hooks!Ops => at \in DOMAIN code[blk].ins /\ Hooks!Now = code[blk].ins[at]
         /\ Hooks!Now \in Hooks!Ops => at = Len(code[blk].ins) + 1 /\ Hooks!Now = code[blk].term.op
<1>1. code[blk].ins \in Seq(Hooks!Ins) /\ code[blk].term.op \in Hooks!Ops
  BY BlockParts
<1>2. Len(code[blk].ins) \in Nat /\ DOMAIN code[blk].ins = 1 .. Len(code[blk].ins)
  BY <1>1
<1>3. CASE at \in DOMAIN code[blk].ins
  <2>1. Hooks!Now = code[blk].ins[at]
    BY <1>3 DEF Hooks!Now
  <2>2. code[blk].ins[at] \in Hooks!Ins
    BY <1>1, <1>3
  <2>3. Hooks!Now \notin Hooks!Ops
    BY <2>1, <2>2 DEF Hooks!Ins, Hooks!Ops
  <2> QED
    BY <1>3, <2>1, <2>3
<1>4. CASE at \notin DOMAIN code[blk].ins
  <2>1. Hooks!Now = code[blk].term.op
    BY <1>4 DEF Hooks!Now, Hooks!Term
  <2>2. at = Len(code[blk].ins) + 1
    BY <1>2, <1>4
  <2> QED
    BY <1>1, <2>1, <2>2
<1> QED
  BY <1>3, <1>4

(***************************************************************************)
(* What the hooks keep.  Code, place in it, shape of the code, and how far *)
(* the runtime has this thread inside.                                     *)
(***************************************************************************)
Typed == /\ Scene(scene)
         /\ Hooks!Valid(code)
         /\ mode \in {"whole", "sites"}
         /\ pc \in {"place", "run", "left", "unwound"}
         /\ blk \in DOMAIN code
         /\ at \in 1 .. Len(code[blk].ins) + 1

Shaped == /\ pc = "place" /\ mode = "whole" => Clean(code)
          /\ pc # "place" /\ mode = "whole" => WholeShape(code)
          /\ mode = "sites" => SitesShape(code)

Even == /\ pc = "place" => blk = 1 /\ at = 1 /\ inside[Self] = 0
        /\ pc = "run" /\ Right => inside[Self] = OwedAt(blk, at)
        /\ pc = "left" /\ Right => inside[Self] = 0
        /\ pc = "unwound" /\ Right => inside[Self] \in {0, 1}

HooksInv == Typed /\ Shaped /\ Even

\* What the run owes as it goes on in a block.
LEMMA OwedHere ==
  ASSUME HooksInv, pc # "place", Right, NEW b \in DOMAIN code, NEW i \in DOMAIN code[b].ins
  PROVE  /\ code[b].ins[i] = "enter" => OwedAt(b, i) = 0 /\ OwedAt(b, i + 1) = 1
         /\ code[b].ins[i] = "exit" => OwedAt(b, i) = 1 /\ OwedAt(b, i + 1) = 0
         /\ code[b].ins[i] \notin {"enter", "exit"} => OwedAt(b, i + 1) = OwedAt(b, i)
         /\ code[b].ins[i] \in Hooks!Calls => (OwedAt(b, i) = 1 <=> mode = "whole" \/ code[b].ins[i] = "wrapped")
<1>1. code \in Seq(Hooks!Block)
  BY ValidIs DEF HooksInv, Typed
<1>2. CASE mode = "whole"
  <2>1. WholeShape(code)
    BY <1>2 DEF HooksInv, Shaped
  <2> QED
    BY <1>1, <1>2, <2>1, WholeHere DEF OwedAt
<1>3. CASE mode = "sites"
  <2>1. SitesShape(code) /\ SitesFits(code)
    BY <1>3 DEF HooksInv, Shaped, Right
  <2> QED
    BY <1>1, <1>3, <2>1, SitesHere DEF OwedAt
<1> QED
  BY <1>2, <1>3 DEF HooksInv, Typed

\* What it owes before the terminator, and wherever that leads.
LEMMA OwedEnd ==
  ASSUME HooksInv, pc # "place", Right, NEW b \in DOMAIN code
  PROVE  /\ code[b].term.op \in LeaveOps /\ code[b].term.to = <<>> => OwedAt(b, Len(code[b].ins) + 1) = 0
         /\ \A d \in DOMAIN code : Hooks!Edge(code, b, d) => OwedAt(d, 1) = OwedAt(b, Len(code[b].ins) + 1)
         /\ code[b].term.op = "invoke"
              => (OwedAt(b, Len(code[b].ins) + 1) = 1 <=> mode = "whole" \/ Hooks!Hooked(b))
<1>1. code \in Seq(Hooks!Block)
  BY ValidIs DEF HooksInv, Typed
<1>2. CASE mode = "whole"
  <2>1. WholeShape(code) /\ WholeFits(code)
    BY <1>2 DEF HooksInv, Shaped, Right
  <2>2. \A a, i : OwedAt(a, i) = WholeOwed(code, a, i)
    BY <1>2 DEF OwedAt
  <2>3. OwedAt(b, Len(code[b].ins) + 1) = IF code[b].term.op \in LeaveOps THEN 0 ELSE 1
    BY <1>1, <2>1, <2>2, WholeEnd
  <2>4. ASSUME NEW d \in DOMAIN code, Hooks!Edge(code, b, d)
        PROVE  OwedAt(d, 1) = OwedAt(b, Len(code[b].ins) + 1)
    <3>1. PICK j \in DOMAIN code[b].term.to : code[b].term.to[j] = d
      BY <2>4 DEF Hooks!Edge
    <3>2. d # 1
      BY <3>1, ValidIs DEF HooksInv, Typed
    <3>3. OwedAt(d, 1) = 1
      BY <1>1, <2>1, <2>2, <3>2, WholeEnd
    <3>4. code[b].term.to # <<>>
      BY <3>1
    <3>5. code[b].term.op \notin LeaveOps
      BY <2>1, <3>4 DEF WholeFits
    <3> QED
      BY <2>3, <3>3, <3>5
  <2>5. "invoke" \notin LeaveOps
    BY DEF LeaveOps
  <2> QED
    BY <1>2, <2>3, <2>4, <2>5
<1>3. CASE mode = "sites"
  <2>1. SitesShape(code) /\ SitesFits(code)
    BY <1>3 DEF HooksInv, Shaped, Right
  <2>2. \A a, i : OwedAt(a, i) = SitesOwed(code, a, i)
    BY <1>3 DEF OwedAt
  <2>3. OwedAt(b, Len(code[b].ins) + 1) = IF EndsOpen(code[b].ins) THEN 1 ELSE 0
    BY <1>1, <2>1, <2>2, SitesEnd
  <2>4. \A d \in DOMAIN code : Hooks!Edge(code, b, d) => OwedAt(d, 1) = IF EndsOpen(code[b].ins) THEN 1 ELSE 0
    BY <1>1, <2>1, <2>2, SitesEnd
  <2>5. Hooks!Hooked(b) <=> EndsOpen(code[b].ins)
    BY <1>1, <2>1, HookedOpen
  <2>6. EndsOpen(code[b].ins) => code[b].term.op \notin LeaveOps
    BY <2>1 DEF SitesShape, BlockFits, LeaveOps
  <2> QED
    BY <1>3, <2>3, <2>4, <2>5, <2>6
<1> QED
  BY <1>2, <1>3 DEF HooksInv, Typed

\* What it owes where it starts.
LEMMA OwedFirst ==
  ASSUME Hooks!Valid(code), mode = "whole" => WholeShape(code), mode = "sites" => SitesShape(code) /\ SitesFits(code),
         mode \in {"whole", "sites"}
  PROVE  1 \in DOMAIN code /\ OwedAt(1, 1) = 0
<1>1. code \in Seq(Hooks!Block) /\ code # <<>>
  BY DEF Hooks!Valid
<1>2. 1 \in DOMAIN code
  BY <1>1
<1>3. CASE mode = "whole"
  BY <1>1, <1>2, <1>3, WholeEnd DEF OwedAt
<1>4. CASE mode = "sites"
  <2>1. ~LandingIn(code, 1)
    <3> SUFFICES ASSUME NEW b \in DOMAIN code, Hooks!Edge(code, b, 1) PROVE FALSE
      BY DEF LandingIn
    <3>1. PICK j \in DOMAIN code[b].term.to : code[b].term.to[j] = 1
      BY DEF Hooks!Edge
    <3> QED
      BY <3>1, ValidIs
  <2>2. SitesOwed(code, 1, 1) = 0
    BY <1>1, <1>2, <1>4, <2>1, SitesEnd
  <2> QED
    BY <1>2, <1>4, <2>2 DEF OwedAt
<1> QED
  BY <1>3, <1>4

\* Steps that leave the code alone keep its shape.
LEMMA CodeRests ==
  ASSUME HooksInv, UNCHANGED <<scene, code, mode>>, pc # "place", pc' \in {"run", "left", "unwound"}
  PROVE  Shaped' /\ Scene(scene)' /\ Hooks!Valid(code)' /\ mode' \in {"whole", "sites"} /\ (Right' <=> Right)
BY SMTT(30) DEF HooksInv, Shaped, Typed, Right, Scene, Hooks!Valid, Hooks!Edge, Hooks!HasPad, Hooks!Unwinds

\* A hook is passed.
LEMMA HookPassed ==
  ASSUME Shim!ShimAssumption, Self \in Threads, ShimInv, HooksInv, Count
  PROVE  HooksInv'
<1>1. /\ pc = "run" /\ Hooks!Now \in {"enter", "exit"}
      /\ inside'[Self] = inside[Self] + (IF Hooks!Now = "enter" THEN 1 ELSE -1)
      /\ at' = at + 1
      /\ UNCHANGED <<scene, code, mode, pc, blk>>
  BY DEF Count, Hooks!Hook
<1>2. code \in Seq(Hooks!Block) /\ blk \in DOMAIN code /\ at \in 1 .. Len(code[blk].ins) + 1
  BY ValidIs DEF HooksInv, Typed
<1>3. Hooks!Now \notin Hooks!Ops
  BY <1>1 DEF Hooks!Ops
<1>4. at \in DOMAIN code[blk].ins /\ Hooks!Now = code[blk].ins[at]
  BY <1>2, <1>3, NowIs
<1>5. code[blk].ins \in Seq(Hooks!Ins)
  BY <1>2, BlockParts
<1>6. /\ Shaped' /\ Scene(scene)' /\ Hooks!Valid(code)' /\ mode' \in {"whole", "sites"} /\ (Right' <=> Right)
      /\ pc # "place"
  BY <1>1, CodeRests
<1>7. Typed'
  <2>1. at' \in 1 .. Len(code[blk].ins) + 1
    BY <1>1, <1>4, <1>5
  <2>2. blk' \in DOMAIN code' /\ at' \in 1 .. Len(code'[blk'].ins) + 1
    BY <1>1, <1>2, <2>1
  <2> QED
    BY <1>1, <1>6, <2>2 DEF Typed
<1>8. ASSUME Right PROVE inside'[Self] = OwedAt(blk, at + 1)
  <2>1. inside[Self] = OwedAt(blk, at)
    BY <1>1, <1>8 DEF HooksInv, Even
  <2> QED
    BY <1>1, <1>2, <1>4, <1>6, <1>8, <2>1, OwedHere
<1>9. Even'
  <2>1. OwedAt(blk, at + 1) = OwedAt(blk, at)'
    BY <1>1 DEF OwedAt
  <2> QED
    BY <1>1, <1>6, <1>8, <2>1 DEF Even
<1> QED
  BY <1>6, <1>7, <1>9 DEF HooksInv

\* The function goes on.
LEMMA Goes ==
  ASSUME HooksInv, Run
  PROVE  HooksInv'
<1>1. UNCHANGED <<scene, code, mode>> /\ inside' = inside /\ pc = "run" /\ pc' \in {"run", "left", "unwound"}
  BY DEF Run, shimVars, Hooks!Step, Hooks!Throw, Hooks!Leave, Hooks!Go
<1>2. code \in Seq(Hooks!Block) /\ blk \in DOMAIN code /\ at \in 1 .. Len(code[blk].ins) + 1
  BY ValidIs DEF HooksInv, Typed
<1>3. code[blk].ins \in Seq(Hooks!Ins)
  BY <1>2, BlockParts
<1>4. /\ Shaped' /\ Scene(scene)' /\ Hooks!Valid(code)' /\ mode' \in {"whole", "sites"} /\ (Right' <=> Right)
      /\ pc # "place"
  BY <1>1, CodeRests
<1>5. Right => inside[Self] = OwedAt(blk, at)
  BY <1>1 DEF HooksInv, Even
<1>6. CASE Hooks!Step
  <2>1. at' = at + 1 /\ UNCHANGED <<pc, blk>> /\ Hooks!Now \in Hooks!Calls \cup {"phi", "pad"}
    BY <1>6 DEF Hooks!Step
  <2>2. Hooks!Now \notin Hooks!Ops /\ Hooks!Now \notin {"enter", "exit"}
    BY <2>1 DEF Hooks!Ops, Hooks!Calls
  <2>3. at \in DOMAIN code[blk].ins /\ Hooks!Now = code[blk].ins[at]
    BY <1>2, <2>2, NowIs
  <2>4. blk' \in DOMAIN code' /\ at' \in 1 .. Len(code'[blk'].ins) + 1
    BY <1>1, <1>2, <1>3, <2>1, <2>3
  <2>5. Right => OwedAt(blk, at + 1) = OwedAt(blk, at)
    BY <1>2, <1>4, <2>2, <2>3, OwedHere
  <2>6. OwedAt(blk, at + 1) = OwedAt(blk, at)'
    BY <1>1, <2>1 DEF OwedAt
  <2> QED
    BY <1>1, <1>4, <1>5, <2>1, <2>4, <2>5, <2>6 DEF HooksInv, Typed, Even
<1>7. CASE Hooks!Throw
  <2>1. UNCHANGED <<blk, at>> /\ pc' = "unwound"
    BY <1>7 DEF Hooks!Throw
  <2>2. blk' \in DOMAIN code' /\ at' \in 1 .. Len(code'[blk'].ins) + 1
    BY <1>1, <1>2, <2>1
  <2>3. Right => inside'[Self] \in {0, 1}
    BY <1>1, <1>5, OwedFew
  <2> QED
    BY <1>4, <2>1, <2>2, <2>3 DEF HooksInv, Typed, Even
<1>8. CASE Hooks!Leave
  <2>1. UNCHANGED <<blk, at>> /\ pc' = "left" /\ Hooks!Now \in {"ret", "resume", "cleanupret"} /\ Hooks!Term.to = <<>>
    BY <1>8 DEF Hooks!Leave
  <2>2. blk' \in DOMAIN code' /\ at' \in 1 .. Len(code'[blk'].ins) + 1
    BY <1>1, <1>2, <2>1
  <2>3. at = Len(code[blk].ins) + 1 /\ Hooks!Now = code[blk].term.op
    BY <1>2, <2>1, NowIs DEF Hooks!Ops
  <2>4. code[blk].term.op \in LeaveOps /\ code[blk].term.to = <<>>
    BY <2>1, <2>3 DEF LeaveOps, Hooks!Term
  <2>5. Right => inside'[Self] = 0
    BY <1>1, <1>2, <1>4, <1>5, <2>3, <2>4, OwedEnd
  <2> QED
    BY <1>4, <2>1, <2>2, <2>5 DEF HooksInv, Typed, Even
<1>9. CASE Hooks!Go
  <2>1. at' = 1 /\ pc' = "run" /\ Hooks!Now \in Hooks!Ops
    BY <1>1, <1>9 DEF Hooks!Go
  <2>2. PICK j \in DOMAIN code[blk].term.to : blk' = code[blk].term.to[j]
    BY <1>9 DEF Hooks!Go, Hooks!Term
  <2>3. at = Len(code[blk].ins) + 1
    BY <1>2, <2>1, NowIs
  <2>4. Hooks!Edge(code, blk, blk')
    BY <2>2 DEF Hooks!Edge
  <2>5. blk' \in DOMAIN code
    BY <1>2, <2>2, ValidIs DEF HooksInv, Typed
  <2>6. code[blk'].ins \in Seq(Hooks!Ins)
    BY <1>2, <2>5, BlockParts
  <2>7. blk' \in DOMAIN code' /\ at' \in 1 .. Len(code'[blk'].ins) + 1
    <3>1. at' \in 1 .. Len(code[blk'].ins) + 1
      BY <2>1, <2>6
    <3> QED
      BY <1>1, <2>5, <3>1
  <2>8. Right => OwedAt(blk', 1) = OwedAt(blk, Len(code[blk].ins) + 1)
    BY <1>2, <1>4, <2>4, <2>5, OwedEnd
  <2>9. OwedAt(blk', 1) = OwedAt(blk, at)'
    BY <1>1, <2>1 DEF OwedAt
  <2> QED
    BY <1>1, <1>4, <1>5, <2>1, <2>3, <2>7, <2>8, <2>9 DEF HooksInv, Typed, Even
<1> QED
  BY <1>6, <1>7, <1>8, <1>9 DEF Run

\* The function as it is found has no hooks.
LEMMA HooksStart ==
  ASSUME Self \in Threads, \A s \in Scenes : Scene(s), Init
  PROVE  HooksInv
<1>1. scene \in Scenes /\ code = scene.code /\ Hooks!Init /\ Shim!Init
  BY DEF Init
<1>2. /\ Scene(scene) /\ Hooks!Valid(code)
      /\ \A b \in DOMAIN code : \A i \in DOMAIN code[b].ins : code[b].ins[i] \in {"phi", "pad", "call", "tagged"}
  BY <1>1 DEF Scene
<1>3. code \in Seq(Hooks!Block) /\ code # <<>>
  BY <1>2 DEF Hooks!Valid
<1>4. 1 \in DOMAIN code
  BY <1>3
<1>5. code[1].ins \in Seq(Hooks!Ins)
  BY <1>3, <1>4, BlockParts
<1>6. pc = "place" /\ mode \in {"whole", "sites"} /\ blk = 1 /\ at = 1
  BY <1>1 DEF Hooks!Init
<1>7. Typed
  <2>1. 1 \in 1 .. Len(code[1].ins) + 1
    BY <1>5
  <2> QED
    BY <1>2, <1>4, <1>6, <2>1 DEF Typed
<1>8. Clean(code)
  BY <1>2 DEF Clean, HookIns
<1>9. SitesShape(code)
  BY <1>3, <1>8, CleanShape
<1>10. inside[Self] = 0
  BY <1>1 DEF Shim!Init
<1> QED
  BY <1>6, <1>7, <1>8, <1>9, <1>10 DEF HooksInv, Shaped, Even

\* The first block with something to do, and the first call in it.
LEMMA SiteIs ==
  ASSUME code \in Seq(Hooks!Block), Hooks!Todo # {}
  PROVE  Hooks!Site \in Hooks!Todo
<1> DEFINE T == Hooks!Todo
<1>1. T \in SUBSET Nat
  BY DEF Hooks!Todo
<1>2. Hooks!Site = CHOOSE b \in T : \A d \in T : b <= d
  BY DEF Hooks!Site
<1> HIDE DEF T
<1>3. \E b \in T : \A d \in T : b <= d
  <2>1. T # {}
    BY DEF T
  <2> QED
    BY <1>1, <2>1, LeastNat
<1>4. Hooks!Site \in T
  BY <1>2, <1>3
<1> QED
  BY <1>4 DEF T

FirstPlain(b) == CHOOSE i \in Hooks!Plain(b) : \A j \in Hooks!Plain(b) : i <= j

\* The first call to be wrapped is one.
LEMMA PlainIs ==
  ASSUME code \in Seq(Hooks!Block), NEW b \in DOMAIN code, Hooks!Plain(b) # {}
  PROVE  FirstPlain(b) \in DOMAIN code[b].ins /\ code[b].ins[FirstPlain(b)] = "tagged"
<1> DEFINE T == Hooks!Plain(b)
<1>0. code[b].ins \in Seq(Hooks!Ins)
  BY BlockParts
<1>1. T \in SUBSET Nat
  BY <1>0 DEF Hooks!Plain
<1>2. FirstPlain(b) = CHOOSE i \in T : \A j \in T : i <= j
  BY DEF FirstPlain
<1>3. \A i \in T : i \in DOMAIN code[b].ins /\ code[b].ins[i] = "tagged"
  BY DEF Hooks!Plain
<1>4. T # {}
  OBVIOUS
<1> HIDE DEF T
<1>5. \E i \in T : \A j \in T : i <= j
  BY <1>1, <1>4, LeastNat
<1>6. FirstPlain(b) \in T
  BY <1>2, <1>5
<1> QED
  BY <1>3, <1>6

\* Code of the same flow, and the run still at its start.
LEMMA PlacedTyped ==
  ASSUME HooksInv, NEW e, code' = e, SameFlow(code, e), pc = "place", UNCHANGED <<scene, blk, at>>,
         mode' \in {"whole", "sites"}, pc' \in {"place", "run"}
  PROVE  Typed'
<1>1. Hooks!Valid(e)
  BY ValidKeeps DEF HooksInv, Typed
<1>2. e \in Seq(Hooks!Block) /\ DOMAIN e = DOMAIN code
  BY DEF SameFlow
<1>3. blk = 1 /\ at = 1 /\ blk \in DOMAIN e
  BY <1>2 DEF HooksInv, Typed, Even
<1>4. at \in 1 .. Len(e[blk].ins) + 1
  <2>1. e[blk].ins \in Seq(Hooks!Ins)
    BY <1>2, <1>3, BlockParts
  <2> QED
    BY <1>3, <2>1
<1>5. Scene(scene)'
  BY SMTT(30) DEF HooksInv, Typed, Scene, Hooks!Valid, Hooks!Edge, Hooks!HasPad, Hooks!Unwinds
<1>6. Hooks!Valid(code)'
  BY <1>1 DEF Hooks!Valid, Hooks!Edge, Hooks!HasPad, Hooks!Unwinds
<1> QED
  BY <1>3, <1>4, <1>5, <1>6 DEF Typed

\* The pass puts the hooks in.
LEMMA Places ==
  ASSUME Self \in Threads, HooksInv, Place
  PROVE  HooksInv'
<1>1. UNCHANGED <<scene, blk, at>> /\ inside' = inside /\ pc = "place"
  BY DEF Place, shimVars, Hooks!WrapWhole, Hooks!WrapCall, Hooks!WrapInvoke, Hooks!Placed, Hooks!Wrapping
<1>2. Hooks!Valid(code) /\ code \in Seq(Hooks!Block) /\ code # <<>>
  BY DEF HooksInv, Typed, Hooks!Valid
<1>3. mode \in {"whole", "sites"} /\ inside[Self] = 0 /\ blk = 1 /\ at = 1
  BY <1>1 DEF HooksInv, Typed, Even
<1>4. CASE Hooks!WrapWhole
  <2>1. mode = "whole" /\ mode' = mode /\ pc' = "run"
    BY <1>4 DEF Hooks!WrapWhole
  <2>2. Clean(code)
    BY <1>1, <2>1 DEF HooksInv, Shaped
  <2> DEFINE entered == Hooks!InsertPast(code, 1, {"phi", "pad"}, "enter")
  <2>3. code' = [b \in DOMAIN code |-> IF Hooks!Exits(b) THEN Hooks!InsertLast(entered, b, "exit")[b] ELSE entered[b]]
    BY <1>4 DEF Hooks!WrapWhole
  <2>4. PICK n : n = entered
    OBVIOUS
  <2>5. n = Hooks!InsertPast(code, 1, {"phi", "pad"}, "enter")
    BY <2>4
  <2>6. PICK e : e = code'
    OBVIOUS
  <2>7. e = [b \in DOMAIN code |-> IF Hooks!Exits(b) THEN Hooks!InsertLast(n, b, "exit")[b] ELSE n[b]]
    BY <2>3, <2>4, <2>6
  <2> HIDE DEF entered
  <2>8. SameFlow(code, e) /\ WholeShape(e)
    BY <1>2, <2>2, <2>5, <2>7, WholeWrapped
  <2>9. Typed'
    BY <1>1, <2>1, <2>6, <2>8, PlacedTyped DEF HooksInv, Typed
  <2>10. Shaped'
    BY <2>1, <2>6, <2>8 DEF Shaped, WholeShape, InHead
  <2>11. WholeOwed(e, 1, 1) = 0
    <3>1. e \in Seq(Hooks!Block) /\ DOMAIN e = DOMAIN code /\ 1 \in DOMAIN code
      BY <1>2, <2>8 DEF SameFlow
    <3> QED
      BY <2>8, <3>1, WholeEnd
  <2>12. OwedAt(blk, at)' = 0
    BY <1>1, <1>3, <2>1, <2>6, <2>11 DEF OwedAt, WholeOwed, After
  <2>13. Even'
    BY <1>1, <1>3, <2>1, <2>12 DEF Even
  <2> QED
    BY <2>9, <2>10, <2>13 DEF HooksInv
<1>5. CASE Hooks!WrapCall
  <2>1. mode = "sites" /\ UNCHANGED <<mode, pc>> /\ Hooks!Todo # {} /\ Hooks!Plain(Hooks!Site) # {}
    BY <1>5 DEF Hooks!WrapCall, Hooks!Wrapping
  <2>2. PICK b : b = Hooks!Site
    OBVIOUS
  <2>3. b \in DOMAIN code
    BY <1>2, <2>1, <2>2, SiteIs DEF Hooks!Todo
  <2>4. PICK i : i = FirstPlain(b)
    OBVIOUS
  <2>5. i \in DOMAIN code[b].ins /\ code[b].ins[i] = "tagged"
    BY <1>2, <2>1, <2>2, <2>3, <2>4, PlainIs
  <2>6. PICK x : x = Hooks!Around(code[b].ins, i)
    OBVIOUS
  <2>7. code' = [code EXCEPT ![b].ins = x]
    BY <1>5, <2>2, <2>4, <2>6 DEF Hooks!WrapCall, FirstPlain
  <2>8. code[b].ins \in Seq(Hooks!Ins)
    BY <1>2, <2>3, BlockParts
  <2>9. Bracket(code[b].ins, i, x)
    BY <2>5, <2>6, <2>8, AroundIs
  <2>10. x \in Seq(Hooks!Ins)
    BY <2>9 DEF Bracket
  <2>11. PICK e : e = [code EXCEPT ![b].ins = x]
    OBVIOUS
  <2>12. Edited(code, b, x, e)
    BY <1>2, <2>3, <2>10, <2>11, EditIs
  <2>13. e[b].ins = x
    BY <2>12 DEF Edited
  <2>14. SitesShape(code)
    BY <2>1 DEF HooksInv, Shaped
  <2>15. SameFlow(code, e) /\ SitesShape(e)
    BY <1>2, <2>3, <2>5, <2>9, <2>12, <2>13, <2>14, CallWrapped
  <2>16. code' = e
    BY <2>7, <2>11
  <2>17. Typed'
    BY <1>1, <1>3, <2>1, <2>15, <2>16, PlacedTyped
  <2>18. Shaped'
    <3>1. SitesShape(code)'
      BY <2>15, <2>16 DEF SitesShape, BlockFits, LandingIn, LoneIn, Bracketed, EndsOpen, FreeExit, HeadExit, InHead,
         After, Before, Hooks!Edge
    <3> QED
      BY <1>1, <2>1, <3>1 DEF Shaped
  <2> QED
    BY <1>1, <1>3, <2>1, <2>17, <2>18 DEF HooksInv, Even
<1>6. CASE Hooks!WrapInvoke
  <2>1. mode = "sites" /\ UNCHANGED <<mode, pc>> /\ Hooks!Todo # {} /\ Hooks!Plain(Hooks!Site) = {}
    BY <1>6 DEF Hooks!WrapInvoke, Hooks!Wrapping
  <2>2. PICK b : b = Hooks!Site
    OBVIOUS
  <2>3. b \in DOMAIN code /\ code[b].term.tag
    <3>1. b \in Hooks!Todo
      BY <1>2, <2>1, <2>2, SiteIs
    <3> QED
      BY <2>1, <2>2, <3>1 DEF Hooks!Todo
  <2>4. PICK e : e = code'
    OBVIOUS
  <2>5. e = Untagged(Hooks!WithExits(Hooks!InsertLast(code, b, "enter"), code[b].term.to[1], code[b].term.to[2]), b)
    BY <1>6, <2>2, <2>4 DEF Hooks!WrapInvoke, Untagged
  <2>6. e \in Seq(Hooks!Block) /\ DOMAIN e = DOMAIN code
    BY <1>2, <2>3, <2>5, InvokeIs
  <2>7. \A d \in DOMAIN code : /\ Invoked(code, b, d, e)
                               /\ e[d].term.op = code[d].term.op
                               /\ e[d].term.to = code[d].term.to
                               /\ e[d].term.tag = (d # b /\ code[d].term.tag)
    BY <1>2, <2>3, <2>5, InvokeIs
  <2>8. SitesShape(code)
    BY <2>1 DEF HooksInv, Shaped
  <2>9. SameFlow(code, e) /\ SitesShape(e)
    BY <1>2, <2>3, <2>6, <2>7, <2>8, InvokeWrapped
  <2>10. Typed'
    BY <1>1, <1>3, <2>1, <2>4, <2>9, PlacedTyped
  <2>11. Shaped'
    <3>1. SitesShape(code)'
      BY <2>4, <2>9, SMTT(30) DEF SitesShape, BlockFits, LandingIn, LoneIn, Bracketed, EndsOpen, FreeExit, HeadExit, InHead,
         After, Before, Hooks!Edge
    <3> QED
      BY <1>1, <2>1, <3>1 DEF Shaped
  <2> QED
    BY <1>1, <1>3, <2>1, <2>10, <2>11 DEF HooksInv, Even
<1>7. CASE Hooks!Placed
  <2>1. mode = "sites" /\ UNCHANGED code
    BY <1>7 DEF Hooks!Placed
  <2>2. SitesShape(code)
    BY <2>1 DEF HooksInv, Shaped
  <2>3. SameFlow(code, code)
    BY <1>2 DEF SameFlow
  <2>4. CASE \E b \in DOMAIN code : \E i \in DOMAIN code[b].ins : code[b].ins[i] = "enter"
    <3>1. pc' = "run" /\ mode' = "sites"
      BY <1>7, <2>1, <2>4 DEF Hooks!Placed
    <3>2. Typed'
      BY <1>1, <1>3, <2>1, <2>3, <3>1, PlacedTyped
    <3>3. Shaped'
      BY <2>1, <2>2, <3>1 DEF Shaped, SitesShape, BlockFits, LandingIn, LoneIn, Hooks!Edge
    <3>4. Right' => SitesFits(code)
      BY <2>1, <3>1 DEF Right, SitesFits, Hooks!Edge
    <3>5. OwedAt(blk, at)' = OwedAt(1, 1)
      BY <1>1, <1>3, <2>1, <3>1 DEF OwedAt
    <3>6. Even'
      BY <1>1, <1>2, <1>3, <2>1, <2>2, <3>1, <3>4, <3>5, OwedFirst DEF Even
    <3> QED
      BY <3>2, <3>3, <3>6 DEF HooksInv
  <2>5. CASE ~ \E b \in DOMAIN code : \E i \in DOMAIN code[b].ins : code[b].ins[i] = "enter"
    <3>1. pc' = "place" /\ mode' = "whole"
      BY <1>1, <1>7, <2>5 DEF Hooks!Placed
    <3>2. Typed'
      BY <1>1, <2>1, <2>3, <3>1, PlacedTyped
    <3>3. Clean(code)
      BY <1>2, <2>2, <2>5, NoEnterClean
    <3>4. Shaped'
      BY <2>1, <3>1, <3>3 DEF Shaped, Clean
    <3> QED
      BY <1>1, <1>3, <3>1, <3>2, <3>4 DEF HooksInv, Even
  <2> QED
    BY <2>4, <2>5
<1> QED
  BY <1>4, <1>5, <1>6, <1>7 DEF Place

\* What happens elsewhere is nothing to this thread.
LEMMA HooksRest ==
  ASSUME HooksInv, UNCHANGED hooksVars, inside'[Self] = inside[Self]
  PROVE  HooksInv'
<1>1. UNCHANGED <<scene, code, mode, pc, blk, at>>
  BY DEF hooksVars
<1>2. Typed'
  BY <1>1 DEF HooksInv, Typed, Scene, Hooks!Valid, Hooks!Edge, Hooks!HasPad, Hooks!Unwinds
<1>3. Shaped'
  BY <1>1 DEF HooksInv, Shaped
<1>4. (Right' <=> Right) /\ OwedAt(blk, at)' = OwedAt(blk, at)
  BY <1>1 DEF Right, OwedAt
<1>5. Even'
  BY <1>1, <1>4 DEF HooksInv, Even
<1> QED
  BY <1>2, <1>3, <1>5 DEF HooksInv

-----------------------------------------------------------------------------
(***************************************************************************)
(* The program: hooks and shim together.                                   *)
(***************************************************************************)
ProgramInv == ShimInv /\ HooksInv

\* It starts well.
LEMMA ProgramStart == Init => ProgramInv
<1> SUFFICES ASSUME Init PROVE ProgramInv
  OBVIOUS
<1>1. Shim!Init
  BY DEF Init
<1>2. ShimInv
  BY <1>1, ShimStart, RuntimeAssumption
<1>3. HooksInv
  BY HooksStart, RuntimeAssumption
<1> QED
  BY <1>2, <1>3 DEF ProgramInv

\* Every step keeps it.
LEMMA ProgramKeeps == ProgramInv /\ [Next]_vars => ProgramInv'
<1> SUFFICES ASSUME ShimInv, HooksInv, [Next]_vars PROVE ShimInv' /\ HooksInv'
  BY DEF ProgramInv
<1>1. CASE Place
  <2>1. UNCHANGED shimVars
    BY <1>1 DEF Place
  <2> QED
    BY <1>1, <2>1, ShimRests, Places, RuntimeAssumption
<1>2. CASE Count
  <2>1. Shim!RealtimeEnter(Self) \/ Shim!RealtimeExit(Self)
    BY <1>2 DEF Count
  <2>2. ShimInv'
    BY <2>1, ShimEnters, ShimLeaves, RuntimeAssumption
  <2> QED
    BY <1>2, <2>2, HookPassed, RuntimeAssumption
<1>3. CASE Run
  <2>1. UNCHANGED shimVars
    BY <1>3 DEF Run
  <2> QED
    BY <1>3, <2>1, ShimRests, Goes
<1>4. CASE Elsewhere
  <2>1. PICK t \in scene.others : Shim!RealtimeEnter(t) \/ Shim!RealtimeExit(t)
    BY <1>4 DEF Elsewhere
  <2>2. t \in Threads /\ t # Self
    BY <2>1 DEF HooksInv, Typed, Scene
  <2>3. ShimInv'
    BY <2>1, <2>2, ShimEnters, ShimLeaves, RuntimeAssumption
  <2>4. inside \in [Threads -> -MaxNesting .. MaxNesting]
    BY DEF ShimInv, Shim!TypeOK
  <2>5. inside'[Self] = inside[Self]
    BY <2>1, <2>2, <2>4, RuntimeAssumption DEF Shim!RealtimeEnter, Shim!RealtimeExit
  <2>6. UNCHANGED hooksVars
    BY <1>4 DEF Elsewhere
  <2> QED
    BY <2>3, <2>5, <2>6, HooksRest
<1>5. CASE Resetting
  <2>1. PICK r \in scene.resetters : Shim!Reset(r) \/ Shim!ResetEnters(r) \/ Shim!ResetExits(r)
    BY <1>5 DEF Resetting
  <2>2. r \in Resetters
    BY <2>1 DEF HooksInv, Typed, Scene
  <2>3. ShimInv'
    BY <2>1, <2>2, ShimResets, ShimStores, RuntimeAssumption
  <2>4. inside' = inside /\ UNCHANGED hooksVars
    BY <1>5, <2>1 DEF Resetting, Shim!Reset, Shim!ResetEnters, Shim!ResetExits
  <2> QED
    BY <2>3, <2>4, HooksRest
<1>6. CASE UNCHANGED vars
  <2>1. UNCHANGED shimVars /\ UNCHANGED hooksVars /\ inside' = inside
    BY <1>6 DEF vars, shimVars
  <2> QED
    BY <2>1, ShimRests, HooksRest
<1> QED
  BY <1>1, <1>2, <1>3, <1>4, <1>5, <1>6 DEF Next

\* So the invariant always holds.
LEMMA ProgramAlways == Spec => []ProgramInv
BY ProgramStart, ProgramKeeps, PTL DEF Spec

(***************************************************************************)
(* For every function, of any blocks, any threads and any width of the     *)
(* counters: the code stays code that the verifier accepts, phis and pads  *)
(* at its blocks' heads, whatever hooks the pass puts into it.             *)
(***************************************************************************)
THEOREM TypeCorrect == Spec => []TypeOK
<1>1. ProgramInv => TypeOK
  <2> SUFFICES ASSUME ShimInv, HooksInv PROVE TypeOK
    BY DEF ProgramInv
  <2>1. Shim!TypeOK
    BY DEF ShimInv
  <2>2. inside[Self] \in -MaxNesting .. MaxNesting
    BY <2>1, RuntimeAssumption DEF Shim!TypeOK
  <2> QED
    BY <2>1, <2>2 DEF HooksInv, Typed, TypeOK, Hooks!TypeOK
<1> QED
  BY <1>1, ProgramAlways, PTL

(***************************************************************************)
(* On every path through the code that wrapWholeFunction or wrapCallSite   *)
(* leaves, exit hooks follow enter hooks one by one, none is missing when  *)
(* the function is left, and what is meant to run between them does.       *)
(***************************************************************************)
THEOREM HooksPair == Spec => []Paired
<1>1. ProgramInv => Paired
  <2> SUFFICES ASSUME ShimInv, HooksInv, Hooks!Fits PROVE Paired
    BY DEF ProgramInv, Paired, Hooks!Paired, Hooks!WitnessInside
  <2>1. code \in Seq(Hooks!Block) /\ blk \in DOMAIN code /\ at \in 1 .. Len(code[blk].ins) + 1
    BY ValidIs DEF HooksInv, Typed
  <2>2. Right
    BY <2>1, FitsRight DEF HooksInv, Typed, Shaped
  <2>3. Hooks!Paired
    <3>1. pc = "run" => inside[Self] \in {0, 1}
      BY <2>2, OwedFew DEF HooksInv, Even
    <3>2. pc \in {"place", "run", "left", "unwound"}
      BY DEF HooksInv, Typed
    <3> QED
      BY <2>2, <3>1, <3>2 DEF HooksInv, Even, Hooks!Paired
  <2>4. Hooks!WitnessInside
    <3> SUFFICES ASSUME pc = "run", Hooks!Now \in Hooks!Calls \cup {"invoke"}
                 PROVE  inside[Self] = 1
                          <=> mode = "whole" \/ Hooks!Now = "wrapped" \/ (Hooks!Now = "invoke" /\ Hooks!Hooked(blk))
      BY DEF Hooks!WitnessInside
    <3>1. inside[Self] = OwedAt(blk, at)
      BY <2>2 DEF HooksInv, Even
    <3>2. CASE Hooks!Now = "invoke"
      <4>1. at = Len(code[blk].ins) + 1 /\ code[blk].term.op = "invoke"
        BY <2>1, <3>2, NowIs DEF Hooks!Ops
      <4> QED
        BY <2>1, <2>2, <3>1, <3>2, <4>1, OwedEnd
    <3>3. CASE Hooks!Now \in Hooks!Calls
      <4>1. Hooks!Now \notin Hooks!Ops /\ Hooks!Now # "invoke"
        BY <3>3 DEF Hooks!Ops, Hooks!Calls
      <4>2. at \in DOMAIN code[blk].ins /\ Hooks!Now = code[blk].ins[at]
        BY <2>1, <4>1, NowIs
      <4> QED
        BY <2>1, <2>2, <3>1, <3>3, <4>1, <4>2, OwedHere
    <3> QED
      BY <3>2, <3>3
  <2> QED
    BY <2>3, <2>4 DEF Paired
<1> QED
  BY <1>1, ProgramAlways, PTL

(***************************************************************************)
(* However many threads there are and however often their counters wrap    *)
(* around, after a reset that nobody got in the way of enters exceed exits *)
(* by the threads inside; with nobody inside they are as many, also after  *)
(* a run through the function, whatever hooks it met on its path.          *)
(***************************************************************************)
THEOREM CountersBalance == Spec => []Balanced
<1>1. ProgramInv => Balanced
  <2> SUFFICES ASSUME ShimInv, HooksInv PROVE Balanced
    BY DEF ProgramInv
  <2>1. Shim!BalancedWhenCalm
    BY ShimCounts, RuntimeAssumption
  <2>2. ASSUME Hooks!Fits, pc = "left", \A t \in Threads \ {Self} : inside[t] = 0, Shim!Undisturbed
        PROVE  enterCount = exitCount
    <3>1. code \in Seq(Hooks!Block)
      BY ValidIs DEF HooksInv, Typed
    <3>2. Right
      BY <2>2, <3>1, FitsRight DEF HooksInv, Typed, Shaped
    <3>3. inside[Self] = 0
      BY <2>2, <3>2 DEF HooksInv, Even
    <3>4. \A t \in Threads : inside[t] = 0
      BY <2>2, <3>3
    <3> QED
      BY <2>2, <3>4, ShimAgrees, RuntimeAssumption
  <2> QED
    BY <2>1, <2>2 DEF Balanced
<1> QED
  BY <1>1, ProgramAlways, PTL
=============================================================================
