----------------------------- MODULE RTInduction -----------------------------
(***************************************************************************)
(* What the proofs need of the natural numbers: a least and a greatest     *)
(* element, and induction, stated for sets of numbers instead of           *)
(* predicates so that they can be cited.                                   *)
(***************************************************************************)
EXTENDS Integers, FiniteSets, TLAPS, WellFoundedInduction, FiniteSetTheorems

(***************************************************************************)
(* A non-empty set of natural numbers has a least element.                 *)
(***************************************************************************)
LEMMA LeastNat ==
  ASSUME NEW T \in SUBSET Nat, T # {}
  PROVE  \E x \in T : \A y \in T : x <= y
<1> DEFINE R == {p \in Nat \X Nat : p[1] < p[2]}
<1>1. IsWellFoundedOn(R, Nat)
  BY NatLessThanWellFounded DEF OpToRel
<1>2. \E x \in T : \A y \in T : ~(<<y, x>> \in R)
  <2> HIDE DEF R
  <2> QED
    BY <1>1, WFMin
<1>3. PICK x \in T : \A y \in T : <<y, x>> \notin R
  BY <1>2
<1>4. ASSUME NEW y \in T PROVE x <= y
  <2>1. x \in Nat /\ y \in Nat
    OBVIOUS
  <2>2. ~(y < x)
    BY <1>3, <2>1
  <2> QED
    BY <2>1, <2>2
<1> QED
  BY <1>4

(***************************************************************************)
(* A non-empty set of natural numbers with a bound has a greatest element. *)
(***************************************************************************)
LEMMA GreatestNat ==
  ASSUME NEW n \in Nat, NEW T \in SUBSET (0 .. n), T # {}
  PROVE  \E x \in T : \A y \in T : y <= x
<1> DEFINE U == {n - y : y \in T}
<1>1. U \in SUBSET Nat /\ U # {}
  <2>1. \A y \in T : n - y \in Nat
    OBVIOUS
  <2>2. PICK y \in T : TRUE
    OBVIOUS
  <2>3. n - y \in U
    OBVIOUS
  <2> QED
    BY <2>1, <2>3
<1>2. PICK u \in U : \A v \in U : u <= v
  <2> HIDE DEF U
  <2> QED
    BY <1>1, LeastNat
<1>3. PICK x \in T : u = n - x
  OBVIOUS
<1>4. ASSUME NEW y \in T PROVE y <= x
  <2>1. n - x <= n - y
    BY <1>2, <1>3
  <2> QED
    BY <2>1
<1> QED
  BY <1>4

(***************************************************************************)
(* Induction over the natural numbers, and over a segment of them.         *)
(***************************************************************************)
LEMMA SetInduction ==
  ASSUME NEW S, 0 \in S, \A n \in Nat : n \in S => n + 1 \in S
  PROVE  Nat \subseteq S
<1> SUFFICES ASSUME Nat \ S # {} PROVE FALSE
  OBVIOUS
<1>1. PICK x \in Nat \ S : \A y \in Nat \ S : x <= y
  <2>1. Nat \ S \in SUBSET Nat
    OBVIOUS
  <2> QED
    BY <2>1, LeastNat
<1>2. x - 1 \in Nat /\ x - 1 \in S
  BY <1>1
<1> QED
  BY <1>1, <1>2

\* The same up to a bound.
LEMMA SegmentInduction ==
  ASSUME NEW m \in Nat, NEW S, 0 \in S, \A n \in 0 .. m - 1 : n \in S => n + 1 \in S
  PROVE  0 .. m \subseteq S
<1> DEFINE T == {n \in Nat : n <= m => n \in S}
<1>1. 0 \in T
  OBVIOUS
<1>2. ASSUME NEW n \in Nat, n \in T PROVE n + 1 \in T
  <2>1. CASE n < m
    BY <1>2, <2>1
  <2>2. CASE ~(n < m)
    BY <2>2
  <2> QED
    BY <2>1, <2>2
<1>3. Nat \subseteq T
  <2> HIDE DEF T
  <2> QED
    BY <1>1, <1>2, SetInduction
<1> QED
  BY <1>3

(***************************************************************************)
(* A function over a segment may be defined by its first value and by what *)
(* follows on a value.                                                     *)
(***************************************************************************)
LEMMA RecursionExists ==
  ASSUME NEW T, NEW b \in T, NEW F \in [Nat -> [T -> T]], NEW m \in Nat
  PROVE  \E g \in [0 .. m -> T] : g[0] = b /\ \A n \in 1 .. m : g[n] = F[n][g[n - 1]]
<1> DEFINE Follows(g, n) == /\ g \in [0 .. n -> T]
                            /\ g[0] = b
                            /\ \A i \in 1 .. n : g[i] = F[i][g[i - 1]]
           S == {n \in Nat : \E g : Follows(g, n)}
<1>1. 0 \in S
  <2> DEFINE g == [i \in 0 .. 0 |-> b]
  <2>1. Follows(g, 0)
    OBVIOUS
  <2> QED
    BY <2>1
<1>2. ASSUME NEW n \in Nat, n \in S PROVE n + 1 \in S
  <2>1. PICK g : Follows(g, n)
    BY <1>2
  <2> DEFINE h == [i \in 0 .. n + 1 |-> IF i <= n THEN g[i] ELSE F[n + 1][g[n]]]
  <2>2. h \in [0 .. n + 1 -> T]
    BY <2>1
  <2>3. h[0] = b
    BY <2>1
  <2>4. ASSUME NEW i \in 1 .. n + 1 PROVE h[i] = F[i][h[i - 1]]
    <3>1. CASE i <= n
      BY <2>1, <3>1
    <3>2. CASE i = n + 1
      BY <2>1, <3>2
    <3> QED
      BY <3>1, <3>2
  <2>5. Follows(h, n + 1)
    BY <2>2, <2>3, <2>4
  <2> HIDE DEF Follows, h
  <2> QED
    BY <2>5
<1>3. m \in S
  <2> HIDE DEF S
  <2> QED
    BY <1>1, <1>2, SetInduction
<1> QED
  BY <1>3

(***************************************************************************)
(* A sequence of growing subsets of a finite set, each made from the one   *)
(* before, has stopped growing after as many steps as there are elements.  *)
(***************************************************************************)
LEMMA GrowthStops ==
  ASSUME NEW U, IsFiniteSet(U), NEW F \in [SUBSET U -> SUBSET U],
         \A X \in SUBSET U : X \subseteq F[X],
         NEW s, s \in [0 .. Cardinality(U) -> SUBSET U],
         \A n \in 1 .. Cardinality(U) : s[n] = F[s[n - 1]]
  PROVE  F[s[Cardinality(U)]] = s[Cardinality(U)]
<1> DEFINE m == Cardinality(U)
<1>1. m \in Nat
  BY FS_CardinalityType
<1>2. \A n \in 0 .. m : s[n] \in SUBSET U
  BY <1>1
<1> SUFFICES ASSUME F[s[m]] # s[m] PROVE FALSE
  OBVIOUS
<1> HIDE DEF m
\* Once it stops, it has stopped for good.
<1>3. ASSUME NEW n \in 0 .. m, F[s[n]] = s[n] PROVE FALSE
  <2> DEFINE S == {k \in Nat : n + k <= m => s[n + k] = s[n]}
  <2>1. 0 \in S
    BY <1>1
  <2>2. ASSUME NEW k \in Nat, k \in S PROVE k + 1 \in S
    <3> SUFFICES ASSUME n + (k + 1) <= m PROVE s[n + (k + 1)] = s[n]
      OBVIOUS
    <3>1. n + (k + 1) \in 1 .. m /\ n + (k + 1) - 1 = n + k
      BY <1>1
    <3>2. s[n + (k + 1)] = F[s[n + k]]
      BY <3>1 DEF m
    <3>3. s[n + k] = s[n]
      BY <2>2, <1>1
    <3> QED
      BY <3>2, <3>3, <1>3
  <2>3. Nat \subseteq S
    <3> HIDE DEF S
    <3> QED
      BY <2>1, <2>2, SetInduction
  <2>4. m - n \in Nat /\ n + (m - n) = m
    BY <1>1
  <2>5. m - n \in S
    <3> HIDE DEF S
    <3> QED
      BY <2>3, <2>4
  <2>6. s[m] = s[n]
    BY <2>4, <2>5, <1>1
  <2> QED
    BY <2>6, <1>3
\* So it has grown at every step.
<1> DEFINE G == {n \in Nat : n <= m => Cardinality(s[n]) >= n}
<1>4. 0 \in G
  <2>1. s[0] \in SUBSET U
    BY <1>1, <1>2
  <2>2. Cardinality(s[0]) \in Nat
    BY <2>1, FS_Subset, FS_CardinalityType
  <2> QED
    BY <2>2
<1>5. ASSUME NEW n \in Nat, n \in G PROVE n + 1 \in G
  <2> SUFFICES ASSUME n + 1 <= m PROVE Cardinality(s[n + 1]) >= n + 1
    OBVIOUS
  <2>1. n \in 0 .. m /\ n + 1 \in 0 .. m /\ n + 1 \in 1 .. m /\ n + 1 - 1 = n
    BY <1>1
  <2>2. s[n] \in SUBSET U /\ s[n + 1] \in SUBSET U
    BY <1>2, <2>1
  <2>3. s[n + 1] = F[s[n]]
    BY <2>1 DEF m
  <2>4. s[n] \subseteq s[n + 1] /\ s[n] # s[n + 1]
    BY <2>1, <2>2, <2>3, <1>3
  <2>5. IsFiniteSet(s[n]) /\ IsFiniteSet(s[n + 1])
    BY <2>2, FS_Subset
  <2>6. Cardinality(s[n]) <= Cardinality(s[n + 1]) /\ Cardinality(s[n]) # Cardinality(s[n + 1])
    BY <2>4, <2>5, FS_Subset
  <2>7. Cardinality(s[n]) \in Nat /\ Cardinality(s[n + 1]) \in Nat
    BY <2>5, FS_CardinalityType
  <2>8. Cardinality(s[n]) >= n
    BY <1>5, <2>1, <1>1
  <2> QED
    BY <2>6, <2>7, <2>8
<1>6. Nat \subseteq G
  <2> HIDE DEF G
  <2> QED
    BY <1>4, <1>5, SetInduction
<1>7. Cardinality(s[m]) >= m
  BY <1>1, <1>6
<1>8. s[m] \in SUBSET U
  BY <1>1, <1>2
<1>9. s[m] = U
  <2>1. Cardinality(s[m]) <= m /\ Cardinality(s[m]) \in Nat
    BY <1>8, FS_Subset, FS_CardinalityType DEF m
  <2>2. Cardinality(s[m]) = Cardinality(U)
    BY <2>1, <1>7, <1>1 DEF m
  <2> QED
    BY <1>8, <2>2, FS_Subset
<1>10. F[s[m]] = s[m]
  BY <1>8, <1>9
<1> QED
  BY <1>10
=============================================================================
