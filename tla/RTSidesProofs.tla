----------------------------- MODULE RTSidesProofs -----------------------------
(***************************************************************************)
(* Theorems about RTSides. Region scoping, for any functions, blocks and   *)
(* markers and an int of any width: once the dataflow over regions has     *)
(* ended, the instructions in scope are exactly those that a run of the    *)
(* function comes to inside a region. The export, for any libraries and    *)
(* known functions: a module analysed with the exports of others sees      *)
(* their functions as linking would show them. The pass over callers of    *)
(* polymorphic functions, for any calls and summaries: it is exact where   *)
(* what it reads is final, and bounded on both sides otherwise. The        *)
(* metadata, for any summaries: what is read is what was written.          *)
(***************************************************************************)
EXTENDS RTSides, RTInduction, Sequences

Depths     == Int
Blocks     == Region!Blocks
DepthAt(b, d, i) == Region!DepthAt(b, d, i)
Length(b)  == Len(fn.body[b])

-----------------------------------------------------------------------------
(* The depth along a block.                                                *)

(***************************************************************************)
(* What one instruction makes of a depth is a depth.                       *)
(***************************************************************************)
LEMMA MarkedType ==
  ASSUME NEW d, NEW ins
  PROVE  /\ d \in Int => Region!Marked(d, ins) \in Int
         /\ d \in Region!Ints => Region!Marked(d, ins) \in Region!Ints
<1> IntMax \in Nat
  BY SidesAssumption DEF Region!RegionAssumption
<1> QED
  BY DEF Region!Marked, Region!Increment, Region!Ints

(***************************************************************************)
(* The recursion that DepthAt is made of has a value: the depths along a   *)
(* block, each made from the one before by the instruction between them.   *)
(***************************************************************************)
Along(b, d, g) ==
  /\ g \in [0 .. Length(b) -> Int]
  /\ g[0] = d
  /\ \A n \in 1 .. Length(b) : g[n] = Region!Marked(g[n - 1], fn.body[b][n])

\* The depths along a block exist, each made from the one before.
LEMMA AlongExists ==
  ASSUME Region!RegionFunction(fn), NEW b, b \in Blocks, NEW d, d \in Int
  PROVE  \E g : Along(b, d, g)
<1>1. Length(b) \in Nat
  BY DEF Region!RegionFunction, Length, Blocks
<1> DEFINE F == [n \in Nat |-> [x \in Int |-> Region!Marked(x, fn.body[b][n])]]
<1>2. F \in [Nat -> [Int -> Int]]
  BY MarkedType
<1>3. \E g \in [0 .. Length(b) -> Int] : g[0] = d /\ \A n \in 1 .. Length(b) : g[n] = F[n][g[n - 1]]
  <2> DEFINE m == Length(b)
             e == d
  <2>1. F \in [Nat -> [Depths -> Depths]] /\ m \in Nat /\ e \in Depths
    BY <1>1, <1>2 DEF Depths
  <2>2. \E g \in [0 .. m -> Depths] : g[0] = e /\ \A n \in 1 .. m : g[n] = F[n][g[n - 1]]
    <3> HIDE DEF F, m, e
    <3> QED
      BY ONLY <2>1, RecursionExists, Z3
  <2> QED
    BY <2>2 DEF Depths
<1>4. PICK g \in [0 .. Length(b) -> Int] : g[0] = d /\ \A n \in 1 .. Length(b) : g[n] = F[n][g[n - 1]]
  BY <1>3
<1>5. ASSUME NEW n \in 1 .. Length(b) PROVE g[n] = Region!Marked(g[n - 1], fn.body[b][n])
  <2>1. n \in Nat /\ n - 1 \in 0 .. Length(b)
    BY <1>1
  <2>2. g[n - 1] \in Int
    BY <2>1, <1>4
  <2> QED
    BY <1>4, <2>1, <2>2
<1>6. Along(b, d, g)
  BY <1>4, <1>5 DEF Along
<1> QED
  BY <1>6

\* DepthAt is one of them.
LEMMA DepthAtAlong ==
  ASSUME Region!RegionFunction(fn), NEW b \in Blocks, NEW d \in Int,
         NEW g, Along(b, d, g), NEW i \in 1 .. Length(b) + 1
  PROVE  DepthAt(b, d, i) = g[i - 1]
<1>1. Length(b) \in Nat
  BY DEF Region!RegionFunction, Length, Blocks
<1> DEFINE Body(deep) == [n \in 1 .. i |-> IF n = 1 THEN d ELSE Region!Marked(deep[n - 1], fn.body[b][n - 1])]
           h        == [n \in 1 .. i |-> g[n - 1]]
           deep     == CHOOSE deep : deep = Body(deep)
<1>2. h = Body(h)
  <2>1. ASSUME NEW n \in 1 .. i PROVE h[n] = Body(h)[n]
    <3>1. CASE n = 1
      BY <3>1 DEF Along
    <3>2. CASE n # 1
      <4>1. n - 1 \in 1 .. Length(b) /\ n - 1 \in 1 .. i
        BY <3>2, <1>1
      <4>2. g[n - 1] = Region!Marked(g[n - 1 - 1], fn.body[b][n - 1])
        BY <4>1 DEF Along
      <4>3. h[n - 1] = g[n - 1 - 1] /\ h[n] = g[n - 1]
        BY <4>1
      <4>4. Body(h)[n] = Region!Marked(h[n - 1], fn.body[b][n - 1])
        BY <3>2
      <4> QED
        BY <4>2, <4>3, <4>4
    <3> QED
      BY <3>1, <3>2
  <2> QED
    BY <2>1
<1>3. deep = Body(deep)
  <2> HIDE DEF Body, h
  <2> QED
    BY <1>2
<1>4. DepthAt(b, d, i) = deep[i]
  BY DEF DepthAt, Region!DepthAt
<1> HIDE DEF deep, h
<1> DEFINE S == {k \in Nat : k + 1 <= i => deep[k + 1] = g[k]}
<1>5. 0 \in S
  <2>1. 1 \in 1 .. i
    BY <1>1
  <2>2. deep[1] = d
    BY <1>3, <2>1
  <2> QED
    BY <2>2 DEF Along
<1>6. ASSUME NEW k \in Nat, k \in S PROVE k + 1 \in S
  <2> SUFFICES ASSUME k + 1 + 1 <= i PROVE deep[k + 1 + 1] = g[k + 1]
    OBVIOUS
  <2>1. k + 1 + 1 \in 1 .. i /\ k + 1 + 1 # 1 /\ k + 1 + 1 - 1 = k + 1 /\ k + 1 \in 1 .. Length(b) /\ k + 1 - 1 = k
    BY <1>1
  <2>2. deep[k + 1 + 1] = Region!Marked(deep[k + 1], fn.body[b][k + 1])
    BY <1>3, <2>1
  <2>3. deep[k + 1] = g[k]
    BY <1>6, <1>1
  <2>4. g[k + 1] = Region!Marked(g[k], fn.body[b][k + 1])
    BY <2>1 DEF Along
  <2> QED
    BY <2>2, <2>3, <2>4
<1>7. Nat \subseteq S
  <2> HIDE DEF S
  <2> QED
    BY <1>5, <1>6, SetInduction
<1>8. i - 1 \in Nat /\ i - 1 + 1 = i
  BY <1>1
<1>9. deep[i] = g[i - 1]
  BY <1>7, <1>8
<1> QED
  BY <1>4, <1>9

(***************************************************************************)
(* DepthAt is d deep first, and changed by each instruction that is passed.  *)
(***************************************************************************)
LEMMA DepthAtStep ==
  ASSUME Region!RegionFunction(fn), NEW b \in Blocks, NEW d \in Int
  PROVE  /\ Length(b) \in Nat
         /\ DepthAt(b, d, 1) = d
         /\ \A i \in 1 .. Length(b) : DepthAt(b, d, i + 1) = Region!Marked(DepthAt(b, d, i), fn.body[b][i])
         /\ \A i \in 1 .. Length(b) + 1 : DepthAt(b, d, i) \in Int
<1>1. Length(b) \in Nat
  BY DEF Region!RegionFunction, Length, Blocks
<1>2. PICK g : Along(b, d, g)
  BY AlongExists
<1>3. \A i \in 1 .. Length(b) + 1 : DepthAt(b, d, i) = g[i - 1]
  BY <1>2, DepthAtAlong
<1>4. DepthAt(b, d, 1) = d
  BY <1>1, <1>2, <1>3 DEF Along
<1>5. ASSUME NEW i \in 1 .. Length(b)
      PROVE  DepthAt(b, d, i + 1) = Region!Marked(DepthAt(b, d, i), fn.body[b][i])
  <2>1. i \in 1 .. Length(b) + 1 /\ i + 1 \in 1 .. Length(b) + 1 /\ i + 1 - 1 = i
    BY <1>1
  <2>2. g[i] = Region!Marked(g[i - 1], fn.body[b][i])
    BY <1>2 DEF Along
  <2> QED
    BY <2>1, <2>2, <1>3
<1>6. ASSUME NEW i \in 1 .. Length(b) + 1 PROVE DepthAt(b, d, i) \in Int
  <2>1. i - 1 \in 0 .. Length(b)
    BY <1>1
  <2> QED
    BY <2>1, <1>2, <1>3 DEF Along
<1> QED
  BY <1>1, <1>4, <1>5, <1>6

(***************************************************************************)
(* Depths along a block are ints, whatever wraps around.                   *)
(***************************************************************************)
LEMMA DepthAtInts ==
  ASSUME Region!RegionFunction(fn), NEW b \in Blocks, NEW d \in Region!Ints
  PROVE  \A i \in 1 .. Length(b) + 1 : DepthAt(b, d, i) \in Region!Ints
<1>0. IntMax \in Nat
  BY SidesAssumption DEF Region!RegionAssumption
<1>1. d \in Int
  BY <1>0 DEF Region!Ints
<1>2. /\ Length(b) \in Nat
      /\ DepthAt(b, d, 1) = d
      /\ \A i \in 1 .. Length(b) : DepthAt(b, d, i + 1) = Region!Marked(DepthAt(b, d, i), fn.body[b][i])
  BY <1>1, DepthAtStep
<1> DEFINE S == {k \in Nat : k <= Length(b) => DepthAt(b, d, k + 1) \in Region!Ints}
<1>3. 0 \in S
  BY <1>2
<1>4. ASSUME NEW k \in Nat, k \in S PROVE k + 1 \in S
  <2> SUFFICES ASSUME k + 1 <= Length(b) PROVE DepthAt(b, d, k + 1 + 1) \in Region!Ints
    OBVIOUS
  <2>1. k + 1 \in 1 .. Length(b)
    BY <1>2
  <2>2. DepthAt(b, d, k + 1) \in Region!Ints
    BY <1>2, <1>4
  <2> QED
    BY <2>1, <2>2, <1>2, MarkedType
<1>5. Nat \subseteq S
  <2> HIDE DEF S
  <2> QED
    BY <1>3, <1>4, SetInduction
<1>6. ASSUME NEW i \in 1 .. Length(b) + 1 PROVE DepthAt(b, d, i) \in Region!Ints
  <2>1. i - 1 \in Nat /\ i - 1 <= Length(b) /\ i - 1 + 1 = i
    BY <1>2
  <2> QED
    BY <1>5, <2>1
<1> QED
  BY <1>6

(***************************************************************************)
(* Who enters a block at a lesser depth is never deeper along it, as long  *)
(* as the greater one does not wrap around.                                *)
(***************************************************************************)
LEMMA DepthAtMonotone ==
  ASSUME Region!RegionFunction(fn), NEW b \in Blocks, NEW d \in Int, NEW e \in Int, 0 <= d, d <= e,
         \A i \in 1 .. Length(b) + 1 : DepthAt(b, e, i) \in 0 .. IntMax - 1
  PROVE  \A i \in 1 .. Length(b) + 1 : 0 <= DepthAt(b, d, i) /\ DepthAt(b, d, i) <= DepthAt(b, e, i)
<1>0. IntMax \in Nat
  BY SidesAssumption DEF Region!RegionAssumption
<1>1. /\ Length(b) \in Nat
      /\ DepthAt(b, d, 1) = d
      /\ \A i \in 1 .. Length(b) : DepthAt(b, d, i + 1) = Region!Marked(DepthAt(b, d, i), fn.body[b][i])
      /\ \A i \in 1 .. Length(b) + 1 : DepthAt(b, d, i) \in Int
  BY DepthAtStep
<1>2. /\ DepthAt(b, e, 1) = e
      /\ \A i \in 1 .. Length(b) : DepthAt(b, e, i + 1) = Region!Marked(DepthAt(b, e, i), fn.body[b][i])
  BY DepthAtStep
<1> DEFINE S == {k \in Nat : k <= Length(b) => /\ 0 <= DepthAt(b, d, k + 1)
                                             /\ DepthAt(b, d, k + 1) <= DepthAt(b, e, k + 1)}
<1>3. 0 \in S
  BY <1>1, <1>2
<1>4. ASSUME NEW k \in Nat, k \in S PROVE k + 1 \in S
  <2> SUFFICES ASSUME k + 1 <= Length(b)
               PROVE  0 <= DepthAt(b, d, k + 1 + 1) /\ DepthAt(b, d, k + 1 + 1) <= DepthAt(b, e, k + 1 + 1)
    OBVIOUS
  <2>1. k + 1 \in 1 .. Length(b) /\ k + 1 \in 1 .. Length(b) + 1
    BY <1>1
  <2>2. PICK x \in Int : x = DepthAt(b, d, k + 1)
    BY <2>1, <1>1
  <2>3. PICK y \in 0 .. IntMax - 1 : y = DepthAt(b, e, k + 1)
    BY <2>1
  <2>4. 0 <= x /\ x <= y
    BY <1>4, <1>1, <2>2, <2>3
  <2>5. PICK ins : ins = fn.body[b][k + 1]
    OBVIOUS
  <2>6. 0 <= Region!Marked(x, ins) /\ Region!Marked(x, ins) <= Region!Marked(y, ins)
    BY <1>0, <2>4 DEF Region!Marked, Region!Increment
  <2> QED
    BY <2>1, <2>2, <2>3, <2>5, <2>6, <1>1, <1>2
<1>5. Nat \subseteq S
  <2> HIDE DEF S
  <2> QED
    BY <1>3, <1>4, SetInduction
<1>6. ASSUME NEW i \in 1 .. Length(b) + 1
      PROVE  0 <= DepthAt(b, d, i) /\ DepthAt(b, d, i) <= DepthAt(b, e, i)
  <2>1. i - 1 \in Nat /\ i - 1 <= Length(b) /\ i - 1 + 1 = i
    BY <1>1
  <2> QED
    BY <1>5, <2>1
<1> QED
  BY <1>6

-----------------------------------------------------------------------------
(* The depth before a block.                                               *)

(***************************************************************************)
(* A non-empty set of ints has a greatest element.                         *)
(***************************************************************************)
LEMMA GreatestInt ==
  ASSUME NEW T, T \subseteq Region!Ints, T # {}
  PROVE  \E x \in T : \A y \in T : y <= x
<1>0. IntMax \in Nat
  BY SidesAssumption DEF Region!RegionAssumption
<1> DEFINE n == 2 * IntMax + 1
           U == {y + IntMax + 1 : y \in T}
<1>1. n \in Nat /\ U \in SUBSET (0 .. n)
  BY <1>0 DEF Region!Ints
<1>2. U # {}
  OBVIOUS
<1>3. PICK u \in U : \A v \in U : v <= u
  <2> HIDE DEF U, n
  <2> QED
    BY <1>1, <1>2, GreatestNat
<1>4. PICK x \in T : u = x + IntMax + 1
  OBVIOUS
<1>5. ASSUME NEW y \in T PROVE y <= x
  <2>1. y + IntMax + 1 \in U
    OBVIOUS
  <2>2. y + IntMax + 1 <= x + IntMax + 1
    BY <2>1, <1>3, <1>4
  <2>3. x \in Int /\ y \in Int
    BY <1>0 DEF Region!Ints
  <2> QED
    BY <2>2, <2>3, <1>0
<1> QED
  BY <1>5

(***************************************************************************)
(* The depth before a block is none, or the greatest behind a predecessor. *)
(***************************************************************************)
LEMMA IncomingIs ==
  ASSUME Region!RegionFunction(fn), depthOut \in [Blocks -> Region!Ints], NEW b \in Blocks
  PROVE  /\ Region!Incoming(b) \in Region!Ints
         /\ Region!Incoming(b) = 0 \/ \E p \in fn.preds[b] : Region!Incoming(b) = depthOut[p]
         /\ \A p \in fn.preds[b] : p \in Blocks /\ depthOut[p] <= Region!Incoming(b)
<1>0. 0 \in Region!Ints
  BY SidesAssumption DEF Region!RegionAssumption, Region!Ints
<1>1. fn.preds[b] \subseteq Blocks
  BY DEF Region!RegionFunction, Blocks
<1>2. b = 1 => fn.preds[b] = {}
  BY DEF Region!RegionFunction
<1>3. CASE fn.preds[b] = {}
  BY <1>0, <1>3 DEF Region!Incoming
<1>4. CASE fn.preds[b] # {}
  <2> DEFINE outs == {depthOut[p] : p \in fn.preds[b]}
             m    == CHOOSE m \in outs : \A o \in outs : o <= m
  <2>1. outs \subseteq Region!Ints /\ outs # {}
    BY <1>1, <1>4
  <2>2. \E x \in outs : \A y \in outs : y <= x
    <3> HIDE DEF outs
    <3> QED
      BY <2>1, GreatestInt
  <2>3. m \in outs /\ \A o \in outs : o <= m
    <3> HIDE DEF outs
    <3> QED
      BY <2>2
  <2>4. Region!Incoming(b) = m
    BY <1>2, <1>4 DEF Region!Incoming
  <2> HIDE DEF m
  <2> QED
    BY <2>1, <2>3, <2>4, <1>1
<1> QED
  BY <1>3, <1>4

-----------------------------------------------------------------------------
(* The depths with which control can come to a block.                      *)

\* One move further than S: a start, or from a block of S to one behind it.
Onward(S) == {<<x[1], Region!After(x[2][1], x[2][2])>> : x \in {x \in Blocks \X S : x[2][1] \in fn.preds[x[1]]}}
Moves(S)  == Blocks \X {0} \cup Onward(S)
Closed(S) == Moves(S) \subseteq S

\* What a closed set holds, said without pairs of pairs.
LEMMA ClosedMeans ==
  ASSUME NEW S, Closed(S)
  PROVE  /\ \A b \in Blocks : <<b, 0>> \in S
         /\ \A b \in Blocks : \A p \in fn.preds[b] : \A d : <<p, d>> \in S => <<b, Region!After(p, d)>> \in S
<1>1. \A b \in Blocks : <<b, 0>> \in S
  BY DEF Closed, Moves
<1>2. ASSUME NEW b \in Blocks, NEW p \in fn.preds[b], NEW d, <<p, d>> \in S
      PROVE  <<b, Region!After(p, d)>> \in S
  <2> DEFINE x == <<b, <<p, d>>>>
  <2>1. x \in Blocks \X S /\ x[2][1] = p /\ x[2][2] = d /\ x[1] = b
    BY <1>2
  <2>2. <<x[1], Region!After(x[2][1], x[2][2])>> \in Onward(S)
    <3> HIDE DEF x
    <3> QED
      BY <2>1 DEF Onward
  <2>3. <<b, Region!After(p, d)>> \in Onward(S)
    <3> HIDE DEF x
    <3> QED
      BY <2>1, <2>2
  <2> QED
    BY <2>3 DEF Closed, Moves
<1> QED
  BY <1>1, <1>2

\* From more places there are more moves.
LEMMA MovesGrow ==
  ASSUME NEW S, NEW R, S \subseteq R
  PROVE  Moves(S) \subseteq Moves(R)
<1>1. Onward(S) \subseteq Onward(R)
  BY DEF Onward
<1> QED
  BY <1>1 DEF Moves

(***************************************************************************)
(* Where no closed set of depths wraps around, Entries is the least closed *)
(* set: within every one of them, and closed itself.                       *)
(***************************************************************************)
LEMMA EntriesLeast ==
  ASSUME NEW C, C \subseteq Blocks \X (0 .. IntMax), Closed(C)
  PROVE  Region!Entries \subseteq C /\ Closed(Region!Entries)
<1>0. IntMax \in Nat /\ LastBlock \in Nat \ {0}
  BY SidesAssumption DEF Region!RegionAssumption
<1> DEFINE U == Blocks \X (0 .. IntMax)
           N == LastBlock * (IntMax + 1)
           body(h) == [n \in 0 .. N |->
                         Region!Blocks \X {0} \cup
                           (IF n = 0 THEN {}
                            ELSE {<<x[1], Region!After(x[2][1], x[2][2])>> :
                                    x \in {x \in Region!Blocks \X h[n-1] : x[2][1] \in fn.preds[x[1]]}})]
           reach == CHOOSE h : h = body(h)
           T == SUBSET C
           b == Moves({})
           next == [X \in T |-> Moves(X)]
           F == [n \in Nat |-> next]
<1>1. N \in Nat
  BY <1>0
<1>2. Region!Entries = reach[N]
  BY DEF Region!Entries
<1>3. IsFiniteSet(U) /\ Cardinality(U) = N
  <2>1. Blocks = 1 .. LastBlock
    BY DEF Blocks, Region!Blocks
  <2>2. IsFiniteSet(Blocks) /\ Cardinality(Blocks) = LastBlock
    BY <1>0, <2>1, FS_Interval
  <2>3. IsFiniteSet(0 .. IntMax) /\ Cardinality(0 .. IntMax) = IntMax + 1
    BY <1>0, FS_Interval
  <2> QED
    BY <2>2, <2>3, FS_Product
<1>4. ASSUME NEW X \in T PROVE Moves(X) \in T
  BY MovesGrow DEF Closed
<1>5. b \in T /\ F \in [Nat -> [T -> T]]
  <2>1. {} \in T
    OBVIOUS
  <2> HIDE DEF T
  <2> QED
    BY <1>4, <2>1
<1> HIDE DEF reach, N
<1>6. PICK seq \in [0 .. N -> T] : seq[0] = b /\ \A n \in 1 .. N : seq[n] = F[n][seq[n - 1]]
  <2> HIDE DEF T, next, F, b, body
  <2> QED
    BY ONLY <1>1, <1>5, RecursionExists, Z3
<1>7. \A n \in 1 .. N : seq[n] = Moves(seq[n - 1])
  <2>1. ASSUME NEW n \in 1 .. N PROVE seq[n] = Moves(seq[n - 1])
    <3>1. n \in Nat /\ n - 1 \in 0 .. N
      BY <1>1
    <3>2. seq[n - 1] \in T
      BY <3>1, <1>6
    <3>3. F[n][seq[n - 1]] = Moves(seq[n - 1])
      BY <3>1, <3>2
    <3> QED
      BY <1>6, <3>3
  <2> QED
    BY <2>1
<1>8. \E h : h = body(h)
  <2>1. ASSUME NEW n \in 0 .. N PROVE seq[n] = body(seq)[n]
    <3>1. CASE n = 0
      BY <3>1, <1>6 DEF Moves, Onward, Blocks
    <3>2. CASE n # 0
      <4>1. n \in 1 .. N
        BY <3>2, <1>1
      <4> QED
        BY <4>1, <3>2, <1>7 DEF Moves, Onward, Blocks
    <3> QED
      BY <3>1, <3>2
  <2>2. seq = [n \in 0 .. N |-> seq[n]]
    BY <1>6
  <2>3. seq = body(seq)
    BY <2>1, <2>2
  <2> HIDE DEF body
  <2> QED
    BY <2>3
<1>9. reach = body(reach)
  <2> HIDE DEF body
  <2> QED
    BY <1>8 DEF reach
<1>10. reach[0] = Moves({}) /\ \A n \in 1 .. N : reach[n] = Moves(reach[n - 1])
  <2>1. reach[0] = Moves({})
    <3>1. 0 \in 0 .. N
      BY <1>1
    <3>2. Onward({}) = {}
      BY DEF Onward
    <3> QED
      BY <3>1, <3>2, <1>9 DEF Moves, Blocks
  <2>2. ASSUME NEW n \in 1 .. N PROVE reach[n] = Moves(reach[n - 1])
    <3>1. n \in 0 .. N /\ n # 0
      BY <1>1
    <3> QED
      BY <3>1, <1>9 DEF Moves, Onward, Blocks
  <2> QED
    BY <2>1, <2>2
<1>11. DOMAIN reach = 0 .. N /\ reach = [n \in 0 .. N |-> reach[n]]
  BY <1>9
<1> HIDE DEF body
\* Within C, and growing.
<1>12. \A n \in 0 .. N : reach[n] \in T
  <2> DEFINE S == {n \in Nat : n <= N => reach[n] \in T}
  <2>1. 0 \in S
    BY <1>5, <1>10
  <2>2. ASSUME NEW n \in Nat, n \in S PROVE n + 1 \in S
    <3> SUFFICES ASSUME n + 1 <= N PROVE reach[n + 1] \in T
      OBVIOUS
    <3>1. n + 1 \in 1 .. N /\ n + 1 - 1 = n
      BY <1>1
    <3>2. reach[n] \in T
      BY <2>2, <1>1
    <3> HIDE DEF T
    <3> QED
      BY <3>1, <3>2, <1>4, <1>10
  <2>3. Nat \subseteq S
    <3> HIDE DEF S, T
    <3> QED
      BY <2>1, <2>2, SetInduction
  <2> HIDE DEF T
  <2> QED
    BY <2>3, <1>1
<1>13. \A n \in 1 .. N : reach[n - 1] \subseteq reach[n]
  <2> DEFINE S == {n \in Nat : n + 1 <= N => reach[n] \subseteq reach[n + 1]}
  <2>1. 0 \in S
    <3> SUFFICES ASSUME 0 + 1 <= N PROVE reach[0] \subseteq reach[0 + 1]
      OBVIOUS
    <3>1. reach[1] = Moves(reach[0])
      BY <1>1, <1>10
    <3>2. Moves({}) \subseteq Moves(reach[0])
      BY MovesGrow
    <3> QED
      BY <3>1, <3>2, <1>10
  <2>2. ASSUME NEW n \in Nat, n \in S PROVE n + 1 \in S
    <3> SUFFICES ASSUME n + 1 + 1 <= N PROVE reach[n + 1] \subseteq reach[n + 1 + 1]
      OBVIOUS
    <3>1. n + 1 \in 1 .. N /\ n + 1 - 1 = n /\ n + 1 + 1 \in 1 .. N /\ n + 1 + 1 - 1 = n + 1
      BY <1>1
    <3>2. reach[n] \subseteq reach[n + 1]
      BY <2>2, <1>1
    <3>3. reach[n + 1] = Moves(reach[n]) /\ reach[n + 1 + 1] = Moves(reach[n + 1])
      BY <3>1, <1>10
    <3> QED
      BY <3>2, <3>3, MovesGrow
  <2>3. Nat \subseteq S
    <3> HIDE DEF S
    <3> QED
      BY <2>1, <2>2, SetInduction
  <2>4. ASSUME NEW n \in 1 .. N PROVE reach[n - 1] \subseteq reach[n]
    <3>1. n - 1 \in Nat /\ n - 1 + 1 = n /\ n <= N
      BY <1>1
    <3>2. n - 1 \in S
      BY <2>3, <3>1
    <3> QED
      BY <3>1, <3>2
  <2> QED
    BY <2>4
\* So it has stopped.
<1> DEFINE G == [X \in SUBSET U |-> X \cup (Moves(X) \cap U)]
<1>14. G \in [SUBSET U -> SUBSET U] /\ \A X \in SUBSET U : X \subseteq G[X]
  <2>1. \A X \in SUBSET U : X \cup (Moves(X) \cap U) \in SUBSET U
    <3> HIDE DEF U
    <3> QED
      OBVIOUS
  <2>2. \A X \in SUBSET U : G[X] = X \cup (Moves(X) \cap U)
    OBVIOUS
  <2>3. G \in [SUBSET U -> SUBSET U]
    <3> HIDE DEF U
    <3> QED
      BY <2>1
  <2> HIDE DEF G, U
  <2> QED
    BY <2>2, <2>3
<1>15. \A n \in 0 .. N : reach[n] \in SUBSET U
  <2> HIDE DEF U
  <2>1. C \subseteq U
    BY DEF U
  <2> QED
    BY <1>12, <2>1
<1>16. ASSUME NEW n \in 1 .. N PROVE reach[n] = G[reach[n - 1]]
  <2>1. n \in 0 .. N /\ n - 1 \in 0 .. N
    BY <1>1
  <2>2. reach[n] \in SUBSET U /\ reach[n - 1] \in SUBSET U
    BY <2>1, <1>15
  <2>3. G[reach[n - 1]] = reach[n - 1] \cup (Moves(reach[n - 1]) \cap U)
    BY <2>2
  <2>4. reach[n] = Moves(reach[n - 1]) /\ reach[n - 1] \subseteq reach[n]
    BY <1>10, <1>13
  <2> HIDE DEF G, U
  <2> QED
    BY <2>2, <2>3, <2>4
<1>17. G[reach[N]] = reach[N]
  <2>1. reach \in [0 .. N -> SUBSET U]
    <3> HIDE DEF U
    <3> QED
      BY <1>11, <1>15
  <2>2. \A n \in 1 .. N : reach[n] = G[reach[n - 1]]
    BY <1>16
  <2> DEFINE Size == Cardinality(U)
  <2>3. Size = N
    BY <1>3
  <2>4. /\ IsFiniteSet(U) /\ G \in [SUBSET U -> SUBSET U] /\ (\A X \in SUBSET U : X \subseteq G[X])
        /\ reach \in [0 .. Cardinality(U) -> SUBSET U]
        /\ \A n \in 1 .. Cardinality(U) : reach[n] = G[reach[n - 1]]
    BY <1>3, <1>14, <2>1, <2>2
  <2>5. G[reach[Cardinality(U)]] = reach[Cardinality(U)]
    <3> HIDE DEF G, U, Size
    <3> QED
      BY ONLY <2>4, GrowthStops
  <2> QED
    BY <2>5, <1>3
<1>18. Moves(reach[N]) \subseteq reach[N]
  <2>1. N \in 0 .. N
    BY <1>1
  <2>2. reach[N] \in T /\ reach[N] \in SUBSET U
    BY <2>1, <1>12, <1>15
  <2>3. Moves(reach[N]) \in T
    BY <2>2, <1>4
  <2>4. Moves(reach[N]) \subseteq U
    <3> HIDE DEF U
    <3>1. C \subseteq U
      BY DEF U
    <3> QED
      BY <2>3, <3>1
  <2>5. G[reach[N]] = reach[N] \cup (Moves(reach[N]) \cap U)
    BY <2>2
  <2> HIDE DEF G, U
  <2> QED
    BY <2>4, <2>5, <1>17
<1>19. reach[N] \subseteq C
  BY <1>1, <1>12
<1> QED
  BY <1>2, <1>18, <1>19 DEF Closed

\* What only looks at the function stays when it does.
LEMMA FunctionStays ==
  ASSUME fn' = fn
  PROVE  /\ \A b, d, i : Region!DepthAt(b, d, i)' = Region!DepthAt(b, d, i)
         /\ \A b, d : Region!After(b, d)' = Region!After(b, d)
         /\ \A S : Closed(S)' = Closed(S)
<1>1. ASSUME NEW b, NEW d, NEW i PROVE Region!DepthAt(b, d, i)' = Region!DepthAt(b, d, i)
  BY DEF Region!DepthAt, Region!Marked, Region!Increment
<1>2. ASSUME NEW b, NEW d PROVE Region!After(b, d)' = Region!After(b, d)
  BY <1>1 DEF Region!After
<1>3. ASSUME NEW S PROVE Closed(S)' = Closed(S)
  BY <1>2 DEF Closed, Moves, Onward, Blocks, Region!Blocks
<1> QED
  BY <1>1, <1>2, <1>3

-----------------------------------------------------------------------------
(* The invariant of the dataflow.                                          *)

\* What was known behind a block was made of what is known before it.
OutRight == \A p \in Blocks : depthOut[p] = 0 \/ depthOut[p] = Region!After(p, depthIn[p])

\* No depth is more than control can come with.
Attained == \A K : Closed(K) => \A b \in Blocks : <<b, depthIn[b]>> \in K

\* Nothing would change if the block were treated now.
Settled(b) == depthIn[b] = Region!Incoming(b) /\ depthOut[b] = Region!After(b, depthIn[b])

\* What is collected in the end.
Collected == {x \in UNION {{b} \X DOMAIN fn.body[b] : b \in Region!Blocks} :
                /\ fn.body[x[1]][x[2]] = "other"
                /\ Region!DepthAt(x[1], depthIn[x[1]], x[2]) > 0}

\* A sweep that has changed nothing so far has left all its blocks settled.
SweepInv == regionPc = "sweep" /\ ~changed => \A b \in Blocks : b < regionPos => Settled(b)

DoneInv == regionPc = "done" /\ Region!UsesRegions =>
             (\A b \in Blocks : Settled(b)) /\ inRegion = Collected

RegionInv == /\ Region!TypeOK
             /\ regionPc = "start" => regionPos = 1
             /\ OutRight
             /\ Attained
             /\ SweepInv
             /\ DoneInv

\* The depth behind a block is an int.
LEMMA AfterInts ==
  ASSUME Region!RegionFunction(fn), NEW b \in Blocks, NEW d \in Region!Ints
  PROVE  Region!After(b, d) \in Region!Ints
<1>1. Length(b) \in Nat
  BY DEF Region!RegionFunction, Length, Blocks
<1>2. Length(b) + 1 \in 1 .. Length(b) + 1
  BY <1>1
<1>3. Region!After(b, d) = DepthAt(b, d, Length(b) + 1)
  BY DEF Region!After, DepthAt, Length
<1> QED
  BY <1>2, <1>3, DepthAtInts

\* The invariant holds initially: all depths are 0.
LEMMA RegionStarts ==
  ASSUME Region!Init
  PROVE  RegionInv
<1>0. IntMax \in Nat /\ LastBlock \in Nat \ {0} /\ \A x \in Functions : Region!RegionFunction(x)
  BY SidesAssumption DEF Region!RegionAssumption
<1>1. Region!TypeOK
  <2>1. Region!RegionFunction(fn)
    BY <1>0 DEF Region!Init
  <2>2. 0 \in Region!Ints
    BY <1>0 DEF Region!Ints
  <2>3. depthIn \in [Region!Blocks -> Region!Ints] /\ depthOut \in [Region!Blocks -> Region!Ints]
    BY <2>2 DEF Region!Init
  <2>4. regionPos \in 1 .. LastBlock + 1
    BY <1>0 DEF Region!Init
  <2>5. changed \in BOOLEAN /\ regionPc \in {"start", "sweep", "done"} /\ inRegion \subseteq Region!Blocks \X Nat
    BY DEF Region!Init
  <2> QED
    BY <2>1, <2>3, <2>4, <2>5 DEF Region!TypeOK
<1>2. \A b \in Blocks : depthIn[b] = 0 /\ depthOut[b] = 0
  BY DEF Region!Init, Blocks
<1>3. OutRight
  BY <1>2 DEF OutRight
<1>4. Attained
  BY <1>2, ClosedMeans DEF Attained
<1>5. regionPos = 1 /\ regionPc = "start"
  BY DEF Region!Init
<1> QED
  BY <1>1, <1>3, <1>4, <1>5 DEF RegionInv, SweepInv, DoneInv

\* What only looks at the function and the depths stays when they do.
LEMMA DepthsStay ==
  ASSUME UNCHANGED <<fn, depthIn, depthOut>>
  PROVE  /\ OutRight => OutRight'
         /\ Attained => Attained'
         /\ \A b : Settled(b)' = Settled(b)
         /\ Region!UsesRegions' = Region!UsesRegions
<1>1. \A b, d : Region!After(b, d)' = Region!After(b, d)
  BY FunctionStays
<1>2. \A S : Closed(S)' = Closed(S)
  BY FunctionStays
<1>3. OutRight => OutRight'
  BY <1>1 DEF OutRight, Blocks, Region!Blocks
<1>4. Attained => Attained'
  BY <1>2 DEF Attained, Blocks, Region!Blocks
<1>5. ASSUME NEW b PROVE Settled(b)' = Settled(b)
  <2>1. Region!Incoming(b)' = Region!Incoming(b)
    BY DEF Region!Incoming
  <2> QED
    BY <1>1, <2>1 DEF Settled
<1>6. Region!UsesRegions' = Region!UsesRegions
  BY DEF Region!UsesRegions, Region!Blocks
<1> QED
  BY <1>3, <1>4, <1>5, <1>6

\* A visit keeps the invariant: what it learns comes from a predecessor.
LEMMA VisitKeeps ==
  ASSUME RegionInv, Region!Visit
  PROVE  RegionInv'
<1>0. LastBlock \in Nat \ {0} /\ IntMax \in Nat
  BY SidesAssumption DEF Region!RegionAssumption
<1> DEFINE before  == Region!Incoming(regionPos)
           behind == Region!After(regionPos, before)
<1>1. /\ regionPc = "sweep" /\ regionPos \in Blocks /\ regionPos' = regionPos + 1
      /\ depthIn' = [depthIn EXCEPT ![regionPos] = before]
      /\ depthOut' = [depthOut EXCEPT ![regionPos] = behind]
      /\ changed' = (changed \/ depthIn[regionPos] # before \/ depthOut[regionPos] # behind)
      /\ UNCHANGED <<fn, inRegion, regionPc>>
  BY DEF Region!Visit, Region!VisitedChanged, Blocks
<1>2. /\ Region!RegionFunction(fn) /\ changed \in BOOLEAN
      /\ depthIn \in [Blocks -> Region!Ints] /\ depthOut \in [Blocks -> Region!Ints]
      /\ inRegion \subseteq Blocks \X Nat
  BY DEF RegionInv, Region!TypeOK, Blocks
<1>3. before \in Region!Ints /\ behind \in Region!Ints
  <2>1. before \in Region!Ints
    BY <1>1, <1>2, IncomingIs
  <2> HIDE DEF before
  <2> QED
    BY <2>1, <1>1, <1>2, AfterInts
<1>4. before = 0 \/ \E p \in fn.preds[regionPos] : p \in Blocks /\ before = depthOut[p]
  BY <1>1, <1>2, IncomingIs
<1>5. /\ \A b, d : Region!After(b, d)' = Region!After(b, d)
      /\ \A S : Closed(S)' = Closed(S)
  BY <1>1, FunctionStays
<1> HIDE DEF before
<1>6. Region!TypeOK'
  <2> HIDE DEF behind
  <2>1. depthIn' \in [Blocks -> Region!Ints] /\ depthOut' \in [Blocks -> Region!Ints]
    BY <1>1, <1>2, <1>3
  <2>2. regionPos' \in 1 .. LastBlock + 1
    BY <1>0, <1>1 DEF Blocks, Region!Blocks
  <2>3. changed' \in BOOLEAN
    BY <1>1, <1>2
  <2> QED
    BY <1>1, <1>2, <2>1, <2>2, <2>3 DEF Region!TypeOK, Blocks, Region!Blocks, Region!Ints, Region!RegionFunction
<1>7. OutRight'
  <2>1. ASSUME NEW p \in Blocks
        PROVE  depthOut'[p] = 0 \/ depthOut'[p] = Region!After(p, depthIn'[p])
    <3>1. CASE p = regionPos
      <4>1. depthOut'[p] = behind /\ depthIn'[p] = before
        BY <3>1, <1>1, <1>2
      <4> QED
        BY <3>1, <4>1
    <3>2. CASE p # regionPos
      <4>1. depthOut'[p] = depthOut[p] /\ depthIn'[p] = depthIn[p]
        BY <3>2, <1>1, <1>2
      <4> QED
        BY <4>1 DEF RegionInv, OutRight
    <3> QED
      BY <3>1, <3>2
  <2>2. \A p \in Blocks : Region!After(p, depthIn[p])' = Region!After(p, depthIn'[p])
    BY <1>1, SMTT(30) DEF Region!After, Region!DepthAt, Region!Marked, Region!Increment
  <2> QED
    BY <2>1, <2>2 DEF OutRight, Blocks, Region!Blocks
<1>8. Attained'
  <2>1. ASSUME NEW K, Closed(K), NEW b \in Blocks PROVE <<b, depthIn'[b]>> \in K
    <3>1. \A q \in Blocks : <<q, depthIn[q]>> \in K
      BY <2>1 DEF RegionInv, Attained
    <3>2. CASE b = regionPos
      <4>1. depthIn'[b] = before
        BY <3>2, <1>1, <1>2
      <4>2. <<b, 0>> \in K
        BY <2>1, ClosedMeans
      <4>3. ASSUME NEW p \in fn.preds[b], p \in Blocks, before = depthOut[p] PROVE <<b, before>> \in K
        <5>1. <<b, Region!After(p, depthIn[p])>> \in K
          BY <2>1, <3>1, <4>3, ClosedMeans
        <5>2. depthOut[p] = 0 \/ depthOut[p] = Region!After(p, depthIn[p])
          BY <4>3 DEF RegionInv, OutRight
        <5> QED
          BY <4>2, <4>3, <5>1, <5>2
      <4> QED
        BY <1>4, <3>2, <4>1, <4>2, <4>3
    <3>3. CASE b # regionPos
      <4>1. depthIn'[b] = depthIn[b]
        BY <3>3, <1>1, <1>2
      <4> QED
        BY <3>1, <4>1
    <3> QED
      BY <3>2, <3>3
  <2> QED
    BY <2>1, <1>5 DEF Attained, Blocks, Region!Blocks
<1>9. SweepInv'
  <2> SUFFICES ASSUME ~changed', NEW b \in Blocks, b < regionPos' PROVE Settled(b)'
    BY DEF SweepInv, Blocks, Region!Blocks
  <2>1. ~changed /\ depthIn[regionPos] = before /\ depthOut[regionPos] = behind
    BY <1>1, <1>2
  <2>2. depthIn' = depthIn /\ depthOut' = depthOut
    <3> HIDE DEF behind
    <3> QED
      BY <2>1, <1>1, <1>2
  <2>3. Settled(regionPos)
    BY <2>1 DEF Settled, before
  <2>4. b < regionPos => Settled(b)
    BY <2>1, <1>1 DEF RegionInv, SweepInv
  <2>5. b < regionPos \/ b = regionPos
    BY <1>0, <1>1 DEF Blocks, Region!Blocks
  <2>6. Settled(b)
    BY <2>3, <2>4, <2>5
  <2> QED
    BY <2>2, <2>6, <1>1, DepthsStay
<1>10. DoneInv' /\ (regionPc = "start" => regionPos = 1)'
  BY <1>1 DEF DoneInv
<1> QED
  BY <1>6, <1>7, <1>8, <1>9, <1>10 DEF RegionInv

\* Every step of the analysis keeps the invariant.
LEMMA RegionStepKeeps ==
  ASSUME RegionInv, Region!Next
  PROVE  RegionInv'
<1>0. LastBlock \in Nat \ {0} /\ IntMax \in Nat
  BY SidesAssumption DEF Region!RegionAssumption
<1>1. /\ Region!RegionFunction(fn) /\ changed \in BOOLEAN
      /\ depthIn \in [Blocks -> Region!Ints] /\ depthOut \in [Blocks -> Region!Ints]
      /\ regionPos \in 1 .. LastBlock + 1
      /\ inRegion \subseteq Blocks \X Nat
      /\ OutRight /\ Attained
  BY DEF RegionInv, Region!TypeOK, Blocks
<1>2. CASE Region!Start
  <2>1. /\ UNCHANGED <<fn, depthIn, depthOut, regionPos, changed, inRegion>>
        /\ regionPos = 1
        /\ regionPc' = IF Region!UsesRegions THEN "sweep" ELSE "done"
    BY <1>2 DEF Region!Start, RegionInv
  <2>2. Region!TypeOK'
    <3>1. regionPc' \in {"start", "sweep", "done"}
      BY <2>1
    <3> QED
      BY <1>1, <2>1, <3>1 DEF Region!TypeOK, Blocks, Region!Blocks, Region!Ints, Region!RegionFunction
  <2>3. OutRight' /\ Attained' /\ Region!UsesRegions' = Region!UsesRegions
    BY <2>1, <1>1, DepthsStay
  <2>4. SweepInv'
    BY <2>1, <1>0 DEF SweepInv, Blocks, Region!Blocks
  <2>5. DoneInv'
    BY <2>1, <2>3 DEF DoneInv
  <2>6. regionPos' = 1
    BY <2>1
  <2> QED
    BY <2>2, <2>3, <2>4, <2>5, <2>6 DEF RegionInv
<1>3. CASE Region!Visit
  BY <1>3, VisitKeeps
<1>4. CASE Region!SweepAgain
  <2>1. /\ UNCHANGED <<fn, depthIn, depthOut, inRegion, regionPc>>
        /\ regionPc = "sweep" /\ regionPos' = 1 /\ changed' = FALSE
    BY <1>4 DEF Region!SweepAgain
  <2>2. Region!TypeOK'
    <3>1. regionPos' \in 1 .. LastBlock + 1
      BY <1>0, <2>1
    <3>2. changed' \in BOOLEAN /\ regionPc' \in {"start", "sweep", "done"}
      BY <2>1
    <3> QED
      BY <1>1, <2>1, <3>1, <3>2 DEF Region!TypeOK, Blocks, Region!Blocks, Region!Ints, Region!RegionFunction
  <2>3. OutRight' /\ Attained'
    BY <2>1, <1>1, DepthsStay
  <2>4. SweepInv'
    BY <2>1, <1>0 DEF SweepInv, Blocks, Region!Blocks
  <2>5. DoneInv' /\ (regionPc = "start" => regionPos = 1)'
    BY <2>1 DEF DoneInv
  <2> QED
    BY <2>2, <2>3, <2>4, <2>5 DEF RegionInv
<1>5. CASE Region!Collect
  <2>1. /\ UNCHANGED <<fn, depthIn, depthOut, regionPos, changed>>
        /\ regionPc = "sweep" /\ regionPos = LastBlock + 1 /\ ~changed
        /\ regionPc' = "done" /\ inRegion' = Collected
    BY <1>5 DEF Region!Collect, Collected
  <2>2. Region!TypeOK'
    <3>1. inRegion' \subseteq Blocks \X Nat
      <4>1. \A b \in Blocks : DOMAIN fn.body[b] \subseteq Nat
        BY <1>1 DEF Region!RegionFunction, Blocks
      <4> QED
        BY <2>1, <4>1 DEF Collected, Blocks
    <3> QED
      BY <1>1, <2>1, <3>1 DEF Region!TypeOK, Blocks, Region!Blocks, Region!Ints, Region!RegionFunction
  <2>3. OutRight' /\ Attained' /\ \A b : Settled(b)' = Settled(b)
    BY <2>1, <1>1, DepthsStay
  <2>4. \A b \in Blocks : Settled(b)
    BY <2>1, <1>0 DEF RegionInv, SweepInv, Blocks, Region!Blocks
  <2>5. Collected' = Collected
    <3>1. \A b, d, i : Region!DepthAt(b, d, i)' = Region!DepthAt(b, d, i)
      BY <2>1, FunctionStays
    <3> QED
      BY <2>1, <3>1 DEF Collected, Region!Blocks
  <2>6. DoneInv'
    BY <2>1, <2>3, <2>4, <2>5 DEF DoneInv, Blocks, Region!Blocks
  <2>7. SweepInv' /\ (regionPc = "start" => regionPos = 1)'
    BY <2>1 DEF SweepInv
  <2> QED
    BY <2>2, <2>3, <2>6, <2>7 DEF RegionInv
<1> QED
  BY <1>2, <1>3, <1>4, <1>5 DEF Region!Next

\* So does a step of anything else.
LEMMA RegionRests ==
  ASSUME RegionInv, UNCHANGED regionVars
  PROVE  RegionInv'
<1>1. UNCHANGED <<fn, depthIn, depthOut, regionPos, changed, inRegion, regionPc>>
  BY DEF regionVars
<1>2. Region!TypeOK'
  BY <1>1 DEF RegionInv, Region!TypeOK, Region!Blocks, Region!Ints, Region!RegionFunction
<1>3. OutRight' /\ Attained' /\ (\A b : Settled(b)' = Settled(b)) /\ Region!UsesRegions' = Region!UsesRegions
  BY <1>1, DepthsStay DEF RegionInv
<1>4. Collected' = Collected
  <2>1. \A b, d, i : Region!DepthAt(b, d, i)' = Region!DepthAt(b, d, i)
    BY <1>1, FunctionStays
  <2> QED
    BY <1>1, <2>1 DEF Collected, Region!Blocks
<1>5. SweepInv'
  BY <1>1, <1>3 DEF RegionInv, SweepInv, Blocks, Region!Blocks
<1>6. DoneInv'
  BY <1>1, <1>3, <1>4 DEF RegionInv, DoneInv, Blocks, Region!Blocks
<1> QED
  BY <1>1, <1>2, <1>3, <1>5, <1>6 DEF RegionInv

-----------------------------------------------------------------------------
(* The result.                                                             *)

\* The depths from which the analysis knows that it need not look further.
Known == {x \in Blocks \X (0 .. IntMax) : x[2] <= depthIn[x[1]]}

(***************************************************************************)
(* Where no depth wraps around, control never comes deeper than known.     *)
(***************************************************************************)
LEMMA KnownIsClosed ==
  ASSUME RegionInv, Region!Shallow, \A b \in Blocks : Settled(b)
  PROVE  /\ Closed(Known)
         /\ \A b \in Blocks, d \in 0 .. IntMax : d <= depthIn[b] =>
              \A i \in 1 .. Length(b) + 1 : /\ DepthAt(b, d, i) \in Int /\ DepthAt(b, depthIn[b], i) \in Int
                                            /\ 0 <= DepthAt(b, d, i)
                                            /\ DepthAt(b, d, i) <= DepthAt(b, depthIn[b], i)
<1>0. IntMax \in Nat
  BY SidesAssumption DEF Region!RegionAssumption
<1>1. /\ Region!RegionFunction(fn)
      /\ depthIn \in [Blocks -> Region!Ints] /\ depthOut \in [Blocks -> Region!Ints]
  BY DEF RegionInv, Region!TypeOK, Blocks
<1>2. \A b \in Blocks : Length(b) \in Nat
  BY <1>1 DEF Region!RegionFunction, Length, Blocks
<1>3. ASSUME NEW b \in Blocks
      PROVE  /\ depthIn[b] \in 0 .. IntMax
             /\ \A i \in 1 .. Length(b) + 1 : DepthAt(b, depthIn[b], i) \in 0 .. IntMax - 1
  <2>1. \A i \in 1 .. Length(b) + 1 : DepthAt(b, depthIn[b], i) \in 0 .. IntMax - 1
    BY DEF Region!Shallow, DepthAt, Length, Blocks
  <2>2. depthIn[b] \in Int
    BY <1>0, <1>1 DEF Region!Ints
  <2>3. DepthAt(b, depthIn[b], 1) = depthIn[b] /\ 1 \in 1 .. Length(b) + 1
    BY <1>1, <1>2, <2>2, DepthAtStep
  <2> QED
    BY <1>0, <2>1, <2>3
<1>4. ASSUME NEW b \in Blocks, NEW d \in 0 .. IntMax, d <= depthIn[b], NEW i \in 1 .. Length(b) + 1
      PROVE  /\ DepthAt(b, d, i) \in Int /\ DepthAt(b, depthIn[b], i) \in Int
             /\ 0 <= DepthAt(b, d, i) /\ DepthAt(b, d, i) <= DepthAt(b, depthIn[b], i)
  <2>1. PICK e \in Int : e = depthIn[b]
    BY <1>0, <1>3
  <2>2. d \in Int /\ 0 <= d /\ d <= e
    BY <1>0, <1>4, <2>1
  <2>3. \A j \in 1 .. Length(b) + 1 : DepthAt(b, e, j) \in 0 .. IntMax - 1
    BY <1>3, <2>1
  <2>4. 0 <= DepthAt(b, d, i) /\ DepthAt(b, d, i) <= DepthAt(b, e, i)
    BY <1>1, <2>2, <2>3, DepthAtMonotone
  <2>5. DepthAt(b, d, i) \in Int /\ DepthAt(b, e, i) \in Int
    BY <1>1, <2>1, <2>2, DepthAtStep
  <2> QED
    BY <2>1, <2>4, <2>5
<1>5. ASSUME NEW x \in Onward(Known) PROVE x \in Known
  <2>1. PICK y \in Blocks \X Known : y[2][1] \in fn.preds[y[1]] /\ x = <<y[1], Region!After(y[2][1], y[2][2])>>
    BY DEF Onward
  <2>2. PICK b \in Blocks, p \in Blocks, d \in 0 .. IntMax : y = <<b, <<p, d>>>> /\ d <= depthIn[p]
    BY <2>1 DEF Known
  <2>3. p \in fn.preds[b] /\ x = <<b, Region!After(p, d)>>
    BY <2>1, <2>2
  <2>4. Length(p) + 1 \in 1 .. Length(p) + 1
    BY <1>2
  <2>5. /\ Region!After(p, d) = DepthAt(p, d, Length(p) + 1)
        /\ Region!After(p, depthIn[p]) = DepthAt(p, depthIn[p], Length(p) + 1)
    BY DEF Region!After, DepthAt, Length
  <2>6. /\ Region!After(p, d) \in Int /\ Region!After(p, depthIn[p]) \in Int
        /\ 0 <= Region!After(p, d) /\ Region!After(p, d) <= Region!After(p, depthIn[p])
    BY <1>4, <2>2, <2>4, <2>5
  <2>7. Region!After(p, depthIn[p]) = depthOut[p] /\ depthIn[b] = Region!Incoming(b)
    BY DEF Settled
  <2>8. depthOut[p] <= Region!Incoming(b)
    BY <1>1, <2>3, IncomingIs
  <2>9. Region!After(p, d) \in 0 .. IntMax /\ Region!After(p, d) <= depthIn[b]
    <3>1. depthIn[b] \in 0 .. IntMax
      BY <1>3
    <3> QED
      BY <1>0, <2>6, <2>7, <2>8, <3>1
  <2> QED
    BY <2>3, <2>9 DEF Known
<1>6. ASSUME NEW b \in Blocks PROVE <<b, 0>> \in Known
  <2>1. 0 \in 0 .. IntMax /\ 0 <= depthIn[b]
    BY <1>0, <1>3
  <2> QED
    BY <2>1 DEF Known
<1>7. Closed(Known)
  BY <1>5, <1>6 DEF Closed, Moves
<1> QED
  BY <1>4, <1>7

(***************************************************************************)
(* So what is collected is what some run comes to inside a region.         *)
(***************************************************************************)
LEMMA RegionExact ==
  ASSUME RegionInv
  PROVE  Region!ScopeExact
<1> SUFFICES ASSUME regionPc = "done", Region!UsesRegions, Region!Shallow
             PROVE  inRegion =
                      UNION {{<<e[1], i>> : i \in {i \in DOMAIN fn.body[e[1]] :
                                 fn.body[e[1]][i] = "other" /\ Region!DepthAt(e[1], e[2], i) > 0}} : e \in Region!Entries}
  BY DEF Region!ScopeExact
<1>0. IntMax \in Nat
  BY SidesAssumption DEF Region!RegionAssumption
<1>1. inRegion = Collected /\ \A b \in Blocks : Settled(b)
  BY DEF RegionInv, DoneInv
<1>2. Region!RegionFunction(fn) /\ Attained
  BY DEF RegionInv, Region!TypeOK
<1>3. /\ Closed(Known)
      /\ \A b \in Blocks, d \in 0 .. IntMax : d <= depthIn[b] =>
           \A i \in 1 .. Length(b) + 1 : /\ DepthAt(b, d, i) \in Int /\ DepthAt(b, depthIn[b], i) \in Int
                                         /\ 0 <= DepthAt(b, d, i)
                                         /\ DepthAt(b, d, i) <= DepthAt(b, depthIn[b], i)
  BY <1>1, KnownIsClosed
<1>4. Region!Entries \subseteq Known /\ Closed(Region!Entries)
  <2>1. Known \subseteq Blocks \X (0 .. IntMax)
    BY DEF Known
  <2> QED
    BY <1>3, <2>1, EntriesLeast
<1>5. \A b \in Blocks : <<b, depthIn[b]>> \in Region!Entries
  BY <1>2, <1>4 DEF Attained
<1>6. \A b \in Blocks : DOMAIN fn.body[b] = 1 .. Length(b) /\ Length(b) \in Nat
  BY <1>2 DEF Region!RegionFunction, Length, Blocks
<1>7. ASSUME NEW x \in Collected
      PROVE  \E e \in Region!Entries : \E i \in DOMAIN fn.body[e[1]] :
                fn.body[e[1]][i] = "other" /\ Region!DepthAt(e[1], e[2], i) > 0 /\ x = <<e[1], i>>
  <2>0. PICK b \in Blocks : x \in {b} \X DOMAIN fn.body[b]
    BY DEF Collected, Blocks
  <2>1. PICK i \in DOMAIN fn.body[b] : x = <<b, i>>
    BY <2>0
  <2>2. fn.body[b][i] = "other" /\ Region!DepthAt(b, depthIn[b], i) > 0
    BY <2>1 DEF Collected
  <2>3. PICK e \in Region!Entries : e = <<b, depthIn[b]>>
    BY <1>5
  <2> QED
    BY <2>1, <2>2, <2>3
<1>8. ASSUME NEW e \in Region!Entries, NEW i \in DOMAIN fn.body[e[1]],
             fn.body[e[1]][i] = "other", Region!DepthAt(e[1], e[2], i) > 0
      PROVE  <<e[1], i>> \in Collected
  <2>1. PICK b \in Blocks, d \in 0 .. IntMax : e = <<b, d>> /\ d <= depthIn[b]
    BY <1>4 DEF Known
  <2>2. i \in 1 .. Length(b) + 1 /\ i \in DOMAIN fn.body[b]
    BY <1>6, <2>1
  <2>3. DepthAt(b, d, i) > 0 /\ fn.body[b][i] = "other"
    BY <1>8, <2>1 DEF DepthAt
  <2>4. /\ DepthAt(b, d, i) \in Int /\ DepthAt(b, depthIn[b], i) \in Int
        /\ DepthAt(b, d, i) <= DepthAt(b, depthIn[b], i)
    BY <1>3, <2>1, <2>2
  <2>5. Region!DepthAt(b, depthIn[b], i) > 0
    BY <2>3, <2>4 DEF DepthAt
  <2>6. <<b, i>> \in UNION {{q} \X DOMAIN fn.body[q] : q \in Region!Blocks}
    BY <2>2 DEF Blocks
  <2>7. <<b, i>> \in Collected
    BY <2>3, <2>5, <2>6 DEF Collected
  <2> QED
    BY <2>1, <2>7
<1> QED
  BY <1>1, <1>7, <1>8

(***************************************************************************)
(* computeRegionInfo, for every function: once the sweeps have ended, the  *)
(* instructions in scope are exactly those that some run of the function   *)
(* comes to inside a region, through loops and joins alike, unless a depth *)
(* has come to the greatest int.                                           *)
(***************************************************************************)
THEOREM ScopeAlwaysExact == Spec => []ScopeExact
<1> DEFINE I == part = "region" => RegionInv
<1>1. Init => I
  BY RegionStarts DEF Init
<1>2. I /\ [Next]_vars => I'
  <2> SUFFICES ASSUME I, [Next]_vars, part' = "region" PROVE RegionInv'
    OBVIOUS
  <2>1. CASE RegionStep
    BY <2>1, RegionStepKeeps DEF RegionStep
  <2>2. CASE UNCHANGED vars
    BY <2>2, RegionRests DEF vars
  <2> QED
    BY <2>1, <2>2 DEF Next, PolyStep, CodecStep, ExportStep
<1>3. I => ScopeExact
  BY RegionExact DEF ScopeExact
<1> QED
  BY <1>1, <1>2, <1>3, PTL DEF Spec

-----------------------------------------------------------------------------
(* The export.                                                             *)

Libs == scenario.libs
Base == scenario.base

\* The entry is that of a function of a library.
Foreign(e) == \E d \in Export!Defined : e = Export!Written(Export!Fn(d))

\* The function has been gone over.
Done(d) == d[1] < lib \/ (d[1] = lib /\ d[2] < at)

\* Every function gone over has its entry.
AllWritten == \A d \in Export!Defined : Done(d) => \E i \in DOMAIN file : file[i] = Export!Written(Export!Fn(d))

\* The known functions stand together, in their order, behind m entries; all
\* other entries are of libraries.
BaseBehind(m) == /\ m + Len(Base) <= Len(file)
                 /\ \A i \in DOMAIN Base : file[m + i] = Base[i]
                 /\ \A j \in DOMAIN file : j <= m \/ m + Len(Base) < j => Foreign(file[j])

BaseInv == IF scenario.baseLast /\ Export!Exporting
           THEN \A j \in DOMAIN file : Foreign(file[j])
           ELSE \E m \in Nat : BaseBehind(m)

LoadInv == /\ loading # "unread" => ~Export!Exporting
           /\ loading = "read" => Export!Loadable(file) /\ table = Export!Entries(file)
           /\ loading = "failed" => ~Export!Loadable(file)
           /\ loading # "read" => table = <<>>

ExportInv == /\ Export!TypeOK
             /\ AllWritten
             /\ BaseInv
             /\ LoadInv

(***************************************************************************)
(* What Scenario says, field by field.                                     *)
(***************************************************************************)
LEMMA ScenarioIs ==
  ASSUME Export!Scenario(scenario)
  PROVE  /\ Len(Libs) \in Nat \ {0} /\ DOMAIN Libs = 1 .. Len(Libs)
         /\ \A i \in DOMAIN Libs : Libs[i] \in Seq(Export!Function)
         /\ Base \in Seq(Export!Entry) /\ Len(Base) \in Nat /\ DOMAIN Base = 1 .. Len(Base)
         /\ \A i \in DOMAIN Base : Base[i] \in Export!Entry /\ Base[i].keys \subseteq Export!Mapped
         /\ \A d \in Export!Defined : /\ d[1] \in DOMAIN Libs /\ d[2] \in DOMAIN Libs[d[1]]
                                      /\ Export!Fn(d) = Libs[d[1]][d[2]]
                                      /\ Export!Fn(d) \in Export!Function
                                      /\ Export!Fn(d).defined
<1>1. Libs \in Seq(Seq(Export!Function)) /\ Libs # <<>> /\ Base \in Seq(Export!Entry)
  BY DEF Export!Scenario, Libs, Base
<1>2. Len(Libs) \in Nat \ {0} /\ DOMAIN Libs = 1 .. Len(Libs)
  BY <1>1
<1>3. \A i \in DOMAIN Libs : Libs[i] \in Seq(Export!Function)
  BY <1>1
<1>4. ASSUME NEW i \in DOMAIN Base PROVE Base[i] \in Export!Entry /\ Base[i].keys \subseteq Export!Mapped
  <2>1. Base[i] \in Export!Entry
    BY <1>1
  <2> QED
    BY <2>1 DEF Export!Scenario, Base
<1>5. ASSUME NEW d \in Export!Defined
      PROVE  /\ d[1] \in DOMAIN Libs /\ d[2] \in DOMAIN Libs[d[1]] /\ Export!Fn(d) = Libs[d[1]][d[2]]
             /\ Export!Fn(d) \in Export!Function
             /\ Export!Fn(d).defined
  <2>1. PICK i \in DOMAIN Libs : d \in {<<i, j>> : j \in {j \in DOMAIN Libs[i] : Libs[i][j].defined}}
    BY DEF Export!Defined, Libs
  <2>2. PICK j \in DOMAIN Libs[i] : d = <<i, j>> /\ Libs[i][j].defined
    BY <2>1
  <2>3. d[1] = i /\ d[2] = j
    BY <2>2
  <2>4. Libs[i][j] \in Export!Function
    BY <1>3
  <2> QED
    BY <2>2, <2>3, <2>4 DEF Export!Fn, Libs
<1>6. Len(Base) \in Nat /\ DOMAIN Base = 1 .. Len(Base)
  BY <1>1
<1> QED
  BY <1>1, <1>2, <1>3, <1>4, <1>5, <1>6

(***************************************************************************)
(* The entry of a function, field by field.                                *)
(***************************************************************************)
LEMMA WrittenIs ==
  ASSUME NEW x \in Export!Function
  PROVE  /\ Export!Written(x) \in Export!Entry
         /\ Export!Written(x).name = x.name /\ Export!Written(x).heap = x.heap
         /\ Export!Written(x).keys = x.effects \ {"Unknown"}
BY DEF Export!Function, Export!Written, Export!Entry

(***************************************************************************)
(* Before the first function is exported nothing is gone over, and the     *)
(* file is the known functions or nothing.                                 *)
(***************************************************************************)
LEMMA ExportStarts ==
  ASSUME Export!Init
  PROVE  ExportInv
<1>1. Export!Scenario(scenario)
  BY SidesAssumption DEF Export!ExportAssumption, Export!Init
<1>2. /\ Len(Libs) \in Nat \ {0}
      /\ Base \in Seq(Export!Entry) /\ Len(Base) \in Nat /\ DOMAIN Base = 1 .. Len(Base)
      /\ \A d \in Export!Defined : d[1] \in DOMAIN Libs /\ d[2] \in DOMAIN Libs[d[1]]
      /\ DOMAIN Libs = 1 .. Len(Libs)
      /\ \A i \in DOMAIN Libs : Libs[i] \in Seq(Export!Function)
  BY <1>1, ScenarioIs
<1>3. lib = 1 /\ at = 1 /\ loading = "unread" /\ table = <<>> /\ file = IF scenario.baseLast THEN <<>> ELSE Base
  BY DEF Export!Init, Base
<1>4. Export!TypeOK
  <2>1. file \in Seq(Export!Entry)
    BY <1>2, <1>3
  <2>2. lib \in 1 .. Len(scenario.libs) + 1 /\ at \in Nat \ {0}
    BY <1>2, <1>3 DEF Libs
  <2>3. loading \in {"unread", "failed", "read"} /\ DOMAIN table = {}
    BY <1>3
  <2> QED
    BY <1>1, <2>1, <2>2, <2>3 DEF Export!TypeOK
<1>5. AllWritten
  <2>1. ASSUME NEW d \in Export!Defined PROVE ~Done(d)
    <3>1. d[1] \in 1 .. Len(Libs)
      BY <1>2
    <3>2. Libs[d[1]] \in Seq(Export!Function) /\ d[2] \in DOMAIN Libs[d[1]]
      BY <1>2
    <3>3. d[2] \in 1 .. Len(Libs[d[1]])
      BY <3>2
    <3> QED
      BY <1>2, <1>3, <3>1, <3>3 DEF Done
  <2> QED
    BY <2>1 DEF AllWritten
<1>6. BaseInv
  <2>1. Export!Exporting
    BY <1>2, <1>3 DEF Export!Exporting, Libs
  <2>2. CASE scenario.baseLast
    BY <1>3, <2>1, <2>2 DEF BaseInv
  <2>3. CASE ~scenario.baseLast
    <3>1. BaseBehind(0)
      BY <1>2, <1>3, <2>3 DEF BaseBehind
    <3> QED
      BY <2>3, <3>1 DEF BaseInv
  <2> QED
    BY <2>2, <2>3
<1>7. LoadInv
  BY <1>3 DEF LoadInv
<1> QED
  BY <1>4, <1>5, <1>6, <1>7 DEF ExportInv

\* What is said of the scenario stays.
LEMMA ScenarioStays ==
  ASSUME scenario' = scenario
  PROVE  /\ Export!Scenario(scenario)' = Export!Scenario(scenario)
         /\ Export!Defined' = Export!Defined
         /\ \A d : Export!Fn(d)' = Export!Fn(d)
         /\ \A d : Export!Written(Export!Fn(d))' = Export!Written(Export!Fn(d))
         /\ Libs' = Libs /\ Base' = Base
<1>1. Export!Defined' = Export!Defined
  BY DEF Export!Defined
<1>2. \A d : Export!Fn(d)' = Export!Fn(d)
  BY DEF Export!Fn
<1>3. \A d : Export!Written(Export!Fn(d))' = Export!Written(Export!Fn(d))
  BY <1>2 DEF Export!Written
<1>4. Libs' = Libs /\ Base' = Base
  BY DEF Libs, Base
<1>5. Export!Scenario(scenario)' = Export!Scenario(scenario)
  BY DEF Export!Scenario, Export!Function, Export!Entry, Export!Mapped
<1> QED
  BY <1>1, <1>2, <1>3, <1>4, <1>5

\* As long as functions are exported nothing is loaded.
LEMMA UnreadYet ==
  ASSUME ExportInv, Export!Exporting
  PROVE  loading = "unread" /\ table = <<>>
BY DEF ExportInv, LoadInv, Export!TypeOK

(***************************************************************************)
(* Exporting a function adds its entry behind all others, or nothing.      *)
(***************************************************************************)
LEMMA ExportKeeps ==
  ASSUME ExportInv, Export!Export
  PROVE  ExportInv'
<1>1. /\ Export!Exporting /\ at <= Len(Libs[lib]) /\ at' = at + 1
      /\ file' = IF Libs[lib][at].defined THEN Append(file, Export!Written(Libs[lib][at])) ELSE file
      /\ UNCHANGED <<scenario, lib, loading, table>>
  BY DEF Export!Export, Export!Lib, Libs
<1>2. /\ Export!Scenario(scenario) /\ file \in Seq(Export!Entry) /\ at \in Nat \ {0}
      /\ lib \in 1 .. Len(Libs) + 1 /\ lib <= Len(Libs)
  BY <1>1 DEF ExportInv, Export!TypeOK, Export!Exporting, Libs
<1>3. /\ Len(Libs) \in Nat \ {0} /\ DOMAIN Libs = 1 .. Len(Libs)
      /\ \A i \in DOMAIN Libs : Libs[i] \in Seq(Export!Function)
      /\ Base \in Seq(Export!Entry) /\ Len(Base) \in Nat /\ DOMAIN Base = 1 .. Len(Base)
      /\ \A d \in Export!Defined : d[1] \in DOMAIN Libs /\ d[2] \in DOMAIN Libs[d[1]]
  BY <1>2, ScenarioIs
<1>4. lib \in DOMAIN Libs /\ at \in DOMAIN Libs[lib] /\ lib \in Nat
  <2>1. lib \in DOMAIN Libs /\ lib \in Nat
    BY <1>2, <1>3
  <2>2. Libs[lib] \in Seq(Export!Function)
    BY <1>3, <2>1
  <2> QED
    BY <1>1, <1>2, <2>1, <2>2
<1>5. PICK x \in Export!Function : x = Libs[lib][at]
  <2>1. Libs[lib] \in Seq(Export!Function)
    BY <1>3, <1>4
  <2> QED
    BY <1>4, <2>1
<1>6. PICK e \in Export!Entry : e = Export!Written(x)
  BY WrittenIs
<1>7. x.defined => <<lib, at>> \in Export!Defined /\ Export!Fn(<<lib, at>>) = x /\ Foreign(e)
  <2> SUFFICES ASSUME x.defined PROVE <<lib, at>> \in Export!Defined /\ Export!Fn(<<lib, at>>) = x /\ Foreign(e)
    OBVIOUS
  <2>1. <<lib, at>> \in Export!Defined
    BY <1>4, <1>5 DEF Export!Defined, Libs
  <2>2. Export!Fn(<<lib, at>>) = x
    BY <1>5 DEF Export!Fn, Libs
  <2> QED
    BY <2>1, <2>2, <1>6 DEF Foreign
<1>8. IF x.defined THEN file' = Append(file, e) ELSE file' = file
  BY <1>1, <1>5, <1>6
<1>9. Len(file) \in Nat /\ DOMAIN file = 1 .. Len(file)
  BY <1>2
<1>10. file' \in Seq(Export!Entry) /\ \A i \in DOMAIN file : i \in DOMAIN file' /\ file'[i] = file[i]
  <2>1. CASE x.defined
    BY <1>2, <1>8, <2>1
  <2>2. CASE ~x.defined
    BY <1>2, <1>8, <2>2
  <2> QED
    BY <2>1, <2>2
<1>11. /\ Len(file') \in Nat /\ Len(file) <= Len(file')
       /\ x.defined => (Len(file) + 1 \in DOMAIN file' /\ file'[Len(file) + 1] = e)
  BY <1>2, <1>8
<1>12. ASSUME NEW j \in DOMAIN file' PROVE j \in DOMAIN file \/ (j = Len(file) + 1 /\ Foreign(file'[j]))
  <2>1. CASE x.defined
    <3>1. DOMAIN file' = 1 .. Len(file) + 1
      BY <1>2, <1>8, <2>1
    <3> QED
      BY <3>1, <2>1, <1>7, <1>9, <1>11
  <2>2. CASE ~x.defined
    BY <1>8, <2>2
  <2> QED
    BY <2>1, <2>2
<1>13. /\ Export!Scenario(scenario)' = Export!Scenario(scenario)
       /\ Export!Defined' = Export!Defined
       /\ \A d : Export!Fn(d)' = Export!Fn(d)
       /\ \A d : Export!Written(Export!Fn(d))' = Export!Written(Export!Fn(d))
       /\ Libs' = Libs /\ Base' = Base
  BY <1>1, ScenarioStays
<1>14. Export!TypeOK'
  <2>1. at' \in Nat \ {0} /\ lib' = lib
    BY <1>1, <1>2
  <2>2. file' \in Seq(Export!Entry)'
    BY <1>10 DEF Export!Entry
  <2> QED
    BY <1>1, <1>2, <1>13, <2>1, <2>2 DEF ExportInv, Export!TypeOK, Libs, Export!Entry, Export!Mapped
<1>15. AllWritten'
  <2>1. ASSUME NEW d \in Export!Defined, d[1] < lib \/ (d[1] = lib /\ d[2] < at + 1)
        PROVE  \E i \in DOMAIN file' : file'[i] = Export!Written(Export!Fn(d))
    <3>1. CASE Done(d)
      <4>1. PICK i \in DOMAIN file : file[i] = Export!Written(Export!Fn(d))
        BY <3>1 DEF ExportInv, AllWritten
      <4>2. i \in DOMAIN file' /\ file'[i] = file[i]
        BY <1>10
      <4> QED
        BY <4>1, <4>2
    <3>2. CASE ~Done(d)
      <4>1. Libs[lib] \in Seq(Export!Function)
        BY <1>3, <1>4
      <4>2. d[1] = lib /\ d[2] \in 1 .. Len(Libs[lib])
        BY <1>3, <2>1, <3>2, <4>1 DEF Done
      <4>3. d[2] = at
        BY <1>2, <2>1, <3>2, <4>1, <4>2 DEF Done
      <4>4. Export!Fn(d) = x /\ x.defined
        <5>1. Export!Fn(d) = Libs[d[1]][d[2]] /\ Export!Fn(d).defined
          BY <1>2, ScenarioIs
        <5> QED
          BY <5>1, <4>2, <4>3, <1>5
      <4>5. Len(file) + 1 \in DOMAIN file' /\ file'[Len(file) + 1] = e
        BY <1>11, <4>4
      <4> QED
        BY <4>4, <4>5, <1>6
    <3> QED
      BY <3>1, <3>2
  <2>2. \A d \in Export!Defined : Done(d)' => d[1] < lib \/ (d[1] = lib /\ d[2] < at + 1)
    BY <1>1 DEF Done
  <2> QED
    BY <2>1, <2>2, <1>13 DEF AllWritten
<1>16. BaseInv'
  <2>1. Export!Exporting' /\ scenario.baseLast' = scenario.baseLast
    BY <1>1 DEF Export!Exporting
  <2>2. CASE scenario.baseLast
    <3>1. \A j \in DOMAIN file : Foreign(file[j])
      BY <1>1, <2>2 DEF ExportInv, BaseInv
    <3>2. \A j \in DOMAIN file' : Foreign(file'[j])
      BY <1>10, <1>12, <3>1
    <3>4. (\A j \in DOMAIN file : Foreign(file[j]))'
      BY <3>2, <1>13 DEF Foreign
    <3> QED
      BY <2>1, <2>2, <3>4 DEF BaseInv
  <2>3. CASE ~scenario.baseLast
    <3>1. PICK m \in Nat : BaseBehind(m)
      BY <2>3 DEF ExportInv, BaseInv
    <3>2. m + Len(Base) <= Len(file') /\ \A i \in DOMAIN Base : file'[m + i] = Base[i]
      <4>1. m + Len(Base) <= Len(file')
        BY <1>3, <1>9, <1>11, <3>1 DEF BaseBehind
      <4>2. ASSUME NEW i \in DOMAIN Base PROVE file'[m + i] = Base[i]
        <5>1. m + i \in DOMAIN file
          BY <1>3, <1>9, <3>1 DEF BaseBehind
        <5> QED
          BY <5>1, <1>10, <3>1 DEF BaseBehind
      <4> QED
        BY <4>1, <4>2
    <3>3. ASSUME NEW j \in DOMAIN file', j <= m \/ m + Len(Base) < j PROVE Foreign(file'[j])
      <4>1. CASE j \in DOMAIN file
        <5>1. Foreign(file[j])
          BY <3>1, <3>3, <4>1 DEF BaseBehind
        <5> QED
          BY <4>1, <5>1, <1>10
      <4> QED
        BY <4>1, <1>12
    <3>4. BaseBehind(m)'
      <4>1. (\A j \in DOMAIN file : j <= m \/ m + Len(Base) < j => Foreign(file[j]))'
        BY <3>3, <1>13 DEF Foreign
      <4> QED
        BY <3>2, <4>1, <1>13 DEF BaseBehind
    <3> QED
      BY <2>1, <2>3, <3>4 DEF BaseInv
  <2> QED
    BY <2>2, <2>3
<1>17. LoadInv'
  <2>1. loading' = "unread" /\ table' = <<>>
    BY <1>1, UnreadYet
  <2> QED
    BY <2>1 DEF LoadInv
<1> QED
  BY <1>14, <1>15, <1>16, <1>17 DEF ExportInv

(***************************************************************************)
(* Going on to the next library leaves the file, but for the known         *)
(* functions that come last.                                               *)
(***************************************************************************)
LEMMA JoinKeeps ==
  ASSUME ExportInv, Export!Join
  PROVE  ExportInv'
<1>1. /\ Export!Exporting /\ at > Len(Libs[lib]) /\ at' = 1 /\ lib' = lib + 1
      /\ file' = IF lib = Len(Libs) /\ scenario.baseLast THEN file \o Base ELSE file
      /\ UNCHANGED <<scenario, loading, table>>
  BY DEF Export!Join, Export!Lib, Libs, Base
<1>2. /\ Export!Scenario(scenario) /\ file \in Seq(Export!Entry) /\ at \in Nat \ {0}
      /\ lib \in 1 .. Len(Libs) + 1 /\ lib <= Len(Libs)
  BY <1>1 DEF ExportInv, Export!TypeOK, Export!Exporting, Libs
<1>3. /\ Len(Libs) \in Nat \ {0} /\ DOMAIN Libs = 1 .. Len(Libs)
      /\ \A i \in DOMAIN Libs : Libs[i] \in Seq(Export!Function)
      /\ Base \in Seq(Export!Entry) /\ Len(Base) \in Nat /\ DOMAIN Base = 1 .. Len(Base)
      /\ \A d \in Export!Defined : d[1] \in DOMAIN Libs /\ d[2] \in DOMAIN Libs[d[1]]
  BY <1>2, ScenarioIs
<1>4. lib \in DOMAIN Libs /\ lib \in Nat
  BY <1>2, <1>3
<1>5. Len(file) \in Nat /\ DOMAIN file = 1 .. Len(file)
  BY <1>2
<1>6. file' \in Seq(Export!Entry) /\ \A i \in DOMAIN file : i \in DOMAIN file' /\ file'[i] = file[i]
  <2>1. CASE lib = Len(Libs) /\ scenario.baseLast
    <3>1. file' = file \o Base
      BY <1>1, <2>1
    <3> QED
      BY <1>2, <1>3, <3>1
  <2>2. CASE ~(lib = Len(Libs) /\ scenario.baseLast)
    BY <1>1, <1>2, <2>2
  <2> QED
    BY <2>1, <2>2
<1>7. /\ Export!Scenario(scenario)' = Export!Scenario(scenario)
      /\ Export!Defined' = Export!Defined
      /\ \A d : Export!Fn(d)' = Export!Fn(d)
      /\ \A d : Export!Written(Export!Fn(d))' = Export!Written(Export!Fn(d))
      /\ Libs' = Libs /\ Base' = Base
  BY <1>1, ScenarioStays
<1>8. Export!TypeOK'
  <2>1. at' \in Nat \ {0} /\ lib' \in 1 .. Len(Libs) + 1
    BY <1>1, <1>2, <1>3, <1>4
  <2>2. file' \in Seq(Export!Entry)'
    BY <1>6 DEF Export!Entry
  <2> QED
    BY <1>1, <1>2, <1>7, <2>1, <2>2 DEF ExportInv, Export!TypeOK, Libs, Export!Entry, Export!Mapped
<1>9. AllWritten'
  <2>1. ASSUME NEW d \in Export!Defined, d[1] < lib + 1 \/ (d[1] = lib + 1 /\ d[2] < 1)
        PROVE  \E i \in DOMAIN file' : file'[i] = Export!Written(Export!Fn(d))
    <3>1. Libs[d[1]] \in Seq(Export!Function) /\ d[2] \in DOMAIN Libs[d[1]] /\ d[1] \in 1 .. Len(Libs)
      BY <1>3
    <3>2. d[2] \in 1 .. Len(Libs[d[1]]) /\ Len(Libs[d[1]]) \in Nat
      BY <3>1
    <3>3. d[1] < lib \/ d[1] = lib
      BY <1>3, <1>4, <2>1, <3>1, <3>2
    <3>4. Done(d)
      <4>1. CASE d[1] < lib
        BY <4>1 DEF Done
      <4>2. CASE d[1] = lib
        <5>1. d[2] < at
          BY <1>1, <1>2, <3>2, <4>2
        <5> QED
          BY <4>2, <5>1 DEF Done
      <4> QED
        BY <3>3, <4>1, <4>2
    <3>5. PICK i \in DOMAIN file : file[i] = Export!Written(Export!Fn(d))
      BY <3>4 DEF ExportInv, AllWritten
    <3> QED
      BY <3>5, <1>6
  <2>2. \A d \in Export!Defined : Done(d)' => d[1] < lib + 1 \/ (d[1] = lib + 1 /\ d[2] < 1)
    BY <1>1 DEF Done
  <2> QED
    BY <2>1, <2>2, <1>7 DEF AllWritten
<1>10. Export!Exporting' <=> lib < Len(Libs)
  BY <1>1, <1>3, <1>4 DEF Export!Exporting, Libs
<1>11. BaseInv'
  <2>1. CASE scenario.baseLast /\ lib = Len(Libs)
    <3>1. file' = file \o Base /\ Len(file') = Len(file) + Len(Base)
      BY <1>1, <1>2, <1>3, <2>1
    <3>2. \A i \in DOMAIN Base : file'[Len(file) + i] = Base[i]
      BY <1>2, <1>3, <3>1
    <3>3. ASSUME NEW j \in DOMAIN file', j <= Len(file) \/ Len(file) + Len(Base) < j PROVE Foreign(file'[j])
      <4>1. DOMAIN file' = 1 .. Len(file')
        BY <1>6
      <4>2. j \in DOMAIN file
        BY <1>3, <1>5, <3>1, <3>3, <4>1
      <4>3. Foreign(file[j])
        BY <1>1, <2>1, <4>2 DEF ExportInv, BaseInv
      <4> QED
        BY <1>6, <4>2, <4>3
    <3>4. PICK m \in Nat : m = Len(file)
      BY <1>5
    <3>5. BaseBehind(m)'
      <4>1. (\A j \in DOMAIN file : j <= m \/ m + Len(Base) < j => Foreign(file[j]))'
        BY <3>3, <3>4, <1>7 DEF Foreign
      <4>2. m + Len(Base) <= Len(file')
        BY <1>3, <3>1, <3>4
      <4> QED
        BY <3>2, <3>4, <4>1, <4>2, <1>7 DEF BaseBehind
    <3> QED
      BY <1>10, <2>1, <3>5, <1>3, <1>4 DEF BaseInv
  <2>2. CASE ~(scenario.baseLast /\ lib = Len(Libs))
    <3>1. file' = file
      BY <1>1, <2>2
    <3>2. CASE scenario.baseLast
      <4>1. \A j \in DOMAIN file : Foreign(file[j])
        BY <1>1, <3>2 DEF ExportInv, BaseInv
      <4>2. (\A j \in DOMAIN file : Foreign(file[j]))'
        BY <3>1, <4>1, <1>7 DEF Foreign
      <4>3. Export!Exporting'
        BY <1>2, <1>3, <1>4, <1>10, <2>2, <3>2
      <4> QED
        BY <1>1, <3>2, <4>2, <4>3 DEF BaseInv
    <3>3. CASE ~scenario.baseLast
      <4>1. PICK m \in Nat : BaseBehind(m)
        BY <3>3 DEF ExportInv, BaseInv
      <4>2. BaseBehind(m)'
        BY <3>1, <4>1, <1>7 DEF BaseBehind, Foreign
      <4> QED
        BY <1>1, <3>3, <4>2 DEF BaseInv
    <3> QED
      BY <3>2, <3>3
  <2> QED
    BY <2>1, <2>2
<1>12. LoadInv'
  <2>1. loading' = "unread" /\ table' = <<>>
    BY <1>1, UnreadYet
  <2> QED
    BY <2>1 DEF LoadInv
<1> QED
  BY <1>8, <1>9, <1>11, <1>12 DEF ExportInv

\* The entry that stands for a name is the last one with it.
LEMMA LatestIs ==
  ASSUME NEW es, es \in Seq(Export!Entry), NEW i \in DOMAIN es
  PROVE  /\ es[i].name \in DOMAIN Export!Entries(es)
         /\ \E j \in DOMAIN es : /\ j = Export!Latest(es, es[i].name)
                                 /\ es[j].name = es[i].name
                                 /\ \A k \in DOMAIN es : es[k].name = es[i].name => k <= j
                                 /\ Export!Entries(es)[es[i].name] = es[j]
<1> DEFINE T == {k \in DOMAIN es : es[k].name = es[i].name}
<1>1. DOMAIN es = 1 .. Len(es) /\ Len(es) \in Nat
  OBVIOUS
<1>2. PICK j \in T : \A k \in T : k <= j
  <2>1. T \in SUBSET (0 .. Len(es)) /\ T # {}
    BY <1>1
  <2>2. PICK n \in Nat : n = Len(es)
    BY <1>1
  <2> HIDE DEF T
  <2> QED
    BY <2>1, <2>2, GreatestNat
<1>3. \E l \in DOMAIN es : es[l].name = es[i].name /\ \A k \in DOMAIN es : es[k].name = es[i].name => k <= l
  BY <1>2
<1>4. PICK l : l = Export!Latest(es, es[i].name)
  OBVIOUS
<1>5. l \in DOMAIN es /\ es[l].name = es[i].name /\ \A k \in DOMAIN es : es[k].name = es[i].name => k <= l
  BY <1>3, <1>4 DEF Export!Latest
<1>6. es[i].name \in DOMAIN Export!Entries(es) /\ Export!Entries(es)[es[i].name] = es[l]
  BY <1>4 DEF Export!Entries
<1> QED
  BY <1>4, <1>5, <1>6

(***************************************************************************)
(* Loading leaves the file and makes a table of it, or none.               *)
(***************************************************************************)
LEMMA LoadKeeps ==
  ASSUME ExportInv, Export!Load
  PROVE  ExportInv'
<1>1. /\ ~Export!Exporting /\ loading = "unread" /\ UNCHANGED <<scenario, lib, at, file>>
      /\ IF Export!Loadable(file) THEN loading' = "read" /\ table' = Export!Entries(file)
                                  ELSE loading' = "failed" /\ table' = table
  BY DEF Export!Load
<1>2. Export!Scenario(scenario) /\ file \in Seq(Export!Entry) /\ table = <<>>
  BY <1>1 DEF ExportInv, Export!TypeOK, LoadInv
<1>3. /\ Export!Scenario(scenario)' = Export!Scenario(scenario)
      /\ Export!Defined' = Export!Defined
      /\ \A d : Export!Written(Export!Fn(d))' = Export!Written(Export!Fn(d))
      /\ Libs' = Libs /\ Base' = Base
  BY <1>1, ScenarioStays
<1>4. Export!TypeOK'
  <2>1. loading' \in {"unread", "failed", "read"}
    BY <1>1
  <2>2. \A n \in DOMAIN table' : table'[n] \in Export!Entry /\ table'[n].keys \subseteq Export!Mapped
    <3>1. CASE Export!Loadable(file)
      <4> SUFFICES ASSUME NEW n \in DOMAIN Export!Entries(file)
                   PROVE  /\ Export!Entries(file)[n] \in Export!Entry
                          /\ Export!Entries(file)[n].keys \subseteq Export!Mapped
        BY <1>1, <3>1
      <4>1. PICK i \in DOMAIN file : n = file[i].name
        BY DEF Export!Entries
      <4>2. PICK j \in DOMAIN file : Export!Entries(file)[n] = file[j]
        BY <1>2, <4>1, LatestIs
      <4>3. file[j] \in Export!Entry /\ file[j].keys \subseteq Export!Mapped
        BY <1>2, <3>1 DEF Export!Loadable
      <4> QED
        BY <4>2, <4>3
    <3>2. CASE ~Export!Loadable(file)
      <4>1. DOMAIN table' = {}
        BY <1>1, <1>2, <3>2
      <4> QED
        BY <4>1
    <3> QED
      BY <3>1, <3>2
  <2> QED
    BY <1>1, <1>3, <2>1, <2>2 DEF ExportInv, Export!TypeOK, Export!Entry, Export!Mapped
<1>5. AllWritten'
  BY <1>1, <1>3 DEF ExportInv, AllWritten, Done
<1>6. BaseInv'
  <2>1. Export!Exporting' = Export!Exporting
    BY <1>1 DEF Export!Exporting
  <2>2. PICK m \in Nat : BaseBehind(m)
    BY <1>1 DEF ExportInv, BaseInv
  <2>3. BaseBehind(m)'
    BY <1>1, <2>2, <1>3 DEF BaseBehind, Foreign
  <2> QED
    BY <1>1, <2>1, <2>3 DEF BaseInv
<1>7. LoadInv'
  <2>1. ~Export!Exporting'
    BY <1>1 DEF Export!Exporting
  <2>2. Export!Loadable(file)' = Export!Loadable(file) /\ Export!Entries(file)' = Export!Entries(file)
    BY <1>1 DEF Export!Loadable, Export!Entries, Export!Latest, Export!Mapped
  <2> QED
    BY <1>1, <1>2, <2>1, <2>2 DEF LoadInv
<1> QED
  BY <1>4, <1>5, <1>6, <1>7 DEF ExportInv

(***************************************************************************)
(* The other parts leave the export alone.                                 *)
(***************************************************************************)
LEMMA ExportRests ==
  ASSUME ExportInv, UNCHANGED exportVars
  PROVE  ExportInv'
<1>1. UNCHANGED <<scenario, lib, at, file, loading, table>>
  BY DEF exportVars
<1>2. /\ Export!Scenario(scenario)' = Export!Scenario(scenario)
      /\ Export!Defined' = Export!Defined
      /\ \A d : Export!Written(Export!Fn(d))' = Export!Written(Export!Fn(d))
      /\ Libs' = Libs /\ Base' = Base
  BY <1>1, ScenarioStays
<1>3. Export!Exporting' = Export!Exporting
  BY <1>1 DEF Export!Exporting
<1>4. Export!TypeOK'
  BY <1>1, <1>2 DEF ExportInv, Export!TypeOK, Export!Entry, Export!Mapped
<1>5. AllWritten'
  BY <1>1, <1>2 DEF ExportInv, AllWritten, Done
<1>6. BaseInv'
  BY <1>1, <1>2, <1>3 DEF ExportInv, BaseInv, BaseBehind, Foreign
<1>7. LoadInv'
  <2>1. Export!Loadable(file)' = Export!Loadable(file) /\ Export!Entries(file)' = Export!Entries(file)
    BY <1>1 DEF Export!Loadable, Export!Entries, Export!Latest, Export!Mapped
  <2> QED
    BY <1>1, <1>3, <2>1 DEF ExportInv, LoadInv
<1> QED
  BY <1>4, <1>5, <1>6, <1>7 DEF ExportInv

(***************************************************************************)
(* Once all is read, each entry of the file is one of a library or one of  *)
(* the known functions, and each function has its entry.                   *)
(***************************************************************************)
LEMMA FileIs ==
  ASSUME ExportInv, Export!IsLoaded
  PROVE  /\ \A j \in DOMAIN file : Foreign(file[j]) \/ \E i \in DOMAIN Base : file[j] = Base[i]
         /\ \A d \in Export!Defined : \E i \in DOMAIN file : file[i] = Export!Written(Export!Fn(d))
         /\ \E m \in Nat : BaseBehind(m)
<1>1. ~Export!Exporting
  BY DEF ExportInv, LoadInv, Export!IsLoaded
<1>2. /\ Export!Scenario(scenario) /\ lib \in 1 .. Len(Libs) + 1
      /\ file \in Seq(Export!Entry) /\ DOMAIN file = 1 .. Len(file) /\ Len(file) \in Nat
  <2>1. file \in Seq(Export!Entry) /\ Export!Scenario(scenario) /\ lib \in 1 .. Len(Libs) + 1
    BY DEF ExportInv, Export!TypeOK, Libs
  <2> QED
    BY <2>1
<1>3. /\ Len(Libs) \in Nat \ {0} /\ DOMAIN Libs = 1 .. Len(Libs)
      /\ Len(Base) \in Nat /\ DOMAIN Base = 1 .. Len(Base)
      /\ \A d \in Export!Defined : d[1] \in DOMAIN Libs
  BY <1>2, ScenarioIs
<1>4. lib = Len(Libs) + 1
  BY <1>1, <1>2, <1>3 DEF Export!Exporting, Libs
<1>5. PICK m \in Nat : BaseBehind(m)
  BY <1>1 DEF ExportInv, BaseInv
<1>6. ASSUME NEW j \in DOMAIN file PROVE Foreign(file[j]) \/ \E i \in DOMAIN Base : file[j] = Base[i]
  <2>1. j <= m \/ m + Len(Base) < j \/ j - m \in 1 .. Len(Base)
    BY <1>2, <1>3
  <2>2. CASE j <= m \/ m + Len(Base) < j
    BY <1>5, <2>2 DEF BaseBehind
  <2>3. CASE j - m \in 1 .. Len(Base)
    <3>1. PICK i \in DOMAIN Base : i = j - m
      BY <1>3, <2>3
    <3>2. m + i = j
      BY <1>2, <3>1
    <3> QED
      BY <1>5, <3>1, <3>2 DEF BaseBehind
  <2> QED
    BY <2>1, <2>2, <2>3
<1>7. ASSUME NEW d \in Export!Defined PROVE \E i \in DOMAIN file : file[i] = Export!Written(Export!Fn(d))
  <2>1. Done(d)
    BY <1>3, <1>4 DEF Done
  <2> QED
    BY <2>1 DEF ExportInv, AllWritten
<1> QED
  BY <1>5, <1>6, <1>7

(***************************************************************************)
(* Where names are told apart, a table that is read shows of a function    *)
(* what has been written for it.                                           *)
(***************************************************************************)
LEMMA OwnEntry ==
  ASSUME ExportInv, loading = "read", Export!OneName, NEW d \in Export!Defined
  PROVE  /\ Export!Fn(d).name \in DOMAIN table
         /\ table[Export!Fn(d).name] = Export!Written(Export!Fn(d))
<1>1. Export!Scenario(scenario) /\ file \in Seq(Export!Entry) /\ table = Export!Entries(file) /\ Export!IsLoaded
  BY DEF ExportInv, Export!TypeOK, LoadInv, Export!IsLoaded
<1>2. \A e \in Export!Defined : Export!Fn(e) \in Export!Function
  BY <1>1, ScenarioIs
<1>3. PICK i \in DOMAIN file : file[i] = Export!Written(Export!Fn(d))
  BY <1>1, FileIs
<1>4. PICK n : n = Export!Fn(d).name
  OBVIOUS
<1>5. file[i].name = n
  BY <1>2, <1>3, <1>4, WrittenIs
<1>6. n \in DOMAIN table /\ \E j \in DOMAIN file : file[j].name = n /\ table[n] = file[j]
  <2>1. /\ file[i].name \in DOMAIN Export!Entries(file)
        /\ \E j \in DOMAIN file : /\ file[j].name = file[i].name
                                  /\ Export!Entries(file)[file[i].name] = file[j]
    BY <1>1, LatestIs
  <2> QED
    BY <1>1, <1>5, <2>1
<1>7. PICK j \in DOMAIN file : file[j].name = n /\ table[n] = file[j]
  BY <1>6
<1>8. CASE Foreign(file[j])
  <2>1. PICK e \in Export!Defined : file[j] = Export!Written(Export!Fn(e))
    BY <1>8 DEF Foreign
  <2>2. Export!Fn(e).name = n
    BY <1>2, <1>7, <2>1, WrittenIs
  <2>3. e = d
    BY <1>4, <2>2 DEF Export!OneName
  <2> QED
    BY <1>4, <1>6, <1>7, <2>1, <2>3
<1>9. CASE \E k \in DOMAIN Base : file[j] = Base[k]
  BY <1>4, <1>7, <1>9 DEF Export!OneName, Base
<1> QED
  BY <1>1, <1>8, <1>9, FileIs

(***************************************************************************)
(* The invariant gives what linking would show: no entry has a key that    *)
(* the loader refuses, so the file is read, and each function is seen with *)
(* what has been written for it.                                           *)
(***************************************************************************)
LEMMA ExportLinked ==
  ASSUME ExportInv
  PROVE  Export!AsIfLinked
<1> SUFFICES ASSUME Export!IsLoaded, Export!OneName, \A d \in Export!Defined : "Recurse" \notin Export!Fn(d).effects,
                    NEW d \in Export!Defined, "Unknown" \notin Export!Fn(d).effects
             PROVE  /\ Export!Seen(Export!Fn(d).name) = Export!Fn(d).effects
                    /\ Export!HeapSeen(Export!Fn(d).name) = Export!NormalHeap <=> Export!Fn(d).heap = Export!NormalHeap
  BY DEF Export!AsIfLinked
<1>1. Export!Scenario(scenario) /\ loading \in {"unread", "failed", "read"}
  BY DEF ExportInv, Export!TypeOK
<1>2. \A e \in Export!Defined : Export!Fn(e) \in Export!Function
  BY <1>1, ScenarioIs
<1>3. ASSUME NEW j \in DOMAIN file PROVE file[j].keys \subseteq Export!Mapped
  <2>1. CASE Foreign(file[j])
    <3>1. PICK e \in Export!Defined : file[j] = Export!Written(Export!Fn(e))
      BY <2>1 DEF Foreign
    <3>2. file[j].keys = Export!Fn(e).effects \ {"Unknown"}
      BY <1>2, <3>1, WrittenIs
    <3>3. Export!Fn(e).effects \subseteq Export!AllKinds
      BY <1>2, SidesAssumption DEF Export!Function, Export!ExportAssumption
    <3> QED
      BY <3>2, <3>3 DEF Export!AllKinds, Export!Mapped
  <2>2. CASE \E i \in DOMAIN Base : file[j] = Base[i]
    BY <1>1, <2>2, ScenarioIs
  <2> QED
    BY <2>1, <2>2, FileIs
<1>4. loading = "read"
  <2>1. Export!Loadable(file)
    BY <1>3 DEF Export!Loadable
  <2> QED
    BY <1>1, <2>1 DEF ExportInv, LoadInv, Export!IsLoaded
<1>5. PICK x \in Export!Function : x = Export!Fn(d)
  BY <1>2
<1>6. x.name \in DOMAIN table /\ table[x.name] = Export!Written(x)
  BY <1>4, <1>5, OwnEntry
<1>7. table[x.name].keys = x.effects \ {"Unknown"} /\ table[x.name].heap = x.heap
  BY <1>6, WrittenIs
<1>8. x.effects \ {"Unknown"} = x.effects
  BY <1>5
<1>9. Export!Seen(x.name) = x.effects
  BY <1>6, <1>7, <1>8 DEF Export!Seen
<1>10. Export!HeapSeen(x.name) = Export!NormalHeap <=> x.heap = Export!NormalHeap
  <2>1. x.heap = Export!NormalHeap => "Alloc" \in x.effects
    BY DEF Export!Function
  <2>2. Export!HeapSeen(x.name) = IF "Alloc" \in x.effects THEN x.heap ELSE 0
    BY <1>6, <1>7, <1>8 DEF Export!HeapSeen
  <2> QED
    BY <2>1, <2>2 DEF Export!NormalHeap
<1> QED
  BY <1>5, <1>9, <1>10

(***************************************************************************)
(* The invariant gives that no effect but recursion and the unknown is     *)
(* lost: the file is read and the own entry seen, or nothing is and all is *)
(* unknown.                                                                *)
(***************************************************************************)
LEMMA ExportSilent ==
  ASSUME ExportInv
  PROVE  Export!SilentOnlyOnUnknown
<1> SUFFICES ASSUME Export!IsLoaded, Export!OneName, NEW d \in Export!Defined
             PROVE  \/ Export!Fn(d).effects \ {"Recurse", "Unknown"} \subseteq Export!Seen(Export!Fn(d).name)
                    \/ "Unknown" \in Export!Seen(Export!Fn(d).name)
  BY DEF Export!SilentOnlyOnUnknown
<1>1. PICK x \in Export!Function : x = Export!Fn(d)
  BY ScenarioIs DEF ExportInv, Export!TypeOK
<1>2. CASE loading = "read"
  <2>1. x.name \in DOMAIN table /\ table[x.name] = Export!Written(x)
    BY <1>1, <1>2, OwnEntry
  <2>2. table[x.name].keys = x.effects \ {"Unknown"}
    BY <2>1, WrittenIs
  <2> QED
    BY <1>1, <2>1, <2>2 DEF Export!Seen
<1>3. CASE loading # "read"
  <2>1. DOMAIN table = {}
    BY <1>3 DEF ExportInv, LoadInv
  <2> QED
    BY <2>1 DEF Export!Seen
<1> QED
  BY <1>2, <1>3

(***************************************************************************)
(* The invariant gives that known functions stay known: the last entry of  *)
(* such a name is one of the known functions, since no library writes it.  *)
(***************************************************************************)
LEMMA ExportKnown ==
  ASSUME ExportInv
  PROVE  Export!KnownStaysKnown
<1> SUFFICES ASSUME loading = "read",
                    \A d \in Export!Defined, i \in DOMAIN Base : Export!Fn(d).name # Base[i].name,
                    NEW i \in DOMAIN Base,
                    \A j \in DOMAIN Base : j > i => Base[j].name # Base[i].name
             PROVE  Export!Seen(Base[i].name) = Base[i].keys
  BY DEF Export!KnownStaysKnown, Base
<1>1. /\ Export!Scenario(scenario) /\ file \in Seq(Export!Entry) /\ table = Export!Entries(file) /\ Export!IsLoaded
      /\ DOMAIN file = 1 .. Len(file) /\ Len(file) \in Nat
  <2>1. Export!Scenario(scenario) /\ file \in Seq(Export!Entry) /\ table = Export!Entries(file) /\ Export!IsLoaded
    BY DEF ExportInv, Export!TypeOK, LoadInv, Export!IsLoaded
  <2> QED
    BY <2>1
<1>2. /\ Len(Base) \in Nat /\ DOMAIN Base = 1 .. Len(Base)
      /\ \A d \in Export!Defined : Export!Fn(d) \in Export!Function
  BY <1>1, ScenarioIs
<1>3. PICK m \in Nat : BaseBehind(m)
  BY <1>1, FileIs
<1>4. m + i \in DOMAIN file /\ file[m + i] = Base[i]
  BY <1>1, <1>2, <1>3 DEF BaseBehind
<1>5. PICK n : n = Base[i].name
  OBVIOUS
<1>6. PICK j \in DOMAIN file : /\ file[j].name = n
                              /\ \A k \in DOMAIN file : file[k].name = n => k <= j
                              /\ n \in DOMAIN table /\ table[n] = file[j]
  <2>1. PICK p \in DOMAIN file : p = m + i
    BY <1>4
  <2>2. file[p].name = n
    BY <1>4, <1>5, <2>1
  <2>3. /\ file[p].name \in DOMAIN Export!Entries(file)
        /\ \E j \in DOMAIN file : /\ file[j].name = file[p].name
                                  /\ \A k \in DOMAIN file : file[k].name = file[p].name => k <= j
                                  /\ Export!Entries(file)[file[p].name] = file[j]
    BY <1>1, LatestIs
  <2> QED
    BY <1>1, <2>2, <2>3
<1>7. ~Foreign(file[j])
  <2> SUFFICES ASSUME NEW d \in Export!Defined, file[j] = Export!Written(Export!Fn(d)) PROVE FALSE
    BY DEF Foreign
  <2>1. Export!Fn(d).name = n
    BY <1>2, <1>6, WrittenIs
  <2> QED
    BY <1>5, <2>1
<1>8. j - m \in 1 .. Len(Base)
  <2>1. ~(j <= m \/ m + Len(Base) < j)
    BY <1>3, <1>7 DEF BaseBehind
  <2> QED
    BY <1>1, <1>2, <2>1
<1>9. PICK q \in DOMAIN Base : q = j - m
  BY <1>2, <1>8
<1>10. m + q = j
  BY <1>1, <1>9
<1>11. Base[q] = file[j]
  BY <1>3, <1>9, <1>10 DEF BaseBehind
<1>12. m + i <= j
  BY <1>4, <1>5, <1>6
<1>13. q = i
  BY <1>2, <1>5, <1>6, <1>10, <1>11, <1>12
<1> QED
  BY <1>5, <1>6, <1>11, <1>13 DEF Export!Seen

(***************************************************************************)
(* The export, for any libraries and known functions: a module that is     *)
(* analysed with the exports of others sees of their functions what        *)
(* linking would show where nothing is recursive or unknown, loses no      *)
(* known effect in silence, and the exports change nothing of the          *)
(* functions known before.                                                 *)
(***************************************************************************)
THEOREM AlwaysAsIfLinked == Spec => []AsIfLinked
<1> DEFINE I == part = "export" => ExportInv
<1>1. Init => I
  BY ExportStarts DEF Init
<1>2. I /\ [Next]_vars => I'
  <2> SUFFICES ASSUME I, [Next]_vars, part' = "export" PROVE ExportInv'
    OBVIOUS
  <2>1. CASE ExportStep
    BY <2>1, ExportKeeps, JoinKeeps, LoadKeeps DEF ExportStep, Export!Next
  <2>2. CASE UNCHANGED vars
    BY <2>2, ExportRests DEF vars
  <2> QED
    BY <2>1, <2>2 DEF Next, RegionStep, PolyStep, CodecStep
<1>3. I => AsIfLinked
  BY ExportLinked, ExportSilent, ExportKnown DEF AsIfLinked
<1> QED
  BY <1>1, <1>2, <1>3, PTL DEF Spec

-----------------------------------------------------------------------------
(* The pass over the callers of polymorphic functions.                    *)

\* All that x has y has, too.
Covers(y, x) == Poly!Effects(x) \subseteq Poly!Effects(y) /\ x.heap <= y.heap

\* What the i-th call of f passes for an argument that is called.
PassedAt(f, i) == {a \in Funcs : \E n \in Poly!Args : n \in in.poly[in.calls[f][i].callee]
                                                      /\ in.calls[f][i].passes[n] = a}

GoneOver(f, i) == Poly!Position(f) < pos \/ (Poly!Position(f) = pos /\ i < call)
FinalFor(f, a)  == Poly!Passed(a) = {} \/ a = f \/ Poly!Position(a) < Poly!Position(f)

\* Nothing that the loop has left is taken back, nothing is made up.
Keeps   == \A f \in Funcs : Covers(summ[f], in.base[f])
Sourced == \A f \in Funcs : /\ \A k \in Poly!Effects(summ[f]) : \E g \in Poly!Closure(f) : k \in Poly!Effects(in.base[g])
                            /\ \E g \in Poly!Closure(f) : summ[f].heap = in.base[g].heap

\* A function that passes nothing is left alone.
LeftAlone == \A f \in Funcs : Poly!Passed(f) = {} => summ[f] = in.base[f]

\* What a call gone over passes has been taken up, as it is now if it was done by then.
TakenUp == \A f \in Funcs : \A i \in DOMAIN in.calls[f] : \A a \in PassedAt(f, i) :
              GoneOver(f, i) => Covers(summ[f], in.base[a]) /\ (FinalFor(f, a) => Covers(summ[f], summ[a]))

PolyInv == /\ Poly!TypeOK
           /\ Keeps
           /\ Sourced
           /\ LeftAlone
           /\ TakenUp
           /\ Poly!PathsGenuine

(***************************************************************************)
(* What Given says, field by field.                                        *)
(***************************************************************************)
LEMMA GivenIs ==
  ASSUME Poly!Given(in)
  PROVE  /\ \A f \in Funcs : in.base[f] \in Poly!Summary /\ in.base[f] \in Poly!PolySummary
         /\ \A f \in Funcs : in.calls[f] \in Seq(Poly!PolyCall) /\ DOMAIN in.calls[f] = 1 .. Len(in.calls[f])
         /\ \A f \in Funcs : \A i \in DOMAIN in.calls[f] : in.calls[f][i].callee \in Funcs
         /\ \A f \in Funcs : in.poly[f] \subseteq Poly!Args
         /\ Len(in.order) \in Nat /\ DOMAIN in.order = 1 .. Len(in.order)
         /\ \A i \in DOMAIN in.order : in.order[i] \in Funcs /\ Poly!Position(in.order[i]) = i
         /\ \A f \in Funcs : Poly!Position(f) \in DOMAIN in.order /\ in.order[Poly!Position(f)] = f
<1>1. /\ in.base \in [Funcs -> Poly!Summary] /\ in.calls \in [Funcs -> Seq(Poly!PolyCall)]
      /\ in.poly \in [Funcs -> SUBSET Poly!Args] /\ in.order \in Seq(Funcs)
      /\ \A f \in Funcs : \E i \in DOMAIN in.order : in.order[i] = f
      /\ \A i, j \in DOMAIN in.order : in.order[i] = in.order[j] => i = j
  BY DEF Poly!Given
<1>2. \A f \in Funcs : in.base[f] \in Poly!Summary
  BY <1>1
<1>3. Poly!Summary \subseteq Poly!PolySummary
  <2>1. Poly!Chain \subseteq Poly!PolyChain
    BY DEF Poly!Chain, Poly!PolyChain
  <2> QED
    BY <2>1 DEF Poly!Summary, Poly!PolySummary
<1>4. ASSUME NEW f \in Funcs PROVE Poly!Position(f) \in DOMAIN in.order /\ in.order[Poly!Position(f)] = f
  BY <1>1 DEF Poly!Position
<1>5. ASSUME NEW i \in DOMAIN in.order PROVE in.order[i] \in Funcs /\ Poly!Position(in.order[i]) = i
  <2>1. in.order[i] \in Funcs
    BY <1>1
  <2> QED
    BY <2>1, <1>1, <1>4
<1>6. ASSUME NEW f \in Funcs, NEW i \in DOMAIN in.calls[f] PROVE in.calls[f][i].callee \in Funcs
  <2>1. in.calls[f][i] \in Poly!PolyCall
    BY <1>1
  <2> QED
    BY <2>1 DEF Poly!PolyCall
<1>7. \A f \in Funcs : in.calls[f] \in Seq(Poly!PolyCall) /\ DOMAIN in.calls[f] = 1 .. Len(in.calls[f])
  BY <1>1
<1>8. \A f \in Funcs : in.poly[f] \subseteq Poly!Args
  BY <1>1
<1>9. Len(in.order) \in Nat /\ DOMAIN in.order = 1 .. Len(in.order)
  BY <1>1
<1> QED
  BY <1>2, <1>3, <1>4, <1>5, <1>6, <1>7, <1>8, <1>9

\* Passed, call by call.
LEMMA PassedIs ==
  ASSUME NEW f
  PROVE  /\ Poly!Passed(f) \subseteq Funcs
         /\ \A a \in Poly!Passed(f) : \E i \in DOMAIN in.calls[f] : a \in PassedAt(f, i)
         /\ \A i \in DOMAIN in.calls[f] : PassedAt(f, i) \subseteq Poly!Passed(f)
BY DEF Poly!Passed, PassedAt

(***************************************************************************)
(* The closure is the least set with f that is closed under passing.       *)
(***************************************************************************)
LEMMA ClosureIs ==
  ASSUME NEW f \in Funcs
  PROVE  /\ f \in Poly!Closure(f) /\ Poly!Closure(f) \subseteq Funcs
         /\ \A g \in Poly!Closure(f) : Poly!Passed(g) \subseteq Poly!Closure(f)
         /\ \A S \in SUBSET Funcs : f \in S /\ (\A g \in S : Poly!Passed(g) \subseteq S) => Poly!Closure(f) \subseteq S
<1>1. f \in Poly!Closure(f) /\ Poly!Closure(f) \subseteq Funcs
  BY DEF Poly!Closure
<1>2. ASSUME NEW g \in Poly!Closure(f), NEW a \in Poly!Passed(g) PROVE a \in Poly!Closure(f)
  <2> SUFFICES ASSUME NEW S \in SUBSET (Funcs \ {a}), f \in S, \A h \in S : Poly!Passed(h) \subseteq S
               PROVE  FALSE
    BY PassedIs DEF Poly!Closure
  <2>1. g \in S
    <3>1. CASE g \notin S
      <4>1. S \in SUBSET (Funcs \ {g})
        BY <3>1
      <4> QED
        BY <4>1 DEF Poly!Closure
    <3> QED
      BY <3>1
  <2> QED
    BY <2>1
<1>3. ASSUME NEW S \in SUBSET Funcs, f \in S, \A g \in S : Poly!Passed(g) \subseteq S, NEW g \in Poly!Closure(f)
      PROVE  g \in S
  <2>1. CASE g \notin S
    <3>1. S \in SUBSET (Funcs \ {g})
      BY <2>1
    <3> QED
      BY <1>3, <3>1 DEF Poly!Closure
  <2> QED
    BY <2>1
<1> QED
  BY <1>1, <1>2, <1>3

\* What is reached from a function that is reached is reached.
LEMMA ClosureGrows ==
  ASSUME NEW f \in Funcs, NEW g \in Poly!Closure(f)
  PROVE  Poly!Closure(g) \subseteq Poly!Closure(f)
<1>1. g \in Funcs /\ Poly!Closure(f) \in SUBSET Funcs
  BY ClosureIs
<1>2. \A h \in Poly!Closure(f) : Poly!Passed(h) \subseteq Poly!Closure(f)
  BY ClosureIs
<1> QED
  BY <1>1, <1>2, ClosureIs

\* The worst of some heap kinds is one of them.
LEMMA WorstIs ==
  ASSUME NEW S, S \in SUBSET Poly!HeapKinds, S # {}
  PROVE  Poly!Worst(S) \in S /\ \A h \in S : h <= Poly!Worst(S)
<1>1. S \in SUBSET (0 .. 4)
  BY DEF Poly!HeapKinds
<1>2. \E h \in S : \A g \in S : g <= h
  BY <1>1, GreatestNat
<1> QED
  BY <1>2 DEF Poly!Worst


(***************************************************************************)
(* What taking up a function does, field by field.                         *)
(***************************************************************************)
LEMMA TakeIs ==
  ASSUME summ \in [Funcs -> Poly!PolySummary], NEW f \in Funcs, NEW a \in Funcs,
         NEW x, x \in Poly!PolySummary, NEW y, y = Poly!Take(x, f, a)
  PROVE  /\ y \in Poly!PolySummary
         /\ Covers(y, x) /\ Covers(y, summ[a])
         /\ \A k \in Kinds : \/ y.chain[k] = x.chain[k]
                             \/ Poly!Carries(summ[a], k) /\ y.chain[k] = Poly!PassedOn(f, a, summ[a].chain[k])
         /\ \/ y.heap = x.heap /\ y.heapChain = x.heapChain
            \/ y.heap = summ[a].heap /\ y.heapChain = Poly!PassedOn(f, a, summ[a].heapChain)
<1> DEFINE Got(k) == IF Poly!Carries(summ[a], k) /\ x.chain[k] = <<>>
                     THEN Poly!PassedOn(f, a, summ[a].chain[k]) ELSE x.chain[k]
           t == Poly!TakeFlags(x, f, a)
<1>1. /\ x.chain \in [Kinds -> Poly!PolyChain] /\ x.heap \in 0 .. 4 /\ x.heapChain \in Poly!PolyChain
      /\ summ[a].chain \in [Kinds -> Poly!PolyChain] /\ summ[a].heap \in 0 .. 4 /\ summ[a].heapChain \in Poly!PolyChain
  <2>1. summ[a] \in Poly!PolySummary
    OBVIOUS
  <2> QED
    BY <2>1 DEF Poly!PolySummary, Poly!HeapKinds
<1>2. ASSUME NEW ch, ch \in Poly!PolyChain
      PROVE  Poly!PassedOn(f, a, ch) \in Poly!PolyChain /\ Poly!PassedOn(f, a, ch) # <<>>
  <2>1. [fn |-> f, callee |-> a, kind |-> Poly!Callbacks] \in Poly!PolyFrame
    BY DEF Poly!PolyFrame
  <2>2. PICK e \in Poly!Frame \cup Poly!PolyFrame : e = [fn |-> f, callee |-> a, kind |-> Poly!Callbacks]
    BY <2>1
  <2>3. ch \in Seq(Poly!Frame \cup Poly!PolyFrame)
    BY <1>2 DEF Poly!PolyChain
  <2>4. <<e>> \o ch \in Seq(Poly!Frame \cup Poly!PolyFrame) /\ <<e>> \o ch # <<>>
    BY <2>3
  <2> QED
    BY <2>2, <2>4 DEF Poly!PassedOn, Poly!PolyChain
<1>3. t.chain = [k \in Kinds |-> Got(k)] /\ t.heap = x.heap /\ t.heapChain = x.heapChain /\ t \in Poly!PolySummary
  <2>1. t = [x EXCEPT !.chain = [k \in Kinds |-> Got(k)]]
    BY DEF Poly!TakeFlags
  <2>2. [k \in Kinds |-> Got(k)] \in [Kinds -> Poly!PolyChain]
    BY <1>1, <1>2
  <2> HIDE DEF Got, t
  <2> QED
    BY <2>1, <2>2 DEF Poly!PolySummary
<1>4. y = IF summ[a].heap > x.heap
          THEN [t EXCEPT !.heap = summ[a].heap, !.heapChain = Poly!PassedOn(f, a, summ[a].heapChain)]
          ELSE t
  BY DEF Poly!Take
<1>5. /\ y \in Poly!PolySummary /\ y.chain = [k \in Kinds |-> Got(k)]
      /\ IF summ[a].heap > x.heap
         THEN y.heap = summ[a].heap /\ y.heapChain = Poly!PassedOn(f, a, summ[a].heapChain)
         ELSE y.heap = x.heap /\ y.heapChain = x.heapChain
  <2> HIDE DEF Got, t
  <2>1. Poly!PassedOn(f, a, summ[a].heapChain) \in Poly!PolyChain
    BY <1>1, <1>2
  <2> QED
    BY <1>1, <1>3, <1>4, <2>1 DEF Poly!PolySummary, Poly!HeapKinds
<1>6. \A k \in Kinds : y.chain[k] = Got(k)
  BY <1>5
<1>7. \A k \in Kinds : (x.chain[k] # <<>> => y.chain[k] # <<>>) /\ (Poly!Carries(summ[a], k) => y.chain[k] # <<>>)
  BY <1>1, <1>2, <1>6 DEF Poly!Carries
<1>8. Covers(y, x) /\ Covers(y, summ[a])
  BY <1>1, <1>5, <1>7 DEF Covers, Poly!Effects, Poly!Carries
<1> QED
  BY <1>5, <1>6, <1>8


\* What the n-th argument of the call at hand makes of a summary.
Taken(x, n) == IF n - 1 \in in.poly[Poly!Call.callee] /\ Poly!Call.passes[n - 1] \in Funcs
               THEN Poly!Take(x, Poly!Cur, Poly!Call.passes[n - 1])
               ELSE x

PolySummaries == Poly!PolySummary

(***************************************************************************)
(* The recursion of which Resolved is the last value has one.              *)
(***************************************************************************)
LEMMA ResolvedAlong ==
  ASSUME Poly!TypeOK, Poly!Here
  PROVE  \E g : /\ Poly!Resolved = g[MaxArg + 1]
                /\ g \in [0 .. MaxArg + 1 -> Poly!PolySummary]
                /\ g[0] = summ[Poly!Cur]
                /\ \A n \in 1 .. MaxArg + 1 : g[n] = Taken(g[n - 1], n)
<1>1. MaxArg \in Nat
  BY SidesAssumption DEF Poly!PolyAssumption
<1>2. Poly!Cur \in Funcs /\ summ \in [Funcs -> Poly!PolySummary] /\ summ[Poly!Cur] \in Poly!PolySummary
  <2>1. Poly!Given(in) /\ pos \in 1 .. Len(in.order) + 1 /\ summ \in [Funcs -> Poly!PolySummary]
    BY DEF Poly!TypeOK
  <2>2. Poly!Cur \in Funcs
    BY <2>1, GivenIs DEF Poly!Here, Poly!Finished, Poly!Cur
  <2> QED
    BY <2>1, <2>2
<1>3. \A n \in Nat : \A x \in Poly!PolySummary : Taken(x, n) \in Poly!PolySummary
  BY <1>2, TakeIs DEF Taken
<1> DEFINE F == [n \in Nat |-> [x \in Poly!PolySummary |-> Taken(x, n)]]
<1>4. F \in [Nat -> [Poly!PolySummary -> Poly!PolySummary]]
  BY <1>3
<1>5. \E g \in [0 .. MaxArg + 1 -> Poly!PolySummary] : g[0] = summ[Poly!Cur] /\ \A n \in 1 .. MaxArg + 1 : g[n] = F[n][g[n - 1]]
  <2> DEFINE m == MaxArg + 1
             e == summ[Poly!Cur]
  <2>1. F \in [Nat -> [PolySummaries -> PolySummaries]] /\ m \in Nat /\ e \in PolySummaries
    BY <1>1, <1>2, <1>4 DEF PolySummaries
  <2>2. \E g \in [0 .. m -> PolySummaries] : g[0] = e /\ \A n \in 1 .. m : g[n] = F[n][g[n - 1]]
    <3> HIDE DEF F, m, e
    <3> QED
      BY ONLY <2>1, RecursionExists, Z3
  <2> QED
    BY <2>2 DEF PolySummaries
<1>6. PICK g \in [0 .. MaxArg + 1 -> Poly!PolySummary] :
             g[0] = summ[Poly!Cur] /\ \A n \in 1 .. MaxArg + 1 : g[n] = F[n][g[n - 1]]
  BY <1>5
<1>7. ASSUME NEW n \in 1 .. MaxArg + 1 PROVE g[n] = Taken(g[n - 1], n)
  <2>1. n \in Nat /\ n - 1 \in 0 .. MaxArg + 1
    BY <1>1
  <2>2. g[n - 1] \in Poly!PolySummary
    BY <2>1, <1>6
  <2> QED
    BY <1>6, <2>1, <2>2
<1> DEFINE Body(after) ==
             [n \in 0 .. MaxArg + 1 |->
                IF n = 0 THEN summ[Poly!Cur]
                ELSE IF n - 1 \in in.poly[Poly!Call.callee] /\ Poly!Call.passes[n - 1] \in Funcs
                     THEN Poly!Take(after[n - 1], Poly!Cur, Poly!Call.passes[n - 1])
                     ELSE after[n - 1]]
           after == CHOOSE after : after = Body(after)
<1>8. g = Body(g)
  <2>1. ASSUME NEW n \in 0 .. MaxArg + 1 PROVE g[n] = Body(g)[n]
    <3>1. CASE n = 0
      BY <3>1, <1>6
    <3>2. CASE n # 0
      <4>1. n \in 1 .. MaxArg + 1
        BY <3>2, <1>1
      <4> QED
        BY <3>2, <4>1, <1>7 DEF Taken
    <3> QED
      BY <3>1, <3>2
  <2> QED
    BY <2>1
<1>9. after = Body(after)
  <2> HIDE DEF Body
  <2> QED
    BY <1>8
<1>10. Poly!Resolved = after[MaxArg + 1]
  BY DEF Poly!Resolved
<1> HIDE DEF after
<1>11. after[0] = summ[Poly!Cur] /\ \A n \in 1 .. MaxArg + 1 : after[n] = Taken(after[n - 1], n)
  <2>1. after[0] = Body(after)[0]
    BY <1>9
  <2>2. ASSUME NEW n \in 1 .. MaxArg + 1 PROVE after[n] = Taken(after[n - 1], n)
    <3>1. n \in 0 .. MaxArg + 1 /\ n # 0
      BY <1>1
    <3>2. after[n] = Body(after)[n]
      BY <1>9
    <3> QED
      BY <3>1, <3>2 DEF Taken
  <2> QED
    BY <2>1, <2>2, <1>1
<1>12. \A n \in 0 .. MaxArg + 1 : after[n] \in Poly!PolySummary
  <2> DEFINE S == {n \in 0 .. MaxArg + 1 : after[n] \in Poly!PolySummary}
  <2>1. 0 \in S
    BY <1>1, <1>2, <1>11
  <2>2. ASSUME NEW n \in 0 .. MaxArg, n \in S PROVE n + 1 \in S
    <3>1. n + 1 \in 1 .. MaxArg + 1 /\ n + 1 - 1 = n
      BY <1>1
    <3>2. after[n + 1] = Taken(after[n], n + 1)
      BY <3>1, <1>11
    <3> QED
      BY <1>1, <1>3, <2>2, <3>1, <3>2
  <2>3. 0 .. MaxArg + 1 \subseteq S
    <3> HIDE DEF S
    <3>1. \A n \in 0 .. (MaxArg + 1) - 1 : n \in S => n + 1 \in S
      BY <2>2, <1>1
    <3> QED
      BY <2>1, <3>1, <1>1, SegmentInduction
  <2> QED
    BY <2>3
<1>13. after = [n \in 0 .. MaxArg + 1 |-> after[n]]
  BY <1>9
<1> HIDE DEF Body
<1>14. after \in [0 .. MaxArg + 1 -> Poly!PolySummary]
  BY <1>12, <1>13
<1> QED
  BY <1>10, <1>11, <1>14


\* x is the summary of the current function after the functions in A are taken up.
HasTaken(x, A) ==
  /\ Covers(x, summ[Poly!Cur])
  /\ \A a \in A : Covers(x, summ[a])
  /\ \A k \in Kinds : \/ x.chain[k] = summ[Poly!Cur].chain[k]
                      \/ \E a \in A : Poly!Carries(summ[a], k)
                                      /\ x.chain[k] = Poly!PassedOn(Poly!Cur, a, summ[a].chain[k])
  /\ \/ x.heap = summ[Poly!Cur].heap /\ x.heapChain = summ[Poly!Cur].heapChain
     \/ \E a \in A : x.heap = summ[a].heap /\ x.heapChain = Poly!PassedOn(Poly!Cur, a, summ[a].heapChain)

(***************************************************************************)
(* One function more is taken up.                                          *)
(***************************************************************************)
LEMMA TakeMore ==
  ASSUME summ \in [Funcs -> Poly!PolySummary], Poly!Cur \in Funcs, NEW x, x \in Poly!PolySummary,
         NEW A, A \in SUBSET Funcs, HasTaken(x, A), NEW a \in Funcs
  PROVE  HasTaken(Poly!Take(x, Poly!Cur, a), A \cup {a})
<1>1. PICK y : y = Poly!Take(x, Poly!Cur, a)
  OBVIOUS
<1>2. /\ y \in Poly!PolySummary
      /\ Covers(y, x) /\ Covers(y, summ[a])
      /\ \A k \in Kinds : \/ y.chain[k] = x.chain[k]
                          \/ Poly!Carries(summ[a], k) /\ y.chain[k] = Poly!PassedOn(Poly!Cur, a, summ[a].chain[k])
      /\ \/ y.heap = x.heap /\ y.heapChain = x.heapChain
         \/ y.heap = summ[a].heap /\ y.heapChain = Poly!PassedOn(Poly!Cur, a, summ[a].heapChain)
  BY <1>1, TakeIs
<1>3. ASSUME NEW f \in Funcs, Covers(x, summ[f]) PROVE Covers(y, summ[f])
  <2>1. x.heap \in Int /\ y.heap \in Int /\ summ[f].heap \in Int
    <3>1. summ[f] \in Poly!PolySummary
      OBVIOUS
    <3> QED
      BY <1>2, <3>1 DEF Poly!PolySummary, Poly!HeapKinds
  <2> QED
    BY <1>2, <1>3, <2>1 DEF Covers
<1>4. Covers(y, summ[Poly!Cur]) /\ \A b \in A \cup {a} : Covers(y, summ[b])
  BY <1>2, <1>3 DEF HasTaken
<1>5. ASSUME NEW k \in Kinds
      PROVE  \/ y.chain[k] = summ[Poly!Cur].chain[k]
             \/ \E b \in A \cup {a} : Poly!Carries(summ[b], k)
                                      /\ y.chain[k] = Poly!PassedOn(Poly!Cur, b, summ[b].chain[k])
  BY <1>2 DEF HasTaken
<1>6. \/ y.heap = summ[Poly!Cur].heap /\ y.heapChain = summ[Poly!Cur].heapChain
      \/ \E b \in A \cup {a} : y.heap = summ[b].heap /\ y.heapChain = Poly!PassedOn(Poly!Cur, b, summ[b].heapChain)
  BY <1>2 DEF HasTaken
<1> QED
  BY <1>1, <1>4, <1>5, <1>6 DEF HasTaken

(***************************************************************************)
(* The summary of the current function after the call at hand.             *)
(***************************************************************************)
LEMMA ResolvedIs ==
  ASSUME Poly!TypeOK, Poly!Here
  PROVE  /\ Poly!Cur \in Funcs /\ Poly!Resolved \in Poly!PolySummary
         /\ HasTaken(Poly!Resolved, PassedAt(Poly!Cur, call))
<1>1. MaxArg \in Nat
  BY SidesAssumption DEF Poly!PolyAssumption
<1>2. Poly!Cur \in Funcs /\ summ \in [Funcs -> Poly!PolySummary] /\ summ[Poly!Cur] \in Poly!PolySummary
  <2>1. Poly!Given(in) /\ pos \in 1 .. Len(in.order) + 1 /\ summ \in [Funcs -> Poly!PolySummary]
    BY DEF Poly!TypeOK
  <2>2. Poly!Cur \in Funcs
    BY <2>1, GivenIs DEF Poly!Here, Poly!Finished, Poly!Cur
  <2> QED
    BY <2>1, <2>2
<1>3. PICK g \in [0 .. MaxArg + 1 -> Poly!PolySummary] :
        Poly!Resolved = g[MaxArg + 1] /\ g[0] = summ[Poly!Cur] /\ \A n \in 1 .. MaxArg + 1 : g[n] = Taken(g[n - 1], n)
  BY ResolvedAlong
<1> DEFINE A(n) == {a \in Funcs : \E j \in 0 .. n - 1 : j \in in.poly[Poly!Call.callee] /\ Poly!Call.passes[j] = a}
           S == {n \in 0 .. MaxArg + 1 : HasTaken(g[n], A(n))}
<1>4. 0 \in S
  <2>1. Covers(summ[Poly!Cur], summ[Poly!Cur])
    <3>1. summ[Poly!Cur].heap \in Int
      BY <1>2 DEF Poly!PolySummary, Poly!HeapKinds
    <3> QED
      BY <3>1 DEF Covers
  <2>2. A(0) = {}
    OBVIOUS
  <2> HIDE DEF A
  <2>3. HasTaken(g[0], A(0))
    BY <1>3, <2>1, <2>2 DEF HasTaken
  <2> QED
    BY <1>1, <2>3
<1>5. ASSUME NEW n \in 0 .. MaxArg, n \in S PROVE n + 1 \in S
  <2>1. n + 1 \in 1 .. MaxArg + 1 /\ n + 1 - 1 = n /\ n + 1 \in 0 .. MaxArg + 1 /\ n \in 0 .. MaxArg + 1
    BY <1>1
  <2>2. g[n + 1] = Taken(g[n], n + 1) /\ g[n] \in Poly!PolySummary /\ HasTaken(g[n], A(n))
    BY <1>3, <1>5, <2>1
  <2>3. CASE n \in in.poly[Poly!Call.callee] /\ Poly!Call.passes[n] \in Funcs
    <3>1. g[n + 1] = Poly!Take(g[n], Poly!Cur, Poly!Call.passes[n])
      BY <2>1, <2>2, <2>3 DEF Taken
    <3>2. A(n + 1) = A(n) \cup {Poly!Call.passes[n]}
      BY <2>3, <2>1
    <3>3. A(n) \in SUBSET Funcs
      OBVIOUS
    <3> HIDE DEF A
    <3>4. HasTaken(g[n + 1], A(n + 1))
      BY <1>2, <2>2, <2>3, <3>1, <3>2, <3>3, TakeMore
    <3> QED
      BY <2>1, <3>4
  <2>4. CASE ~(n \in in.poly[Poly!Call.callee] /\ Poly!Call.passes[n] \in Funcs)
    <3>1. g[n + 1] = g[n]
      BY <2>1, <2>2, <2>4 DEF Taken
    <3>2. A(n + 1) = A(n)
      BY <2>4, <2>1
    <3> HIDE DEF A
    <3> QED
      BY <2>1, <2>2, <3>1, <3>2
  <2> QED
    BY <2>3, <2>4
<1>6. MaxArg + 1 \in S
  <2> HIDE DEF S
  <2>1. \A n \in 0 .. (MaxArg + 1) - 1 : n \in S => n + 1 \in S
    BY <1>5, <1>1
  <2>2. 0 .. MaxArg + 1 \subseteq S
    BY <1>4, <2>1, <1>1, SegmentInduction
  <2> QED
    BY <2>2, <1>1
<1>7. A(MaxArg + 1) = PassedAt(Poly!Cur, call)
  <2>1. PICK c : c = Poly!Call
    OBVIOUS
  <2>2. c = in.calls[Poly!Cur][call] /\ Poly!Args = 0 .. (MaxArg + 1) - 1
    BY <1>1, <2>1 DEF Poly!Call, Poly!Args
  <2>3. ASSUME NEW a
        PROVE  a \in A(MaxArg + 1) <=> a \in Funcs /\ \E j \in Poly!Args : j \in in.poly[c.callee] /\ c.passes[j] = a
    <3>1. a \in A(MaxArg + 1) <=> a \in Funcs /\ \E j \in 0 .. (MaxArg + 1) - 1 : j \in in.poly[c.callee] /\ c.passes[j] = a
      BY <2>1, Zenon
    <3> QED
      BY <3>1, <2>2
  <2> QED
    BY <2>2, <2>3, Zenon DEF PassedAt
<1>8. HasTaken(g[MaxArg + 1], A(MaxArg + 1)) /\ g[MaxArg + 1] \in Poly!PolySummary
  BY <1>6, <1>3, <1>1
<1> HIDE DEF A
<1> QED
  BY <1>2, <1>3, <1>7, <1>8


(***************************************************************************)
(* A chain of the propagation loop is a path.                              *)
(***************************************************************************)
LEMMA PathOfLoop ==
  ASSUME NEW f, NEW base, NEW ch, ch \in Poly!PolyChain, base[f] = ch
  PROVE  Poly!RealPath(f, ch, base)
<1>1. Len(ch) \in Nat /\ ch = SubSeq(ch, 1, Len(ch))
  BY DEF Poly!PolyChain
<1>2. Poly!Reached(f, ch, 0) = f
  BY DEF Poly!Reached
<1>3. 0 \in 0 .. Len(ch) /\ 1 .. 0 = {} /\ 0 + 1 = 1
  BY <1>1
<1> QED
  BY <1>1, <1>2, <1>3 DEF Poly!RealPath

(***************************************************************************)
(* A path with the frame of a function in front that passes its beginning. *)
(***************************************************************************)
LEMMA PathLonger ==
  ASSUME NEW f, NEW a \in Poly!Passed(f), NEW base, NEW ch, ch \in Poly!PolyChain, Poly!RealPath(a, ch, base)
  PROVE  Poly!RealPath(f, Poly!PassedOn(f, a, ch), base)
<1> DEFINE e    == [fn |-> f, callee |-> a, kind |-> Poly!Callbacks]
           long == Poly!PassedOn(f, a, ch)
<1>1. Len(ch) \in Nat /\ ch \in Seq(Poly!Frame \cup Poly!PolyFrame)
  BY DEF Poly!PolyChain
<1>2. /\ Len(long) = Len(ch) + 1 /\ long[1] = e
      /\ \A i \in 1 .. Len(ch) : long[i + 1] = ch[i]
      /\ long \in Seq((Poly!Frame \cup Poly!PolyFrame) \cup {e})
  <2>1. long = <<e>> \o ch
    BY DEF Poly!PassedOn
  <2>2. ch \in Seq((Poly!Frame \cup Poly!PolyFrame) \cup {e}) /\ <<e>> \in Seq((Poly!Frame \cup Poly!PolyFrame) \cup {e})
    BY <1>1
  <2> HIDE DEF e, long
  <2> QED
    BY <1>1, <2>1, <2>2
<1>3. PICK n \in 0 .. Len(ch) :
        /\ \A i \in 1 .. n : /\ ch[i].kind = Poly!Callbacks
                             /\ ch[i].fn = Poly!Reached(a, ch, i - 1)
                             /\ ch[i].callee \in Poly!Passed(ch[i].fn)
        /\ base[Poly!Reached(a, ch, n)] = SubSeq(ch, n + 1, Len(ch))
  BY DEF Poly!RealPath
<1>4. n \in Nat /\ n + 1 \in 0 .. Len(long)
  BY <1>1, <1>2
<1>5. e.kind = Poly!Callbacks /\ e.fn = f /\ e.callee = a
  OBVIOUS
<1> HIDE DEF e, long
<1>6. ASSUME NEW i \in 0 .. Len(ch) PROVE Poly!Reached(f, long, i + 1) = Poly!Reached(a, ch, i)
  <2>1. CASE i = 0
    BY <2>1, <1>2, <1>5 DEF Poly!Reached
  <2>2. CASE i # 0
    BY <2>2, <1>1, <1>2 DEF Poly!Reached
  <2> QED
    BY <2>1, <2>2
<1>7. ASSUME NEW i \in 1 .. n + 1
      PROVE  /\ long[i].kind = Poly!Callbacks
             /\ long[i].fn = Poly!Reached(f, long, i - 1)
             /\ long[i].callee \in Poly!Passed(long[i].fn)
  <2>1. CASE i = 1
    BY <2>1, <1>2, <1>5 DEF Poly!Reached
  <2>2. CASE i # 1
    <3>1. PICK j \in 1 .. n : i = j + 1
      <4>1. i - 1 \in 1 .. n /\ i = i - 1 + 1
        BY <1>4, <2>2
      <4> QED
        BY <4>1
    <3>2. j \in 1 .. Len(ch) /\ j - 1 \in 0 .. Len(ch) /\ i - 1 = (j - 1) + 1
      BY <1>1, <1>4, <3>1
    <3>3. long[i] = ch[j]
      BY <1>2, <3>1, <3>2
    <3>4. Poly!Reached(f, long, i - 1) = Poly!Reached(a, ch, j - 1)
      BY <1>6, <3>2
    <3> QED
      BY <1>3, <3>3, <3>4
  <2> QED
    BY <2>1, <2>2
<1>8. SubSeq(long, n + 2, Len(long)) = SubSeq(ch, n + 1, Len(ch))
  BY <1>1, <1>2, <1>4
<1>9. base[Poly!Reached(f, long, n + 1)] = SubSeq(long, (n + 1) + 1, Len(long))
  <2>1. (n + 1) + 1 = n + 2
    BY <1>4
  <2> QED
    BY <1>3, <1>6, <1>8, <2>1
<1>10. Poly!RealPath(f, long, base)
  BY <1>4, <1>7, <1>9 DEF Poly!RealPath
<1> QED
  BY <1>10 DEF long


\* What is said of the input stays.
LEMMA InStays ==
  ASSUME in' = in
  PROVE  /\ Poly!Given(in)' = Poly!Given(in)
         /\ \A f : Poly!Passed(f)' = Poly!Passed(f)
         /\ \A f : Poly!Closure(f)' = Poly!Closure(f)
         /\ \A f : Poly!Position(f)' = Poly!Position(f)
         /\ \A f, i : PassedAt(f, i)' = PassedAt(f, i)
         /\ \A f, ch, base : Poly!RealPath(f, ch, base)' = Poly!RealPath(f, ch, base)
<1>1. \A f : Poly!Passed(f)' = Poly!Passed(f)
  BY DEF Poly!Passed
<1>2. \A f : Poly!Closure(f)' = Poly!Closure(f)
  BY <1>1 DEF Poly!Closure
<1>3. \A f : Poly!Position(f)' = Poly!Position(f)
  BY DEF Poly!Position
<1>4. \A f, i : PassedAt(f, i)' = PassedAt(f, i)
  BY DEF PassedAt
<1>5. \A f, ch, base : Poly!RealPath(f, ch, base)' = Poly!RealPath(f, ch, base)
  BY <1>1, ZenonT(40) DEF Poly!RealPath, Poly!Reached
<1>6. Poly!Given(in)' = Poly!Given(in)
  BY DEF Poly!Given
<1> QED
  BY <1>1, <1>2, <1>3, <1>4, <1>5, <1>6

(***************************************************************************)
(* Without a change of a summary only TakenUp says something new: what the *)
(* functions and calls are that have been gone over.                       *)
(***************************************************************************)
LEMMA PolyWalks ==
  ASSUME PolyInv, UNCHANGED <<in, summ>>, Poly!TypeOK',
         \A f \in Funcs : \A i \in DOMAIN in.calls[f] : GoneOver(f, i)' => GoneOver(f, i) \/ PassedAt(f, i) = {}
  PROVE  PolyInv'
<1>1. /\ \A f : Poly!Passed(f)' = Poly!Passed(f)
      /\ \A f : Poly!Closure(f)' = Poly!Closure(f)
      /\ \A f : Poly!Position(f)' = Poly!Position(f)
      /\ \A f, i : PassedAt(f, i)' = PassedAt(f, i)
      /\ \A f, ch, base : Poly!RealPath(f, ch, base)' = Poly!RealPath(f, ch, base)
  BY InStays
<1>2. Keeps'
  BY DEF PolyInv, Keeps, Covers, Poly!Effects, Poly!Carries
<1>3. Sourced'
  BY <1>1 DEF PolyInv, Sourced, Poly!Effects, Poly!Carries
<1>4. LeftAlone'
  BY <1>1 DEF PolyInv, LeftAlone
<1>5. TakenUp'
  BY <1>1 DEF PolyInv, TakenUp, Covers, FinalFor, Poly!Effects, Poly!Carries
<1>6. Poly!PathsGenuine'
  BY <1>1 DEF PolyInv, Poly!PathsGenuine, Poly!Carries
<1> QED
  BY <1>2, <1>3, <1>4, <1>5, <1>6 DEF PolyInv


(***************************************************************************)
(* A call of a function that calls none of its arguments changes nothing.  *)
(***************************************************************************)
LEMMA PassByKeeps ==
  ASSUME PolyInv, Poly!PassBy
  PROVE  PolyInv'
<1>1. /\ in.poly[Poly!Call.callee] = {} /\ call' = call + 1 /\ UNCHANGED <<in, summ, pos>>
      /\ pos <= Len(in.order)
  BY DEF Poly!PassBy, Poly!Here, Poly!Finished, PolyInv, Poly!TypeOK
<1>2. Poly!Given(in) /\ pos \in 1 .. Len(in.order) + 1 /\ call \in Nat \ {0} /\ summ \in [Funcs -> Poly!PolySummary]
  BY DEF PolyInv, Poly!TypeOK
<1>3. Poly!TypeOK'
  <2>1. call' \in Nat \ {0}
    BY <1>1, <1>2
  <2>2. Poly!Given(in)'
    BY <1>1, <1>2, InStays
  <2> QED
    BY <1>1, <1>2, <2>1, <2>2 DEF Poly!TypeOK, Poly!PolySummary, Poly!PolyChain
<1>4. ASSUME NEW f \in Funcs, NEW i \in DOMAIN in.calls[f], GoneOver(f, i)'
      PROVE  GoneOver(f, i) \/ PassedAt(f, i) = {}
  <2>1. Poly!Position(f)' = Poly!Position(f)
    BY <1>1, InStays
  <2>2. Poly!Position(f) < pos \/ (Poly!Position(f) = pos /\ i < call + 1)
    BY <1>1, <1>4, <2>1 DEF GoneOver
  <2>3. CASE Poly!Position(f) = pos /\ i = call
    <3>1. f = Poly!Cur
      BY <1>2, <2>3, GivenIs DEF Poly!Cur
    <3>2. PassedAt(f, i) = {}
      BY <1>1, <2>3, <3>1 DEF PassedAt, Poly!Call
    <3> QED
      BY <3>2
  <2>4. i \in Int
    BY <1>2, GivenIs
  <2> QED
    BY <1>2, <2>2, <2>3, <2>4 DEF GoneOver
<1> QED
  BY <1>1, <1>3, <1>4, PolyWalks

(***************************************************************************)
(* Behind its last call the next function is visited.                      *)
(***************************************************************************)
LEMMA NextFunctionKeeps ==
  ASSUME PolyInv, Poly!NextFunction
  PROVE  PolyInv'
<1>1. /\ pos' = pos + 1 /\ call' = 1 /\ UNCHANGED <<in, summ>>
      /\ call > Len(in.calls[Poly!Cur]) /\ ~(pos > Len(in.order))
  BY DEF Poly!NextFunction, Poly!Finished
<1>2. Poly!Given(in) /\ pos \in 1 .. Len(in.order) + 1 /\ call \in Nat \ {0} /\ summ \in [Funcs -> Poly!PolySummary]
  BY DEF PolyInv, Poly!TypeOK
<1>3. Len(in.order) \in Nat
  BY <1>2, GivenIs
<1>4. Poly!TypeOK'
  <2>1. call' \in Nat \ {0} /\ pos' \in 1 .. Len(in.order) + 1
    BY <1>1, <1>2, <1>3
  <2>2. Poly!Given(in)'
    BY <1>1, <1>2, InStays
  <2> QED
    BY <1>1, <1>2, <2>1, <2>2 DEF Poly!TypeOK, Poly!PolySummary, Poly!PolyChain
<1>5. ASSUME NEW f \in Funcs, NEW i \in DOMAIN in.calls[f], GoneOver(f, i)'
      PROVE  GoneOver(f, i) \/ PassedAt(f, i) = {}
  <2>1. Poly!Position(f)' = Poly!Position(f)
    BY <1>1, InStays
  <2>2. i \in 1 .. Len(in.calls[f]) /\ Len(in.calls[f]) \in Nat /\ Poly!Position(f) \in 1 .. Len(in.order)
        /\ in.order[Poly!Position(f)] = f
    <3>1. in.calls[f] \in Seq(Poly!PolyCall) /\ DOMAIN in.calls[f] = 1 .. Len(in.calls[f])
      BY <1>2, GivenIs
    <3>2. Poly!Position(f) \in 1 .. Len(in.order) /\ in.order[Poly!Position(f)] = f
      BY <1>2, GivenIs
    <3> QED
      BY <3>1, <3>2
  <2>3. Poly!Position(f) < pos + 1
    BY <1>1, <1>5, <2>1, <2>2 DEF GoneOver
  <2>4. CASE Poly!Position(f) = pos
    <3>1. f = Poly!Cur
      BY <2>2, <2>4 DEF Poly!Cur
    <3> QED
      BY <1>1, <1>2, <2>2, <2>4, <3>1 DEF GoneOver
  <2> QED
    BY <1>2, <2>2, <2>3, <2>4 DEF GoneOver
<1> QED
  BY <1>1, <1>4, <1>5, PolyWalks

(***************************************************************************)
(* The other parts leave the pass alone.                                   *)
(***************************************************************************)
LEMMA PolyRests ==
  ASSUME PolyInv, UNCHANGED polyVars
  PROVE  PolyInv'
<1>1. UNCHANGED <<in, summ, pos, call>>
  BY DEF polyVars
<1>2. Poly!TypeOK'
  <2>1. Poly!Given(in)'
    BY <1>1, InStays DEF PolyInv, Poly!TypeOK
  <2> QED
    BY <1>1, <2>1 DEF PolyInv, Poly!TypeOK, Poly!PolySummary, Poly!PolyChain
<1>3. \A f, i : GoneOver(f, i)' = GoneOver(f, i)
  BY <1>1, InStays DEF GoneOver
<1> QED
  BY <1>1, <1>2, <1>3, PolyWalks

(***************************************************************************)
(* At first every summary is the one the loop has left.                    *)
(***************************************************************************)
LEMMA PolyStarts ==
  ASSUME Poly!Init
  PROVE  PolyInv
<1>1. in \in Inputs /\ summ = in.base /\ pos = 1 /\ call = 1
  BY DEF Poly!Init
<1>2. Poly!Given(in)
  BY <1>1, SidesAssumption DEF Poly!PolyAssumption
<1>3. Poly!TypeOK
  <2>1. summ \in [Funcs -> Poly!PolySummary]
    <3>1. summ \in [Funcs -> Poly!Summary] /\ \A f \in Funcs : summ[f] \in Poly!PolySummary
      BY <1>1, <1>2, GivenIs DEF Poly!Given
    <3> QED
      BY <3>1
  <2>2. 1 \in 1 .. Len(in.order) + 1
    BY <1>2, GivenIs
  <2> QED
    BY <1>1, <1>2, <2>1, <2>2 DEF Poly!TypeOK
<1>4. \A f \in Funcs : in.base[f] \in Poly!PolySummary
  BY <1>2, GivenIs
<1>5. Keeps
  BY <1>1, <1>4 DEF Keeps, Covers, Poly!PolySummary, Poly!HeapKinds
<1>6. Sourced
  BY <1>1, ClosureIs DEF Sourced
<1>7. LeftAlone
  BY <1>1 DEF LeftAlone
<1>8. TakenUp
  <2>1. ASSUME NEW f \in Funcs, NEW i \in DOMAIN in.calls[f] PROVE ~GoneOver(f, i)
    <3>1. Poly!Position(f) \in 1 .. Len(in.order) /\ i \in 1 .. Len(in.calls[f])
      BY <1>2, GivenIs
    <3> QED
      BY <1>1, <3>1 DEF GoneOver
  <2> QED
    BY <2>1 DEF TakenUp
<1>9. Poly!PathsGenuine
  <2> SUFFICES ASSUME NEW f \in Funcs
               PROVE  /\ \A k \in Kinds : Poly!RealPath(f, summ[f].chain[k], [g \in Funcs |-> in.base[g].chain[k]])
                      /\ Poly!RealPath(f, summ[f].heapChain, [g \in Funcs |-> in.base[g].heapChain])
                      /\ summ[f].heap = Poly!NormalHeap => Poly!Carries(summ[f], "Alloc")
    BY DEF Poly!PathsGenuine
  <2>1. /\ \A k \in Kinds : summ[f].chain[k] \in Poly!PolyChain
        /\ summ[f].heapChain \in Poly!PolyChain
    BY <1>1, <1>4 DEF Poly!PolySummary
  <2>2. \A k \in Kinds : Poly!RealPath(f, summ[f].chain[k], [g \in Funcs |-> in.base[g].chain[k]])
    BY <1>1, <2>1, PathOfLoop
  <2>3. Poly!RealPath(f, summ[f].heapChain, [g \in Funcs |-> in.base[g].heapChain])
    BY <1>1, <2>1, PathOfLoop
  <2> QED
    BY <1>1, <1>2, <2>2, <2>3 DEF Poly!Given
<1> QED
  BY <1>3, <1>5, <1>6, <1>7, <1>8, <1>9 DEF PolyInv


\* What covers a summary covers what that covers.
LEMMA CoversOn ==
  ASSUME NEW x, x \in Poly!PolySummary, NEW y, y \in Poly!PolySummary, NEW z, z \in Poly!PolySummary,
         Covers(x, y), Covers(y, z)
  PROVE  Covers(x, z)
<1>1. x.heap \in Int /\ y.heap \in Int /\ z.heap \in Int
  BY DEF Poly!PolySummary, Poly!HeapKinds
<1> QED
  BY <1>1 DEF Covers

(***************************************************************************)
(* A call that passes functions takes them up, and what is taken up comes  *)
(* from functions that are passed, by paths that go through them.          *)
(***************************************************************************)
LEMMA ResolveKeeps ==
  ASSUME PolyInv, Poly!Resolve
  PROVE  PolyInv'
<1> DEFINE c == Poly!Cur
           R == Poly!Resolved
           P == PassedAt(Poly!Cur, call)
<1>1. /\ Poly!Here /\ call' = call + 1 /\ UNCHANGED <<in, pos>>
      /\ summ' = [summ EXCEPT ![c] = R]
  BY DEF Poly!Resolve
<1>2. /\ Poly!Given(in) /\ pos \in 1 .. Len(in.order) + 1 /\ call \in Nat \ {0}
      /\ summ \in [Funcs -> Poly!PolySummary] /\ Poly!TypeOK
  BY DEF PolyInv, Poly!TypeOK
<1>3. c \in Funcs /\ R \in Poly!PolySummary /\ HasTaken(R, P)
  BY <1>1, <1>2, ResolvedIs
<1>4. Poly!Position(c) = pos /\ call \in DOMAIN in.calls[c] /\ P \subseteq Poly!Passed(c) /\ P \subseteq Funcs
  <2>1. pos \in DOMAIN in.order
    BY <1>1, <1>2, GivenIs DEF Poly!Here, Poly!Finished
  <2>2. Poly!Position(c) = pos
    BY <1>2, <2>1, GivenIs DEF Poly!Cur
  <2>3. call \in DOMAIN in.calls[c]
    BY <1>1 DEF Poly!Here
  <2> QED
    BY <2>2, <2>3, PassedIs
<1>5. /\ \A f : Poly!Passed(f)' = Poly!Passed(f)
      /\ \A f : Poly!Closure(f)' = Poly!Closure(f)
      /\ \A f : Poly!Position(f)' = Poly!Position(f)
      /\ \A f, i : PassedAt(f, i)' = PassedAt(f, i)
      /\ \A f, ch, base : Poly!RealPath(f, ch, base)' = Poly!RealPath(f, ch, base)
      /\ Poly!Given(in)' = Poly!Given(in)
  BY <1>1, InStays
<1>6. PICK r : r = R
  OBVIOUS
<1>7. PICK d : d = c
  OBVIOUS
<1>8. PICK p : p = P
  OBVIOUS
<1>9. summ' = [summ EXCEPT ![d] = r]
  BY <1>1, <1>6, <1>7
<1>10. /\ d \in Funcs /\ r \in Poly!PolySummary
       /\ Covers(r, summ[d]) /\ \A a \in p : Covers(r, summ[a])
       /\ \A k \in Kinds : \/ r.chain[k] = summ[d].chain[k]
                           \/ \E a \in p : Poly!Carries(summ[a], k) /\ r.chain[k] = Poly!PassedOn(d, a, summ[a].chain[k])
       /\ \/ r.heap = summ[d].heap /\ r.heapChain = summ[d].heapChain
          \/ \E a \in p : r.heap = summ[a].heap /\ r.heapChain = Poly!PassedOn(d, a, summ[a].heapChain)
  BY <1>3, <1>6, <1>7, <1>8 DEF HasTaken
<1>11. /\ Poly!Position(d) = pos /\ call \in DOMAIN in.calls[d] /\ p \subseteq Poly!Passed(d) /\ p \subseteq Funcs
       /\ p = PassedAt(d, call)
  BY <1>4, <1>7, <1>8
<1> HIDE DEF c, R, P
<1>12. summ' \in [Funcs -> Poly!PolySummary] /\ summ'[d] = r /\ \A f \in Funcs : f # d => summ'[f] = summ[f]
  BY <1>2, <1>9, <1>10
<1>13. \A f \in Funcs : summ[f] \in Poly!PolySummary /\ in.base[f] \in Poly!PolySummary /\ Covers(summ'[f], summ[f])
  <2>1. \A f \in Funcs : summ[f] \in Poly!PolySummary /\ in.base[f] \in Poly!PolySummary
    BY <1>2, GivenIs
  <2>2. \A f \in Funcs : Covers(summ[f], summ[f])
    BY <2>1 DEF Covers, Poly!PolySummary, Poly!HeapKinds
  <2> QED
    BY <2>1, <2>2, <1>10, <1>12
<1>14. Poly!TypeOK'
  <2>1. call' \in Nat \ {0} /\ summ' \in [Funcs -> Poly!PolySummary]' /\ pos' \in 1 .. Len(in'.order) + 1
    BY <1>1, <1>2, <1>12 DEF Poly!PolySummary, Poly!PolyChain
  <2> QED
    BY <1>1, <1>2, <1>5, <2>1 DEF Poly!TypeOK
<1>15. Keeps'
  <2>1. ASSUME NEW f \in Funcs PROVE Covers(summ'[f], in.base[f])
    <3>1. Covers(summ[f], in.base[f])
      BY DEF PolyInv, Keeps
    <3> QED
      BY <1>12, <1>13, <3>1, CoversOn
  <2> QED
    BY <1>1, <2>1 DEF Keeps, Covers, Poly!Effects, Poly!Carries
<1>16. Sourced'
  <2>1. ASSUME NEW a \in p
        PROVE  /\ \A k \in Poly!Effects(summ[a]) : \E g \in Poly!Closure(d) : k \in Poly!Effects(in.base[g])
               /\ \E g \in Poly!Closure(d) : summ[a].heap = in.base[g].heap
    <3>1. a \in Funcs /\ Poly!Closure(a) \subseteq Poly!Closure(d)
      BY <1>10, <1>11, ClosureIs, ClosureGrows
    <3> QED
      BY <3>1 DEF PolyInv, Sourced
  <2>2. ASSUME NEW k \in Poly!Effects(r) PROVE \E g \in Poly!Closure(d) : k \in Poly!Effects(in.base[g])
    <3>1. k \in Kinds /\ r.chain[k] # <<>>
      BY <2>2 DEF Poly!Effects, Poly!Carries
    <3>2. CASE r.chain[k] = summ[d].chain[k]
      BY <3>1, <3>2, <1>10 DEF PolyInv, Sourced, Poly!Effects, Poly!Carries
    <3>3. CASE \E a \in p : Poly!Carries(summ[a], k)
      BY <3>1, <3>3, <2>1 DEF Poly!Effects
    <3> QED
      BY <3>1, <3>2, <3>3, <1>10
  <2>3. \E g \in Poly!Closure(d) : r.heap = in.base[g].heap
    BY <1>10, <2>1 DEF PolyInv, Sourced
  <2>4. ASSUME NEW f \in Funcs
        PROVE  /\ \A k \in Poly!Effects(summ'[f]) : \E g \in Poly!Closure(f) : k \in Poly!Effects(in.base[g])
               /\ \E g \in Poly!Closure(f) : summ'[f].heap = in.base[g].heap
    <3>1. CASE f = d
      BY <3>1, <2>2, <2>3, <1>12
    <3>2. CASE f # d
      BY <3>2, <1>12 DEF PolyInv, Sourced
    <3> QED
      BY <3>1, <3>2
  <2> QED
    BY <1>1, <1>5, <2>4 DEF Sourced, Poly!Effects, Poly!Carries
<1>17. LeftAlone'
  <2>1. ASSUME Poly!Passed(d) = {} PROVE r = summ[d]
    <3>1. p = {}
      BY <1>11, <2>1
    <3>2. \A k \in Kinds : r.chain[k] = summ[d].chain[k]
      BY <1>10, <3>1
    <3>3. r.heap = summ[d].heap /\ r.heapChain = summ[d].heapChain
      BY <1>10, <3>1
    <3>4. summ[d] \in Poly!PolySummary
      BY <1>10, <1>13
    <3>5. r.chain = summ[d].chain
      BY <1>10, <3>2, <3>4 DEF Poly!PolySummary
    <3> QED
      BY <1>10, <3>3, <3>4, <3>5 DEF Poly!PolySummary
  <2>2. \A f \in Funcs : Poly!Passed(f) = {} => summ'[f] = in.base[f]
    BY <2>1, <1>12 DEF PolyInv, LeftAlone
  <2> QED
    BY <1>1, <1>5, <2>2 DEF LeftAlone
<1>18. TakenUp'
  <2>1. ASSUME NEW f \in Funcs, NEW i \in DOMAIN in.calls[f], NEW a \in PassedAt(f, i), GoneOver(f, i)'
        PROVE  Covers(summ'[f], in.base[a]) /\ (FinalFor(f, a) => Covers(summ'[f], summ'[a]))
    <3>1. a \in Funcs /\ a \in Poly!Passed(f)
      BY PassedIs
    <3>2. Poly!Position(f) < pos \/ (Poly!Position(f) = pos /\ i < call + 1)
      BY <1>1, <1>5, <2>1 DEF GoneOver
    <3>3. /\ Poly!Position(f) \in Int /\ Poly!Position(a) \in Int /\ i \in Int /\ pos \in Int /\ call \in Int
          /\ in.order[Poly!Position(f)] = f /\ in.order[Poly!Position(a)] = a
      <4>1. Poly!Position(f) \in 1 .. Len(in.order) /\ Poly!Position(a) \in 1 .. Len(in.order) /\ i \in 1 .. Len(in.calls[f])
        BY <1>2, <3>1, GivenIs
      <4> QED
        BY <1>2, <3>1, <4>1, GivenIs
    <3>4. in.order[Poly!Position(d)] = d
      BY <1>2, <1>10, GivenIs
    \* A settled function is not the current one, or does not change, or is f.
    <3>5. ASSUME FinalFor(f, a), a # f PROVE summ'[a] = summ[a]
      <4>1. CASE Poly!Passed(a) = {}
        <5>1. summ'[a] = in.base[a] /\ summ[a] = in.base[a]
          <6>1. (\A h \in Funcs : Poly!Passed(h) = {} => summ[h] = in.base[h])
            BY DEF PolyInv, LeftAlone
          <6>2. \A h \in Funcs : Poly!Passed(h) = {} => summ'[h] = in.base[h]
            BY <1>1, <1>5, <1>17 DEF LeftAlone
          <6> QED
            BY <3>1, <4>1, <6>1, <6>2
        <5> QED
          BY <5>1
      <4>2. CASE Poly!Position(a) < Poly!Position(f)
        <5>1. a # d
          BY <3>2, <3>3, <4>2, <1>11
        <5> QED
          BY <3>1, <5>1, <1>12
      <4> QED
        BY <3>5, <4>1, <4>2 DEF FinalFor
    <3>6. CASE f = d /\ i = call
      <4>1. a \in p
        BY <2>1, <3>6, <1>11
      <4>2. Covers(r, summ[a]) /\ Covers(summ[a], in.base[a])
        BY <3>1, <4>1, <1>10 DEF PolyInv, Keeps
      <4>3. Covers(r, in.base[a])
        BY <3>1, <4>2, <1>10, <1>13, CoversOn
      <4>4. Covers(r, r)
        BY <1>10 DEF Covers, Poly!PolySummary, Poly!HeapKinds
      <4>5. FinalFor(f, a) => Covers(r, summ'[a])
        BY <3>5, <3>6, <4>2, <4>4, <1>12
      <4> QED
        BY <3>6, <4>3, <4>5, <1>12
    <3>7. CASE ~(f = d /\ i = call)
      <4>1. GoneOver(f, i)
        <5>1. CASE Poly!Position(f) = pos /\ i = call
          <6>1. f = d
            BY <3>3, <3>4, <5>1, <1>11
          <6> QED
            BY <3>7, <5>1, <6>1
        <5> QED
          BY <3>2, <3>3, <5>1 DEF GoneOver
      <4>2. Covers(summ[f], in.base[a]) /\ (FinalFor(f, a) => Covers(summ[f], summ[a]))
        BY <4>1 DEF PolyInv, TakenUp
      <4>3. Covers(summ'[f], summ[f]) /\ summ'[f] \in Poly!PolySummary
        BY <1>12, <1>13
      <4>4. Covers(summ'[f], in.base[a])
        BY <3>1, <4>2, <4>3, <1>13, CoversOn
      <4>5. Covers(summ'[f], summ'[f])
        BY <4>3 DEF Covers, Poly!PolySummary, Poly!HeapKinds
      <4>6. ASSUME FinalFor(f, a), a # f PROVE Covers(summ'[f], summ'[a])
        <5>1. Covers(summ'[f], summ[a])
          BY <3>1, <4>2, <4>3, <4>6, <1>13, CoversOn
        <5> QED
          BY <3>5, <4>6, <5>1
      <4> QED
        BY <4>4, <4>5, <4>6
    <3> QED
      BY <3>6, <3>7
  <2>2. \A f, a : FinalFor(f, a)' = FinalFor(f, a)
    BY <1>5 DEF FinalFor
  <2> QED
    BY <1>1, <1>5, <2>1, <2>2 DEF TakenUp, Covers, Poly!Effects, Poly!Carries
<1>19. Poly!PathsGenuine'
  <2>1. ASSUME NEW k \in Kinds PROVE Poly!RealPath(d, r.chain[k], [g \in Funcs |-> in.base[g].chain[k]])
    <3>1. CASE r.chain[k] = summ[d].chain[k]
      BY <3>1, <1>10 DEF PolyInv, Poly!PathsGenuine
    <3>2. CASE \E a \in p : r.chain[k] = Poly!PassedOn(d, a, summ[a].chain[k])
      <4>1. PICK a \in p : r.chain[k] = Poly!PassedOn(d, a, summ[a].chain[k])
        BY <3>2
      <4>2. a \in Funcs /\ a \in Poly!Passed(d) /\ summ[a] \in Poly!PolySummary
        BY <1>11, <1>13
      <4>3. summ[a].chain[k] \in Poly!PolyChain
        BY <4>2 DEF Poly!PolySummary
      <4>4. Poly!RealPath(a, summ[a].chain[k], [g \in Funcs |-> in.base[g].chain[k]])
        BY <4>2 DEF PolyInv, Poly!PathsGenuine
      <4> QED
        BY <4>1, <4>2, <4>3, <4>4, PathLonger
    <3> QED
      BY <3>1, <3>2, <1>10
  <2>2. Poly!RealPath(d, r.heapChain, [g \in Funcs |-> in.base[g].heapChain])
    <3>1. CASE r.heapChain = summ[d].heapChain
      BY <3>1, <1>10 DEF PolyInv, Poly!PathsGenuine
    <3>2. CASE \E a \in p : r.heapChain = Poly!PassedOn(d, a, summ[a].heapChain)
      <4>1. PICK a \in p : r.heapChain = Poly!PassedOn(d, a, summ[a].heapChain)
        BY <3>2
      <4>2. a \in Funcs /\ a \in Poly!Passed(d) /\ summ[a] \in Poly!PolySummary
        BY <1>11, <1>13
      <4>3. summ[a].heapChain \in Poly!PolyChain
        BY <4>2 DEF Poly!PolySummary
      <4>4. Poly!RealPath(a, summ[a].heapChain, [g \in Funcs |-> in.base[g].heapChain])
        BY <4>2 DEF PolyInv, Poly!PathsGenuine
      <4> QED
        BY <4>1, <4>2, <4>3, <4>4, PathLonger
    <3> QED
      BY <3>1, <3>2, <1>10
  <2>3. "Alloc" \in Kinds
    BY SidesAssumption DEF Poly!PolyAssumption
  <2>4. ASSUME r.heap = Poly!NormalHeap PROVE Poly!Carries(r, "Alloc")
    <3>1. PICK a \in Funcs : r.heap = summ[a].heap /\ Covers(r, summ[a])
      BY <1>10, <1>11
    <3>2. Poly!Carries(summ[a], "Alloc")
      BY <2>4, <3>1 DEF PolyInv, Poly!PathsGenuine
    <3> QED
      BY <2>3, <3>1, <3>2 DEF Covers, Poly!Effects
  <2>5. ASSUME NEW f \in Funcs
        PROVE  /\ \A k \in Kinds : Poly!RealPath(f, summ'[f].chain[k], [g \in Funcs |-> in.base[g].chain[k]])
               /\ Poly!RealPath(f, summ'[f].heapChain, [g \in Funcs |-> in.base[g].heapChain])
               /\ summ'[f].heap = Poly!NormalHeap => Poly!Carries(summ'[f], "Alloc")
    <3>1. CASE f = d
      BY <3>1, <2>1, <2>2, <2>4, <1>12
    <3>2. CASE f # d
      BY <3>2, <1>12 DEF PolyInv, Poly!PathsGenuine
    <3> QED
      BY <3>1, <3>2
  <2> QED
    BY <1>1, <1>5, <2>5 DEF Poly!PathsGenuine, Poly!Carries
<1> QED
  BY <1>14, <1>15, <1>16, <1>17, <1>18, <1>19 DEF PolyInv


(***************************************************************************)
(* What has been taken up when a function is visited holds of everything   *)
(* that it passes.                                                         *)
(***************************************************************************)
LEMMA VisitedIs ==
  ASSUME PolyInv, NEW f \in Funcs, Poly!Visited(f), NEW a \in Poly!Passed(f)
  PROVE  Covers(summ[f], in.base[a]) /\ (FinalFor(f, a) => Covers(summ[f], summ[a]))
<1>1. PICK i \in DOMAIN in.calls[f] : a \in PassedAt(f, i)
  BY PassedIs
<1>2. GoneOver(f, i)
  BY DEF GoneOver, Poly!Visited
<1> QED
  BY <1>1, <1>2 DEF PolyInv, TakenUp

\* The worst heap kind of what a function leads to.
LEMMA ClosureHeap ==
  ASSUME PolyInv, NEW f \in Funcs, NEW h, h = Poly!Worst({in.base[g].heap : g \in Poly!Closure(f)})
  PROVE  /\ \E g \in Poly!Closure(f) : h = in.base[g].heap
         /\ \A g \in Poly!Closure(f) : in.base[g].heap <= h
<1> DEFINE S == {in.base[g].heap : g \in Poly!Closure(f)}
<1>1. \A g \in Poly!Closure(f) : in.base[g].heap \in Poly!HeapKinds
  BY ClosureIs, GivenIs DEF PolyInv, Poly!TypeOK, Poly!Summary
<1>2. S \in SUBSET Poly!HeapKinds /\ S # {}
  BY <1>1, ClosureIs
<1>3. h \in S /\ \A x \in S : x <= h
  <2>1. h = Poly!Worst(S)
    OBVIOUS
  <2> HIDE DEF S
  <2> QED
    BY <1>2, <2>1, WorstIs
<1> QED
  BY <1>3

(***************************************************************************)
(* The invariant gives the bounds.                                         *)
(***************************************************************************)
LEMMA PolyBounded ==
  ASSUME PolyInv
  PROVE  Poly!Bounded
<1> SUFFICES ASSUME NEW f \in Funcs
             PROVE  /\ Poly!Effects(summ[f]) \subseteq UNION {Poly!Effects(in.base[g]) : g \in Poly!Closure(f)}
                    /\ summ[f].heap <= Poly!Worst({in.base[g].heap : g \in Poly!Closure(f)})
                    /\ Poly!Visited(f) => \A a \in Poly!Passed(f) : /\ Poly!Effects(in.base[a]) \subseteq Poly!Effects(summ[f])
                                                                    /\ in.base[a].heap <= summ[f].heap
  BY DEF Poly!Bounded
<1>1. Poly!Effects(summ[f]) \subseteq UNION {Poly!Effects(in.base[g]) : g \in Poly!Closure(f)}
  BY DEF PolyInv, Sourced
<1>2. summ[f].heap <= Poly!Worst({in.base[g].heap : g \in Poly!Closure(f)})
  BY ClosureHeap DEF PolyInv, Sourced
<1>3. Poly!Visited(f) => \A a \in Poly!Passed(f) : /\ Poly!Effects(in.base[a]) \subseteq Poly!Effects(summ[f])
                                                  /\ in.base[a].heap <= summ[f].heap
  BY VisitedIs DEF Covers
<1> QED
  BY <1>1, <1>2, <1>3

(***************************************************************************)
(* The invariant gives exactness: whatever a timely function leads to has  *)
(* been visited or passes nothing, and its summary is covered.             *)
(***************************************************************************)
LEMMA PolyTimely ==
  ASSUME PolyInv
  PROVE  Poly!ExactWhenTimely
<1> SUFFICES ASSUME NEW f \in Funcs, Poly!Visited(f), Poly!Timely(f)
             PROVE  /\ Poly!Effects(summ[f]) = UNION {Poly!Effects(in.base[g]) : g \in Poly!Closure(f)}
                    /\ summ[f].heap = Poly!Worst({in.base[g].heap : g \in Poly!Closure(f)})
  BY DEF Poly!ExactWhenTimely
<1>1. \A g \in Funcs : summ[g] \in Poly!PolySummary /\ in.base[g] \in Poly!PolySummary
  BY GivenIs DEF PolyInv, Poly!TypeOK
<1>2. Poly!Closure(f) \subseteq Funcs
  BY ClosureIs
<1> DEFINE S == {g \in Poly!Closure(f) : Covers(summ[f], summ[g]) /\ (Poly!Visited(g) \/ Poly!Passed(g) = {})}
<1>3. f \in S
  <2>1. Covers(summ[f], summ[f])
    BY <1>1 DEF Covers, Poly!PolySummary, Poly!HeapKinds
  <2> QED
    BY <2>1, ClosureIs
<1>4. ASSUME NEW g \in S, NEW a \in Poly!Passed(g) PROVE a \in S
  <2>1. g \in Funcs /\ Poly!Visited(g) /\ a \in Poly!Closure(f) /\ a \in Funcs
    BY <1>2, <1>4, ClosureIs
  <2>2. FinalFor(g, a)
    BY <1>4 DEF Poly!Timely, FinalFor
  <2>3. Covers(summ[g], summ[a])
    BY <2>1, <2>2, VisitedIs
  <2>4. Covers(summ[f], summ[a])
    BY <1>1, <1>4, <2>1, <2>3, CoversOn
  <2>5. Poly!Visited(a) \/ Poly!Passed(a) = {}
    <3>1. Poly!Position(a) \in 1 .. Len(in.order) /\ Poly!Position(g) \in 1 .. Len(in.order) /\ pos \in Int
      BY <2>1, GivenIs DEF PolyInv, Poly!TypeOK
    <3> QED
      BY <2>1, <2>2, <3>1 DEF FinalFor, Poly!Visited
  <2> QED
    BY <2>1, <2>4, <2>5
<1>5. Poly!Closure(f) \subseteq S
  <2>1. S \in SUBSET Funcs /\ \A g \in S : Poly!Passed(g) \subseteq S
    BY <1>2, <1>4
  <2> HIDE DEF S
  <2> QED
    BY <1>3, <2>1, ClosureIs
<1>6. ASSUME NEW g \in Poly!Closure(f) PROVE Covers(summ[f], in.base[g])
  <2>1. g \in Funcs /\ Covers(summ[f], summ[g])
    BY <1>2, <1>5
  <2>2. Covers(summ[g], in.base[g])
    BY <2>1 DEF PolyInv, Keeps
  <2> QED
    BY <1>1, <2>1, <2>2, CoversOn
<1>7. Poly!Effects(summ[f]) = UNION {Poly!Effects(in.base[g]) : g \in Poly!Closure(f)}
  <2>1. Poly!Effects(summ[f]) \subseteq UNION {Poly!Effects(in.base[g]) : g \in Poly!Closure(f)}
    BY DEF PolyInv, Sourced
  <2>2. \A g \in Poly!Closure(f) : Poly!Effects(in.base[g]) \subseteq Poly!Effects(summ[f])
    BY <1>6 DEF Covers
  <2> QED
    BY <2>1, <2>2
<1>8. PICK h : h = Poly!Worst({in.base[g].heap : g \in Poly!Closure(f)})
  OBVIOUS
<1>9. summ[f].heap = h
  <2>1. (\E g \in Poly!Closure(f) : h = in.base[g].heap) /\ \A g \in Poly!Closure(f) : in.base[g].heap <= h
    BY <1>8, ClosureHeap, ZenonT(40)
  <2>2. \E g \in Poly!Closure(f) : summ[f].heap = in.base[g].heap
    BY DEF PolyInv, Sourced
  <2>3. summ[f].heap <= h /\ h <= summ[f].heap
    BY <1>6, <2>1, <2>2 DEF Covers
  <2>4. summ[f].heap \in Int /\ h \in Int
    BY <1>1, <1>2, <2>1 DEF Poly!PolySummary, Poly!HeapKinds
  <2> QED
    BY <2>3, <2>4
<1> QED
  BY <1>7, <1>8, <1>9

(***************************************************************************)
(* The pass over callbacks, for any functions, calls and order of          *)
(* addresses: it is exact where what it reads is final, bounded otherwise, *)
(* and its chains are paths.                                               *)
(***************************************************************************)
THEOREM PolyAlwaysExact == Spec => []PolyExact
<1> DEFINE I == part = "poly" => PolyInv
<1>1. Init => I
  BY PolyStarts DEF Init
<1>2. I /\ [Next]_vars => I'
  <2> SUFFICES ASSUME I, [Next]_vars, part' = "poly" PROVE PolyInv'
    OBVIOUS
  <2>1. CASE PolyStep
    BY <2>1, ResolveKeeps, PassByKeeps, NextFunctionKeeps DEF PolyStep, Poly!Next
  <2>2. CASE UNCHANGED vars
    BY <2>2, PolyRests DEF vars
  <2> QED
    BY <2>1, <2>2 DEF Next, RegionStep, CodecStep, ExportStep
<1>3. I => PolyExact
  BY PolyTimely, PolyBounded DEF PolyExact, PolyInv
<1> QED
  BY <1>1, <1>2, <1>3, PTL DEF Spec

-----------------------------------------------------------------------------
(* Sequences put together, and the places in them.                         *)

\* The lengths o up to each member of x are those that its sequence f is made of.
Laid(x, f, o) ==
  /\ o \in [0 .. Len(x) -> Nat] /\ o[0] = 0
  /\ \A i \in 1 .. Len(x) : o[i] = o[i - 1] + Len(x[i])
  /\ Len(f) = o[Len(x)]
  /\ \A i \in 1 .. Len(x) : \A q \in 1 .. Len(x[i]) : f[o[i - 1] + q] = x[i][q]
  /\ \A i \in 0 .. Len(x) : o[i] <= o[Len(x)]
  /\ \A i \in 0 .. Len(x) : \A j \in 0 .. i : o[j] <= o[i]
  /\ \A p \in 1 .. o[Len(x)] : \E i \in 1 .. Len(x) : o[i - 1] < p /\ p <= o[i]

\* The sequences g are those of x put together, up to each.
Strung(x, g) == /\ g[0] = <<>>
                /\ \A n \in 1 .. Len(x) : g[n] = g[n - 1] \o x[n]

\* A name for the sequences over C, which keeps the provers from opening them.
SeqOf(C) == Seq(C)

(***************************************************************************)
(* The recursion that FlattenSeq is made of has a value, the sequences put *)
(* together up to each.                                                    *)
(***************************************************************************)
LEMMA FlattenAlong ==
  ASSUME NEW C, NEW x, x \in Seq(Seq(C))
  PROVE  \E g \in [0 .. Len(x) -> Seq(C)] : Strung(x, g) /\ Codec!FlattenSeq(x) = g[Len(x)]
<1>1. Len(x) \in Nat /\ \A i \in 1 .. Len(x) : x[i] \in Seq(C)
  OBVIOUS
<1> DEFINE S == SeqOf(C)
           F == [n \in Nat |-> [y \in S |-> IF n \in 1 .. Len(x) THEN y \o x[n] ELSE y]]
           m == Len(x)
           e == <<>>
<1>2. F \in [Nat -> [S -> S]] /\ m \in Nat /\ e \in S
  <2>1. \A n \in Nat : \A y \in S : (IF n \in 1 .. Len(x) THEN y \o x[n] ELSE y) \in S
    BY <1>1 DEF SeqOf
  <2> HIDE DEF S
  <2>2. F \in [Nat -> [S -> S]]
    BY <2>1
  <2> QED
    BY <2>2, <1>1 DEF S, SeqOf
<1>3. \E g \in [0 .. m -> S] : g[0] = e /\ \A n \in 1 .. m : g[n] = F[n][g[n - 1]]
  <2>1. e \in S
    BY <1>2
  <2>2. F \in [Nat -> [S -> S]]
    BY <1>2
  <2>3. m \in Nat
    BY <1>2
  <2> HIDE DEF F, m, e, S
  <2> QED
    BY ONLY <2>1, <2>2, <2>3, RecursionExists, Z3
<1>4. PICK g \in [0 .. m -> S] : g[0] = e /\ \A n \in 1 .. m : g[n] = F[n][g[n - 1]]
  BY <1>3
<1>9. ASSUME NEW n \in 1 .. Len(x) PROVE g[n] = g[n - 1] \o x[n]
  <2>1. n \in Nat /\ n - 1 \in 0 .. m
    BY <1>1
  <2>2. g[n - 1] \in S
    BY <2>1, <1>4
  <2>3. g[n] = F[n][g[n - 1]]
    BY <1>4
  <2> HIDE DEF S
  <2> QED
    BY <2>1, <2>2, <2>3
<1>5. Strung(x, g)
  BY <1>4, <1>9 DEF Strung
<1>6. g[0] = <<>> /\ \A n \in 1 .. Len(x) : g[n] = g[n - 1] \o x[n]
  BY <1>5 DEF Strung
<1>7. CASE Len(x) = 0
  <2>1. Codec!FlattenSeq(x) = x
    BY <1>7 DEF Codec!FlattenSeq
  <2>2. x = <<>>
    BY <1>7
  <2> QED
    BY <2>1, <2>2, <1>4, <1>5, <1>7
<1>8. CASE Len(x) # 0
  <2> DEFINE Body(flatten) == [i \in 1 .. Len(x) |-> IF i = 1 THEN x[i] ELSE flatten[i - 1] \o x[i]]
             flatten == CHOOSE flatten : flatten = Body(flatten)
             h == [i \in 1 .. Len(x) |-> g[i]]
  <2>1. Codec!FlattenSeq(x) = flatten[Len(x)]
    BY <1>8 DEF Codec!FlattenSeq
  <2>2. h = Body(h)
    <3>1. ASSUME NEW i \in 1 .. Len(x) PROVE h[i] = Body(h)[i]
      <4>1. CASE i = 1
        <5>1. 1 - 1 = 0 /\ x[1] \in Seq(C)
          BY <4>1, <1>1
        <5>2. g[1] = g[1 - 1] \o x[1]
          BY <1>6, <4>1
        <5>3. g[1] = <<>> \o x[1]
          BY <5>1, <5>2, <1>6
        <5>4. <<>> \o x[1] = x[1]
          BY <5>1
        <5> QED
          BY <4>1, <5>3, <5>4
      <4>2. CASE i # 1
        <5>1. i - 1 \in 1 .. Len(x)
          BY <4>2, <1>1
        <5>2. h[i - 1] = g[i - 1]
          BY <5>1
        <5> QED
          BY <4>2, <5>2, <1>6
      <4> QED
        BY <4>1, <4>2
    <3> QED
      BY <3>1
  <2>3. flatten = Body(flatten)
    <3> HIDE DEF Body
    <3> QED
      BY <2>2
  <2> HIDE DEF flatten
  <2>4. ASSUME NEW i \in 1 .. Len(x) PROVE flatten[i] = IF i = 1 THEN x[i] ELSE flatten[i - 1] \o x[i]
    <3>1. flatten[i] = Body(flatten)[i]
      BY <2>3
    <3> QED
      BY <3>1
  <2> DEFINE Same == {i \in 0 .. Len(x) : i = 0 \/ flatten[i] = g[i]}
  <2>5. 0 \in Same
    BY <1>1
  <2>6. ASSUME NEW n \in 0 .. Len(x) - 1, n \in Same PROVE n + 1 \in Same
    <3>1. n + 1 \in 1 .. Len(x) /\ (n + 1) - 1 = n
      BY <1>1
    <3>2. g[n + 1] = g[n] \o x[n + 1]
      BY <3>1, <1>6
    <3>5. n + 1 \in 0 .. Len(x)
      BY <3>1
    <3>6. flatten[n + 1] = g[n + 1]
      <4>1. CASE n = 0
        <5>1. flatten[1] = x[1] /\ x[1] \in Seq(C)
          BY <3>1, <4>1, <2>4, <1>1
        <5>2. g[1] = <<>> \o x[1]
          BY <3>2, <4>1, <1>6
        <5>3. <<>> \o x[1] = x[1]
          BY <5>1
        <5> QED
          BY <5>1, <5>2, <5>3, <4>1
      <4>2. CASE n # 0
        <5>1. n + 1 # 1
          BY <4>2
        <5>2. flatten[n + 1] = flatten[n] \o x[n + 1]
          BY <5>1, <3>1, <2>4
        <5>3. flatten[n] = g[n]
          BY <2>6, <4>2
        <5> QED
          BY <5>2, <5>3, <3>2
      <4> QED
        BY <4>1, <4>2
    <3> QED
      BY <3>5, <3>6
  <2>7. 0 .. Len(x) \subseteq Same
    <3> HIDE DEF Same
    <3> QED
      BY <1>1, <2>5, <2>6, SegmentInduction
  <2>8. flatten[Len(x)] = g[Len(x)]
    BY <1>1, <1>8, <2>7
  <2>9. g \in [0 .. Len(x) -> Seq(C)]
    BY <1>4 DEF SeqOf
  <2> QED
    BY <2>1, <2>8, <2>9, <1>5
<1> QED
  BY <1>7, <1>8

(***************************************************************************)
(* So the members of the sequences stand in it one behind the other.       *)
(***************************************************************************)
LEMMA FlattenIs ==
  ASSUME NEW C, NEW x, x \in Seq(Seq(C))
  PROVE  Codec!FlattenSeq(x) \in Seq(C) /\ \E o : Laid(x, Codec!FlattenSeq(x), o)
<1>1. PICK g \in [0 .. Len(x) -> Seq(C)] : Strung(x, g) /\ Codec!FlattenSeq(x) = g[Len(x)]
  BY FlattenAlong
<1>2. Len(x) \in Nat /\ \A i \in 1 .. Len(x) : x[i] \in Seq(C)
  OBVIOUS
<1>3. g[0] = <<>> /\ \A n \in 1 .. Len(x) : g[n] = g[n - 1] \o x[n]
  BY <1>1 DEF Strung
<1> DEFINE f == Codec!FlattenSeq(x)
           o == [i \in 0 .. Len(x) |-> Len(g[i])]
<1>4. f \in Seq(C) /\ f = g[Len(x)]
  BY <1>1, <1>2
<1> HIDE DEF f
<1>5. \A i \in 0 .. Len(x) : g[i] \in Seq(C) /\ Len(g[i]) \in Nat
  BY <1>1
<1>6. o \in [0 .. Len(x) -> Nat] /\ o[0] = 0 /\ Len(f) = o[Len(x)]
  BY <1>3, <1>4, <1>5, <1>2
<1>7. ASSUME NEW i \in 1 .. Len(x)
      PROVE  /\ i - 1 \in 0 .. Len(x) /\ o[i - 1] \in Nat /\ Len(x[i]) \in Nat
             /\ o[i] = o[i - 1] + Len(x[i]) /\ o[i] \in Nat
             /\ \A p \in 1 .. o[i - 1] : g[i][p] = g[i - 1][p]
             /\ \A q \in 1 .. Len(x[i]) : g[i][o[i - 1] + q] = x[i][q]
  <2>1. i - 1 \in 0 .. Len(x) /\ i \in 0 .. Len(x) /\ x[i] \in Seq(C) /\ g[i - 1] \in Seq(C)
    BY <1>2, <1>5
  <2>2. g[i] = g[i - 1] \o x[i] /\ o[i] = Len(g[i]) /\ o[i - 1] = Len(g[i - 1])
    BY <1>3, <2>1
  <2> HIDE DEF o
  <2>3. PICK a, b : a = g[i - 1] /\ b = x[i]
    OBVIOUS
  <2>4. a \in Seq(C) /\ b \in Seq(C) /\ g[i] = a \o b
    BY <2>1, <2>2, <2>3
  <2>5. /\ Len(a \o b) = Len(a) + Len(b) /\ Len(a) \in Nat /\ Len(b) \in Nat
        /\ \A p \in 1 .. Len(a) : (a \o b)[p] = a[p]
        /\ \A q \in 1 .. Len(b) : (a \o b)[Len(a) + q] = b[q]
    BY <2>4
  <2>6. o[i] = o[i - 1] + Len(x[i]) /\ Len(x[i]) \in Nat /\ o[i - 1] \in Nat /\ o[i] \in Nat
    <3>1. o[i] = Len(a \o b)
      BY <2>2, <2>4
    <3>2. o[i - 1] = Len(a) /\ Len(x[i]) = Len(b)
      BY <2>2, <2>3
    <3> QED
      BY ONLY <3>1, <3>2, <2>5
  <2>7. \A p \in 1 .. o[i - 1] : g[i][p] = g[i - 1][p]
    BY <2>2, <2>3, <2>4, <2>5
  <2>8. \A q \in 1 .. Len(x[i]) : g[i][o[i - 1] + q] = x[i][q]
    BY <2>2, <2>3, <2>4, <2>5
  <2> QED
    BY <2>1, <2>6, <2>7, <2>8
<1> HIDE DEF o
\* What stands up to one of them stays.
<1> DEFINE Stays == {n \in 0 .. Len(x) : \A i \in 0 .. n : o[i] <= o[n] /\ \A p \in 1 .. o[i] : g[n][p] = g[i][p]}
<1>8. 0 \in Stays
  BY <1>2, <1>6
<1>9. ASSUME NEW n \in 0 .. Len(x) - 1, n \in Stays PROVE n + 1 \in Stays
  <2>1. n + 1 \in 1 .. Len(x) /\ (n + 1) - 1 = n /\ n + 1 \in 0 .. Len(x) /\ n \in 0 .. Len(x)
    BY <1>2
  <2>2. /\ o[n] \in Nat /\ o[n + 1] \in Nat /\ o[n] <= o[n + 1]
        /\ \A p \in 1 .. o[n] : g[n + 1][p] = g[n][p]
    <3>1. PICK k : k = n + 1
      OBVIOUS
    <3>2. k \in 1 .. Len(x) /\ k - 1 = n
      BY <3>1, <2>1
    <3>3. /\ o[k - 1] \in Nat /\ Len(x[k]) \in Nat /\ o[k] = o[k - 1] + Len(x[k]) /\ o[k] \in Nat
          /\ \A p \in 1 .. o[k - 1] : g[k][p] = g[k - 1][p]
      BY <3>2, <1>7
    <3>4. /\ o[n] \in Nat /\ o[k] \in Nat /\ o[n] <= o[k]
          /\ \A p \in 1 .. o[n] : g[k][p] = g[n][p]
      BY <3>2, <3>3
    <3> QED
      BY <3>1, <3>4
  <2>3. ASSUME NEW i \in 0 .. n + 1 PROVE o[i] <= o[n + 1] /\ \A p \in 1 .. o[i] : g[n + 1][p] = g[i][p]
    <3>1. CASE i = n + 1
      BY <3>1, <2>2
    <3>2. CASE i # n + 1
      <4>1. i \in 0 .. n /\ i \in 0 .. Len(x)
        BY <3>2, <2>1
      <4>2. o[i] \in Nat
        BY <4>1, <1>6
      <4>3. o[i] <= o[n] /\ \A p \in 1 .. o[i] : g[n][p] = g[i][p]
        BY <4>1, <1>9
      <4>4. \A p \in 1 .. o[i] : p \in 1 .. o[n]
        BY <4>2, <4>3, <2>2
      <4> QED
        BY <4>2, <4>3, <4>4, <2>2
    <3> QED
      BY <3>1, <3>2
  <2> QED
    BY <2>1, <2>3
<1>10. 0 .. Len(x) \subseteq Stays
  <2> HIDE DEF Stays
  <2> QED
    BY <1>2, <1>8, <1>9, SegmentInduction
<1>11. \A n \in 0 .. Len(x) : \A i \in 0 .. n : o[i] <= o[n] /\ \A p \in 1 .. o[i] : g[n][p] = g[i][p]
  BY <1>10
<1>12. Len(x) \in 0 .. Len(x)
  BY <1>2
<1>13. ASSUME NEW i \in 1 .. Len(x), NEW q \in 1 .. Len(x[i]) PROVE f[o[i - 1] + q] = x[i][q]
  <2>1. i \in 0 .. Len(x)
    BY <1>2
  <2>2. g[i][o[i - 1] + q] = x[i][q]
    BY <1>7
  <2>3. o[i - 1] + q \in 1 .. o[i]
    BY <1>7, SMTT(30)
  <2>4. \A p \in 1 .. o[i] : g[Len(x)][p] = g[i][p]
    BY <2>1, <1>11, <1>12
  <2> QED
    BY <2>2, <2>3, <2>4, <1>4
<1>14. \A i \in 0 .. Len(x) : o[i] <= o[Len(x)]
  BY <1>11, <1>12
<1>15. ASSUME NEW p \in 1 .. o[Len(x)] PROVE \E i \in 1 .. Len(x) : o[i - 1] < p /\ p <= o[i]
  <2> DEFINE Beyond == {i \in 0 .. Len(x) : p <= o[i]}
  <2>1. Beyond # {} /\ Beyond \in SUBSET Nat
    BY <1>12, <1>6
  <2>2. PICK i \in Beyond : \A j \in Beyond : i <= j
    BY <2>1, LeastNat
  <2>3. i # 0
    BY <2>2, <1>6
  <2>4. i \in 1 .. Len(x) /\ i - 1 \in 0 .. Len(x) /\ i - 1 < i
    BY <2>2, <2>3
  <2>5. ~(p <= o[i - 1])
    BY <2>2, <2>4
  <2>6. o[i - 1] \in Nat /\ p \in Nat
    <3>1. o[Len(x)] \in Nat
      BY <1>6, <1>12
    <3>2. p \in Nat
      BY <3>1
    <3>3. o[i - 1] \in Nat
      BY <1>6, <2>4
    <3> QED
      BY <3>2, <3>3
  <2> QED
    BY <2>2, <2>4, <2>5, <2>6
<1>16. Laid(x, f, o)
  BY <1>6, <1>7, <1>11, <1>13, <1>14, <1>15 DEF Laid
<1> QED
  BY <1>4, <1>16 DEF f

-----------------------------------------------------------------------------
(* Cutting a text at its separators.                                       *)

\* e lists the numbers in S from the least on.
Lists(n, e, S) == /\ e \in [1 .. n -> Nat]
                  /\ \A i \in 1 .. n : \A j \in 1 .. n : i < j => e[i] < e[j]
                  /\ \A i \in 1 .. n : e[i] \in S
                  /\ \A y \in S : \E i \in 1 .. n : y = e[i]

(***************************************************************************)
(* Numbers listed from the least on are those that Nth finds.              *)
(***************************************************************************)
LEMMA NthIs ==
  ASSUME NEW n, NEW e, NEW S, n \in Nat, Lists(n, e, S)
  PROVE  Codec!Cardinality(S) = n /\ \A j \in 1 .. n : Codec!Nth(S, j) = e[j]
<1>9. /\ e \in [1 .. n -> Nat]
      /\ \A i \in 1 .. n : \A j \in 1 .. n : i < j => e[i] < e[j]
      /\ \A i \in 1 .. n : e[i] \in S
      /\ \A y \in S : \E i \in 1 .. n : y = e[i]
  BY DEF Lists
<1>1. ASSUME NEW T PROVE Codec!Cardinality(T) = Cardinality(T)
  BY DEF Codec!Cardinality, Cardinality
<1>8. S = {e[i] : i \in 1 .. n}
  BY <1>9
<1>2. ASSUME NEW m \in 0 .. n PROVE Cardinality({e[i] : i \in 1 .. m}) = m
  <2> DEFINE T == {e[i] : i \in 1 .. m}
             d == [i \in 1 .. m |-> e[i]]
  <2>1. m \in Nat /\ \A i \in 1 .. m : i \in 1 .. n /\ e[i] \in Nat
    BY <1>9
  <2>2. d \in [1 .. m -> T]
    OBVIOUS
  <2>3. ASSUME NEW i \in 1 .. m, NEW j \in 1 .. m, d[i] = d[j] PROVE i = j
    <3>1. e[i] = e[j] /\ e[i] \in Nat /\ i \in 1 .. n /\ j \in 1 .. n
      BY <2>1, <2>3
    <3>2. ~(i < j) /\ ~(j < i)
      BY <3>1, <1>9
    <3> QED
      BY <3>1, <3>2
  <2>4. \A y \in T : \E i \in 1 .. m : d[i] = y
    OBVIOUS
  <2>5. d \in Bijection(1 .. m, T)
    BY <2>2, <2>3, <2>4 DEF Bijection, Injection, Surjection, IsInjective
  <2>6. ExistsBijection(1 .. m, T)
    BY <2>5 DEF ExistsBijection
  <2> HIDE DEF T
  <2>7. Cardinality(T) = m
    BY <2>1, <2>6, FS_CountingElements
  <2> QED
    BY <2>7 DEF T
<1>3. n \in 0 .. n
  OBVIOUS
<1>4. ASSUME NEW j \in 1 .. n PROVE {k \in S : k <= e[j]} = {e[i] : i \in 1 .. j}
  <2>1. ASSUME NEW i \in 1 .. n PROVE e[i] <= e[j] <=> i <= j
    <3>1. e[i] \in Nat /\ e[j] \in Nat
      BY <1>9
    <3>2. CASE i < j
      BY <3>1, <3>2, <1>9
    <3>3. CASE i = j
      BY <3>1, <3>3
    <3>4. CASE j < i
      BY <3>1, <3>4, <1>9
    <3> QED
      BY <3>2, <3>3, <3>4
  <2>2. \A i \in 1 .. j : i \in 1 .. n /\ i <= j
    OBVIOUS
  <2>3. \A i \in 1 .. n : i <= j => i \in 1 .. j
    OBVIOUS
  <2> QED
    BY <2>1, <2>2, <2>3, <1>8
<1>5. ASSUME NEW j \in 1 .. n PROVE Codec!Cardinality({k \in S : k <= e[j]}) = j
  <2>1. j \in 0 .. n
    OBVIOUS
  <2>2. Cardinality({e[i] : i \in 1 .. j}) = j
    BY <2>1, <1>2
  <2> QED
    BY <2>2, <1>1, <1>4
<1>6. ASSUME NEW j \in 1 .. n PROVE Codec!Nth(S, j) = e[j]
  <2> DEFINE N(i) == Codec!Cardinality({k \in S : k <= i}) = j
  <2>1. e[j] \in S /\ N(e[j])
    BY <1>5, <1>9
  <2>2. ASSUME NEW i \in S, N(i) PROVE i = e[j]
    <3>1. PICK m \in 1 .. n : i = e[m]
      BY <1>9
    <3>2. N(e[m]) /\ Codec!Cardinality({k \in S : k <= e[m]}) = m
      BY <3>1, <2>2, <1>5
    <3> QED
      BY <3>1, <3>2
  <2>3. Codec!Nth(S, j) = CHOOSE i \in S : N(i)
    BY DEF Codec!Nth
  <2> HIDE DEF N
  <2> QED
    BY <2>1, <2>2, <2>3
<1>7. Codec!Cardinality(S) = n
  BY <1>1, <1>2, <1>3, <1>8
<1> QED
  BY <1>6, <1>7

(***************************************************************************)
(* A piece of a text is what stands there.                                 *)
(***************************************************************************)
LEMMA PieceIs ==
  ASSUME NEW C, NEW t, t \in Seq(C), NEW u, u \in Seq(C), NEW a, a \in Nat, a + Len(u) <= Len(t),
         \A q \in 1 .. Len(u) : t[a + q] = u[q]
  PROVE  SubSeq(t, a + 1, a + Len(u)) = u
<1>1. Len(t) \in Nat /\ Len(u) \in Nat
  OBVIOUS
<1> DEFINE s1 == SubSeq(t, a + 1, a + Len(u))
<1>2. s1 = [k \in 1 .. (a + Len(u)) - (a + 1) + 1 |-> t[k + (a + 1) - 1]]
  BY <1>1, SMTT(30)
<1>3. (a + Len(u)) - (a + 1) + 1 = Len(u)
  BY <1>1
<1>4. s1 = [k \in 1 .. Len(u) |-> t[k + (a + 1) - 1]]
  BY <1>2, <1>3
<1>5. \A k \in 1 .. Len(u) : k + (a + 1) - 1 = a + k
  BY <1>1
<1>6. u = [k \in 1 .. Len(u) |-> u[k]]
  OBVIOUS
<1> QED
  BY <1>4, <1>5, <1>6

(***************************************************************************)
(* Texts without the separator that are joined come apart as they were.    *)
(***************************************************************************)
LEMMA SplitJoin ==
  ASSUME NEW C, NEW ts, ts \in Seq(Seq(C)), ts # <<>>, NEW c, c \in C,
         \A i \in 1 .. Len(ts) : \A q \in 1 .. Len(ts[i]) : ts[i][q] # c
  PROVE  Codec!Join(ts, c) \in Seq(C) /\ Codec!Split(Codec!Join(ts, c), c) = ts
<1> DEFINE n == Len(ts)
           x == [i \in DOMAIN ts |-> IF i = 1 THEN ts[i] ELSE <<c>> \o ts[i]]
           t == Codec!FlattenSeq(x)
<1>1. n \in Nat /\ n >= 1 /\ DOMAIN ts = 1 .. n /\ \A i \in 1 .. n : ts[i] \in Seq(C) /\ Len(ts[i]) \in Nat
  BY ts # <<>>
<1>2. \A i \in 1 .. n : /\ i = 1 => x[i] = ts[i]
                        /\ i # 1 => /\ x[i] \in Seq(C) /\ Len(x[i]) = 1 + Len(ts[i]) /\ x[i][1] = c
                                    /\ \A q \in 1 .. Len(ts[i]) : x[i][1 + q] = ts[i][q]
  <2>1. ASSUME NEW i \in 1 .. n, i # 1
        PROVE  /\ <<c>> \o ts[i] \in Seq(C) /\ Len(<<c>> \o ts[i]) = 1 + Len(ts[i]) /\ (<<c>> \o ts[i])[1] = c
               /\ \A q \in 1 .. Len(ts[i]) : (<<c>> \o ts[i])[1 + q] = ts[i][q]
    <3>1. ts[i] \in Seq(C) /\ <<c>> \in Seq(C) /\ Len(<<c>>) = 1 /\ <<c>>[1] = c
      BY <1>1
    <3> QED
      BY <3>1
  <2> QED
    BY <2>1, <1>1
<1>3. x \in Seq(Seq(C)) /\ Len(x) = n
  <2>1. \A i \in 1 .. n : x[i] \in Seq(C)
    BY <1>1, <1>2
  <2> QED
    BY <2>1, <1>1
<1>4. Codec!Join(ts, c) = t
  BY DEF Codec!Join
<1> HIDE DEF x, t
<1>5. t \in Seq(C) /\ \E o : Laid(x, t, o)
  BY <1>3, FlattenIs DEF t
<1>6. PICK o : Laid(x, t, o)
  BY <1>5
<1>7. /\ o \in [0 .. n -> Nat] /\ o[0] = 0 /\ Len(t) = o[n] /\ o[n] \in Nat
      /\ \A i \in 1 .. n : o[i] = o[i - 1] + Len(x[i]) /\ i - 1 \in 0 .. n
      /\ \A i \in 1 .. n : \A q \in 1 .. Len(x[i]) : t[o[i - 1] + q] = x[i][q]
      /\ \A i \in 0 .. n : o[i] <= o[n] /\ o[i] \in Nat
      /\ \A i \in 0 .. n : \A j \in 0 .. i : o[j] <= o[i]
      /\ \A p \in 1 .. o[n] : \E i \in 1 .. n : o[i - 1] < p /\ p <= o[i]
  <2>1. n \in 0 .. n /\ \A i \in 1 .. n : i - 1 \in 0 .. n
    BY <1>1
  <2> QED
    BY <2>1, <1>6, <1>3 DEF Laid
<1> HIDE DEF n
<1> DEFINE e == [j \in 1 .. n - 1 |-> o[j] + 1]
           seps == {p \in DOMAIN t : t[p] = c}
\* The places of the separators.
<1>8. ASSUME NEW j \in 1 .. n - 1
      PROVE  /\ j \in 0 .. n /\ j + 1 \in 1 .. n /\ j + 1 \in 0 .. n /\ (j + 1) - 1 = j /\ j + 1 # 1
             /\ o[j] + 1 <= o[j + 1] /\ o[j] + 1 \in 1 .. o[n] /\ t[o[j] + 1] = c
  <2>1. j \in 0 .. n /\ j + 1 \in 1 .. n /\ j + 1 \in 0 .. n /\ (j + 1) - 1 = j /\ j + 1 # 1
    BY <1>1
  <2>2. PICK k : k = j + 1
    OBVIOUS
  <2>3. k \in 1 .. n /\ k - 1 = j /\ k # 1 /\ k \in 0 .. n
    BY <2>1, <2>2
  <2>4. o[k] = o[j] + Len(x[k]) /\ Len(x[k]) = 1 + Len(ts[k]) /\ Len(ts[k]) \in Nat /\ x[k][1] = c
    BY <2>3, <1>1, <1>2, <1>7
  <2>5. 1 \in 1 .. Len(x[k])
    BY <2>4
  <2>6. t[o[k - 1] + 1] = x[k][1]
    BY <2>3, <2>5, <1>7
  <2>7. o[j] \in Nat /\ o[k] \in Nat /\ o[k] <= o[n] /\ o[n] \in Nat
    BY <2>1, <2>3, <1>7
  <2>8. o[j] + 1 <= o[k] /\ o[j] + 1 \in 1 .. o[n]
    <3>1. PICK a, b, l, m : a = o[j] /\ b = o[k] /\ l = Len(ts[k]) /\ m = o[n]
      OBVIOUS
    <3>2. a \in Nat /\ b = a + (1 + l) /\ l \in Nat /\ b \in Nat /\ m \in Nat /\ b <= m
      BY <2>4, <2>7, <3>1
    <3>3. a + 1 <= b /\ a + 1 \in 1 .. m
      BY ONLY <3>2
    <3> QED
      BY <3>1, <3>3
  <2>9. t[o[j] + 1] = c
    BY <2>3, <2>4, <2>6
  <2> QED
    BY <2>1, <2>2, <2>8, <2>9
<1>9. e \in [1 .. n - 1 -> Nat] /\ n - 1 \in Nat
  <2>1. ASSUME NEW j \in 1 .. n - 1 PROVE o[j] + 1 \in Nat
    BY <1>7, <1>8
  <2> QED
    BY <2>1, <1>1
<1>10. ASSUME NEW i \in 1 .. n - 1, NEW j \in 1 .. n - 1, i < j PROVE e[i] < e[j]
  <2>1. i + 1 \in 0 .. j /\ j \in 0 .. n /\ i + 1 \in 0 .. n
    BY <1>1, <1>8, <1>10
  <2>2. o[i] + 1 <= o[i + 1] /\ o[i + 1] <= o[j]
    BY <2>1, <1>7, <1>8
  <2>3. o[i] \in Nat /\ o[i + 1] \in Nat /\ o[j] \in Nat
    BY <2>1, <1>7, <1>8
  <2>4. o[i] + 1 < o[j] + 1
    BY ONLY <2>2, <2>3
  <2>5. e[i] = o[i] + 1 /\ e[j] = o[j] + 1
    OBVIOUS
  <2> HIDE DEF e
  <2> QED
    BY <2>4, <2>5
<1>11. /\ \A j \in 1 .. n - 1 : e[j] \in seps
       /\ \A p \in seps : \E j \in 1 .. n - 1 : p = e[j]
  <2>1. ASSUME NEW p \in seps PROVE \E j \in 1 .. n - 1 : p = e[j]
    <3>1. p \in 1 .. o[n] /\ p \in Nat /\ t[p] = c
      BY <1>5, <1>7
    <3>2. PICK i \in 1 .. n : o[i - 1] < p /\ p <= o[i]
      BY <3>1, <1>7
    <3>3. o[i - 1] \in Nat /\ o[i] = o[i - 1] + Len(x[i]) /\ Len(ts[i]) \in Nat
      BY <1>1, <1>7
    <3>4. PICK q : q = p - o[i - 1]
      OBVIOUS
    <3>5. CASE i = 1
      <4>1. x[i] = ts[i]
        BY <3>5, <1>2
      <4>2. q \in 1 .. Len(x[i]) /\ o[i - 1] + q = p
        BY <3>1, <3>2, <3>3, <3>4, <4>1, SMTT(30)
      <4>3. t[p] = x[i][q]
        BY <4>2, <1>7
      <4>4. i \in 1 .. Len(ts) /\ q \in 1 .. Len(ts[i])
        BY <4>1, <4>2 DEF n
      <4> QED
        BY <3>1, <4>1, <4>3, <4>4
    <3>6. CASE i # 1
      <4>1. Len(x[i]) = 1 + Len(ts[i]) /\ \A r \in 1 .. Len(ts[i]) : x[i][1 + r] = ts[i][r]
        BY <3>6, <1>2
      <4>2. q \in 1 .. Len(x[i]) /\ o[i - 1] + q = p
        BY <3>1, <3>2, <3>3, <3>4, <4>1, SMTT(30)
      <4>3. t[p] = x[i][q]
        BY <4>2, <1>7
      <4>4. q = 1
        <5>1. SUFFICES ASSUME q # 1 PROVE FALSE
          OBVIOUS
        <5>2. q - 1 \in 1 .. Len(ts[i]) /\ 1 + (q - 1) = q
          BY <5>1, <4>1, <4>2, <3>3
        <5>3. x[i][q] = ts[i][q - 1]
          BY <5>2, <4>1
        <5>4. i \in 1 .. Len(ts)
          BY DEF n
        <5> QED
          BY <5>2, <5>3, <5>4, <4>3, <3>1
      <4>5. i - 1 \in 1 .. n - 1 /\ p = o[i - 1] + 1
        BY <4>2, <4>4, <3>6, <1>1
      <4> QED
        BY <4>5
    <3> QED
      BY <3>5, <3>6
  <2>2. ASSUME NEW j \in 1 .. n - 1 PROVE e[j] \in seps
    <3>1. DOMAIN t = 1 .. o[n]
      BY <1>5, <1>7
    <3> QED
      BY <3>1, <1>8
  <2> HIDE DEF seps, e
  <2> QED
    BY <2>1, <2>2
<1>12. Codec!Cardinality(seps) = n - 1 /\ \A j \in 1 .. n - 1 : Codec!Nth(seps, j) = e[j]
  <2>1. PICK m : m = n - 1
    OBVIOUS
  <2>2. m \in Nat
    BY <2>1, <1>9
  <2>5. e \in [1 .. m -> Nat]
    BY <2>1, <1>9
  <2>6. \A i \in 1 .. m : \A j \in 1 .. m : i < j => e[i] < e[j]
    BY <2>1, <1>10
  <2>3. \A j \in 1 .. m : e[j] \in seps
    BY <2>1, <1>11
  <2>7. \A p \in seps : \E j \in 1 .. m : p = e[j]
    BY <2>1, <1>11
  <2> HIDE DEF e, seps
  <2>4. Codec!Cardinality(seps) = m /\ \A j \in 1 .. m : Codec!Nth(seps, j) = e[j]
    <3>1. Lists(m, e, seps)
      BY <2>3, <2>5, <2>6, <2>7 DEF Lists
    <3> QED
      BY <3>1, <2>2, NthIs
  <2> QED
    BY <2>1, <2>4
\* The pieces between them.
<1> DEFINE pieces == Codec!Cardinality(seps) + 1
           end(j) == IF j = pieces THEN Len(t) + 1 ELSE IF j = 0 THEN 0 ELSE Codec!Nth(seps, j)
<1>13. Codec!Split(t, c) = [j \in 1 .. pieces |-> SubSeq(t, end(j - 1) + 1, end(j) - 1)]
  BY DEF Codec!Split
<1>14. pieces = n
  BY <1>12, <1>1
<1>15. end(0) = 0 /\ \A j \in 1 .. n : end(j) = o[j] + 1
  <2>1. end(0) = 0
    BY <1>14, <1>1
  <2>2. ASSUME NEW j \in 1 .. n PROVE end(j) = o[j] + 1
    <3>1. CASE j = n
      BY <3>1, <1>14, <1>7
    <3>2. CASE j # n
      <4>1. j \in 1 .. n - 1 /\ j # 0
        BY <3>2, <1>1
      <4> HIDE DEF seps
      <4> QED
        BY <4>1, <3>2, <1>12, <1>14
    <3> QED
      BY <3>1, <3>2
  <2> QED
    BY <2>1, <2>2
<1> HIDE DEF pieces, end
<1>16. ASSUME NEW j \in 1 .. n PROVE SubSeq(t, end(j - 1) + 1, end(j) - 1) = ts[j]
  <2>1. /\ ts[j] \in Seq(C) /\ Len(ts[j]) \in Nat /\ j - 1 \in 0 .. n /\ o[j - 1] \in Nat /\ o[j] \in Nat
        /\ o[j] = o[j - 1] + Len(x[j]) /\ o[j] <= Len(t) /\ end(j) = o[j] + 1 /\ end(j) - 1 = o[j]
    <3>1. j \in 0 .. n /\ j - 1 \in 0 .. n
      BY <1>1
    <3>2. o[j] \in Nat /\ o[j - 1] \in Nat /\ o[j] <= Len(t) /\ o[j] = o[j - 1] + Len(x[j])
      BY <3>1, <1>7
    <3>3. end(j) = o[j] + 1
      BY <1>15
    <3>4. end(j) - 1 = o[j]
      BY <3>2, <3>3
    <3> QED
      BY <3>1, <3>2, <3>3, <3>4, <1>1
  <2>2. \E a \in Nat : /\ end(j - 1) = a /\ o[j] = a + Len(ts[j])
                       /\ \A q \in 1 .. Len(ts[j]) : t[a + q] = ts[j][q]
    <3>1. CASE j = 1
      <4>1. x[j] = ts[j] /\ end(j - 1) = 0 /\ o[j - 1] = 0
        BY <3>1, <1>2, <1>7, <1>15
      <4>2. \A q \in 1 .. Len(ts[j]) : t[0 + q] = ts[j][q]
        BY <4>1, <1>7
      <4>3. o[j] = 0 + Len(ts[j])
        BY <4>1, <2>1
      <4> QED
        BY <4>1, <4>2, <4>3
    <3>2. CASE j # 1
      <4>1. PICK a : a = o[j - 1] + 1
        OBVIOUS
      <4>2. j - 1 \in 1 .. n
        BY <3>2, <1>1
      <4>3. Len(x[j]) = 1 + Len(ts[j]) /\ \A r \in 1 .. Len(ts[j]) : x[j][1 + r] = ts[j][r]
        BY <3>2, <1>2
      <4>4. end(j - 1) = a /\ a \in Nat
        BY <4>1, <4>2, <1>15, <2>1, SMTT(30)
      <4>5. o[j] = a + Len(ts[j])
        <5>1. PICK b, k, l : b = o[j - 1] /\ k = Len(x[j]) /\ l = Len(ts[j])
          OBVIOUS
        <5>2. o[j] = b + k /\ a = b + 1 /\ k = 1 + l /\ l \in Nat /\ b \in Nat
          BY ONLY <5>1, <4>1, <4>3, <2>1
        <5>3. o[j] = a + l
          BY ONLY <5>2
        <5> QED
          BY <5>1, <5>3
      <4>6. ASSUME NEW q \in 1 .. Len(ts[j]) PROVE t[a + q] = ts[j][q]
        <5>1. PICK r : r = 1 + q
          OBVIOUS
        <5>2. r \in 1 .. Len(x[j]) /\ a + q = o[j - 1] + r
          <6>1. PICK b, k, l : b = o[j - 1] /\ k = Len(x[j]) /\ l = Len(ts[j])
            OBVIOUS
          <6>2. a = b + 1 /\ k = 1 + l /\ l \in Nat /\ b \in Nat
            BY ONLY <6>1, <4>1, <4>3, <2>1
          <6>3. q \in 1 .. l
            BY <6>1
          <6>4. r \in 1 .. k /\ a + q = b + r
            BY ONLY <6>2, <6>3, <5>1
          <6> QED
            BY <6>1, <6>4
        <5>3. t[o[j - 1] + r] = x[j][r]
          BY <5>2, <1>7
        <5>4. x[j][r] = ts[j][q]
          BY <5>1, <4>3
        <5> QED
          BY <5>2, <5>3, <5>4
      <4> QED
        BY <4>4, <4>5, <4>6
    <3> QED
      BY <3>1, <3>2
  <2>3. PICK a \in Nat : /\ end(j - 1) = a /\ o[j] = a + Len(ts[j])
                         /\ \A q \in 1 .. Len(ts[j]) : t[a + q] = ts[j][q]
    BY <2>2
  <2>4. PICK u : u = ts[j]
    OBVIOUS
  <2>5. u \in Seq(C) /\ a + Len(u) <= Len(t) /\ \A q \in 1 .. Len(u) : t[a + q] = u[q]
    BY <2>1, <2>3, <2>4
  <2>6. SubSeq(t, a + 1, a + Len(u)) = u
    BY <2>5, <1>5, PieceIs
  <2>7. end(j - 1) + 1 = a + 1 /\ end(j) - 1 = a + Len(u)
    BY <2>1, <2>3, <2>4
  <2> QED
    BY <2>4, <2>6, <2>7
<1>17. ts = [j \in 1 .. n |-> ts[j]]
  BY <1>1
<1>18. Codec!Split(t, c) = ts
  BY <1>13, <1>14, <1>16, <1>17
<1> QED
  BY <1>4, <1>5, <1>18

-----------------------------------------------------------------------------
(* Escaping.                                                               *)

Letters == Codec!Characters
Signs   == {"bs", "bar", "nl", "cr"}

(***************************************************************************)
(* A character is written as itself, or as a backslash with one that means *)
(* it and none other.                                                      *)
(***************************************************************************)
LEMMA EscapedIs ==
  ASSUME NEW c, c \in Letters
  PROVE  /\ c \in Signs => /\ Codec!Escaped(c) = <<"bs", Codec!Escapes[c]>>
                           /\ Codec!Escapes[c] \in Letters \ {"bar", "nl", "cr"}
                           /\ Codec!Meant(Codec!Escapes[c]) = c
         /\ c \notin Signs => Codec!Escaped(c) = <<c>>
<1>1. DOMAIN Codec!Escapes = Signs
  BY DEF Codec!Escapes, Signs
<1>2. /\ Codec!Escapes["bs"] = "bs" /\ Codec!Escapes["bar"] = "p"
      /\ Codec!Escapes["nl"] = "n" /\ Codec!Escapes["cr"] = "r"
  BY DEF Codec!Escapes
<1>3. c \notin Signs => Codec!Escaped(c) = <<c>>
  BY <1>1 DEF Codec!Escaped
<1>4. ASSUME c \in Signs
      PROVE  /\ Codec!Escaped(c) = <<"bs", Codec!Escapes[c]>>
             /\ Codec!Escapes[c] \in Letters \ {"bar", "nl", "cr"}
             /\ Codec!Meant(Codec!Escapes[c]) = c
  <2>1. Codec!Escaped(c) = <<"bs", Codec!Escapes[c]>>
    BY <1>1, <1>4 DEF Codec!Escaped
  <2>2. Codec!Escapes[c] \in {"bs", "p", "n", "r"}
    BY <1>2, <1>4 DEF Signs
  <2>3. {"bs", "p", "n", "r"} \subseteq Letters \ {"bar", "nl", "cr"}
    BY DEF Letters, Codec!Characters
  <2>4. \A e \in Signs : Codec!Escapes[e] = Codec!Escapes[c] => e = c
    BY <1>2, <1>4 DEF Signs
  <2>5. Codec!Meant(Codec!Escapes[c]) = c
    <3> DEFINE M(e) == Codec!Escapes[e] = Codec!Escapes[c]
    <3>1. Codec!Meant(Codec!Escapes[c]) =
            IF \E e \in Signs : M(e) THEN CHOOSE e \in Signs : M(e) ELSE Codec!Escapes[c]
      BY <1>1 DEF Codec!Meant
    <3>2. M(c) /\ \A e \in Signs : M(e) => e = c
      BY <2>4
    <3> HIDE DEF M
    <3> QED
      BY <3>1, <3>2, <1>4
  <2> QED
    BY <2>1, <2>2, <2>3, <2>5
<1> QED
  BY <1>3, <1>4

\* What stands for each character of a text.
EscapedAll(t) == [i \in DOMAIN t |-> Codec!Escaped(t[i])]

(***************************************************************************)
(* An escaped text has none of the characters that separate fields and     *)
(* frames, and what stands for its characters stands in it in their order. *)
(***************************************************************************)
LEMMA EscapeIs ==
  ASSUME NEW t, t \in Seq(Letters)
  PROVE  /\ Codec!Escape(t) \in Seq(Letters)
         /\ \A p \in 1 .. Len(Codec!Escape(t)) : Codec!Escape(t)[p] \notin {"bar", "nl", "cr"}
         /\ EscapedAll(t) \in Seq(Seq(Letters)) /\ Len(EscapedAll(t)) = Len(t)
         /\ \E o : Laid(EscapedAll(t), Codec!Escape(t), o)
<1> DEFINE C == Letters \ {"bar", "nl", "cr"}
           x == EscapedAll(t)
<1>1. Len(t) \in Nat /\ DOMAIN t = 1 .. Len(t) /\ \A i \in 1 .. Len(t) : t[i] \in Letters
  OBVIOUS
<1>2. "bs" \in C
  BY DEF Letters, Codec!Characters
<1>3. ASSUME NEW c, c \in Letters PROVE Codec!Escaped(c) \in Seq(C)
  <2>1. CASE c \in Signs
    <3>1. Codec!Escaped(c) = <<"bs", Codec!Escapes[c]>> /\ Codec!Escapes[c] \in C
      BY <1>3, <2>1, EscapedIs
    <3> HIDE DEF C
    <3> QED
      BY <3>1, <1>2
  <2>2. CASE c \notin Signs
    <3>1. Codec!Escaped(c) = <<c>> /\ c \in C
      BY <1>3, <2>2, EscapedIs DEF Signs
    <3> HIDE DEF C
    <3> QED
      BY <3>1
  <2> QED
    BY <2>1, <2>2
<1>4. x \in Seq(Seq(C)) /\ Len(x) = Len(t)
  <2>1. \A i \in 1 .. Len(t) : x[i] \in Seq(C)
    BY <1>1, <1>3 DEF EscapedAll
  <2>2. x = [i \in 1 .. Len(t) |-> x[i]]
    BY <1>1 DEF EscapedAll
  <2> HIDE DEF x, C
  <2> QED
    BY <2>1, <2>2, <1>1
<1>5. Codec!Escape(t) = Codec!FlattenSeq(x)
  BY DEF Codec!Escape, EscapedAll
<1>6. Codec!FlattenSeq(x) \in Seq(C) /\ \E o : Laid(x, Codec!FlattenSeq(x), o)
  <2> HIDE DEF x, C
  <2> QED
    BY <1>4, FlattenIs
<1>7. \A u : u \in Seq(C) => u \in Seq(Letters) /\ \A p \in 1 .. Len(u) : u[p] \notin {"bar", "nl", "cr"}
  OBVIOUS
<1>8. x \in Seq(Seq(Letters))
  <2>1. \A i \in 1 .. Len(x) : x[i] \in Seq(Letters)
    <3> HIDE DEF x
    <3> QED
      BY <1>4, <1>7
  <2>2. \A y : y \in Seq(Seq(C)) /\ (\A i \in 1 .. Len(y) : y[i] \in Seq(Letters)) => y \in Seq(Seq(Letters))
    OBVIOUS
  <2> HIDE DEF x, C
  <2> QED
    BY <2>1, <2>2, <1>4
<1> QED
  BY <1>4, <1>5, <1>6, <1>7, <1>8

\* What has been read of a text, with one character more.
ReadMore(t, r, n) ==
  IF r.open THEN [out |-> Append(r.out, Codec!Meant(t[n])), open |-> FALSE]
  ELSE IF t[n] = "bs" /\ n < Len(t) THEN [out |-> r.out, open |-> TRUE]
  ELSE [out |-> Append(r.out, t[n]), open |-> FALSE]

HalfRead == [out : Seq(Letters), open : BOOLEAN]

ReadAlong(t, u) ==
  /\ u \in [0 .. Len(t) -> HalfRead] /\ u[0] = [out |-> <<>>, open |-> FALSE]
  /\ \A n \in 1 .. Len(t) : u[n] = ReadMore(t, u[n - 1], n)

(***************************************************************************)
(* The recursion that Unescape is made of has a value.                     *)
(***************************************************************************)
LEMMA UnescapeAlong ==
  ASSUME NEW t, t \in Seq(Letters)
  PROVE  \E u : ReadAlong(t, u) /\ Codec!Unescape(t) = u[Len(t)].out
<1>1. Len(t) \in Nat /\ \A i \in 1 .. Len(t) : t[i] \in Letters
  OBVIOUS
<1>2. \A c : c \in Letters => Codec!Meant(c) \in Letters
  <2>1. ASSUME NEW c, c \in Letters PROVE Codec!Meant(c) \in Letters
    <3>1. DOMAIN Codec!Escapes \subseteq Letters
      BY DEF Codec!Escapes, Letters, Codec!Characters
    <3> DEFINE M(e) == Codec!Escapes[e] = c
    <3>2. Codec!Meant(c) = IF \E e \in DOMAIN Codec!Escapes : M(e)
                           THEN CHOOSE e \in DOMAIN Codec!Escapes : M(e) ELSE c
      BY DEF Codec!Meant
    <3> HIDE DEF M
    <3> QED
      BY <3>1, <3>2, <2>1
  <2> QED
    BY <2>1
<1>3. ASSUME NEW r \in HalfRead, NEW n \in 1 .. Len(t) PROVE ReadMore(t, r, n) \in HalfRead
  <2>1. r.out \in Seq(Letters) /\ r.open \in BOOLEAN /\ t[n] \in Letters /\ Codec!Meant(t[n]) \in Letters
    BY <1>1, <1>2 DEF HalfRead
  <2>2. Append(r.out, t[n]) \in Seq(Letters) /\ Append(r.out, Codec!Meant(t[n])) \in Seq(Letters)
    BY <2>1
  <2> QED
    BY <2>1, <2>2 DEF ReadMore, HalfRead
<1> DEFINE F == [n \in Nat |-> [r \in HalfRead |-> IF n \in 1 .. Len(t) THEN ReadMore(t, r, n) ELSE r]]
           m == Len(t)
           e == [out |-> <<>>, open |-> FALSE]
<1>4. F \in [Nat -> [HalfRead -> HalfRead]] /\ m \in Nat /\ e \in HalfRead
  <2>1. F \in [Nat -> [HalfRead -> HalfRead]]
    BY <1>3
  <2>2. e \in HalfRead
    BY DEF HalfRead
  <2> QED
    BY <2>1, <2>2, <1>1
<1>5. \E u \in [0 .. m -> HalfRead] : u[0] = e /\ \A n \in 1 .. m : u[n] = F[n][u[n - 1]]
  <2> HIDE DEF F, m, e
  <2> QED
    BY ONLY <1>4, RecursionExists, Z3
<1>6. PICK u \in [0 .. m -> HalfRead] : u[0] = e /\ \A n \in 1 .. m : u[n] = F[n][u[n - 1]]
  BY <1>5
<1>7. ASSUME NEW n \in 1 .. Len(t) PROVE u[n] = ReadMore(t, u[n - 1], n)
  <2>1. n \in Nat /\ n - 1 \in 0 .. m
    BY <1>1
  <2>2. u[n - 1] \in HalfRead
    BY <2>1, <1>6
  <2>3. u[n] = F[n][u[n - 1]]
    BY <1>6
  <2> QED
    BY <2>1, <2>2, <2>3
<1>8. ReadAlong(t, u)
  BY <1>6, <1>7 DEF ReadAlong
<1> DEFINE Body(upto) ==
             [i \in 0 .. Len(t) |->
                IF i = 0 THEN [out |-> <<>>, open |-> FALSE]
                ELSE IF upto[i-1].open THEN [out |-> Append(upto[i-1].out, Codec!Meant(t[i])), open |-> FALSE]
                ELSE IF t[i] = "bs" /\ i < Len(t) THEN [out |-> upto[i-1].out, open |-> TRUE]
                ELSE [out |-> Append(upto[i-1].out, t[i]), open |-> FALSE]]
           upto == CHOOSE upto : upto = Body(upto)
<1>9. u = Body(u)
  <2>1. ASSUME NEW i \in 0 .. Len(t) PROVE u[i] = Body(u)[i]
    <3>1. CASE i = 0
      BY <3>1, <1>6
    <3>2. CASE i # 0
      <4>1. i \in 1 .. Len(t)
        BY <3>2, <1>1
      <4> QED
        BY <3>2, <4>1, <1>7 DEF ReadMore
    <3> QED
      BY <3>1, <3>2
  <2> QED
    BY <2>1
<1>10. upto = Body(upto)
  <2> HIDE DEF Body
  <2> QED
    BY <1>9
<1>11. Codec!Unescape(t) = upto[Len(t)].out
  BY DEF Codec!Unescape
<1> HIDE DEF upto
<1>12. upto[0] = [out |-> <<>>, open |-> FALSE] /\ \A n \in 1 .. Len(t) : upto[n] = ReadMore(t, upto[n - 1], n)
  <2>1. upto[0] = Body(upto)[0]
    BY <1>10
  <2>2. ASSUME NEW n \in 1 .. Len(t) PROVE upto[n] = ReadMore(t, upto[n - 1], n)
    <3>1. n \in 0 .. Len(t) /\ n # 0
      BY <1>1
    <3>2. upto[n] = Body(upto)[n]
      BY <1>10
    <3> QED
      BY <3>1, <3>2 DEF ReadMore
  <2> QED
    BY <2>1, <2>2, <1>1
<1> HIDE DEF Body
<1> DEFINE Same == {n \in 0 .. Len(t) : upto[n] = u[n]}
<1>13. 0 \in Same
  <2>1. u[0] = [out |-> <<>>, open |-> FALSE]
    BY <1>6
  <2>2. upto[0] = u[0]
    BY <2>1, <1>12
  <2> QED
    BY <2>2, <1>1
<1>14. ASSUME NEW n \in 0 .. Len(t) - 1, n \in Same PROVE n + 1 \in Same
  <2>1. n + 1 \in 1 .. Len(t) /\ (n + 1) - 1 = n /\ n + 1 \in 0 .. Len(t)
    BY <1>1
  <2>2. upto[n + 1] = ReadMore(t, upto[n], n + 1) /\ u[n + 1] = ReadMore(t, u[n], n + 1)
    BY <2>1, <1>7, <1>12
  <2>3. upto[n + 1] = u[n + 1]
    BY <2>2, <1>14
  <2> QED
    BY <2>1, <2>3
<1>15. 0 .. Len(t) \subseteq Same
  <2> HIDE DEF Same
  <2> QED
    BY <1>1, <1>13, <1>14, SegmentInduction
<1>16. upto[Len(t)] = u[Len(t)]
  BY <1>1, <1>15
<1> QED
  BY <1>8, <1>11, <1>16

\* A text up to one character more.
LEMMA OneMore ==
  ASSUME NEW C, NEW t, t \in Seq(C), NEW i \in 0 .. Len(t) - 1
  PROVE  Append(SubSeq(t, 1, i), t[i + 1]) = SubSeq(t, 1, i + 1)
<1>1. Len(t) \in Nat /\ i \in Nat /\ i + 1 \in 1 .. Len(t)
  OBVIOUS
<1>2. SubSeq(t, 1, i) = [k \in 1 .. i |-> t[k]]
  <2>1. SubSeq(t, 1, i) = [k \in 1 .. (i - 1) + 1 |-> t[(k + 1) - 1]]
    BY <1>1
  <2>2. (i - 1) + 1 = i /\ \A k \in 1 .. i : (k + 1) - 1 = k
    BY <1>1
  <2> QED
    BY <2>1, <2>2
<1>3. SubSeq(t, 1, i + 1) = [k \in 1 .. i + 1 |-> t[k]]
  <2>1. SubSeq(t, 1, i + 1) = [k \in 1 .. ((i + 1) - 1) + 1 |-> t[(k + 1) - 1]]
    BY <1>1
  <2>2. ((i + 1) - 1) + 1 = i + 1 /\ \A k \in 1 .. i + 1 : (k + 1) - 1 = k
    BY <1>1
  <2> QED
    BY <2>1, <2>2
<1>4. PICK a : a = [k \in 1 .. i |-> t[k]]
  OBVIOUS
<1>5. a \in Seq(C) /\ Len(a) = i /\ \A k \in 1 .. i : a[k] = t[k]
  BY <1>1, <1>4
<1>6. Append(a, t[i + 1]) = [k \in 1 .. i + 1 |-> IF k = i + 1 THEN t[i + 1] ELSE a[k]]
  BY <1>1, <1>5
<1>7. \A k \in 1 .. i + 1 : (IF k = i + 1 THEN t[i + 1] ELSE a[k]) = t[k]
  BY <1>1, <1>5
<1> QED
  BY <1>2, <1>3, <1>4, <1>6, <1>7

(***************************************************************************)
(* An escaped text is read as the text.                                    *)
(***************************************************************************)
LEMMA UnescapeEscape ==
  ASSUME NEW t, t \in Seq(Letters)
  PROVE  Codec!Unescape(Codec!Escape(t)) = t
<1> DEFINE x == EscapedAll(t)
           f == Codec!Escape(t)
           n == Len(t)
<1>1. f \in Seq(Letters) /\ Len(x) = n /\ \E o : Laid(x, f, o)
  BY EscapeIs
<1>2. PICK o : Laid(x, f, o)
  BY <1>1
<1>3. PICK u : ReadAlong(f, u) /\ Codec!Unescape(f) = u[Len(f)].out
  BY <1>1, UnescapeAlong
<1>4. n \in Nat /\ n \in 0 .. n /\ DOMAIN t = 1 .. n /\ \A i \in 1 .. n : t[i] \in Letters
  OBVIOUS
<1>5. \A i \in 1 .. n : x[i] = Codec!Escaped(t[i])
  BY <1>4 DEF EscapedAll
<1> HIDE DEF x, f, n
<1>6. /\ o \in [0 .. n -> Nat] /\ o[0] = 0 /\ Len(f) = o[n]
      /\ \A i \in 1 .. n : o[i] = o[i - 1] + Len(x[i])
      /\ \A i \in 1 .. n : \A q \in 1 .. Len(x[i]) : f[o[i - 1] + q] = x[i][q]
      /\ \A i \in 0 .. n : o[i] <= o[n]
  BY <1>1, <1>2 DEF Laid
<1>7. o[n] \in Nat /\ \A i \in 0 .. n : o[i] \in Nat
  BY <1>4, <1>6
<1>8. /\ u[0] = [out |-> <<>>, open |-> FALSE]
      /\ \A i \in 1 .. o[n] : u[i] = ReadMore(f, u[i - 1], i)
  BY <1>3, <1>6 DEF ReadAlong
<1> DEFINE Upto(i) == [out |-> SubSeq(t, 1, i), open |-> FALSE]
           Right == {i \in 0 .. n : u[o[i]] = Upto(i)}
<1>9. 0 \in Right
  <2>1. SubSeq(t, 1, 0) = <<>>
    OBVIOUS
  <2>2. u[o[0]] = Upto(0)
    BY <2>1, <1>6, <1>8
  <2>3. 0 \in 0 .. n
    BY <1>4
  <2> QED
    BY <2>2, <2>3
<1>10. ASSUME NEW i \in 0 .. n - 1, i \in Right PROVE i + 1 \in Right
  <2>1. PICK k, c : k = i + 1 /\ c = t[i + 1]
    OBVIOUS
  <2>2. i \in 0 .. n /\ k \in 1 .. n /\ k \in 0 .. n /\ k - 1 = i /\ c = t[k] /\ c \in Letters
    BY <2>1, <1>4
  <2>3. PICK a, b, out : a = o[i] /\ b = o[k] /\ out = SubSeq(t, 1, i)
    OBVIOUS
  <2>4. /\ a \in Nat /\ b \in Nat /\ b <= o[n] /\ b = a + Len(x[k]) /\ x[k] = Codec!Escaped(c)
        /\ \A q \in 1 .. Len(x[k]) : f[a + q] = x[k][q]
    <3>1. a \in Nat /\ b \in Nat /\ b <= o[n]
      BY <2>2, <2>3, <1>6, <1>7
    <3>2. b = a + Len(x[k])
      BY <2>2, <2>3, <1>6
    <3>3. \A q \in 1 .. Len(x[k]) : f[a + q] = x[k][q]
      <4>1. \A q \in 1 .. Len(x[k]) : f[o[k - 1] + q] = x[k][q]
        BY <2>2, <1>6
      <4> QED
        BY <4>1, <2>2, <2>3
    <3> QED
      BY <3>1, <3>2, <3>3, <2>2, <1>5
  <2>5. u[a] = [out |-> out, open |-> FALSE]
    BY <1>10, <2>3
  <2>6. Append(out, c) = SubSeq(t, 1, k)
    <3>1. i \in 0 .. Len(t) - 1
      BY DEF n
    <3> QED
      BY <3>1, <2>1, <2>3, OneMore
  <2>7. u[b] = [out |-> Append(out, c), open |-> FALSE]
    <3>1. CASE c \notin Signs
      <4>1. x[k] = <<c>>
        BY <3>1, <2>2, <2>4, EscapedIs
      <4>2. Len(x[k]) = 1 /\ x[k][1] = c
        BY <4>1
      <4>3. b = a + 1 /\ f[b] = c
        BY <4>2, <2>4
      <4>4. b \in 1 .. o[n] /\ b - 1 = a
        BY <4>3, <2>4, <1>7
      <4>5. u[b] = ReadMore(f, u[a], b)
        BY <4>4, <1>8
      <4>6. c # "bs"
        BY <3>1 DEF Signs
      <4> QED
        BY <4>3, <4>5, <4>6, <2>5 DEF ReadMore
    <3>2. CASE c \in Signs
      <4>1. PICK d : d = Codec!Escapes[c]
        OBVIOUS
      <4>2. x[k] = <<"bs", d>> /\ Codec!Meant(d) = c
        BY <4>1, <3>2, <2>2, <2>4, EscapedIs
      <4>3. Len(x[k]) = 2 /\ x[k][1] = "bs" /\ x[k][2] = d
        BY <4>2
      <4>4. PICK g : g = a + 1
        OBVIOUS
      <4>5. b = g + 1 /\ f[g] = "bs" /\ f[b] = d /\ g \in Nat
        <5>1. f[a + 1] = "bs" /\ f[a + 2] = d
          BY <4>3, <2>4
        <5>2. b = a + 2 /\ a + 2 = g + 1
          BY <4>3, <4>4, <2>4
        <5> QED
          BY <5>1, <5>2, <4>4, <2>4
      <4>6. g \in 1 .. o[n] /\ b \in 1 .. o[n] /\ g - 1 = a /\ b - 1 = g /\ g < Len(f)
        BY <4>4, <4>5, <2>4, <1>6, <1>7
      <4>7. u[g] = ReadMore(f, u[a], g) /\ u[b] = ReadMore(f, u[g], b)
        BY <4>6, <1>8
      <4>8. u[g] = [out |-> out, open |-> TRUE]
        BY <4>5, <4>6, <4>7, <2>5 DEF ReadMore
      <4>9. u[g].open = TRUE /\ u[g].out = out /\ Codec!Meant(f[b]) = c
        BY <4>2, <4>5, <4>8
      <4>10. ReadMore(f, u[g], b) = [out |-> Append(out, c), open |-> FALSE]
        BY <4>9 DEF ReadMore
      <4> QED
        BY <4>7, <4>10
    <3> QED
      BY <3>1, <3>2
  <2>8. u[o[k]] = Upto(k)
    BY <2>3, <2>6, <2>7
  <2> QED
    BY <2>1, <2>2, <2>8
<1>11. 0 .. n \subseteq Right
  <2> HIDE DEF Right
  <2> QED
    BY <1>4, <1>9, <1>10, SegmentInduction
<1>12. u[o[n]] = Upto(n)
  BY <1>4, <1>11
<1>13. SubSeq(t, 1, n) = t
  BY DEF n
<1> QED
  BY <1>3, <1>6, <1>12, <1>13 DEF f

-----------------------------------------------------------------------------
(* Frames, chains and lists of arguments.                                  *)

(***************************************************************************)
(* What a sequence is.                                                     *)
(***************************************************************************)
LEMMA SeqIs ==
  ASSUME NEW C, NEW a, a \in Seq(C)
  PROVE  /\ Len(a) \in Nat /\ DOMAIN a = 1 .. Len(a)
         /\ \A i \in 1 .. Len(a) : a[i] \in C
         /\ a = [i \in 1 .. Len(a) |-> a[i]]
  OBVIOUS

(***************************************************************************)
(* The empty text is one empty piece, and nothing joined is the empty text. *)
(***************************************************************************)
LEMMA SplitEmpty ==
  ASSUME NEW c
  PROVE  Codec!Split(<<>>, c) = <<<<>>>>
<1> DEFINE t == <<>>
           seps == {i \in DOMAIN t : t[i] = c}
           pieces == Codec!Cardinality(seps) + 1
           end(j) == IF j = pieces THEN Len(t) + 1 ELSE IF j = 0 THEN 0 ELSE Codec!Nth(seps, j)
<1>1. Codec!Split(t, c) = [j \in 1 .. pieces |-> SubSeq(t, end(j - 1) + 1, end(j) - 1)]
  BY DEF Codec!Split
<1>2. pieces = 1
  <2>1. seps = {}
    OBVIOUS
  <2>2. Codec!Cardinality(seps) = Cardinality(seps)
    BY DEF Codec!Cardinality, Cardinality
  <2>3. Cardinality(seps) = 0
    BY <2>1, FS_EmptySet
  <2> QED
    BY <2>2, <2>3
<1>3. end(1) = 1 /\ end(0) = 0
  BY <1>2
<1> HIDE DEF pieces, end
<1>4. SubSeq(t, 1, 0) = <<>>
  OBVIOUS
<1>5. \A j \in 1 .. 1 : SubSeq(t, end(j - 1) + 1, end(j) - 1) = <<>>
  BY <1>3, <1>4
<1>6. Codec!Split(t, c) = [j \in 1 .. 1 |-> <<>>]
  BY <1>1, <1>2, <1>5
<1>7. [j \in 1 .. 1 |-> <<>>] = <<<<>>>>
  OBVIOUS
<1> QED
  BY <1>6, <1>7

\* Nothing joined.
LEMMA NothingJoined ==
  ASSUME NEW c
  PROVE  Codec!Join(<<>>, c) = <<>>
<1> DEFINE ts == <<>>
           x == [i \in DOMAIN ts |-> IF i = 1 THEN ts[i] ELSE <<c>> \o ts[i]]
<1>1. x = <<>>
  OBVIOUS
<1>2. Codec!Join(ts, c) = Codec!FlattenSeq(x)
  BY DEF Codec!Join
<1>3. Codec!FlattenSeq(<<>>) = <<>>
  BY DEF Codec!FlattenSeq
<1> QED
  BY <1>1, <1>2, <1>3

(***************************************************************************)
(* The numbers up to one are found where they stand.                       *)
(***************************************************************************)
LEMMA NthOfAll ==
  ASSUME NEW n, n \in Nat
  PROVE  Codec!Cardinality(1 .. n) = n /\ \A j \in 1 .. n : Codec!Nth(1 .. n, j) = j
<1> DEFINE e == [j \in 1 .. n |-> j]
           S == 1 .. n
<1>1. e \in [1 .. n -> Nat]
  OBVIOUS
<1>2. /\ \A i \in 1 .. n : \A j \in 1 .. n : i < j => e[i] < e[j]
      /\ \A i \in 1 .. n : e[i] \in S
      /\ \A y \in S : \E i \in 1 .. n : y = e[i]
  OBVIOUS
<1>3. \A j \in 1 .. n : e[j] = j
  OBVIOUS
<1> HIDE DEF e, S
<1>4. Codec!Cardinality(S) = n /\ \A j \in 1 .. n : Codec!Nth(S, j) = e[j]
  <2>1. Lists(n, e, S)
    BY <1>1, <1>2 DEF Lists
  <2> QED
    BY <2>1, NthIs
<1> QED
  BY <1>3, <1>4 DEF S

(***************************************************************************)
(* A frame is one line, never empty, of seven fields, and is read again as *)
(* it was.                                                                 *)
(***************************************************************************)
LEMMA FrameAgain ==
  ASSUME NEW fr, fr \in Codec!Frame
  PROVE  LET l == Codec!EncodeFrame(fr)
         IN  /\ l \in Seq(Letters) /\ l # <<>> /\ \A p \in 1 .. Len(l) : l[p] # "nl"
             /\ Len(Codec!Split(l, "bar")) = 7
             /\ Codec!DecodeFrame(l) = fr
<1> DEFINE D == Letters \ {"bar", "nl"}
           C == Letters \ {"nl"}
           S == Codec!String
           ts == <<Codec!Escape(fr.function), Codec!Escape(fr.callee), Codec!Escape(fr.kind), Codec!Escape(fr.file),
                   <<fr.line>>, <<fr.column>>, Codec!Escape(fr.text)>>
           l == Codec!EncodeFrame(fr)
<1>1. /\ fr.function \in S /\ fr.callee \in S /\ fr.kind \in S /\ fr.file \in S /\ fr.text \in S
      /\ fr.line \in Digits /\ fr.column \in Digits
      /\ fr = [function |-> fr.function, callee |-> fr.callee, kind |-> fr.kind, file |-> fr.file,
               line |-> fr.line, column |-> fr.column, text |-> fr.text]
  BY DEF Codec!Frame
<1>2. ASSUME NEW t, t \in S PROVE Codec!Escape(t) \in Seq(D) /\ Codec!Unescape(Codec!Escape(t)) = t
  <2>1. t \in Seq(Letters)
    <3>1. Chars \subseteq Letters
      BY DEF Letters, Codec!Characters
    <3> QED
      BY <3>1, <1>2 DEF Codec!String
  <2>2. /\ Codec!Escape(t) \in Seq(Letters)
        /\ \A p \in 1 .. Len(Codec!Escape(t)) : Codec!Escape(t)[p] \notin {"bar", "nl", "cr"}
    BY <2>1, EscapeIs
  <2>3. \A u : u \in Seq(Letters) /\ (\A p \in 1 .. Len(u) : u[p] \notin {"bar", "nl", "cr"}) => u \in Seq(D)
    OBVIOUS
  <2> QED
    BY <2>1, <2>2, <2>3, UnescapeEscape
<1>3. ASSUME NEW d, d \in Digits PROVE <<d>> \in Seq(D) /\ Codec!NumberIn(<<d>>) = d
  <2>1. Digits \subseteq Letters /\ "bar" \notin Digits /\ "nl" \notin Digits
    BY SidesAssumption DEF Letters, Codec!Characters, Codec!CodecAssumption
  <2>2. d \in D
    BY <1>3, <2>1
  <2> QED
    BY <2>2, <1>3 DEF Codec!NumberIn
<1>4. /\ ts[1] \in Seq(D) /\ ts[2] \in Seq(D) /\ ts[3] \in Seq(D) /\ ts[4] \in Seq(D)
      /\ ts[5] \in Seq(D) /\ ts[6] \in Seq(D) /\ ts[7] \in Seq(D)
  BY <1>1, <1>2, <1>3
<1>5. ts \in Seq(Seq(D)) /\ Len(ts) = 7
  <2> HIDE DEF D
  <2> QED
    BY <1>4
<1>6. /\ Codec!Unescape(ts[1]) = fr.function /\ Codec!Unescape(ts[2]) = fr.callee
      /\ Codec!Unescape(ts[3]) = fr.kind /\ Codec!Unescape(ts[4]) = fr.file
      /\ Codec!NumberIn(ts[5]) = fr.line /\ Codec!NumberIn(ts[6]) = fr.column
      /\ Codec!Unescape(ts[7]) = fr.text
  BY <1>1, <1>2, <1>3
<1>7. l = Codec!Join(ts, "bar")
  BY DEF Codec!EncodeFrame
<1> HIDE DEF ts, l, S
<1>8. \A u : u \in Seq(D) => u \in Seq(C) /\ \A q \in 1 .. Len(u) : u[q] # "bar"
  OBVIOUS
<1>9. \A i \in 1 .. Len(ts) : ts[i] \in Seq(D)
  <2>1. \A i \in 1 .. 7 : i = 1 \/ i = 2 \/ i = 3 \/ i = 4 \/ i = 5 \/ i = 6 \/ i = 7
    OBVIOUS
  <2> HIDE DEF D
  <2> QED
    BY <2>1, <1>4, <1>5
<1>10. ts \in Seq(Seq(C))
  <2>1. \A i \in 1 .. Len(ts) : ts[i] \in Seq(C)
    BY <1>8, <1>9
  <2>2. ts = [i \in 1 .. Len(ts) |-> ts[i]] /\ Len(ts) \in Nat
    <3> HIDE DEF D
    <3> QED
      BY <1>5
  <2> HIDE DEF C
  <2> QED
    BY <2>1, <2>2
<1>11. \A i \in 1 .. Len(ts) : \A q \in 1 .. Len(ts[i]) : ts[i][q] # "bar"
  BY <1>8, <1>9
<1>12. "bar" \in C /\ ts # <<>>
  BY <1>5, SMTT(30) DEF Letters, Codec!Characters
<1>13. l \in Seq(C) /\ Codec!Split(l, "bar") = ts
  <2>1. Codec!Join(ts, "bar") \in Seq(C) /\ Codec!Split(Codec!Join(ts, "bar"), "bar") = ts
    <3> HIDE DEF C, D
    <3> QED
      BY <1>10, <1>11, <1>12, SplitJoin
  <2> QED
    BY <2>1, <1>7
<1>14. \A u : u \in Seq(C) => u \in Seq(Letters) /\ \A p \in 1 .. Len(u) : u[p] # "nl"
  OBVIOUS
<1>15. Len(Codec!Split(l, "bar")) = 7
  BY <1>5, <1>13
<1>16. l # <<>>
  <2>1. Len(<<<<>>>>) = 1
    OBVIOUS
  <2>2. Len(Codec!Split(<<>>, "bar")) = 1
    BY <2>1, SplitEmpty
  <2> QED
    BY <2>2, <1>15, SMTT(30)
<1>17. Codec!DecodeFrame(l) = fr
  <2>1. Codec!DecodeFrame(l) =
          [function |-> Codec!Unescape(ts[1]), callee |-> Codec!Unescape(ts[2]), kind |-> Codec!Unescape(ts[3]),
           file |-> Codec!Unescape(ts[4]), line |-> Codec!NumberIn(ts[5]), column |-> Codec!NumberIn(ts[6]),
           text |-> Codec!Unescape(ts[7])]
    BY <1>13 DEF Codec!DecodeFrame
  <2> QED
    BY <2>1, <1>1, <1>6
<1>18. l \in Seq(Letters) /\ \A p \in 1 .. Len(l) : l[p] # "nl"
  BY <1>13, <1>14
<1> HIDE DEF C, D
<1> QED
  BY <1>15, <1>16, <1>17, <1>18 DEF l

(***************************************************************************)
(* A chain, the empty one too, is read again as it was.                    *)
(***************************************************************************)
LEMMA ChainAgain ==
  ASSUME NEW ch, ch \in Codec!Chain
  PROVE  Codec!EncodeChain(ch) \in Seq(Letters) /\ Codec!DecodeChain(Codec!EncodeChain(ch)) = ch
<1> DEFINE n == Len(ch)
           ts == [i \in DOMAIN ch |-> Codec!EncodeFrame(ch[i])]
           t == Codec!EncodeChain(ch)
           lines == Codec!Split(t, "nl")
           used == {i \in DOMAIN lines : lines[i] # <<>> /\ Len(Codec!Split(lines[i], "bar")) >= 7}
<1>1. n \in Nat /\ DOMAIN ch = 1 .. n /\ (\A i \in 1 .. n : ch[i] \in Codec!Frame) /\ ch = [i \in 1 .. n |-> ch[i]]
  BY DEF Codec!Chain
<1>2. t = Codec!Join(ts, "nl")
  BY DEF Codec!EncodeChain
<1>3. Codec!DecodeChain(t) = [j \in 1 .. Codec!Cardinality(used) |-> Codec!DecodeFrame(lines[Codec!Nth(used, j)])]
  BY DEF Codec!DecodeChain
<1>4. \A i \in 1 .. n : /\ ts[i] = Codec!EncodeFrame(ch[i])
                        /\ ts[i] \in Seq(Letters) /\ ts[i] # <<>> /\ \A p \in 1 .. Len(ts[i]) : ts[i][p] # "nl"
                        /\ Len(Codec!Split(ts[i], "bar")) = 7
                        /\ Codec!DecodeFrame(ts[i]) = ch[i]
  BY <1>1, FrameAgain
<1>5. ts \in Seq(Seq(Letters)) /\ Len(ts) = n /\ DOMAIN ts = 1 .. n
  BY <1>1, <1>4
<1>6. CASE n = 0
  <2>1. ts = <<>> /\ ch = <<>>
    BY <1>1, <1>5, <1>6
  <2>2. t = <<>>
    BY <2>1, <1>2, NothingJoined
  <2>3. lines = <<<<>>>>
    BY <2>2, SplitEmpty
  <2>4. used = {}
    BY <2>3
  <2>5. Codec!Cardinality(used) = 0
    <3>1. Codec!Cardinality({}) = Cardinality({})
      BY DEF Codec!Cardinality, Cardinality
    <3> QED
      BY <3>1, <2>4, FS_EmptySet
  <2> HIDE DEF used, lines, t, ts, n
  <2>6. Codec!DecodeChain(t) = <<>>
    BY <1>3, <2>5
  <2>7. t \in Seq(Letters)
    BY <2>2
  <2> QED
    BY <2>1, <2>6, <2>7 DEF t
<1>7. CASE n # 0
  <2> HIDE DEF ts, t
  <2>1. ts # <<>> /\ "nl" \in Letters
    BY <1>5, <1>7 DEF Letters, Codec!Characters
  <2>2. \A i \in 1 .. Len(ts) : \A q \in 1 .. Len(ts[i]) : ts[i][q] # "nl"
    BY <1>4, <1>5
  <2>3. t \in Seq(Letters) /\ lines = ts
    BY <1>2, <1>5, <2>1, <2>2, SplitJoin
  <2>4. used = 1 .. n
    <3>1. DOMAIN lines = 1 .. n
      BY <2>3, <1>5
    <3>2. ASSUME NEW i \in 1 .. n PROVE lines[i] # <<>> /\ Len(Codec!Split(lines[i], "bar")) >= 7
      <4>1. lines[i] # <<>> /\ Len(Codec!Split(lines[i], "bar")) = 7
        <5> HIDE DEF lines
        <5> QED
          BY <2>3, <1>4
      <4>2. \A k : k = 7 => k >= 7
        OBVIOUS
      <4> HIDE DEF lines
      <4> QED
        BY <4>1, <4>2
    <3> HIDE DEF lines
    <3> QED
      BY <3>1, <3>2
  <2>5. Codec!Cardinality(used) = n /\ \A j \in 1 .. n : Codec!Nth(used, j) = j
    BY <2>4, <1>1, NthOfAll
  <2> HIDE DEF used, lines
  <2>6. Codec!DecodeChain(t) = [j \in 1 .. n |-> Codec!DecodeFrame(lines[Codec!Nth(used, j)])]
    BY <1>3, <2>5
  <2>7. \A j \in 1 .. n : Codec!DecodeFrame(lines[Codec!Nth(used, j)]) = ch[j]
    BY <2>3, <2>5, <1>4
  <2>8. Codec!DecodeChain(t) = [j \in 1 .. n |-> ch[j]]
    BY <2>6, <2>7
  <2> QED
    BY <2>3, <2>8, <1>1 DEF t
<1> QED
  BY <1>6, <1>7

(***************************************************************************)
(* So is a list of arguments.                                              *)
(***************************************************************************)
LEMMA ArgsAgain ==
  ASSUME NEW args, args \in Seq(Digits)
  PROVE  Codec!EncodePolyArgs(args) \in Seq(Letters) /\ Codec!DecodePolyArgs(Codec!EncodePolyArgs(args)) = args
<1> DEFINE n == Len(args)
           ts == [i \in DOMAIN args |-> <<args[i]>>]
           t == Codec!EncodePolyArgs(args)
           parts == Codec!Split(t, "comma")
           used == {i \in DOMAIN parts : Len(parts[i]) = 1 /\ parts[i][1] \in Digits}
<1>1. n \in Nat /\ DOMAIN args = 1 .. n /\ (\A i \in 1 .. n : args[i] \in Digits) /\ args = [i \in 1 .. n |-> args[i]]
  BY SeqIs
<1>2. t = Codec!Join(ts, "comma")
  BY DEF Codec!EncodePolyArgs
<1>3. Codec!DecodePolyArgs(t) = [j \in 1 .. Codec!Cardinality(used) |-> parts[Codec!Nth(used, j)][1]]
  BY DEF Codec!DecodePolyArgs
<1>4. Digits \subseteq Letters /\ "comma" \notin Digits /\ "comma" \in Letters
  BY SidesAssumption DEF Letters, Codec!Characters, Codec!CodecAssumption
<1>5. \A i \in 1 .. n : /\ ts[i] \in Seq(Letters) /\ Len(ts[i]) = 1 /\ ts[i][1] = args[i]
                        /\ \A p \in 1 .. Len(ts[i]) : ts[i][p] # "comma"
  <2>1. ASSUME NEW d \in Digits
        PROVE  /\ <<d>> \in Seq(Letters) /\ Len(<<d>>) = 1 /\ <<d>>[1] = d
               /\ \A p \in 1 .. Len(<<d>>) : <<d>>[p] # "comma"
    BY <1>4
  <2>2. ASSUME NEW i \in 1 .. n
        PROVE  /\ ts[i] \in Seq(Letters) /\ Len(ts[i]) = 1 /\ ts[i][1] = args[i]
               /\ \A p \in 1 .. Len(ts[i]) : ts[i][p] # "comma"
    <3>1. PICK d, u : d = args[i] /\ u = ts[i]
      OBVIOUS
    <3>2. u = <<d>> /\ d \in Digits
      BY <1>1, <3>1
    <3>3. u \in Seq(Letters) /\ Len(u) = 1 /\ u[1] = d /\ \A p \in 1 .. Len(u) : u[p] # "comma"
      BY <2>1, <3>2
    <3> HIDE DEF ts
    <3> QED
      BY <3>1, <3>3
  <2> HIDE DEF ts, n
  <2> QED
    BY <2>2
<1>6. ts \in Seq(Seq(Letters)) /\ Len(ts) = n /\ DOMAIN ts = 1 .. n
  <2>1. ts = [i \in 1 .. n |-> ts[i]]
    BY <1>1
  <2>2. \A i \in 1 .. n : ts[i] \in Seq(Letters)
    BY <1>5
  <2>3. \A m \in Nat : \A x : x = [i \in 1 .. m |-> x[i]] /\ (\A i \in 1 .. m : x[i] \in Seq(Letters))
                             => x \in Seq(Seq(Letters)) /\ Len(x) = m /\ DOMAIN x = 1 .. m
    OBVIOUS
  <2>4. n \in Nat
    BY <1>1
  <2> HIDE DEF ts, n
  <2> QED
    BY <2>1, <2>2, <2>3, <2>4
<1>7. CASE n = 0
  <2>1. ts = <<>> /\ args = <<>>
    BY <1>1, <1>6, <1>7
  <2>2. t = <<>>
    BY <2>1, <1>2, NothingJoined
  <2>3. parts = <<<<>>>>
    BY <2>2, SplitEmpty
  <2>4. used = {}
    <3>1. ASSUME NEW i \in DOMAIN parts PROVE Len(parts[i]) # 1
      <4>1. parts[i] = <<>>
        <5> HIDE DEF parts
        <5> QED
          BY <2>3
      <4> HIDE DEF parts
      <4> QED
        BY <4>1
    <3> HIDE DEF parts
    <3> QED
      BY <3>1
  <2>5. Codec!Cardinality(used) = 0
    <3>1. Codec!Cardinality({}) = Cardinality({})
      BY DEF Codec!Cardinality, Cardinality
    <3> QED
      BY <3>1, <2>4, FS_EmptySet
  <2> HIDE DEF used, parts, t, ts, n
  <2>6. Codec!DecodePolyArgs(t) = <<>>
    BY <1>3, <2>5
  <2>7. t \in Seq(Letters)
    BY <2>2
  <2> QED
    BY <2>1, <2>6, <2>7 DEF t
<1>8. CASE n # 0
  <2> HIDE DEF ts, t
  <2>1. ts # <<>>
    BY <1>6, <1>8
  <2>2. \A i \in 1 .. Len(ts) : \A q \in 1 .. Len(ts[i]) : ts[i][q] # "comma"
    BY <1>5, <1>6
  <2>3. t \in Seq(Letters) /\ parts = ts
    BY <1>2, <1>4, <1>6, <2>1, <2>2, SplitJoin
  <2>4. used = 1 .. n
    BY <2>3, <1>1, <1>5, <1>6
  <2>5. Codec!Cardinality(used) = n /\ \A j \in 1 .. n : Codec!Nth(used, j) = j
    BY <2>4, <1>1, NthOfAll
  <2> HIDE DEF used, parts
  <2>6. Codec!DecodePolyArgs(t) = [j \in 1 .. n |-> parts[Codec!Nth(used, j)][1]]
    BY <1>3, <2>5
  <2>7. \A j \in 1 .. n : parts[Codec!Nth(used, j)][1] = args[j]
    BY <2>3, <2>5, <1>5
  <2>8. Codec!DecodePolyArgs(t) = [j \in 1 .. n |-> args[j]]
    BY <2>6, <2>7
  <2> QED
    BY <2>3, <2>8, <1>1 DEF t
<1> QED
  BY <1>7, <1>8

-----------------------------------------------------------------------------
(* Nodes.                                                                  *)

(***************************************************************************)
(* Where the operands of the effects stand.                                *)
(***************************************************************************)
LEMMA Thirds ==
  ASSUME NEW k \in Nat, NEW j \in 0 .. 2
  PROVE  (3 * k + j) \div 3 = k /\ (3 * k + j) % 3 = j
<1>1. j = 0 \/ j = 1 \/ j = 2
  OBVIOUS
<1> QED
  BY <1>1, Z3

(***************************************************************************)
(* Two sequences, one behind the other.                                    *)
(***************************************************************************)
LEMMA JoinedAre ==
  ASSUME NEW C, NEW a \in Seq(C), NEW b \in Seq(C)
  PROVE  /\ a \o b \in Seq(C) /\ Len(a \o b) = Len(a) + Len(b) /\ Len(b) \in Nat
         /\ \A i \in 1 .. Len(a) : (a \o b)[i] = a[i]
         /\ \A i \in 1 .. Len(b) : (a \o b)[Len(a) + i] = b[i]
  OBVIOUS

(***************************************************************************)
(* What a summary consists of.                                             *)
(***************************************************************************)
LEMMA SummaryIs ==
  ASSUME NEW x, x \in Codec!Summary
  PROVE  /\ x.status \in Int /\ x.depth \in Int /\ x.heap \in Int /\ x.poly \in BOOLEAN
         /\ x.args \in Seq(Digits) /\ x.heapChain \in Codec!Chain
         /\ \A k \in 1 .. KindCount : /\ x.flags[k] \in BOOLEAN /\ x.reasons[k] \in Seq(Letters)
                                      /\ x.chains[k] \in Codec!Chain
<1>1. /\ x.status \in 0 .. 2 /\ x.depth \in Nat \cup {-1} /\ x.heap \in 0 .. 4 /\ x.poly \in BOOLEAN
      /\ x.args \in Seq(Digits) /\ x.heapChain \in Codec!Chain
      /\ x.flags \in [1 .. KindCount -> BOOLEAN] /\ x.reasons \in [1 .. KindCount -> Codec!String]
      /\ x.chains \in [1 .. KindCount -> Codec!Chain]
  BY DEF Codec!Summary, Codec!Unknown
<1>2. Codec!String \subseteq Seq(Letters)
  <2>1. Chars \subseteq Letters
    BY DEF Letters, Codec!Characters
  <2> QED
    BY <2>1 DEF Codec!String
<1>3. x.status \in Int /\ x.depth \in Int /\ x.heap \in Int
  BY <1>1
<1> QED
  BY <1>1, <1>2, <1>3

\* The number of operands in front of the effects.
Header == IF version = "rt.effect.v3" THEN 7 ELSE 5

(***************************************************************************)
(* What is written, operand by operand.                                    *)
(***************************************************************************)
LEMMA OperandsAre ==
  ASSUME NEW x, x \in Codec!Summary, version \in Codec!Versions
  PROVE  LET n == Codec!Written(x)
         IN  /\ n \in Seq(Codec!Operand) /\ Len(n) = Header + 3 * KindCount
             /\ n[1] = Codec!Text(<<version>>) /\ n[2] = Codec!Number(x.status) /\ n[3] = Codec!Number(x.depth)
             /\ n[4] = Codec!Bit(x.poly) /\ n[5] = Codec!Text(Codec!EncodePolyArgs(x.args))
             /\ version = "rt.effect.v3" => /\ n[6] = Codec!Number(x.heap)
                                            /\ n[7] = Codec!Text(Codec!EncodeChain(x.heapChain))
             /\ \A k \in 1 .. KindCount : \A j \in 0 .. 2 :
                  n[Header + 1 + 3 * (k - 1) + j] = Codec!Effect(x, k)[j + 1]
<1> DEFINE Op == Codec!Operand
           a == <<Codec!Text(<<version>>), Codec!Number(x.status), Codec!Number(x.depth), Codec!Bit(x.poly),
                  Codec!Text(Codec!EncodePolyArgs(x.args))>>
           b == IF version = "rt.effect.v3"
                THEN <<Codec!Number(x.heap), Codec!Text(Codec!EncodeChain(x.heapChain))>> ELSE <<>>
           c == [i \in 1 .. 3 * KindCount |-> Codec!Effect(x, ((i - 1) \div 3) + 1)[((i - 1) % 3) + 1]]
           n == Codec!Written(x)
<1>1. KindCount \in Nat /\ 3 * KindCount \in Nat
  BY SidesAssumption DEF Codec!CodecAssumption
<1>2. n = (a \o b) \o c
  <2>1. version # "none"
    BY DEF Codec!Versions
  <2>2. Codec!Written(x) = Codec!Operands(x)
    BY <2>1 DEF Codec!Written
  <2> QED
    BY <2>2 DEF Codec!Operands
<1>3. ASSUME NEW i, i \in Int PROVE Codec!Number(i) \in Op
  BY <1>3 DEF Codec!Number, Codec!Operand
<1>4. ASSUME NEW t, t \in Seq(Letters) PROVE Codec!Text(t) \in Op
  BY <1>4 DEF Codec!Text, Codec!Operand, Letters
<1>5. ASSUME NEW p \in BOOLEAN PROVE Codec!Bit(p) \in Op
  BY <1>3 DEF Codec!Bit
<1>6. <<version>> \in Seq(Letters)
  BY DEF Codec!Versions, Letters, Codec!Characters
<1> HIDE DEF Op
<1>7. a \in Seq(Op) /\ Len(a) = 5
  <2>1. /\ Codec!Text(<<version>>) \in Op /\ Codec!Number(x.status) \in Op /\ Codec!Number(x.depth) \in Op
        /\ Codec!Bit(x.poly) \in Op /\ Codec!Text(Codec!EncodePolyArgs(x.args)) \in Op
    <3>1. Codec!EncodePolyArgs(x.args) \in Seq(Letters)
      BY SummaryIs, ArgsAgain
    <3>2. x.status \in Int /\ x.depth \in Int /\ x.poly \in BOOLEAN
      BY SummaryIs
    <3> QED
      BY <3>1, <3>2, <1>3, <1>4, <1>5, <1>6
  <2> QED
    BY <2>1
<1>8. /\ b \in Seq(Op) /\ Len(b) = Header - 5
      /\ version = "rt.effect.v3" => b[1] = Codec!Number(x.heap) /\ b[2] = Codec!Text(Codec!EncodeChain(x.heapChain))
  <2>1. Codec!EncodeChain(x.heapChain) \in Seq(Letters) /\ x.heap \in Int
    BY SummaryIs, ChainAgain
  <2>2. Codec!Number(x.heap) \in Op /\ Codec!Text(Codec!EncodeChain(x.heapChain)) \in Op
    BY <2>1, <1>3, <1>4
  <2> QED
    BY <2>2 DEF Header
<1>9. ASSUME NEW k \in 1 .. KindCount, NEW j \in 0 .. 2 PROVE Codec!Effect(x, k)[j + 1] \in Op
  <2>1. Codec!EncodeChain(x.chains[k]) \in Seq(Letters) /\ x.flags[k] \in BOOLEAN /\ x.reasons[k] \in Seq(Letters)
    BY SummaryIs, ChainAgain
  <2>2. /\ Codec!Bit(x.flags[k]) \in Op /\ Codec!Text(x.reasons[k]) \in Op
        /\ Codec!Text(Codec!EncodeChain(x.chains[k])) \in Op
    BY <2>1, <1>4, <1>5
  <2>3. j + 1 = 1 \/ j + 1 = 2 \/ j + 1 = 3
    OBVIOUS
  <2> QED
    BY <2>2, <2>3 DEF Codec!Effect
<1>10. ASSUME NEW i \in 1 .. 3 * KindCount
       PROVE  ((i - 1) \div 3) + 1 \in 1 .. KindCount /\ (i - 1) % 3 \in 0 .. 2
  BY <1>1, Z3
<1>11. c \in Seq(Op) /\ Len(c) = 3 * KindCount
  <2>1. \A i \in 1 .. 3 * KindCount : c[i] \in Op
    BY <1>9, <1>10
  <2>2. c = [i \in 1 .. 3 * KindCount |-> c[i]]
    OBVIOUS
  <2> HIDE DEF c
  <2> QED
    BY <2>1, <2>2, <1>1
<1>12. ASSUME NEW k \in 1 .. KindCount, NEW j \in 0 .. 2
       PROVE  /\ 3 * (k - 1) + 1 + j \in 1 .. 3 * KindCount
              /\ c[3 * (k - 1) + 1 + j] = Codec!Effect(x, k)[j + 1]
  <2>1. PICK i, h : i = 3 * (k - 1) + 1 + j /\ h = k - 1
    OBVIOUS
  <2>2. i \in 1 .. 3 * KindCount /\ i - 1 = 3 * h + j /\ h \in Nat /\ h + 1 = k
    BY <2>1, <1>1
  <2>3. (3 * h + j) \div 3 = h /\ (3 * h + j) % 3 = j
    BY <2>2, Thirds
  <2>4. ((i - 1) \div 3) + 1 = k /\ ((i - 1) % 3) + 1 = j + 1
    BY <2>2, <2>3
  <2>5. c[i] = Codec!Effect(x, ((i - 1) \div 3) + 1)[((i - 1) % 3) + 1]
    BY <2>2
  <2>6. c[i] = Codec!Effect(x, k)[j + 1]
    BY <2>4, <2>5
  <2> QED
    BY <2>1, <2>2, <2>6
<1>13. /\ a[1] = Codec!Text(<<version>>) /\ a[2] = Codec!Number(x.status) /\ a[3] = Codec!Number(x.depth)
       /\ a[4] = Codec!Bit(x.poly) /\ a[5] = Codec!Text(Codec!EncodePolyArgs(x.args))
  OBVIOUS
<1> HIDE DEF a, b, c, n
<1>14. (Header = 7 /\ version = "rt.effect.v3") \/ (Header = 5 /\ version # "rt.effect.v3")
  BY DEF Header
<1>15. /\ a \o b \in Seq(Op) /\ Len(a \o b) = Header
       /\ \A i \in 1 .. 5 : (a \o b)[i] = a[i]
       /\ \A i \in 1 .. Len(b) : (a \o b)[5 + i] = b[i]
  <2>1. /\ a \o b \in Seq(Op) /\ Len(a \o b) = 5 + Len(b) /\ Len(b) \in Nat
        /\ \A i \in 1 .. 5 : (a \o b)[i] = a[i]
        /\ \A i \in 1 .. Len(b) : (a \o b)[5 + i] = b[i]
    <3>1. a \in Seq(Op) /\ b \in Seq(Op)
      BY <1>7, <1>8
    <3>2. /\ a \o b \in Seq(Op) /\ Len(a \o b) = Len(a) + Len(b) /\ Len(b) \in Nat
          /\ \A i \in 1 .. Len(a) : (a \o b)[i] = a[i]
          /\ \A i \in 1 .. Len(b) : (a \o b)[Len(a) + i] = b[i]
      BY ONLY <3>1, JoinedAre
    <3> QED
      BY ONLY <3>2, <1>7, Zenon
  <2>2. Len(a \o b) = Header
    BY <2>1, <1>8, <1>14
  <2> QED
    BY <2>1, <2>2
<1>16. /\ n \in Seq(Op) /\ Len(n) = Header + 3 * KindCount
       /\ \A i \in 1 .. Header : n[i] = (a \o b)[i]
       /\ \A i \in 1 .. 3 * KindCount : n[Header + i] = c[i]
  <2>1. PICK d : d = a \o b
    OBVIOUS
  <2>2. d \in Seq(Op) /\ c \in Seq(Op) /\ n = d \o c /\ Len(d) = Header /\ Len(c) = 3 * KindCount
    BY <2>1, <1>2, <1>11, <1>15
  <2>3. /\ n \in Seq(Op) /\ Len(n) = Len(d) + Len(c)
        /\ \A i \in 1 .. Len(d) : n[i] = d[i]
        /\ \A i \in 1 .. Len(c) : n[Len(d) + i] = c[i]
    <3>2. d \in Seq(Op) /\ c \in Seq(Op)
      BY <2>2
    <3>1. /\ d \o c \in Seq(Op) /\ Len(d \o c) = Len(d) + Len(c) /\ Len(c) \in Nat
          /\ \A i \in 1 .. Len(d) : (d \o c)[i] = d[i]
          /\ \A i \in 1 .. Len(c) : (d \o c)[Len(d) + i] = c[i]
      BY ONLY <3>2, JoinedAre
    <3> QED
      BY ONLY <2>2, <3>1, Zenon
  <2>4. n \in Seq(Op) /\ Len(n) = Header + 3 * KindCount
    BY ONLY <2>2, <2>3, Zenon
  <2>5. \A i \in 1 .. Header : n[i] = d[i]
    BY ONLY <2>2, <2>3, Zenon
  <2>6. \A i \in 1 .. 3 * KindCount : n[Header + i] = c[i]
    BY ONLY <2>2, <2>3, Zenon
  <2> QED
    BY <2>1, <2>4, <2>5, <2>6
<1>17. \A i \in 1 .. 5 : n[i] = a[i]
  <2>1. \A i \in 1 .. 5 : i \in 1 .. Header
    BY <1>14
  <2> QED
    BY <2>1, <1>15, <1>16
<1>18. version = "rt.effect.v3" => n[6] = b[1] /\ n[7] = b[2]
  <2>1. ASSUME version = "rt.effect.v3" PROVE n[6] = b[1] /\ n[7] = b[2]
    <3>1. Len(b) = 2 /\ Header = 7
      BY <1>8, <1>14, <2>1
    <3>2. 1 \in 1 .. Len(b) /\ 2 \in 1 .. Len(b) /\ 6 \in 1 .. Header /\ 7 \in 1 .. Header
      BY <3>1
    <3>3. (a \o b)[5 + 1] = b[1] /\ (a \o b)[5 + 2] = b[2]
      BY <3>2, <1>15
    <3>4. n[6] = (a \o b)[6] /\ n[7] = (a \o b)[7]
      BY <3>2, <1>16
    <3>5. 5 + 1 = 6 /\ 5 + 2 = 7
      OBVIOUS
    <3> QED
      BY <3>3, <3>4, <3>5
  <2> QED
    BY <2>1
<1>19. ASSUME NEW k \in 1 .. KindCount, NEW j \in 0 .. 2
       PROVE  n[Header + 1 + 3 * (k - 1) + j] = Codec!Effect(x, k)[j + 1]
  <2>1. PICK i : i = 3 * (k - 1) + 1 + j
    OBVIOUS
  <2>2. i \in 1 .. 3 * KindCount /\ c[i] = Codec!Effect(x, k)[j + 1]
    BY <2>1, <1>12
  <2>3. Header + 1 + 3 * (k - 1) + j = Header + i
    BY <2>1, <1>14
  <2> QED
    BY <2>2, <2>3, <1>16
<1>20. /\ n[1] = Codec!Text(<<version>>) /\ n[2] = Codec!Number(x.status) /\ n[3] = Codec!Number(x.depth)
       /\ n[4] = Codec!Bit(x.poly) /\ n[5] = Codec!Text(Codec!EncodePolyArgs(x.args))
  BY <1>13, <1>17
<1>21. version = "rt.effect.v3" => /\ n[6] = Codec!Number(x.heap)
                                   /\ n[7] = Codec!Text(Codec!EncodeChain(x.heapChain))
  BY <1>8, <1>18
<1> QED
  BY <1>16, <1>19, <1>20, <1>21 DEF n, Op

\* What version 2 had of a summary.
NoHeap(x) == [x EXCEPT !.heap = 0, !.heapChain = <<>>]

(***************************************************************************)
(* That is the summary but for its two newest fields.                      *)
(***************************************************************************)
LEMMA NoHeapIs ==
  ASSUME NEW x, x \in Codec!Summary
  PROVE  NoHeap(x) =
           [status |-> x.status, depth |-> x.depth, poly |-> x.poly, args |-> x.args, heap |-> 0,
            heapChain |-> <<>>, flags |-> x.flags, reasons |-> x.reasons, chains |-> x.chains]
<1> DEFINE fields == {"status", "depth", "poly", "args", "heap", "heapChain", "flags", "reasons", "chains"}
           y == [f \in fields |-> IF f = "heapChain" THEN <<>> ELSE IF f = "heap" THEN 0 ELSE x[f]]
<1>1. DOMAIN x = fields /\ x = [f \in fields |-> x[f]]
  BY DEF Codec!Summary
<1>2. NoHeap(x) = y
  <2>1. PICK z : z = [x EXCEPT !.heap = 0]
    OBVIOUS
  <2>2. z = [f \in fields |-> IF f = "heap" THEN 0 ELSE x[f]]
    BY <1>1, <2>1
  <2>3. NoHeap(x) = [z EXCEPT !.heapChain = <<>>]
    BY <2>1 DEF NoHeap
  <2>4. [z EXCEPT !.heapChain = <<>>] = [f \in fields |-> IF f = "heapChain" THEN <<>> ELSE z[f]]
    BY <2>2
  <2> QED
    BY <2>2, <2>3, <2>4
<1>3. y = [status |-> x.status, depth |-> x.depth, poly |-> x.poly, args |-> x.args, heap |-> 0,
           heapChain |-> <<>>, flags |-> x.flags, reasons |-> x.reasons, chains |-> x.chains]
  OBVIOUS
<1> QED
  BY <1>2, <1>3

(***************************************************************************)
(* What is read of a node that has been written.                           *)
(***************************************************************************)
LEMMA NodeReadIs ==
  ASSUME NEW x, x \in Codec!Summary, version \in Codec!Versions
  PROVE  /\ version = "rt.effect.v3" => Codec!ReadNode(Codec!Written(x)) = x
         /\ version = "rt.effect.v2" => Codec!ReadNode(Codec!Written(x)) = NoHeap(x)
         /\ version = "rt.effect.v1" => Codec!ReadNode(Codec!Written(x)) = Codec!Default
<1>1. PICK n : n = Codec!Written(x)
  OBVIOUS
<1>2. /\ n \in Seq(Codec!Operand) /\ Len(n) = Header + 3 * KindCount
      /\ n[1] = Codec!Text(<<version>>) /\ n[2] = Codec!Number(x.status) /\ n[3] = Codec!Number(x.depth)
      /\ n[4] = Codec!Bit(x.poly) /\ n[5] = Codec!Text(Codec!EncodePolyArgs(x.args))
      /\ version = "rt.effect.v3" => /\ n[6] = Codec!Number(x.heap)
                                     /\ n[7] = Codec!Text(Codec!EncodeChain(x.heapChain))
      /\ \A k \in 1 .. KindCount : \A j \in 0 .. 2 :
           n[Header + 1 + 3 * (k - 1) + j] = Codec!Effect(x, k)[j + 1]
  BY <1>1, OperandsAre
<1>3. KindCount \in Nat /\ 3 * KindCount \in Nat
  BY SidesAssumption DEF Codec!CodecAssumption
<1>4. /\ (Header = 7 /\ version = "rt.effect.v3") \/ (Header = 5 /\ version # "rt.effect.v3")
      /\ Header \in Nat /\ Header + 3 * KindCount \in Nat /\ ~(Len(n) < 5)
      /\ version = "rt.effect.v3" => Len(n) >= 7
  BY <1>2, <1>3 DEF Header
<1>5. n[1].text = <<version>>
  BY <1>2 DEF Codec!Text
<1>6. \A v \in Codec!Versions : \A w \in Codec!Versions : <<v>> = <<w>> => v = w
  <2>1. \A v, w : <<v>> = <<w>> => v = w
    OBVIOUS
  <2> QED
    BY <2>1
<1>7. "rt.effect.v1" \in Codec!Versions /\ "rt.effect.v2" \in Codec!Versions /\ "rt.effect.v3" \in Codec!Versions
  BY DEF Codec!Versions
<1>8. CASE version = "rt.effect.v1"
  <2>1. n[1].text # <<"rt.effect.v3">> /\ n[1].text # <<"rt.effect.v2">>
    BY <1>5, <1>6, <1>7, <1>8
  <2>2. Codec!ReadNode(n) = Codec!Default
    BY <2>1 DEF Codec!ReadNode
  <2> QED
    BY <1>1, <1>8, <2>2
<1>9. CASE version # "rt.effect.v1"
  <2>1. version \in {"rt.effect.v3", "rt.effect.v2"}
    BY <1>9 DEF Codec!Versions
  <2>2. n[1].text \in {<<"rt.effect.v3">>, <<"rt.effect.v2">>}
    BY <1>5, <2>1
  <2>3. Codec!First(n) = Header + 1
    <3>1. CASE version = "rt.effect.v3"
      <4>1. n[1].text # <<"rt.effect.v2">> /\ Len(n) >= 7
        BY <1>4, <1>5, <1>6, <1>7, <3>1
      <4>2. Codec!First(n) = 8
        BY <4>1 DEF Codec!First
      <4> QED
        BY <4>2, <3>1, <1>4
    <3>2. CASE version = "rt.effect.v2"
      <4>1. n[1].text = <<"rt.effect.v2">>
        BY <1>5, <3>2
      <4>2. Codec!First(n) = 6
        BY <4>1 DEF Codec!First
      <4> QED
        BY <4>2, <3>2, <1>4
    <3> QED
      BY <2>1, <3>1, <3>2
  <2>4. ASSUME NEW k \in 1 .. KindCount
        PROVE  /\ Codec!Has(n, k)
               /\ Codec!At(n, k, 0).number = Codec!Bit(x.flags[k]).number
               /\ Codec!At(n, k, 1).text = x.reasons[k]
               /\ Codec!At(n, k, 2).text = Codec!EncodeChain(x.chains[k])
    <3>1. PICK h, l : h = Header /\ l = Len(n)
      OBVIOUS
    <3>2. h \in Nat /\ l = h + 3 * KindCount /\ h + 1 + 3 * (k - 1) + 2 <= l
      BY <3>1, <1>2, <1>3, <1>4
    <3>3. Codec!Has(n, k)
      BY <2>3, <3>1, <3>2 DEF Codec!Has
    <3>4. ASSUME NEW j \in 0 .. 2 PROVE Codec!At(n, k, j) = Codec!Effect(x, k)[j + 1]
      <4>1. Codec!At(n, k, j) = n[Header + 1 + 3 * (k - 1) + j]
        BY <2>3 DEF Codec!At
      <4> QED
        BY <4>1, <1>2
    <3>5. 0 \in 0 .. 2 /\ 1 \in 0 .. 2 /\ 2 \in 0 .. 2 /\ 0 + 1 = 1 /\ 1 + 1 = 2 /\ 2 + 1 = 3
      OBVIOUS
    <3>6. /\ Codec!At(n, k, 0) = Codec!Effect(x, k)[1] /\ Codec!At(n, k, 1) = Codec!Effect(x, k)[2]
          /\ Codec!At(n, k, 2) = Codec!Effect(x, k)[3]
      BY <3>4, <3>5
    <3>7. /\ Codec!Effect(x, k)[1] = Codec!Bit(x.flags[k]) /\ Codec!Effect(x, k)[2] = Codec!Text(x.reasons[k])
          /\ Codec!Effect(x, k)[3] = Codec!Text(Codec!EncodeChain(x.chains[k]))
      BY DEF Codec!Effect
    <3>8. \A t : Codec!Text(t).text = t
      BY DEF Codec!Text
    <3> QED
      BY <3>3, <3>6, <3>7, <3>8
  <2>5. ASSUME NEW p \in BOOLEAN PROVE (Codec!Bit(p).number # 0) = p
    BY DEF Codec!Bit, Codec!Number
  <2>6. /\ \A t : Codec!Text(t).text = t
        /\ \A i : Codec!Number(i).number = i
    BY DEF Codec!Text, Codec!Number
  <2>7. /\ n[2].number = x.status /\ n[3].number = x.depth /\ (n[4].number # 0) = x.poly
        /\ Codec!DecodePolyArgs(n[5].text) = x.args
    <3>1. x.poly \in BOOLEAN /\ x.args \in Seq(Digits)
      BY SummaryIs
    <3>2. n[2].number = x.status /\ n[3].number = x.depth
      BY <1>2, <2>6
    <3>3. (n[4].number # 0) = x.poly
      BY <1>2, <2>5, <3>1
    <3>4. Codec!DecodePolyArgs(n[5].text) = x.args
      BY <1>2, <2>6, <3>1, ArgsAgain
    <3> QED
      BY <3>2, <3>3, <3>4
  <2>8. ASSUME NEW k \in 1 .. KindCount
        PROVE  /\ (Codec!Has(n, k) /\ Codec!At(n, k, 0).number # 0) = x.flags[k]
               /\ (IF Codec!Has(n, k) THEN Codec!At(n, k, 1).text ELSE <<>>) = x.reasons[k]
               /\ (IF Codec!Has(n, k) THEN Codec!DecodeChain(Codec!At(n, k, 2).text) ELSE <<>>) = x.chains[k]
    <3>1. x.flags[k] \in BOOLEAN /\ x.chains[k] \in Codec!Chain
      BY SummaryIs
    <3>2. PICK p, a, b : p = x.flags[k] /\ a = Codec!At(n, k, 0).number /\ b = Codec!Has(n, k)
      OBVIOUS
    <3>3. (Codec!Has(n, k) /\ Codec!At(n, k, 0).number # 0) = x.flags[k]
      <4>1. (Codec!At(n, k, 0).number # 0) = x.flags[k]
        BY <2>4, <2>5, <3>1
      <4> QED
        BY <4>1, <2>4
    <3>4. Codec!DecodeChain(Codec!At(n, k, 2).text) = x.chains[k]
      BY <2>4, <3>1, ChainAgain
    <3> QED
      BY <3>3, <3>4, <2>4
  <2> DEFINE flags   == [k \in 1 .. KindCount |-> Codec!Has(n, k) /\ Codec!At(n, k, 0).number # 0]
             reasons == [k \in 1 .. KindCount |-> IF Codec!Has(n, k) THEN Codec!At(n, k, 1).text ELSE <<>>]
             chains  == [k \in 1 .. KindCount |->
                           IF Codec!Has(n, k) THEN Codec!DecodeChain(Codec!At(n, k, 2).text) ELSE <<>>]
  <2>9. flags = x.flags /\ reasons = x.reasons /\ chains = x.chains
    <3>1. /\ x.flags = [k \in 1 .. KindCount |-> x.flags[k]] /\ x.reasons = [k \in 1 .. KindCount |-> x.reasons[k]]
          /\ x.chains = [k \in 1 .. KindCount |-> x.chains[k]]
      BY DEF Codec!Summary
    <3>2. flags = [k \in 1 .. KindCount |-> x.flags[k]]
      BY <2>8
    <3>3. reasons = [k \in 1 .. KindCount |-> x.reasons[k]]
      BY <2>8
    <3>4. chains = [k \in 1 .. KindCount |-> x.chains[k]]
      BY <2>8
    <3> HIDE DEF flags, reasons, chains
    <3> QED
      BY <3>1, <3>2, <3>3, <3>4
  <2> DEFINE heap      == IF Codec!First(n) = 8 THEN n[6].number ELSE 0
             heapChain == IF Codec!First(n) = 8 THEN Codec!DecodeChain(n[7].text) ELSE <<>>
  <2>10. Codec!ReadNode(n) =
           [status |-> n[2].number, depth |-> n[3].number, poly |-> n[4].number # 0,
            args |-> Codec!DecodePolyArgs(n[5].text), heap |-> heap, heapChain |-> heapChain,
            flags |-> flags, reasons |-> reasons, chains |-> chains]
    BY <1>4, <2>2 DEF Codec!ReadNode
  <2> HIDE DEF flags, reasons, chains, heap, heapChain
  <2>11. Codec!ReadNode(n) =
           [status |-> x.status, depth |-> x.depth, poly |-> x.poly, args |-> x.args, heap |-> heap,
            heapChain |-> heapChain, flags |-> x.flags, reasons |-> x.reasons, chains |-> x.chains]
    BY <2>7, <2>9, <2>10
  <2>12. x = [status |-> x.status, depth |-> x.depth, poly |-> x.poly, args |-> x.args, heap |-> x.heap,
              heapChain |-> x.heapChain, flags |-> x.flags, reasons |-> x.reasons, chains |-> x.chains]
    BY DEF Codec!Summary
  <2>13. CASE version = "rt.effect.v3"
    <3>1. Codec!First(n) = 8 /\ n[6].number = x.heap /\ Codec!DecodeChain(n[7].text) = x.heapChain
      <4>1. Codec!First(n) = 8
        BY <2>3, <2>13, <1>4
      <4>2. n[6].number = x.heap
        BY <1>2, <2>6, <2>13
      <4>3. Codec!DecodeChain(n[7].text) = x.heapChain
        BY <1>2, <2>6, <2>13, SummaryIs, ChainAgain
      <4> QED
        BY <4>1, <4>2, <4>3
    <3>2. heap = x.heap /\ heapChain = x.heapChain
      BY <3>1 DEF heap, heapChain
    <3>3. Codec!ReadNode(n) = x
      BY <3>2, <2>11, <2>12
    <3> QED
      BY <3>3, <1>1, <2>13
  <2>14. CASE version = "rt.effect.v2"
    <3>1. Codec!First(n) = 6
      BY <2>3, <2>14, <1>4
    <3>2. heap = 0 /\ heapChain = <<>>
      BY <3>1 DEF heap, heapChain
    <3>3. Codec!ReadNode(n) = NoHeap(x)
      BY <3>2, <2>11, NoHeapIs
    <3> QED
      BY <3>3, <1>1, <2>14
  <2> QED
    BY <2>1, <2>13, <2>14
<1> QED
  BY <1>8, <1>9

(***************************************************************************)
(* The same, and what is read where there is no node.                      *)
(***************************************************************************)
LEMMA ReadIs ==
  ASSUME NEW x, x \in Codec!Summary, version \in Codec!Writers
  PROVE  /\ version = "rt.effect.v3" => Codec!ReadNode(Codec!Written(x)) = x
         /\ version = "rt.effect.v2" => Codec!ReadNode(Codec!Written(x)) = NoHeap(x)
         /\ version \in {"rt.effect.v1", "none"} => Codec!ReadNode(Codec!Written(x)) = Codec!Default
<1>1. CASE version = "none"
  <2>1. Codec!Written(x) = <<>>
    BY <1>1 DEF Codec!Written
  <2>2. Codec!ReadNode(<<>>) = Codec!Default
    BY DEF Codec!ReadNode
  <2> QED
    BY <1>1, <2>1, <2>2
<1>2. CASE version # "none"
  <2>1. version \in Codec!Versions
    BY <1>2 DEF Codec!Writers
  <2> QED
    BY <1>2, <2>1, NodeReadIs
<1> QED
  BY <1>1, <1>2

(***************************************************************************)
(* The default and what version 2 had of a summary are summaries.          *)
(***************************************************************************)
LEMMA SummariesToo ==
  /\ Codec!Default \in Codec!Summary
  /\ \A x : x \in Codec!Summary => NoHeap(x) \in Codec!Summary
<1>1. \A C : <<>> \in Seq(C)
  OBVIOUS
<1>2. Codec!Default \in Codec!Summary
  BY <1>1 DEF Codec!Default, Codec!Summary, Codec!Chain, Codec!String, Codec!Unknown
<1>3. ASSUME NEW x, x \in Codec!Summary PROVE NoHeap(x) \in Codec!Summary
  <2>1. NoHeap(x) =
          [status |-> x.status, depth |-> x.depth, poly |-> x.poly, args |-> x.args, heap |-> 0,
           heapChain |-> <<>>, flags |-> x.flags, reasons |-> x.reasons, chains |-> x.chains]
    BY <1>3, NoHeapIs
  <2> QED
    BY <1>1, <1>3, <2>1 DEF Codec!Summary, Codec!Chain
<1> QED
  BY <1>2, <1>3

-----------------------------------------------------------------------------
(* Writing and reading.                                                    *)

CodecInv == /\ Codec!TypeOK
            /\ pc = "read" => node = Codec!Written(s)
            /\ Codec!RoundTrip
            /\ Codec!OlderVersions

(***************************************************************************)
(* It holds at first, writing and reading keep it, and so does standing still. *)
(***************************************************************************)
LEMMA CodecStarts ==
  Codec!Init => CodecInv
<1>1. Summaries \subseteq Codec!Summary
  BY SidesAssumption DEF Codec!CodecAssumption
<1>2. <<>> \in Seq(Codec!Operand)
  OBVIOUS
<1> QED
  BY <1>1, <1>2, SummariesToo DEF Codec!Init, CodecInv, Codec!TypeOK, Codec!RoundTrip, Codec!OlderVersions

\* Writing and reading.
LEMMA CodecKeeps ==
  CodecInv /\ Codec!Next => CodecInv'
<1> SUFFICES ASSUME CodecInv, Codec!Next PROVE CodecInv'
  OBVIOUS
<1>1. s \in Codec!Summary /\ version \in Codec!Writers /\ node \in Seq(Codec!Operand) /\ back \in Codec!Summary
  BY DEF CodecInv, Codec!TypeOK
<1>2. CASE Codec!Write
  <2>1. Codec!Written(s) \in Seq(Codec!Operand)
    <3>1. CASE version = "none"
      <4>1. Codec!Written(s) = <<>>
        BY <3>1 DEF Codec!Written
      <4> QED
        BY <4>1
    <3>2. CASE version # "none"
      BY <1>1, <3>2, OperandsAre DEF Codec!Writers
    <3> QED
      BY <3>1, <3>2
  <2>2. pc' = "read" /\ node' = Codec!Written(s) /\ s' = s /\ version' = version /\ back' = back
    BY <1>2 DEF Codec!Write
  <2>3. Codec!Written(s)' = Codec!Written(s)
    BY <2>2 DEF Codec!Written, Codec!Operands
  <2> QED
    BY <1>1, <2>1, <2>2, <2>3 DEF CodecInv, Codec!TypeOK, Codec!RoundTrip, Codec!OlderVersions
<1>3. CASE Codec!Read
  <2>1. back' = Codec!ReadNode(Codec!Written(s)) /\ pc' = "done" /\ s' = s /\ version' = version /\ node' = node
    BY <1>3 DEF Codec!Read, CodecInv
  <2>2. /\ version = "rt.effect.v3" => back' = s
        /\ version = "rt.effect.v2" => back' = NoHeap(s)
        /\ version \in {"rt.effect.v1", "none"} => back' = Codec!Default
    BY <1>1, <2>1, ReadIs
  <2>3. back' \in Codec!Summary
    BY <1>1, <2>2, SummariesToo DEF Codec!Versions, Codec!Writers
  <2>4. Codec!OlderVersions'
    <3>1. version = "rt.effect.v2" => back' = [s' EXCEPT !.heap = 0, !.heapChain = <<>>]
      BY <2>1, <2>2 DEF NoHeap
    <3>2. ASSUME version \in {"rt.effect.v1", "none"}
          PROVE  /\ back'.status = 2 /\ back'.depth = 1
                 /\ ~back'.poly /\ back'.args = <<>>
                 /\ back'.heap = 0 /\ back'.heapChain = <<>>
                 /\ \A k \in 1 .. KindCount :
                      ~back'.flags[k] /\ back'.reasons[k] = <<>> /\ back'.chains[k] = <<>>
      <4>1. back' = Codec!Default
        BY <2>2, <3>2
      <4>2. /\ Codec!Default.status = 2 /\ Codec!Default.depth = 1
            /\ ~Codec!Default.poly /\ Codec!Default.args = <<>>
            /\ Codec!Default.heap = 0 /\ Codec!Default.heapChain = <<>>
            /\ \A k \in 1 .. KindCount : /\ ~Codec!Default.flags[k]
                                         /\ Codec!Default.reasons[k] = <<>>
                                         /\ Codec!Default.chains[k] = <<>>
        BY DEF Codec!Default, Codec!Unknown
      <4> QED
        BY <4>1, <4>2
    <3> QED
      BY <2>1, <3>1, <3>2 DEF Codec!OlderVersions
  <2> QED
    BY <1>1, <2>1, <2>2, <2>3, <2>4 DEF CodecInv, Codec!TypeOK, Codec!RoundTrip
<1> QED
  BY <1>2, <1>3 DEF Codec!Next

\* Standing still.
LEMMA CodecRests ==
  CodecInv /\ UNCHANGED codecVars => CodecInv'
  BY DEF codecVars, CodecInv, Codec!TypeOK, Codec!RoundTrip, Codec!OlderVersions, Codec!Written, Codec!Operands

(***************************************************************************)
(* What the later passes read in the metadata is what the inference has    *)
(* written, whatever the summary, its names and its chains consist of.     *)
(***************************************************************************)
THEOREM AlwaysRoundTrip == Spec => []RoundTrip
<1> DEFINE I == part = "codec" => CodecInv
<1>1. Init => I
  BY CodecStarts DEF Init
<1>2. I /\ [Next]_vars => I'
  <2> SUFFICES ASSUME I, [Next]_vars, part' = "codec" PROVE CodecInv'
    OBVIOUS
  <2>1. CASE CodecStep
    BY <2>1, CodecKeeps DEF CodecStep
  <2>2. CASE UNCHANGED vars
    BY <2>2, CodecRests DEF vars
  <2> QED
    BY <2>1, <2>2 DEF Next, RegionStep, PolyStep, ExportStep
<1>3. I => RoundTrip
  BY DEF RoundTrip, CodecInv
<1> QED
  BY <1>1, <1>2, <1>3, PTL DEF Spec

-----------------------------------------------------------------------------
(* All four parts.                                                         *)

SidesInv == /\ part \in {"region", "poly", "codec", "export"}
            /\ part = "region" => RegionInv /\ NoPoly /\ NoCodec /\ NoExport
            /\ part = "poly" => PolyInv /\ NoRegion /\ NoCodec /\ NoExport
            /\ part = "codec" => CodecInv /\ NoRegion /\ NoPoly /\ NoExport
            /\ part = "export" => ExportInv /\ NoRegion /\ NoPoly /\ NoCodec

(***************************************************************************)
(* Each part keeps to its types, and the state of the others is none.      *)
(***************************************************************************)
THEOREM TypeCorrect == Spec => []TypeOK
<1>1. Init => SidesInv
  BY RegionStarts, PolyStarts, CodecStarts, ExportStarts DEF Init, SidesInv
<1>2. SidesInv /\ [Next]_vars => SidesInv'
  <2> SUFFICES ASSUME SidesInv, [Next]_vars PROVE SidesInv'
    OBVIOUS
  <2>1. /\ NoRegion /\ UNCHANGED regionVars => NoRegion'
        /\ NoPoly /\ UNCHANGED polyVars => NoPoly'
        /\ NoCodec /\ UNCHANGED codecVars => NoCodec'
        /\ NoExport /\ UNCHANGED exportVars => NoExport'
    BY DEF NoRegion, NoPoly, NoCodec, NoExport, regionVars, polyVars, codecVars, exportVars
  <2>2. CASE RegionStep
    <3>1. part = "region" /\ part' = "region" /\ UNCHANGED <<polyVars, codecVars, exportVars>>
      BY <2>2 DEF RegionStep
    <3>2. RegionInv'
      BY <2>2, <3>1, RegionStepKeeps DEF RegionStep, SidesInv
    <3> QED
      BY <2>1, <3>1, <3>2 DEF SidesInv
  <2>3. CASE PolyStep
    <3>1. part = "poly" /\ part' = "poly" /\ UNCHANGED <<regionVars, codecVars, exportVars>>
      BY <2>3 DEF PolyStep
    <3>2. PolyInv'
      BY <2>3, <3>1, ResolveKeeps, PassByKeeps, NextFunctionKeeps DEF PolyStep, Poly!Next, SidesInv
    <3> QED
      BY <2>1, <3>1, <3>2 DEF SidesInv
  <2>4. CASE CodecStep
    <3>1. part = "codec" /\ part' = "codec" /\ UNCHANGED <<regionVars, polyVars, exportVars>>
      BY <2>4 DEF CodecStep
    <3>2. CodecInv'
      BY <2>4, <3>1, CodecKeeps DEF CodecStep, SidesInv
    <3> QED
      BY <2>1, <3>1, <3>2 DEF SidesInv
  <2>5. CASE ExportStep
    <3>1. part = "export" /\ part' = "export" /\ UNCHANGED <<regionVars, polyVars, codecVars>>
      BY <2>5 DEF ExportStep
    <3>2. ExportInv'
      BY <2>5, <3>1, ExportKeeps, JoinKeeps, LoadKeeps DEF ExportStep, Export!Next, SidesInv
    <3> QED
      BY <2>1, <3>1, <3>2 DEF SidesInv
  <2>6. CASE UNCHANGED vars
    <3>1. UNCHANGED <<part, regionVars, polyVars, codecVars, exportVars>>
      BY <2>6 DEF vars
    <3> QED
      BY <2>1, <3>1, RegionRests, PolyRests, CodecRests, ExportRests DEF SidesInv
  <2> QED
    BY <2>2, <2>3, <2>4, <2>5, <2>6 DEF Next
<1>3. SidesInv => TypeOK
  BY DEF SidesInv, TypeOK, RegionInv, PolyInv, CodecInv, ExportInv
<1> QED
  BY <1>1, <1>2, <1>3, PTL DEF Spec
=============================================================================
