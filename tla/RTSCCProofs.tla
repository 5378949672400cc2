----------------------------- MODULE RTSCCProofs -----------------------------
(***************************************************************************)
(* Theorems about RTSCC, for every call graph: Tarjan's algorithm emits    *)
(* the classes of mutually recursive functions, callees first, and the     *)
(* depth pass measures the longest chains of calls.                        *)
(***************************************************************************)
EXTENDS RTSCC, RTInduction, SequenceTheorems

(***************************************************************************)
(* The inductive invariant.  A function that has been visited is on the    *)
(* stack or has been emitted; on the stack the indices rise.               *)
(***************************************************************************)
OnStack  == Elements(stack)
Emitted  == UNION {sccs[i] : i \in DOMAIN sccs}
Visited  == OnStack \cup Emitted

Leads(f, g) == g = f \/ g \in Reach[f]

\* The callees of f that its activation, if it has one, has passed.
Treated(f) == {in.callees[f][j] : j \in {j \in DOMAIN in.callees[f] :
                 \A k \in DOMAIN calls : calls[k].fn = f => j < calls[k].at}}

IndexInv ==
  /\ \A n \in Nodes : index[n] < counter /\ (index[n] = -1 <=> n \notin Visited)
  /\ OnStack \cap Emitted = {}
  /\ \A i, j \in DOMAIN stack : i < j => index[stack[i]] < index[stack[j]]

ComponentsInv ==
  /\ \A i \in DOMAIN sccs : sccs[i] # {}
  /\ \A i, j \in DOMAIN sccs : i # j => sccs[i] \cap sccs[j] = {}

\* The activations lead from one to the next, in the order of the stack.
CallsInv ==
  /\ \A k \in DOMAIN calls : /\ calls[k].fn \in OnStack
                             /\ calls[k].at <= Len(in.callees[calls[k].fn]) + 1
  /\ \A k \in DOMAIN calls : k + 1 \in DOMAIN calls =>
        /\ calls[k].at <= Len(in.callees[calls[k].fn])
        /\ in.callees[calls[k].fn][calls[k].at] = calls[k+1].fn
  /\ \A k, l \in DOMAIN calls : k < l => index[calls[k].fn] < index[calls[l].fn]

TreatedInv == \A f \in OnStack : Treated(f) \subseteq Visited

\* A lowlink is the index of a function on the stack that can be reached.
LowInv == \A n \in OnStack :
            /\ low[n] <= index[n]
            /\ \E m \in OnStack : index[m] = low[n] /\ Leads(n, m)

\* On the stack one gets upwards by calls, and from everywhere down to an
\* activation.
PathInv == \A x, y \in OnStack : index[x] <= index[y] => Leads(x, y)

BackInv == \A y \in OnStack : \E k \in DOMAIN calls :
              index[calls[k].fn] <= index[y] /\ Leads(y, calls[k].fn)

\* The lowlink of an activation knows of every treated callee of its part of
\* the stack.
OwnInv ==
  \A k \in DOMAIN calls : \A n \in OnStack :
    /\ index[calls[k].fn] <= index[n]
    /\ k + 1 \in DOMAIN calls => index[n] < index[calls[k+1].fn]
    => \A w \in Treated(n) \cap OnStack : low[calls[k].fn] <= index[w]

SearchInv == /\ TypeOK
             /\ IndexInv /\ ComponentsInv /\ CallsInv /\ TreatedInv
             /\ LowInv /\ PathInv /\ BackInv /\ OwnInv
             /\ CalleesFirst

(***************************************************************************)
(* What is known of the depths measured so far.                            *)
(***************************************************************************)
Loops(f) == \E g \in {f} \cup Reach[f] : g \in Reach[g]

Measured(i, f) ==
  IF Loops(f) THEN depth[i] = -1
  ELSE depth[i] # -1 /\ \A n \in 1 .. Size : f \in HasPath[n] <=> n <= depth[i]

DepthInv == /\ depth # <<>> => SearchOver
            /\ Len(depth) <= Len(sccs)
            /\ \A i \in DOMAIN depth : depth[i] <= i /\ \A f \in sccs[i] : Measured(i, f)

-----------------------------------------------------------------------------
(***************************************************************************)
(* Reachability, as the reference definition counts it, is the least       *)
(* relation that contains the calls and is closed under them.              *)
(***************************************************************************)
Closed(S) == \A f \in S : Elements(in.callees[f]) \subseteq S

\* One more call, at the front and at the end.
Front(r, f) == r[f] \cup UNION {r[g] : g \in Elements(in.callees[f])}
Further(S)  == S \cup UNION {Elements(in.callees[g]) : g \in S}

\* What a function calls is a function.
LEMMA CalleesAreNodes ==
  ASSUME WellFormed(in), NEW f \in Nodes
  PROVE  /\ in.callees[f] \in Seq(Nodes)
         /\ Elements(in.callees[f]) \in SUBSET Nodes
<1>1. in.callees[f] \in Seq(Nodes)
  BY DEF WellFormed
<1> QED
  BY <1>1 DEF Elements

\* The number of functions is a number.
LEMMA SizeIsNat == Size \in Nat
  BY NodesAssumption, FS_CardinalityType DEF Size

\* The recursive definition of ReachIn defines a function.
LEMMA ReachInStep ==
  ASSUME WellFormed(in)
  PROVE  /\ ReachIn \in [0 .. Size -> [Nodes -> SUBSET Nodes]]
         /\ ReachIn[0] = [f \in Nodes |-> Elements(in.callees[f])]
         /\ \A n \in 1 .. Size : ReachIn[n] = [f \in Nodes |-> Front(ReachIn[n-1], f)]
<1> DEFINE T == [Nodes -> SUBSET Nodes]
           b == [f \in Nodes |-> Elements(in.callees[f])]
           next == [r \in T |-> [f \in Nodes |-> Front(r, f)]]
           F == [n \in Nat |-> next]
<1>1. b \in T
  BY CalleesAreNodes
<1>2. ASSUME NEW r \in T PROVE [f \in Nodes |-> Front(r, f)] \in T
  <2>1. ASSUME NEW f \in Nodes PROVE Front(r, f) \in SUBSET Nodes
    BY CalleesAreNodes DEF Front
  <2> QED
    BY <2>1
<1>3. F \in [Nat -> [T -> T]]
  BY <1>2
<1>4. PICK g \in [0 .. Size -> T] : g[0] = b /\ \A n \in 1 .. Size : g[n] = F[n][g[n - 1]]
  <2> HIDE DEF T, b, F, next
  <2> QED
    BY <1>1, <1>3, SizeIsNat, RecursionExists, Z3
<1>5. ASSUME NEW n \in 1 .. Size PROVE g[n] = [f \in Nodes |-> Front(g[n-1], f)]
  <2>1. n \in Nat /\ n - 1 \in 0 .. Size
    BY SizeIsNat
  <2>2. g[n - 1] \in T
    BY <2>1
  <2>3. F[n][g[n - 1]] = [f \in Nodes |-> Front(g[n-1], f)]
    BY <2>1, <2>2
  <2> QED
    BY <1>4, <2>3
<1> DEFINE body(h) == [n \in 0 .. Size |->
              IF n = 0 THEN [f \in Nodes |-> Elements(in.callees[f])]
              ELSE [f \in Nodes |-> h[n-1][f] \cup UNION {h[n-1][c] : c \in Elements(in.callees[f])}]]
<1>6. g = body(g)
  <2>1. DOMAIN g = 0 .. Size
    OBVIOUS
  <2>2. ASSUME NEW n \in 0 .. Size PROVE g[n] = body(g)[n]
    <3>1. CASE n = 0
      BY <3>1, <1>4
    <3>2. CASE n # 0
      <4>1. n \in 1 .. Size
        BY <3>2, SizeIsNat
      <4> QED
        BY <4>1, <3>2, <1>5 DEF Front
    <3> QED
      BY <3>1, <3>2
  <2>3. g = [n \in 0 .. Size |-> g[n]]
    BY <2>1
  <2> QED
    BY <2>2, <2>3
<1>7. ReachIn = body(ReachIn)
  <2>1. ReachIn = CHOOSE h : h = body(h)
    BY DEF ReachIn
  <2> HIDE DEF body
  <2>2. \E h : h = body(h)
    BY <1>6
  <2> QED
    BY <2>1, <2>2
<1>8. ReachIn[0] = b
  <2>1. 0 \in 0 .. Size
    BY SizeIsNat
  <2> QED
    BY <1>7, <2>1
<1>9. ASSUME NEW n \in 1 .. Size PROVE ReachIn[n] = [f \in Nodes |-> Front(ReachIn[n-1], f)]
  <2>1. n \in 0 .. Size /\ n # 0
    BY SizeIsNat
  <2> QED
    BY <1>7, <2>1 DEF Front
<1>10. \A n \in 0 .. Size : ReachIn[n] \in T
  <2> DEFINE S == {n \in 0 .. Size : ReachIn[n] \in T}
  <2>1. 0 \in S
    BY <1>8, <1>1, SizeIsNat
  <2>2. ASSUME NEW n \in 0 .. Size - 1, n \in S PROVE n + 1 \in S
    <3>1. n + 1 \in 1 .. Size /\ n + 1 - 1 = n /\ n + 1 \in 0 .. Size
      BY SizeIsNat
    <3>2. ReachIn[n] \in T
      BY <2>2
    <3>3. ReachIn[n + 1] = [f \in Nodes |-> Front(ReachIn[n], f)]
      BY <1>9, <3>1
    <3> HIDE DEF T
    <3>4. ReachIn[n + 1] \in T
      BY <1>2, <3>2, <3>3
    <3> QED
      BY <3>1, <3>4
  <2>3. 0 .. Size \subseteq S
    <3> HIDE DEF S
    <3> QED
      BY <2>1, <2>2, SizeIsNat, SegmentInduction
  <2> QED
    BY <2>3
<1>11. ReachIn \in [0 .. Size -> T]
  <2>1. ReachIn = [n \in 0 .. Size |-> ReachIn[n]]
    BY <1>7
  <2> HIDE DEF T
  <2> QED
    BY <2>1, <1>10
<1> QED
  BY <1>8, <1>9, <1>11

\* A call more at the front reaches what a call more at the end reaches.
LEMMA FrontIsFurther ==
  ASSUME WellFormed(in), NEW f \in Nodes
  PROVE  \A n \in 1 .. Size : ReachIn[n][f] = Further(ReachIn[n-1][f])
<1> DEFINE S == {n \in 0 .. Size : n # 0 => \A g \in Nodes : ReachIn[n][g] = Further(ReachIn[n-1][g])}
<1>1. 0 \in S
  BY SizeIsNat
<1>2. ASSUME NEW n \in 0 .. Size - 1, n \in S PROVE n + 1 \in S
  <2>1. n + 1 \in 1 .. Size /\ n + 1 - 1 = n /\ n + 1 \in 0 .. Size /\ n \in 0 .. Size
    BY SizeIsNat
  <2>2. \A g \in Nodes : ReachIn[n + 1][g] = Front(ReachIn[n], g)
    <3>1. ReachIn[n + 1] = [g \in Nodes |-> Front(ReachIn[n + 1 - 1], g)]
      BY <2>1, ReachInStep
    <3> QED
      BY <3>1, <2>1
  <2>3. \A g \in Nodes : Elements(in.callees[g]) \in SUBSET Nodes
    BY CalleesAreNodes
  <2>4. ASSUME NEW g \in Nodes PROVE ReachIn[n + 1][g] = Further(ReachIn[n][g])
    <3>1. CASE n = 0
      <4>1. \A h \in Nodes : ReachIn[n][h] = Elements(in.callees[h])
        BY <3>1, ReachInStep
      <4> QED
        BY <4>1, <2>2, <2>3 DEF Front, Further
    <3>2. CASE n # 0
      <4>1. n \in 1 .. Size
        BY <2>1, <3>2
      <4>2. \A h \in Nodes : ReachIn[n][h] = Front(ReachIn[n-1], h)
        BY <4>1, ReachInStep
      <4>3. \A h \in Nodes : ReachIn[n][h] = Further(ReachIn[n-1][h])
        BY <1>2, <3>2
      <4>4. ReachIn[n + 1][g] = Front(ReachIn[n], g)
        BY <2>2
      <4>5. ReachIn[n + 1][g] \subseteq Further(ReachIn[n][g])
        <5>1. ASSUME NEW x \in ReachIn[n + 1][g] PROVE x \in Further(ReachIn[n][g])
          <6>1. CASE x \in ReachIn[n][g]
            BY <6>1 DEF Further
          <6>2. ASSUME NEW c \in Elements(in.callees[g]), x \in ReachIn[n][c]
                PROVE  x \in Further(ReachIn[n][g])
            <7>1. c \in Nodes
              BY <2>3
            <7>2. x \in Further(ReachIn[n-1][c])
              BY <4>3, <6>2, <7>1
            <7>3. ReachIn[n-1][c] \subseteq ReachIn[n][g]
              BY <4>2 DEF Front
            <7> QED
              BY <7>2, <7>3 DEF Further
          <6> QED
            BY <4>4, <6>1, <6>2 DEF Front
        <5> QED
          BY <5>1
      <4>6. Further(ReachIn[n][g]) \subseteq ReachIn[n + 1][g]
        <5>1. ASSUME NEW x \in Further(ReachIn[n][g]) PROVE x \in ReachIn[n + 1][g]
          <6>1. CASE x \in ReachIn[n][g]
            BY <6>1, <4>4 DEF Front
          <6>2. ASSUME NEW h \in ReachIn[n][g], x \in Elements(in.callees[h])
                PROVE  x \in ReachIn[n + 1][g]
            <7>1. CASE h \in ReachIn[n-1][g]
              <8>1. x \in ReachIn[n][g]
                BY <7>1, <6>2, <4>3 DEF Further
              <8> QED
                BY <8>1, <4>4 DEF Front
            <7>2. ASSUME NEW c \in Elements(in.callees[g]), h \in ReachIn[n-1][c]
                  PROVE  x \in ReachIn[n + 1][g]
              <8>1. c \in Nodes
                BY <2>3
              <8>2. x \in ReachIn[n][c]
                BY <8>1, <7>2, <6>2, <4>3 DEF Further
              <8> QED
                BY <8>2, <4>4 DEF Front
            <7> QED
              BY <7>1, <7>2, <6>2, <4>2 DEF Front
          <6> QED
            BY <6>1, <6>2 DEF Further
        <5> QED
          BY <5>1
      <4> QED
        BY <4>5, <4>6
    <3> QED
      BY <3>1, <3>2
  <2> QED
    BY <2>1, <2>4
<1>3. 0 .. Size \subseteq S
  <2> HIDE DEF S
  <2> QED
    BY <1>1, <1>2, SizeIsNat, SegmentInduction
<1>4. ASSUME NEW n \in 1 .. Size PROVE ReachIn[n][f] = Further(ReachIn[n-1][f])
  <2>1. n \in S /\ n # 0
    <3>1. n \in 0 .. Size /\ n # 0
      BY SizeIsNat
    <3> HIDE DEF S
    <3> QED
      BY <3>1, <1>3
  <2> QED
    BY <2>1
<1> QED
  BY <1>4

\* What is reached is a set of functions that contains the callees, is closed
\* under calls, and is contained in every such set.
LEMMA ReachIsLeast ==
  ASSUME WellFormed(in), NEW f \in Nodes
  PROVE  /\ Reach[f] \in SUBSET Nodes
         /\ Elements(in.callees[f]) \subseteq Reach[f]
         /\ Closed(Reach[f])
         /\ \A S \in SUBSET Nodes : Elements(in.callees[f]) \subseteq S /\ Closed(S) => Reach[f] \subseteq S
<1> DEFINE F == [S \in SUBSET Nodes |-> Further(S)]
           s == [n \in 0 .. Size |-> ReachIn[n][f]]
<1>1. \A g \in Nodes : Elements(in.callees[g]) \in SUBSET Nodes
  BY CalleesAreNodes
<1>2. \A S \in SUBSET Nodes : Further(S) \in SUBSET Nodes /\ S \subseteq Further(S)
  BY <1>1 DEF Further
<1>3. F \in [SUBSET Nodes -> SUBSET Nodes] /\ \A S \in SUBSET Nodes : F[S] = Further(S)
  BY <1>2
<1>4. \A n \in 0 .. Size : ReachIn[n][f] \in SUBSET Nodes
  BY ReachInStep
<1>5. s \in [0 .. Size -> SUBSET Nodes] /\ \A n \in 0 .. Size : s[n] = ReachIn[n][f]
  BY <1>4
<1>6. \A n \in 1 .. Size : s[n] = F[s[n-1]]
  <2>1. ASSUME NEW n \in 1 .. Size PROVE s[n] = F[s[n-1]]
    <3>1. n \in 0 .. Size /\ n - 1 \in 0 .. Size
      BY SizeIsNat
    <3>2. s[n] = Further(s[n-1])
      BY <3>1, <1>5, FrontIsFurther
    <3> QED
      BY <3>1, <3>2, <1>3, <1>5
  <2> QED
    BY <2>1
<1>7. F[s[Size]] = s[Size]
  <2>1. \A S \in SUBSET Nodes : S \subseteq F[S]
    BY <1>2, <1>3
  <2>2. F \in [SUBSET Nodes -> SUBSET Nodes]
    BY <1>3
  <2>3. s \in [0 .. Size -> SUBSET Nodes]
    BY <1>5
  <2> HIDE DEF F, s
  <2> QED
    BY <2>1, <2>2, <2>3, <1>6, NodesAssumption, GrowthStops DEF Size
<1>8. Reach[f] = s[Size] /\ s[Size] \in SUBSET Nodes
  BY <1>5, SizeIsNat DEF Reach
<1>9. Closed(Reach[f])
  <2>1. Further(Reach[f]) = Reach[f]
    BY <1>3, <1>7, <1>8
  <2> QED
    BY <2>1 DEF Further, Closed
<1>10. ASSUME NEW S \in SUBSET Nodes
       PROVE  /\ Elements(in.callees[f]) \subseteq ReachIn[Size][f]
              /\ Elements(in.callees[f]) \subseteq S /\ Closed(S) => ReachIn[Size][f] \subseteq S
  <2> DEFINE G == {n \in 0 .. Size : /\ Elements(in.callees[f]) \subseteq ReachIn[n][f]
                                     /\ Elements(in.callees[f]) \subseteq S /\ Closed(S) => ReachIn[n][f] \subseteq S}
  <2>1. 0 \in G
    BY SizeIsNat, ReachInStep
  <2>2. ASSUME NEW n \in 0 .. Size - 1, n \in G PROVE n + 1 \in G
    <3>1. n + 1 \in 1 .. Size /\ n + 1 - 1 = n /\ n + 1 \in 0 .. Size
      BY SizeIsNat
    <3>2. ReachIn[n + 1][f] = Further(ReachIn[n][f])
      BY <3>1, FrontIsFurther
    <3>3. Elements(in.callees[f]) \subseteq ReachIn[n + 1][f]
      BY <3>2, <2>2 DEF Further
    <3>4. Elements(in.callees[f]) \subseteq S /\ Closed(S) => ReachIn[n + 1][f] \subseteq S
      BY <3>2, <2>2 DEF Further, Closed
    <3> QED
      BY <3>1, <3>3, <3>4
  <2>3. 0 .. Size \subseteq G
    <3> HIDE DEF G
    <3> QED
      BY <2>1, <2>2, SizeIsNat, SegmentInduction
  <2>4. Size \in G
    <3> HIDE DEF G
    <3> QED
      BY <2>3, SizeIsNat
  <2> QED
    BY <2>4
<1> QED
  BY <1>8, <1>9, <1>10 DEF Reach

\* Calls lead on.
LEMMA LeadsOn ==
  ASSUME WellFormed(in), NEW f \in Nodes, NEW g \in Nodes
  PROVE  /\ Leads(f, g) => \A h \in Elements(in.callees[g]) : Leads(f, h) /\ h \in Reach[f]
         /\ g \in Elements(in.callees[f]) => \A h : Leads(g, h) => h \in Reach[f]
         /\ Leads(f, g) => \A h : Leads(g, h) => Leads(f, h)
<1>1. /\ Reach[f] \in SUBSET Nodes /\ Elements(in.callees[f]) \subseteq Reach[f] /\ Closed(Reach[f])
  BY ReachIsLeast
<1>2. g \in Reach[f] => Reach[g] \subseteq Reach[f]
  BY <1>1, ReachIsLeast DEF Closed
<1>3. Elements(in.callees[g]) \subseteq Reach[g]
  BY ReachIsLeast
<1> QED
  BY <1>1, <1>2, <1>3 DEF Leads, Closed

\* A set that is closed under calls is not left.
LEMMA ClosedHolds ==
  ASSUME WellFormed(in), NEW S \in SUBSET Nodes, Closed(S), NEW f \in S
  PROVE  Reach[f] \subseteq S
BY ReachIsLeast DEF Closed

\* Whatever a function reaches it reaches through a callee.
LEMMA ReachByCallee ==
  ASSUME WellFormed(in), NEW f \in Nodes, NEW g \in Reach[f]
  PROVE  \E h \in Elements(in.callees[f]) : Leads(h, g)
<1> DEFINE S == {x \in Nodes : \E h \in Elements(in.callees[f]) : Leads(h, x)}
<1>1. Elements(in.callees[f]) \in SUBSET Nodes
  BY CalleesAreNodes
<1>2. Elements(in.callees[f]) \subseteq S
  BY <1>1 DEF Leads
<1>3. ASSUME NEW x \in S, NEW y \in Elements(in.callees[x]) PROVE y \in S
  <2>1. PICK h \in Elements(in.callees[f]) : Leads(h, x)
    OBVIOUS
  <2>2. h \in Nodes /\ y \in Nodes
    BY <1>1, CalleesAreNodes
  <2>3. Leads(h, y)
    BY <2>1, <2>2, LeadsOn
  <2> QED
    BY <2>2, <2>3
<1>4. Closed(S)
  BY <1>3 DEF Closed
<1>5. Reach[f] \subseteq S
  <2>1. S \in SUBSET Nodes
    OBVIOUS
  <2> HIDE DEF S
  <2> QED
    BY <2>1, <1>2, <1>4, ReachIsLeast
<1> QED
  BY <1>5

\* A class is what leads there and back.
LEMMA ClassIs ==
  ASSUME WellFormed(in), NEW f \in Nodes
  PROVE  Class(f) = {g \in Nodes : Leads(f, g) /\ Leads(g, f)}
<1>1. Reach[f] \in SUBSET Nodes
  BY ReachIsLeast
<1> QED
  BY <1>1 DEF Class, Leads

-----------------------------------------------------------------------------
(***************************************************************************)
(* What the actions do to the stack, the activations and the components.   *)
(***************************************************************************)
LEMMA OnStackNodes == TypeOK => OnStack \in SUBSET Nodes /\ Emitted \in SUBSET Nodes
<1> SUFFICES ASSUME TypeOK PROVE OnStack \in SUBSET Nodes /\ Emitted \in SUBSET Nodes
  OBVIOUS
<1>1. \A i \in DOMAIN stack : stack[i] \in Nodes
  BY DEF TypeOK
<1>2. \A i \in DOMAIN sccs : sccs[i] \in SUBSET Nodes
  BY DEF TypeOK
<1> QED
  BY <1>1, <1>2 DEF OnStack, Emitted, Elements

\* What entering a node sets.
LEMMA EnterSets ==
  ASSUME TypeOK, NEW n \in Nodes, Enter(n)
  PROVE  /\ index' \in [Nodes -> {-1} \cup Nat] /\ low' \in [Nodes -> {-1} \cup Nat]
         /\ index'[n] = counter /\ low'[n] = counter
         /\ \A m \in Nodes \ {n} : index'[m] = index[m] /\ low'[m] = low[m]
         /\ counter' = counter + 1
         /\ stack' \in Seq(Nodes) /\ Len(stack') = Len(stack) + 1
         /\ stack'[Len(stack) + 1] = n
         /\ \A i \in DOMAIN stack : stack'[i] = stack[i]
         /\ OnStack' = OnStack \cup {n}
         /\ calls' \in Seq(Activation) /\ Len(calls') = Len(calls) + 1
         /\ calls'[Len(calls) + 1].fn = n /\ calls'[Len(calls) + 1].at = 1
         /\ \A k \in DOMAIN calls : calls'[k] = calls[k]
         /\ UNCHANGED <<in, sccs, depth>>
         /\ Emitted' = Emitted
<1>1. stack' = Append(stack, n) /\ stack \in Seq(Nodes)
  BY DEF Enter, TypeOK
<1>2. [fn |-> n, at |-> 1] \in Activation
  BY DEF Activation
<1>3. calls' = Append(calls, [fn |-> n, at |-> 1]) /\ calls \in Seq(Activation)
  BY DEF Enter, TypeOK
<1>4. /\ stack' \in Seq(Nodes) /\ Len(stack') = Len(stack) + 1
      /\ stack'[Len(stack) + 1] = n
      /\ \A i \in DOMAIN stack : stack'[i] = stack[i]
  BY <1>1
<1>5. OnStack' = OnStack \cup {n}
  <2>1. DOMAIN stack' = 1 .. Len(stack) + 1 /\ DOMAIN stack = 1 .. Len(stack) /\ Len(stack) \in Nat
    BY <1>1
  <2>2. OnStack' \subseteq OnStack \cup {n}
    <3>1. ASSUME NEW i \in DOMAIN stack' PROVE stack'[i] \in OnStack \cup {n}
      <4>1. i \in DOMAIN stack \/ i = Len(stack) + 1
        BY <2>1
      <4> QED
        BY <4>1, <1>4 DEF OnStack, Elements
    <3> QED
      BY <3>1 DEF OnStack, Elements
  <2>3. OnStack \cup {n} \subseteq OnStack'
    <3>1. ASSUME NEW i \in DOMAIN stack PROVE stack[i] \in OnStack'
      <4>1. i \in DOMAIN stack' /\ stack'[i] = stack[i]
        BY <2>1, <1>4
      <4> QED
        BY <4>1 DEF OnStack, Elements
    <3>2. n \in OnStack'
      <4>1. Len(stack) + 1 \in DOMAIN stack'
        BY <2>1
      <4> QED
        BY <4>1, <1>4 DEF OnStack, Elements
    <3> QED
      BY <3>1, <3>2 DEF OnStack, Elements
  <2> QED
    BY <2>2, <2>3
<1>6. /\ calls' \in Seq(Activation) /\ Len(calls') = Len(calls) + 1
      /\ calls'[Len(calls) + 1] = [fn |-> n, at |-> 1]
      /\ \A k \in DOMAIN calls : calls'[k] = calls[k]
  BY <1>2, <1>3
<1>7. /\ index' \in [Nodes -> {-1} \cup Nat] /\ low' \in [Nodes -> {-1} \cup Nat]
      /\ index'[n] = counter /\ low'[n] = counter
      /\ \A m \in Nodes \ {n} : index'[m] = index[m] /\ low'[m] = low[m]
  BY DEF Enter, TypeOK
<1>8. counter' = counter + 1 /\ UNCHANGED <<in, sccs, depth>>
  BY DEF Enter
<1>9. Emitted' = Emitted
  BY <1>8 DEF Emitted
<1> QED
  BY <1>4, <1>5, <1>6, <1>7, <1>8, <1>9

\* Popping down to f takes what was entered since f.
LEMMA Positions ==
  ASSUME TypeOK, IndexInv, NEW f \in OnStack
  PROVE  /\ At(stack, f) \in DOMAIN stack /\ stack[At(stack, f)] = f
         /\ Popped(f) = {n \in OnStack : index[f] <= index[n]}
         /\ SubSeq(stack, 1, At(stack, f) - 1) \in Seq(Nodes)
         /\ Len(SubSeq(stack, 1, At(stack, f) - 1)) = At(stack, f) - 1
         /\ \A i \in 1 .. At(stack, f) - 1 : SubSeq(stack, 1, At(stack, f) - 1)[i] = stack[i]
         /\ Elements(SubSeq(stack, 1, At(stack, f) - 1)) = {n \in OnStack : index[n] < index[f]}
<1> DEFINE p == At(stack, f)
           up == SubSeq(stack, p, Len(stack))
           down == SubSeq(stack, 1, p - 1)
<1>1. p \in DOMAIN stack /\ stack[p] = f
  BY DEF At, OnStack, Elements
<1>2. stack \in Seq(Nodes) /\ DOMAIN stack = 1 .. Len(stack) /\ Len(stack) \in Nat
  BY DEF TypeOK
<1> HIDE DEF p
<1>3. /\ down \in Seq(Nodes) /\ Len(down) = p - 1
      /\ \A i \in 1 .. p - 1 : down[i] = stack[i]
  BY <1>1, <1>2
<1>4. /\ up \in Seq(Nodes) /\ Len(up) = Len(stack) - p + 1
      /\ \A i \in 1 .. Len(stack) - p + 1 : up[i] = stack[p + i - 1]
  BY <1>1, <1>2
<1>5. DOMAIN down = 1 .. p - 1 /\ DOMAIN up = 1 .. Len(stack) - p + 1
  BY <1>3, <1>4
<1> HIDE DEF up, down
<1>6. Elements(down) = {stack[i] : i \in 1 .. p - 1}
  BY <1>3, <1>5 DEF Elements
<1>7. Elements(up) = {stack[i] : i \in p .. Len(stack)}
  <2>1. ASSUME NEW i \in p .. Len(stack) PROVE stack[i] \in Elements(up)
    <3>1. i - p + 1 \in DOMAIN up /\ p + (i - p + 1) - 1 = i
      BY <1>5, <1>1, <1>2
    <3>2. up[i - p + 1] = stack[i]
      BY <3>1, <1>4, <1>5
    <3> QED
      BY <3>1, <3>2 DEF Elements
  <2>2. ASSUME NEW i \in DOMAIN up PROVE up[i] \in {stack[j] : j \in p .. Len(stack)}
    <3>1. p + i - 1 \in p .. Len(stack) /\ up[i] = stack[p + i - 1]
      BY <1>4, <1>5, <1>1, <1>2
    <3> QED
      BY <3>1
  <2> QED
    BY <2>1, <2>2 DEF Elements
<1>8. \A i \in DOMAIN stack : stack[i] \in Nodes /\ index[stack[i]] \in Int
  BY <1>2 DEF TypeOK
<1>9. \A i \in DOMAIN stack : (i < p => index[stack[i]] < index[f]) /\ (p <= i => index[f] <= index[stack[i]])
  <2>1. ASSUME NEW i \in DOMAIN stack
        PROVE  (i < p => index[stack[i]] < index[f]) /\ (p <= i => index[f] <= index[stack[i]])
    <3>1. CASE i = p
      BY <3>1, <1>1, <1>2, <1>8
    <3>2. CASE i < p
      BY <3>2, <1>1, <1>2 DEF IndexInv
    <3>3. CASE p < i
      <4>1. index[f] < index[stack[i]]
        BY <3>3, <1>1 DEF IndexInv
      <4> QED
        BY <4>1, <3>3, <1>1, <1>2, <1>8
    <3> QED
      BY <3>1, <3>2, <3>3, <1>1, <1>2
  <2> QED
    BY <2>1
<1>10. index[f] \in Int
  BY <1>1, <1>8
<1>11. {stack[i] : i \in 1 .. p - 1} = {n \in OnStack : index[n] < index[f]}
  <2>1. ASSUME NEW i \in 1 .. p - 1 PROVE stack[i] \in {n \in OnStack : index[n] < index[f]}
    <3>1. i \in DOMAIN stack /\ i < p
      BY <1>1, <1>2
    <3> QED
      BY <3>1, <1>9 DEF OnStack, Elements
  <2>2. ASSUME NEW n \in OnStack, index[n] < index[f] PROVE n \in {stack[i] : i \in 1 .. p - 1}
    <3>1. PICK i \in DOMAIN stack : n = stack[i]
      BY DEF OnStack, Elements
    <3>2. i < p
      BY <3>1, <2>2, <1>1, <1>2, <1>8, <1>9, <1>10
    <3>3. i \in 1 .. p - 1
      BY <3>2, <1>1, <1>2
    <3> QED
      BY <3>1, <3>3
  <2> QED
    BY <2>1, <2>2
<1>12. {stack[i] : i \in p .. Len(stack)} = {n \in OnStack : index[f] <= index[n]}
  <2>1. ASSUME NEW i \in p .. Len(stack) PROVE stack[i] \in {n \in OnStack : index[f] <= index[n]}
    <3>1. i \in DOMAIN stack /\ p <= i
      BY <1>1, <1>2
    <3> QED
      BY <3>1, <1>9 DEF OnStack, Elements
  <2>2. ASSUME NEW n \in OnStack, index[f] <= index[n] PROVE n \in {stack[i] : i \in p .. Len(stack)}
    <3>1. PICK i \in DOMAIN stack : n = stack[i]
      BY DEF OnStack, Elements
    <3>2. ~(i < p)
      BY <3>1, <2>2, <1>8, <1>9, <1>10
    <3>3. i \in p .. Len(stack)
      BY <3>2, <1>1, <1>2
    <3> QED
      BY <3>1, <3>3
  <2> QED
    BY <2>1, <2>2
<1> QED
  BY <1>1, <1>3, <1>6, <1>7, <1>11, <1>12 DEF Popped, p, up, down

\* Of a function with an activation the callees before its place are treated,
\* of any other all of them.
LEMMA TreatedIs ==
  TypeOK /\ CallsInv =>
    /\ \A f \in Nodes : (\A k \in DOMAIN calls : calls[k].fn # f) => Treated(f) = Elements(in.callees[f])
    /\ \A k \in DOMAIN calls : Treated(calls[k].fn) = {in.callees[calls[k].fn][j] : j \in 1 .. calls[k].at - 1}
    /\ \A k, l \in DOMAIN calls : calls[k].fn = calls[l].fn => k = l
<1> SUFFICES ASSUME TypeOK, CallsInv
             PROVE  /\ \A f \in Nodes : (\A k \in DOMAIN calls : calls[k].fn # f) => Treated(f) = Elements(in.callees[f])
                    /\ \A k \in DOMAIN calls : Treated(calls[k].fn) = {in.callees[calls[k].fn][j] : j \in 1 .. calls[k].at - 1}
                    /\ \A k, l \in DOMAIN calls : calls[k].fn = calls[l].fn => k = l
  OBVIOUS
<1>1. ASSUME NEW f \in Nodes, \A k \in DOMAIN calls : calls[k].fn # f
      PROVE  Treated(f) = Elements(in.callees[f])
  BY <1>1 DEF Treated, Elements
<1>2. \A k \in DOMAIN calls : calls[k].fn \in Nodes /\ calls[k].at \in Nat \ {0} /\ index[calls[k].fn] \in Int
  <2>1. ASSUME NEW k \in DOMAIN calls
        PROVE  calls[k].fn \in Nodes /\ calls[k].at \in Nat \ {0} /\ index[calls[k].fn] \in Int
    <3>1. calls[k] \in Activation
      BY DEF TypeOK
    <3> QED
      BY <3>1 DEF TypeOK, Activation
  <2> QED
    BY <2>1
<1>3. ASSUME NEW k \in DOMAIN calls, NEW l \in DOMAIN calls, calls[k].fn = calls[l].fn PROVE k = l
  <2>1. k \in Int /\ l \in Int
    BY DEF TypeOK
  <2>2. ~(k < l) /\ ~(l < k)
    BY <1>2, <1>3 DEF CallsInv
  <2> QED
    BY <2>1, <2>2
<1>4. ASSUME NEW k \in DOMAIN calls
      PROVE  Treated(calls[k].fn) = {in.callees[calls[k].fn][j] : j \in 1 .. calls[k].at - 1}
  <2> DEFINE c == in.callees[calls[k].fn]
             J == {j \in DOMAIN c : \A l \in DOMAIN calls : calls[l].fn = calls[k].fn => j < calls[l].at}
  <2>1. c \in Seq(Nodes)
    BY <1>2, CalleesAreNodes DEF TypeOK
  <2>2. DOMAIN c = 1 .. Len(c) /\ Len(c) \in Nat
    BY <2>1
  <2>3. calls[k].at \in Nat \ {0} /\ calls[k].at <= Len(c) + 1
    BY <1>2 DEF CallsInv
  <2>4. J = {j \in DOMAIN c : j < calls[k].at}
    BY <1>3
  <2> HIDE DEF c
  <2>5. J = 1 .. calls[k].at - 1
    BY <2>2, <2>3, <2>4
  <2> HIDE DEF J
  <2>6. Treated(calls[k].fn) = {c[j] : j \in J}
    BY DEF Treated, c, J
  <2> QED
    BY <2>5, <2>6 DEF c
<1> QED
  BY <1>1, <1>3, <1>4

\* TreatedIs, of the next state.
LEMMA TreatedIsNext ==
  TypeOK' /\ CallsInv' =>
   (/\ \A f \in Nodes : (\A k \in DOMAIN calls : calls[k].fn # f) => Treated(f) = Elements(in.callees[f])
    /\ \A k \in DOMAIN calls : Treated(calls[k].fn) = {in.callees[calls[k].fn][j] : j \in 1 .. calls[k].at - 1}
    /\ \A k, l \in DOMAIN calls : calls[k].fn = calls[l].fn => k = l)'
BY TreatedIs, PTL

\* The types of what lies at hand.
LEMMA CallTypes ==
  ASSUME TypeOK, CallsInv
  PROVE  /\ calls \in Seq(Activation) /\ DOMAIN calls = 1 .. Len(calls) /\ Len(calls) \in Nat
         /\ \A k \in DOMAIN calls : /\ calls[k].fn \in Nodes /\ calls[k].at \in Nat \ {0}
                                    /\ index[calls[k].fn] \in Int /\ calls[k].fn \in OnStack
                                    /\ in.callees[calls[k].fn] \in Seq(Nodes)
<1>1. calls \in Seq(Activation) /\ DOMAIN calls = 1 .. Len(calls) /\ Len(calls) \in Nat
  BY DEF TypeOK
<1>2. ASSUME NEW k \in DOMAIN calls
      PROVE  /\ calls[k].fn \in Nodes /\ calls[k].at \in Nat \ {0}
             /\ index[calls[k].fn] \in Int /\ calls[k].fn \in OnStack
             /\ in.callees[calls[k].fn] \in Seq(Nodes)
  <2>1. calls[k] \in Activation
    BY DEF TypeOK
  <2>2. calls[k].fn \in Nodes /\ calls[k].at \in Nat \ {0}
    BY <2>1 DEF Activation
  <2> QED
    BY <2>2, CalleesAreNodes DEF TypeOK, CallsInv
<1> QED
  BY <1>1, <1>2

\* Everything on the stack leads to the innermost activation.
LEMMA TopReached ==
  ASSUME SearchInv, NEW x \in OnStack
  PROVE  calls # <<>> /\ Len(calls) \in DOMAIN calls /\ Leads(x, Active.fn)
<1>1. PICK k \in DOMAIN calls : index[calls[k].fn] <= index[x] /\ Leads(x, calls[k].fn)
  BY DEF SearchInv, BackInv
<1>2. /\ DOMAIN calls = 1 .. Len(calls) /\ Len(calls) \in Nat
      /\ \A l \in DOMAIN calls : calls[l].fn \in Nodes /\ index[calls[l].fn] \in Int /\ calls[l].fn \in OnStack
  BY CallTypes DEF SearchInv
<1>3. Len(calls) \in DOMAIN calls /\ calls # <<>>
  BY <1>1, <1>2
<1>4. index[calls[k].fn] <= index[Active.fn]
  <2>1. CASE k = Len(calls)
    BY <2>1, <1>2, <1>3 DEF Active
  <2>2. CASE k # Len(calls)
    <3>1. k < Len(calls)
      BY <2>2, <1>2
    <3>2. index[calls[k].fn] < index[calls[Len(calls)].fn]
      BY <3>1, <1>3 DEF SearchInv, CallsInv
    <3> QED
      BY <3>2, <1>2, <1>3 DEF Active
  <2> QED
    BY <2>1, <2>2
<1>5. Leads(calls[k].fn, Active.fn)
  BY <1>2, <1>3, <1>4 DEF SearchInv, PathInv, Active
<1>6. x \in Nodes
  BY OnStackNodes DEF SearchInv
<1> QED
  BY <1>1, <1>2, <1>3, <1>5, <1>6, LeadsOn DEF SearchInv, TypeOK

\* The call graph does not change, nor does what is reached.
LEMMA SameGraph ==
  in' = in => /\ Reach' = Reach /\ HasPath' = HasPath
              /\ \A f, g : Leads(f, g)' <=> Leads(f, g)
              /\ \A f : Class(f)' = Class(f) /\ (Loops(f)' <=> Loops(f))
<1> SUFFICES ASSUME in' = in
             PROVE  /\ Reach' = Reach /\ HasPath' = HasPath
                    /\ \A f, g : Leads(f, g)' <=> Leads(f, g)
                    /\ \A f : Class(f)' = Class(f) /\ (Loops(f)' <=> Loops(f))
  OBVIOUS
<1>1. ReachIn' = ReachIn
  BY DEF ReachIn, Elements
<1>2. Reach' = Reach
  BY <1>1 DEF Reach, Size
<1>3. HasPath' = HasPath
  BY DEF HasPath, Elements, Size
<1>4. \A f, g : Leads(f, g)' <=> Leads(f, g)
  BY <1>2 DEF Leads
<1>5. \A f : Class(f)' = Class(f) /\ (Loops(f)' <=> Loops(f))
  BY <1>2 DEF Class, Loops
<1> QED
  BY <1>2, <1>3, <1>4, <1>5

\* The search starts with its invariant.
LEMMA InitHolds == Init => SearchInv
<1> SUFFICES ASSUME Init PROVE SearchInv
  OBVIOUS
<1>1. TypeOK
  BY InputsAssumption DEF Init, TypeOK
<1>2. OnStack = {} /\ Emitted = {} /\ calls = <<>> /\ DOMAIN calls = {} /\ DOMAIN sccs = {}
  BY DEF Init, OnStack, Emitted, Elements
<1>3. IndexInv
  BY <1>2 DEF Init, IndexInv, Visited
<1> QED
  BY <1>1, <1>2, <1>3 DEF SearchInv, ComponentsInv, CallsInv, TreatedInv, LowInv, PathInv, BackInv,
     OwnInv, CalleesFirst

(***************************************************************************)
(* StrongConnect begins, for a key or for an unvisited callee.             *)
(***************************************************************************)
LEMMA EnterKeeps ==
  ASSUME SearchInv, NEW n \in Nodes, index[n] = -1, Enter(n),
         \/ calls = <<>>
         \/ AtCallee /\ Callee = n
  PROVE  SearchInv'
<1>1. /\ TypeOK /\ IndexInv /\ CallsInv
      /\ index \in [Nodes -> {-1} \cup Nat] /\ low \in [Nodes -> {-1} \cup Nat] /\ counter \in Nat
      /\ stack \in Seq(Nodes) /\ DOMAIN stack = 1 .. Len(stack) /\ Len(stack) \in Nat
      /\ WellFormed(in)
  BY DEF SearchInv, TypeOK
<1>2. n \notin OnStack /\ n \notin Emitted /\ OnStack \in SUBSET Nodes /\ Emitted \in SUBSET Nodes
  BY <1>1, OnStackNodes DEF IndexInv, Visited
<1>3. TypeOK'
  <2>1. counter' \in Nat
    BY <1>1, EnterSets
  <2> QED
    BY <1>1, <2>1, EnterSets DEF TypeOK
<1>4. in' = in /\ DOMAIN calls' = 1 .. Len(calls) + 1 /\ DOMAIN stack' = 1 .. Len(stack) + 1
  BY <1>1, EnterSets
<1>5. IndexInv'
  <2>1. ASSUME NEW m \in Nodes PROVE index'[m] < counter' /\ (index'[m] = -1 <=> m \notin Visited')
    <3>1. CASE m = n
      BY <3>1, <1>1, EnterSets DEF Visited
    <3>2. CASE m # n
      <4>1. index'[m] = index[m] /\ (m \in Visited' <=> m \in Visited)
        BY <3>2, <1>1, EnterSets DEF Visited
      <4>2. index[m] < counter /\ (index[m] = -1 <=> m \notin Visited) /\ index[m] \in Int
        BY <1>1 DEF IndexInv
      <4>3. counter' = counter + 1
        BY <1>1, EnterSets
      <4> QED
        BY <4>1, <4>2, <4>3, <1>1
    <3> QED
      BY <3>1, <3>2
  <2>2. OnStack' \cap Emitted' = {}
    BY <1>1, <1>2, EnterSets DEF IndexInv
  <2>3. ASSUME NEW i \in DOMAIN stack', NEW j \in DOMAIN stack', i < j
        PROVE  index'[stack'[i]] < index'[stack'[j]]
    <3>1. i \in DOMAIN stack /\ stack'[i] = stack[i] /\ stack[i] \in OnStack
      BY <2>3, <1>1, <1>4, EnterSets DEF OnStack, Elements
    <3>2. index'[stack'[i]] = index[stack[i]] /\ index[stack[i]] < counter
      BY <3>1, <1>1, <1>2, EnterSets DEF IndexInv
    <3>3. CASE j = Len(stack) + 1
      BY <3>2, <3>3, <1>1, EnterSets
    <3>4. CASE j # Len(stack) + 1
      <4>1. j \in DOMAIN stack /\ stack'[j] = stack[j] /\ stack[j] \in OnStack
        BY <3>4, <1>1, <1>4, EnterSets DEF OnStack, Elements
      <4>2. index'[stack'[j]] = index[stack[j]]
        BY <4>1, <1>1, <1>2, EnterSets
      <4>3. index[stack[i]] < index[stack[j]]
        BY <3>1, <4>1, <2>3, <1>1 DEF IndexInv
      <4> QED
        BY <3>2, <4>2, <4>3
    <3> QED
      BY <3>3, <3>4
  <2> QED
    BY <2>1, <2>2, <2>3 DEF IndexInv
<1>6. ComponentsInv' /\ CalleesFirst'
  <2>1. sccs' = sccs /\ in' = in
    BY <1>1, EnterSets
  <2> QED
    BY <2>1 DEF SearchInv, ComponentsInv, CalleesFirst, Elements
\* Functions that were there already keep what they have.
<1>7. ASSUME NEW m \in OnStack
      PROVE  m \in Nodes /\ m # n /\ index'[m] = index[m] /\ low'[m] = low[m] /\ index[m] \in Int
             /\ index[m] < counter /\ m \in OnStack'
  BY <1>1, <1>2, EnterSets DEF IndexInv
<1>8. index'[n] = counter /\ low'[n] = counter /\ n \in OnStack' /\ OnStack' = OnStack \cup {n}
  BY <1>1, EnterSets
<1>9. /\ \A k \in DOMAIN calls : calls'[k] = calls[k] /\ k \in DOMAIN calls'
      /\ calls'[Len(calls) + 1].fn = n /\ calls'[Len(calls) + 1].at = 1
      /\ \A k \in DOMAIN calls' : k \in DOMAIN calls \/ k = Len(calls) + 1
      /\ DOMAIN calls = 1 .. Len(calls) /\ Len(calls) \in Nat
      /\ \A k \in DOMAIN calls : calls[k].fn \in OnStack /\ calls[k].fn # n
  BY <1>1, <1>2, <1>4, EnterSets, CallTypes
<1>10. CallsInv'
  <2>1. ASSUME NEW k \in DOMAIN calls'
        PROVE  calls'[k].fn \in OnStack' /\ calls'[k].at <= Len(in.callees[calls'[k].fn]) + 1
    <3>1. CASE k \in DOMAIN calls
      BY <3>1, <1>1, <1>8, <1>9 DEF CallsInv
    <3>2. CASE k = Len(calls) + 1
      <4>1. Len(in.callees[n]) \in Nat
        BY <1>1, CalleesAreNodes, LenProperties
      <4> QED
        BY <3>2, <4>1, <1>8, <1>9
    <3> QED
      BY <3>1, <3>2, <1>9
  <2>2. ASSUME NEW k \in DOMAIN calls', k + 1 \in DOMAIN calls'
        PROVE  /\ calls'[k].at <= Len(in.callees[calls'[k].fn])
               /\ in.callees[calls'[k].fn][calls'[k].at] = calls'[k+1].fn
    <3>1. k \in DOMAIN calls /\ calls'[k] = calls[k]
      BY <2>2, <1>4, <1>9
    <3>2. CASE k + 1 \in DOMAIN calls
      BY <3>1, <3>2, <1>1, <1>9 DEF CallsInv
    <3>3. CASE k + 1 = Len(calls) + 1
      <4>1. k = Len(calls) /\ calls # <<>>
        BY <3>1, <3>3, <1>9
      <4>2. calls[k].at <= Len(in.callees[calls[k].fn]) /\ in.callees[calls[k].fn][calls[k].at] = n
        BY <4>1 DEF AtCallee, Callee, Callees, Active
      <4> QED
        BY <3>1, <3>3, <4>2, <1>9
    <3> QED
      BY <2>2, <3>2, <3>3, <1>9
  <2>3. ASSUME NEW k \in DOMAIN calls', NEW l \in DOMAIN calls', k < l
        PROVE  index'[calls'[k].fn] < index'[calls'[l].fn]
    <3>1. k \in DOMAIN calls
      BY <2>3, <1>4, <1>9
    <3>2. CASE l \in DOMAIN calls
      BY <2>3, <3>1, <3>2, <1>1, <1>7, <1>9 DEF CallsInv
    <3>3. CASE l = Len(calls) + 1
      BY <3>1, <3>3, <1>7, <1>8, <1>9
    <3> QED
      BY <3>2, <3>3, <1>9
  <2> QED
    BY <2>1, <2>2, <2>3, <1>4 DEF CallsInv
<1>11. Treated(n)' = {} /\ \A m \in OnStack : Treated(m)' = Treated(m)
  <2>1. Treated(n)' = {}
    <3>1. Len(calls) + 1 \in DOMAIN calls'
      BY <1>4, <1>9
    <3>2. \A j \in DOMAIN in.callees[n] : ~(j < 1)
      <4>1. in.callees[n] \in Seq(Nodes)
        BY <1>1, CalleesAreNodes
      <4> QED
        BY <4>1
    <3>3. \A j \in DOMAIN in.callees[n] : ~(\A k \in DOMAIN calls' : calls'[k].fn = n => j < calls'[k].at)
      BY <3>1, <3>2, <1>9
    <3> QED
      BY <3>3, <1>4 DEF Treated
  <2>2. ASSUME NEW m \in OnStack PROVE Treated(m)' = Treated(m)
    <3>1. m # n
      BY <1>7
    <3>2. ASSUME NEW j \in DOMAIN in.callees[m]
          PROVE  (\A k \in DOMAIN calls' : calls'[k].fn = m => j < calls'[k].at)
                    <=> (\A k \in DOMAIN calls : calls[k].fn = m => j < calls[k].at)
      BY <3>1, <1>9
    <3> QED
      BY <3>2, <1>4 DEF Treated
  <2> QED
    BY <2>1, <2>2
<1>12. TreatedInv'
  BY <1>1, <1>8, <1>11, EnterSets DEF SearchInv, TreatedInv, Visited
<1>13. LowInv'
  <2>1. ASSUME NEW m \in OnStack PROVE low'[m] <= index'[m] /\ \E x \in OnStack' : index'[x] = low'[m] /\ Leads(m, x)'
    <3>1. PICK x \in OnStack : index[x] = low[m] /\ Leads(m, x)
      BY DEF SearchInv, LowInv
    <3>2. low[m] <= index[m]
      BY DEF SearchInv, LowInv
    <3> QED
      BY <3>1, <3>2, <1>4, <1>7, SameGraph
  <2>2. low'[n] <= index'[n] /\ \E x \in OnStack' : index'[x] = low'[n] /\ Leads(n, x)'
    BY <1>1, <1>8 DEF Leads
  <2> QED
    BY <2>1, <2>2, <1>8 DEF LowInv
<1>14. PathInv'
  <2>1. ASSUME NEW x \in OnStack PROVE Leads(x, n)
    <3>1. calls # <<>> /\ Len(calls) \in DOMAIN calls /\ Leads(x, Active.fn)
      BY TopReached
    <3>2. n = in.callees[Active.fn][Active.at] /\ Active.at <= Len(in.callees[Active.fn])
      BY <3>1 DEF AtCallee, Callee, Callees
    <3>3. Active.fn \in Nodes /\ Active.at \in Nat \ {0} /\ in.callees[Active.fn] \in Seq(Nodes)
      BY <3>1, <1>1, CallTypes DEF Active
    <3>4. Active.at \in DOMAIN in.callees[Active.fn]
      BY <3>2, <3>3
    <3>5. n \in Elements(in.callees[Active.fn])
      BY <3>2, <3>4 DEF Elements
    <3> QED
      BY <3>1, <3>3, <3>5, <1>1, <1>7, LeadsOn
  <2>2. ASSUME NEW x \in OnStack', NEW y \in OnStack', index'[x] <= index'[y] PROVE Leads(x, y)
    <3>1. CASE x \in OnStack /\ y \in OnStack
      BY <2>2, <3>1, <1>7 DEF SearchInv, PathInv
    <3>2. CASE y = n
      BY <3>2, <2>1, <1>8 DEF Leads
    <3>3. CASE x = n /\ y \in OnStack
      <4>1. index'[y] < index'[x]
        BY <3>3, <1>7, <1>8
      <4> QED
        BY <4>1, <2>2, <3>3, <1>1, <1>7, <1>8
    <3> QED
      BY <3>1, <3>2, <3>3, <1>8
  <2> QED
    BY <2>2, <1>4, SameGraph DEF PathInv
<1>15. BackInv'
  <2>1. ASSUME NEW y \in OnStack PROVE \E k \in DOMAIN calls' : index'[calls'[k].fn] <= index'[y] /\ Leads(y, calls'[k].fn)
    <3>1. PICK k \in DOMAIN calls : index[calls[k].fn] <= index[y] /\ Leads(y, calls[k].fn)
      BY DEF SearchInv, BackInv
    <3> QED
      BY <3>1, <1>7, <1>9
  <2>2. \E k \in DOMAIN calls' : index'[calls'[k].fn] <= index'[n] /\ Leads(n, calls'[k].fn)
    <3>1. Len(calls) + 1 \in DOMAIN calls'
      BY <1>4, <1>9
    <3> QED
      BY <3>1, <1>1, <1>8, <1>9 DEF Leads
  <2> QED
    BY <2>1, <2>2, <1>4, <1>8, SameGraph DEF BackInv
<1>16. OwnInv'
  <2> SUFFICES ASSUME NEW k \in DOMAIN calls', NEW m \in OnStack',
                      index'[calls'[k].fn] <= index'[m],
                      k + 1 \in DOMAIN calls' => index'[m] < index'[calls'[k+1].fn],
                      NEW w \in Treated(m)', w \in OnStack'
               PROVE  low'[calls'[k].fn] <= index'[w]
    BY DEF OwnInv
  <2>1. m \in OnStack /\ w \in Treated(m)
    BY <1>8, <1>11
  <2>2. w \in OnStack
    BY <2>1, <1>2, <1>8 DEF SearchInv, TreatedInv, Visited
  <2>3. k \in DOMAIN calls
    <3>1. CASE k = Len(calls) + 1
      BY <3>1, <2>1, <1>1, <1>7, <1>8, <1>9
    <3> QED
      BY <3>1, <1>9
  <2>4. index[calls[k].fn] <= index[m]
    BY <2>1, <2>3, <1>7, <1>9
  <2>5. k + 1 \in DOMAIN calls => index[m] < index[calls[k+1].fn]
    BY <2>1, <1>7, <1>9
  <2>6. low[calls[k].fn] <= index[w]
    BY <2>1, <2>2, <2>3, <2>4, <2>5 DEF SearchInv, OwnInv
  <2> QED
    BY <2>2, <2>3, <2>6, <1>7, <1>9
<1> QED
  BY <1>3, <1>5, <1>6, <1>10, <1>12, <1>13, <1>14, <1>15, <1>16 DEF SearchInv

\* What stands at hand when there is an activation.
LEMMA ActiveIs ==
  ASSUME SearchInv, calls # <<>>
  PROVE  /\ Len(calls) \in DOMAIN calls /\ DOMAIN calls = 1 .. Len(calls)
         /\ Active.fn \in OnStack /\ Active.fn \in Nodes
         /\ Active.at \in Nat \ {0} /\ Active.at <= Len(Callees) + 1
         /\ Callees \in Seq(Nodes) /\ Callees = in.callees[Active.fn]
         /\ index[Active.fn] \in Nat /\ low[Active.fn] \in Nat
         /\ AtCallee => Callee \in Nodes /\ Callee \in Elements(in.callees[Active.fn])
         /\ \A k \in DOMAIN calls : calls[k].fn = Active.fn => k = Len(calls)
         /\ \A k \in DOMAIN calls : index[calls[k].fn] <= index[Active.fn]
<1>1. TypeOK /\ CallsInv
  BY DEF SearchInv
<1>2. Len(calls) \in DOMAIN calls /\ DOMAIN calls = 1 .. Len(calls)
  BY <1>1, EmptySeq DEF TypeOK
<1>3. /\ Active.fn \in Nodes /\ Active.at \in Nat \ {0} /\ Active.fn \in OnStack
      /\ Callees \in Seq(Nodes) /\ Callees = in.callees[Active.fn]
  BY <1>1, <1>2, CallTypes DEF Active, Callees
<1>4. Active.at <= Len(Callees) + 1
  BY <1>1, <1>2 DEF CallsInv, Active, Callees
<1>5. index[Active.fn] \in Nat
  <2>1. index[Active.fn] # -1 /\ index[Active.fn] \in {-1} \cup Nat
    BY <1>1, <1>3 DEF SearchInv, IndexInv, Visited, TypeOK
  <2> QED
    BY <2>1
<1>6. low[Active.fn] \in Nat
  <2>1. PICK m \in OnStack : index[m] = low[Active.fn]
    BY <1>3 DEF SearchInv, LowInv
  <2>2. index[m] # -1 /\ index[m] \in {-1} \cup Nat
    BY <1>1, OnStackNodes DEF SearchInv, IndexInv, Visited, TypeOK
  <2> QED
    BY <2>1, <2>2
<1>7. AtCallee => Callee \in Nodes /\ Callee \in Elements(in.callees[Active.fn])
  <2> SUFFICES ASSUME AtCallee PROVE Callee \in Nodes /\ Callee \in Elements(in.callees[Active.fn])
    OBVIOUS
  <2>1. Active.at \in DOMAIN Callees
    BY <1>3 DEF AtCallee
  <2> QED
    BY <2>1, <1>3 DEF Callee, Elements
<1>8. \A k \in DOMAIN calls : calls[k].fn = Active.fn => k = Len(calls)
  BY <1>1, <1>2, TreatedIs DEF Active
<1>9. ASSUME NEW k \in DOMAIN calls PROVE index[calls[k].fn] <= index[Active.fn]
  <2>1. CASE k = Len(calls)
    BY <2>1, <1>5 DEF Active
  <2>2. CASE k # Len(calls)
    <3>1. k < Len(calls)
      BY <2>2, <1>2
    <3>2. index[calls[k].fn] < index[Active.fn]
      BY <3>1, <1>1, <1>2 DEF CallsInv, Active
    <3> QED
      BY <3>2, <1>1, <1>5, CallTypes
  <2> QED
    BY <2>1, <2>2
<1> QED
  BY <1>2, <1>3, <1>4, <1>5, <1>6, <1>7, <1>8, <1>9

(***************************************************************************)
(* A visited callee is passed by.                                          *)
(***************************************************************************)
LEMMA PassByKeeps ==
  ASSUME SearchInv, PassBy
  PROVE  SearchInv'
<1>0. PICK K, f, w : K = Len(calls) /\ f = Active.fn /\ w = Callee
  OBVIOUS
<1>1. /\ TypeOK /\ IndexInv /\ CallsInv /\ WellFormed(in) /\ AtCallee /\ calls # <<>>
      /\ index[w] # -1 /\ low' = [low EXCEPT ![f] = SeenLow(f, w)]
      /\ calls' = [calls EXCEPT ![K].at = @ + 1]
      /\ UNCHANGED <<in, index, counter, stack, sccs, depth>>
  BY <1>0 DEF SearchInv, PassBy, AtCallee, TypeOK
<1>2. /\ K \in DOMAIN calls /\ DOMAIN calls = 1 .. Len(calls) /\ f \in OnStack /\ f \in Nodes
      /\ f = calls[K].fn /\ Active.at = calls[K].at
      /\ calls[K].at \in Nat \ {0} /\ calls[K].at <= Len(in.callees[f])
      /\ in.callees[f] \in Seq(Nodes)
      /\ index[f] \in Nat /\ low[f] \in Nat /\ w \in Nodes /\ w \in Elements(in.callees[f])
      /\ w = in.callees[f][calls[K].at] /\ calls \in Seq(Activation) /\ Len(calls) \in Nat
      /\ \A k \in DOMAIN calls : calls[k].fn = f => k = K
  BY <1>0, <1>1, ActiveIs, CallTypes DEF Active, AtCallee, Callee, Callees
<1>3. /\ w \in Visited /\ index[w] \in Nat
      /\ \A n \in OnStack : n \in Nodes /\ index[n] \in Nat
  <2>1. \A n \in Nodes : (index[n] = -1 <=> n \notin Visited) /\ index[n] \in {-1} \cup Nat
    BY <1>1 DEF IndexInv, TypeOK
  <2>2. OnStack \in SUBSET Nodes
    BY <1>1, OnStackNodes
  <2> QED
    BY <2>1, <2>2, <1>1, <1>2 DEF Visited
<1>4. /\ low'[f] \in Nat /\ low'[f] <= low[f] /\ (w \in OnStack => low'[f] <= index[w])
      /\ low'[f] = low[f] \/ (w \in OnStack /\ low'[f] = index[w])
      /\ \A n \in Nodes \ {f} : low'[n] = low[n]
      /\ low' \in [Nodes -> {-1} \cup Nat]
  <2>1. low \in [Nodes -> {-1} \cup Nat] /\ low'[f] = SeenLow(f, w)
    BY <1>1, <1>2 DEF TypeOK
  <2>2. \A n \in Nodes \ {f} : low'[n] = low[n]
    BY <1>1, <2>1
  <2>3. /\ low'[f] \in Nat /\ low'[f] <= low[f] /\ (w \in OnStack => low'[f] <= index[w])
        /\ low'[f] = low[f] \/ (w \in OnStack /\ low'[f] = index[w])
    <3>1. CASE w \in OnStack
      <4>1. low'[f] = IF low[f] < index[w] THEN low[f] ELSE index[w]
        BY <2>1, <3>1 DEF SeenLow, Lesser, OnStack
      <4>2. low[f] \in Nat /\ index[w] \in Nat
        BY <1>2, <1>3
      <4>3. low'[f] \in Nat /\ low'[f] <= low[f] /\ low'[f] <= index[w]
        BY <4>1, <4>2
      <4>4. low'[f] = low[f] \/ low'[f] = index[w]
        BY <4>1
      <4> QED
        BY <3>1, <4>3, <4>4
    <3>2. CASE w \notin OnStack
      <4>1. low'[f] = low[f]
        BY <2>1, <3>2 DEF SeenLow, OnStack
      <4>2. low[f] \in Nat
        BY <1>2
      <4> QED
        BY <3>2, <4>1, <4>2
    <3> QED
      BY <3>1, <3>2
  <2> QED
    BY <1>1, <2>1, <2>2, <2>3
<1>5. /\ calls' \in Seq(Activation) /\ DOMAIN calls' = DOMAIN calls /\ Len(calls') = Len(calls)
      /\ \A k \in DOMAIN calls : calls'[k].fn = calls[k].fn
      /\ \A k \in DOMAIN calls \ {K} : calls'[k] = calls[k]
      /\ calls'[K].at = calls[K].at + 1
  <2>1. calls[K] \in Activation
    BY <1>2
  <2>2. [calls[K] EXCEPT !.at = @ + 1] \in Activation
    BY <2>1 DEF Activation
  <2>3. calls' = [calls EXCEPT ![K] = [calls[K] EXCEPT !.at = @ + 1]]
    BY <1>1
  <2>4. calls'[K] = [calls[K] EXCEPT !.at = @ + 1] /\ \A k \in DOMAIN calls \ {K} : calls'[k] = calls[k]
    BY <2>3, <1>2
  <2>5. calls'[K].fn = calls[K].fn /\ calls'[K].at = calls[K].at + 1
    BY <2>1, <2>4 DEF Activation
  <2>6. calls' \in Seq(Activation) /\ DOMAIN calls' = DOMAIN calls /\ Len(calls') = Len(calls)
    BY <2>2, <2>3, <1>2
  <2> QED
    BY <2>4, <2>5, <2>6
<1>6. OnStack' = OnStack /\ Emitted' = Emitted /\ Visited' = Visited
  BY <1>1 DEF OnStack, Emitted, Visited, Elements
<1>7. TypeOK'
  BY <1>1, <1>4, <1>5 DEF TypeOK
<1>8. IndexInv'
  <2>1. IndexInv /\ UNCHANGED <<index, counter, stack>>
    BY <1>1
  <2> QED
    BY <2>1, <1>6 DEF IndexInv
<1>9. ComponentsInv' /\ CalleesFirst'
  <2>1. sccs' = sccs /\ in' = in
    BY <1>1
  <2> QED
    BY <2>1 DEF SearchInv, ComponentsInv, CalleesFirst, Elements
<1>10. CallsInv'
  <2>1. in' = in /\ index' = index
    BY <1>1
  <2>2. ASSUME NEW k \in DOMAIN calls'
        PROVE  calls'[k].fn \in OnStack' /\ calls'[k].at <= Len(in.callees[calls'[k].fn]) + 1
    <3>1. CASE k = K
      <4>1. Len(in.callees[f]) \in Nat
        BY <1>2
      <4> QED
        BY <3>1, <4>1, <1>2, <1>5, <1>6
    <3>2. CASE k # K
      BY <3>2, <1>1, <1>5, <1>6 DEF CallsInv
    <3> QED
      BY <3>1, <3>2
  <2>3. ASSUME NEW k \in DOMAIN calls', k + 1 \in DOMAIN calls'
        PROVE  /\ calls'[k].at <= Len(in.callees[calls'[k].fn])
               /\ in.callees[calls'[k].fn][calls'[k].at] = calls'[k+1].fn
    <3>1. k # K
      BY <2>3, <1>0, <1>2, <1>5
    <3> QED
      BY <3>1, <2>3, <1>1, <1>5 DEF CallsInv
  <2>4. \A k, l \in DOMAIN calls' : k < l => index[calls'[k].fn] < index[calls'[l].fn]
    BY <1>1, <1>5 DEF CallsInv
  <2> QED
    BY <2>1, <2>2, <2>3, <2>4 DEF CallsInv
<1>11. Treated(f)' \subseteq Treated(f) \cup {w} /\ \A m \in OnStack \ {f} : Treated(m)' = Treated(m)
  <2>1. ASSUME NEW m \in OnStack \ {f} PROVE Treated(m)' = Treated(m)
    <3>1. ASSUME NEW j \in DOMAIN in.callees[m]
          PROVE  (\A k \in DOMAIN calls' : calls'[k].fn = m => j < calls'[k].at)
                    <=> (\A k \in DOMAIN calls : calls[k].fn = m => j < calls[k].at)
      BY <1>2, <1>5
    <3>2. in' = in
      BY <1>1
    <3> QED
      BY <3>1, <3>2 DEF Treated
  <2>2. ASSUME NEW x \in Treated(f)' PROVE x \in Treated(f) \cup {w}
    <3>1. PICK j \in DOMAIN in.callees[f] : /\ x = in.callees[f][j]
                                            /\ \A k \in DOMAIN calls' : calls'[k].fn = f => j < calls'[k].at
      BY <1>1 DEF Treated
    <3>2. j < calls[K].at + 1 /\ j \in Nat
      BY <3>1, <1>2, <1>5
    <3>3. CASE j = calls[K].at
      BY <3>1, <3>3, <1>2
    <3>4. CASE j < calls[K].at
      <4>1. \A k \in DOMAIN calls : calls[k].fn = f => j < calls[k].at
        BY <3>4, <1>2
      <4> QED
        BY <3>1, <4>1 DEF Treated
    <3> QED
      BY <3>2, <3>3, <3>4, <1>2
  <2> QED
    BY <2>1, <2>2
<1>12. TreatedInv'
  BY <1>2, <1>3, <1>6, <1>11 DEF SearchInv, TreatedInv
<1>13. LowInv'
  <2>1. ASSUME NEW m \in OnStack PROVE low'[m] <= index[m] /\ \E x \in OnStack : index[x] = low'[m] /\ Leads(m, x)
    <3>1. low[m] <= index[m] /\ \E x \in OnStack : index[x] = low[m] /\ Leads(m, x)
      BY DEF SearchInv, LowInv
    <3>2. CASE low'[m] = low[m]
      BY <3>1, <3>2
    <3>3. CASE m = f /\ w \in OnStack /\ low'[f] = index[w]
      <4>1. Leads(f, w)
        BY <1>1, <1>2, LeadsOn DEF Leads
      <4>2. low'[f] <= index[f]
        <5>1. low[f] <= index[f] /\ f \in OnStack /\ f \in Nodes
          BY <3>1, <3>3, <1>2
        <5>2. low[f] \in Nat /\ index[f] \in Int
          BY <5>1, <1>2 DEF TypeOK
        <5>3. low'[f] \in Nat /\ low'[f] <= low[f]
          BY <1>4
        <5> QED
          BY ONLY <5>1, <5>2, <5>3
      <4> QED
        BY <3>3, <4>1, <4>2
    <3> QED
      BY <3>2, <3>3, <1>3, <1>4
  <2>2. in' = in /\ index' = index
    BY <1>1
  <2> QED
    BY <2>1, <2>2, <1>6, SameGraph DEF LowInv
<1>14. PathInv' /\ BackInv'
  <2>1. in' = in /\ index' = index
    BY <1>1
  <2>2. PathInv'
    BY <2>1, <1>6, SameGraph DEF SearchInv, PathInv
  <2>3. ASSUME NEW y \in OnStack PROVE \E k \in DOMAIN calls' : index[calls'[k].fn] <= index[y] /\ Leads(y, calls'[k].fn)
    BY <1>5 DEF SearchInv, BackInv
  <2> QED
    BY <2>1, <2>2, <2>3, <1>6, SameGraph DEF BackInv
<1>15. OwnInv'
  <2> SUFFICES ASSUME NEW k \in DOMAIN calls', NEW m \in OnStack,
                      index[calls'[k].fn] <= index[m],
                      k + 1 \in DOMAIN calls' => index[m] < index[calls'[k+1].fn],
                      NEW x \in Treated(m)', x \in OnStack
               PROVE  low'[calls'[k].fn] <= index[x]
    BY <1>1, <1>6 DEF OwnInv
  <2>1. /\ k \in DOMAIN calls /\ calls'[k].fn = calls[k].fn
        /\ index[calls[k].fn] <= index[m]
        /\ k + 1 \in DOMAIN calls => index[m] < index[calls[k+1].fn]
        /\ calls[k].fn \in Nodes /\ calls[k].fn \in OnStack
    BY <1>1, <1>5, CallTypes
  <2>2. x \in Treated(m) => low[calls[k].fn] <= index[x]
    BY <2>1 DEF SearchInv, OwnInv
  <2>3. low'[calls[k].fn] <= low[calls[k].fn] /\ low'[calls[k].fn] \in Int /\ low[calls[k].fn] \in Int
    <3>1. low[calls[k].fn] \in Int
      BY <2>1, <1>1 DEF TypeOK
    <3>2. CASE calls[k].fn = f
      BY <3>1, <3>2, <1>4
    <3>3. CASE calls[k].fn # f
      <4>1. low'[calls[k].fn] = low[calls[k].fn]
        BY <3>3, <2>1, <1>4
      <4> QED
        BY <3>1, <4>1
    <3> QED
      BY <3>2, <3>3
  <2>4. CASE x \in Treated(m)
    BY <2>1, <2>2, <2>3, <2>4, <1>3
  <2>5. CASE m = f /\ x = w
    <3>1. k = K
      <4>1. ASSUME k # K PROVE FALSE
        <5>1. k + 1 \in DOMAIN calls
          BY <4>1, <2>1, <1>0, <1>2
        <5>2. index[f] < index[calls[k+1].fn]
          BY <5>1, <2>1, <2>5
        <5>3. index[calls[k+1].fn] <= index[f] /\ index[calls[k+1].fn] \in Int
          BY <5>1, <1>0, <1>1, ActiveIs, CallTypes
        <5> QED
          BY <5>2, <5>3, <1>2
      <4> QED
        BY <4>1
    <3> QED
      BY <3>1, <2>1, <2>5, <1>2, <1>4
  <2> QED
    BY <2>4, <2>5, <1>11
<1> QED
  BY <1>7, <1>8, <1>9, <1>10, <1>12, <1>13, <1>14, <1>15 DEF SearchInv

(***************************************************************************)
(* What StrongConnect returns with: the part of the stack from f up leads  *)
(* only to itself and to components that have been emitted when f is the   *)
(* root of its component, and then it is the class of f.                   *)
(***************************************************************************)
Above(f) == {n \in OnStack : index[f] <= index[n]}

\* What an emitted node calls has been emitted.
LEMMA EmittedIsClosed ==
  ASSUME SearchInv
  PROVE  Closed(Emitted)
<1>1. ASSUME NEW f \in Emitted, NEW g \in Elements(in.callees[f]) PROVE g \in Emitted
  <2>1. PICK i \in DOMAIN sccs : f \in sccs[i]
    BY DEF Emitted
  <2>2. PICK j \in 1 .. i : g \in sccs[j]
    BY <2>1 DEF SearchInv, CalleesFirst
  <2>3. j \in DOMAIN sccs
    BY <2>1, <2>2 DEF SearchInv, TypeOK
  <2> QED
    BY <2>2, <2>3 DEF Emitted
<1> QED
  BY <1>1 DEF Closed

\* When the function at hand has no callee left, none above it has one.
LEMMA AllTreated ==
  ASSUME SearchInv, calls # <<>>, Active.at > Len(Callees), NEW n \in OnStack,
         index[Active.fn] <= index[n]
  PROVE  Treated(n) = Elements(in.callees[n])
<1>1. /\ Len(calls) \in DOMAIN calls /\ DOMAIN calls = 1 .. Len(calls) /\ TypeOK /\ CallsInv
      /\ Active.fn \in Nodes /\ Active.at \in Nat \ {0} /\ Active.at <= Len(Callees) + 1
      /\ Callees \in Seq(Nodes) /\ Callees = in.callees[Active.fn] /\ Active = calls[Len(calls)]
      /\ n \in Nodes
  BY ActiveIs, OnStackNodes DEF SearchInv, Active
<1>2. CASE n = Active.fn
  <2>1. Treated(n) = {Callees[j] : j \in 1 .. Active.at - 1}
    <3>1. Treated(calls[Len(calls)].fn)
             = {in.callees[calls[Len(calls)].fn][j] : j \in 1 .. calls[Len(calls)].at - 1}
      BY <1>1, TreatedIs
    <3> QED
      BY <3>1, <1>1, <1>2
  <2>2. 1 .. Active.at - 1 = DOMAIN Callees
    BY <1>1
  <2> QED
    BY <1>1, <1>2, <2>1, <2>2 DEF Elements
<1>3. CASE n # Active.fn
  <2>1. ASSUME NEW k \in DOMAIN calls PROVE calls[k].fn # n
    <3>1. CASE k = Len(calls)
      BY <3>1, <1>1, <1>3
    <3>2. CASE k # Len(calls)
      <4>1. k < Len(calls)
        BY <3>2, <1>1
      <4>2. index[calls[k].fn] < index[Active.fn]
        BY <4>1, <1>1 DEF CallsInv
      <4>3. index[calls[k].fn] \in Int /\ index[Active.fn] \in Int
        BY <1>1, CallTypes
      <4> QED
        BY <4>2, <4>3
    <3> QED
      BY <3>1, <3>2
  <2> QED
    BY <1>1, <2>1, TreatedIs
<1> QED
  BY <1>2, <1>3

\* The nodes above a root are its class.
LEMMA RootClass ==
  ASSUME SearchInv, calls # <<>>, Active.at > Len(Callees), low[Active.fn] = index[Active.fn]
  PROVE  /\ \A n \in Above(Active.fn) : Elements(in.callees[n]) \subseteq Above(Active.fn) \cup Emitted
         /\ \A n \in Above(Active.fn) : Above(Active.fn) = Class(n)
<1>1. /\ Len(calls) \in DOMAIN calls /\ DOMAIN calls = 1 .. Len(calls) /\ Len(calls) \in Nat
      /\ TypeOK /\ CallsInv /\ IndexInv /\ WellFormed(in)
      /\ Active.fn \in Nodes /\ Active.fn \in OnStack /\ index[Active.fn] \in Nat /\ Active = calls[Len(calls)]
      /\ OnStack \in SUBSET Nodes /\ Emitted \in SUBSET Nodes
      /\ \A n \in Nodes : index[n] \in Int
  BY ActiveIs, OnStackNodes DEF SearchInv, Active, TypeOK
<1>2. PICK f \in Nodes : f = Active.fn
  BY <1>1
<1>3. Active.fn \in Above(f) /\ Above(f) \subseteq OnStack
  BY <1>1, <1>2 DEF Above
<1>4. ASSUME NEW n \in Above(f), NEW w \in Elements(in.callees[n]) PROVE w \in Above(f) \cup Emitted
  <2>1. n \in OnStack /\ index[f] <= index[n]
    BY DEF Above
  <2>2. w \in Treated(n)
    BY <2>1, <1>2, AllTreated
  <2>3. w \in OnStack \/ w \in Emitted
    BY <2>1, <2>2 DEF SearchInv, TreatedInv, Visited
  <2>4. ASSUME w \in OnStack PROVE w \in Above(f)
    <3>1. Len(calls) + 1 \notin DOMAIN calls
      BY <1>1
    <3>2. low[f] <= index[w]
      BY <2>1, <2>2, <2>4, <3>1, <1>1, <1>2 DEF SearchInv, OwnInv
    <3> QED
      BY <3>2, <2>4, <1>2 DEF Above
  <2> QED
    BY <2>3, <2>4
<1>5. ASSUME NEW n \in Above(f) PROVE Leads(f, n) /\ Leads(n, f)
  <2>1. n \in OnStack /\ index[f] <= index[n]
    BY DEF Above
  <2> QED
    BY <2>1, <1>1, <1>2, TopReached DEF SearchInv, PathInv
<1>6. Closed(Above(f) \cup Emitted)
  BY <1>4, EmittedIsClosed DEF Closed
<1>7. ASSUME NEW n \in Above(f) PROVE Above(f) = Class(n)
  <2>1. n \in Nodes /\ Class(n) = {g \in Nodes : Leads(n, g) /\ Leads(g, n)}
    BY <1>1, <1>3, ClassIs
  <2>2. ASSUME NEW g \in Above(f) PROVE g \in Class(n)
    <3>1. g \in Nodes
      BY <1>1, <1>3
    <3>2. Leads(n, g)
      BY <1>1, <1>5, <2>1, LeadsOn
    <3>3. Leads(g, n)
      BY <1>1, <1>5, <3>1, LeadsOn
    <3> QED
      BY <2>1, <3>1, <3>2, <3>3
  <2>3. ASSUME NEW g \in Nodes, Leads(n, g), Leads(g, n) PROVE g \in Above(f)
    <3>1. g \in Above(f) \cup Emitted
      <4>1. Above(f) \cup Emitted \in SUBSET Nodes
        BY <1>1, <1>3
      <4> QED
        BY <4>1, <1>1, <1>6, <2>3, ClosedHolds DEF Leads
    <3>2. g \notin Emitted
      <4>1. n \notin Emitted
        BY <1>1, <1>3 DEF IndexInv
      <4>2. g \in Emitted => n \in Emitted
        BY <1>1, <2>3, EmittedIsClosed, ClosedHolds DEF Leads
      <4> QED
        BY <4>1, <4>2
    <3> QED
      BY <3>1, <3>2
  <2> QED
    BY <2>1, <2>2, <2>3
<1> QED
  BY <1>2, <1>4, <1>7

Returned(K, f) ==
  /\ calls' \in Seq(Activation) /\ DOMAIN calls' = 1 .. K - 1 /\ Len(calls') = K - 1
  /\ \A k \in 1 .. K - 1 : calls'[k].fn = calls[k].fn
  /\ \A k \in 1 .. K - 2 : calls'[k] = calls[k]
  /\ K - 1 >= 1 => calls'[K - 1].at = calls[K - 1].at + 1
  /\ low' \in [Nodes -> {-1} \cup Nat]
  /\ \A n \in Nodes : (\A k \in DOMAIN calls : k = K - 1 => n # calls[k].fn) => low'[n] = low[n]
  /\ \A k \in DOMAIN calls : k = K - 1 => low'[calls[k].fn] = Lesser(low[calls[k].fn], low[f])
  /\ UNCHANGED <<in, index, counter, depth>>
  /\ stack' \in Seq(Nodes) /\ sccs' \in Seq(SUBSET Nodes)
  /\ \A i \in DOMAIN stack' : i \in DOMAIN stack /\ stack'[i] = stack[i]
  /\ IF low[f] = index[f]
     THEN /\ OnStack' = OnStack \ Above(f)
          /\ sccs' = Append(sccs, Above(f))
     ELSE OnStack' = OnStack /\ sccs' = sccs

\* What returning from a node sets.
LEMMA ReturnSets ==
  ASSUME SearchInv, Return, NEW K, K = Len(calls), NEW f, f = Active.fn
  PROVE  Returned(K, f)
<1> DEFINE rest == SubSeq(calls, 1, K - 1)
<1>1. /\ calls # <<>> /\ TypeOK /\ CallsInv /\ IndexInv /\ calls \in Seq(Activation)
      /\ UNCHANGED <<in, index, counter, depth>>
      /\ K \in DOMAIN calls /\ DOMAIN calls = 1 .. K /\ K \in Nat
      /\ f \in OnStack /\ f \in Nodes /\ low \in [Nodes -> {-1} \cup Nat]
      /\ stack \in Seq(Nodes) /\ sccs \in Seq(SUBSET Nodes)
  BY ActiveIs, SMTT(30) DEF SearchInv, TypeOK, Return
<1>2. /\ rest \in Seq(Activation) /\ Len(rest) = K - 1
      /\ \A k \in 1 .. K - 1 : rest[k] = calls[k]
  BY <1>1
<1>3. /\ IF low[f] = index[f]
         THEN /\ sccs' = Append(sccs, Popped(f))
              /\ stack' = SubSeq(stack, 1, At(stack, f) - 1)
         ELSE UNCHANGED <<sccs, stack>>
      /\ IF rest = <<>>
         THEN calls' = rest /\ UNCHANGED low
         ELSE /\ low' = [low EXCEPT ![rest[Len(rest)].fn] = Lesser(low[rest[Len(rest)].fn], low[f])]
              /\ calls' = [rest EXCEPT ![Len(rest)].at = @ + 1]
  BY DEF Return
<1> HIDE DEF rest
<1>4. /\ calls' \in Seq(Activation) /\ DOMAIN calls' = 1 .. K - 1 /\ Len(calls') = K - 1
      /\ \A k \in 1 .. K - 1 : calls'[k].fn = calls[k].fn
      /\ \A k \in 1 .. K - 2 : calls'[k] = calls[k]
      /\ K - 1 >= 1 => calls'[K - 1].at = calls[K - 1].at + 1
      /\ low' \in [Nodes -> {-1} \cup Nat]
      /\ \A n \in Nodes : (\A k \in DOMAIN calls : k = K - 1 => n # calls[k].fn) => low'[n] = low[n]
      /\ \A k \in DOMAIN calls : k = K - 1 => low'[calls[k].fn] = Lesser(low[calls[k].fn], low[f])
  <2>1. CASE rest = <<>>
    <3>1. K = 1
      <4>1. Len(rest) = 0
        BY <2>1
      <4>2. Len(rest) = K - 1 /\ K \in Nat
        BY <1>1, <1>2
      <4> QED
        BY ONLY <4>1, <4>2
    <3>2. calls' = rest /\ low' = low /\ Len(rest) = 0 /\ DOMAIN rest = 1 .. 0
      BY <2>1, <3>1, <1>2, <1>3
    <3> QED
      BY <3>1, <3>2, <1>1, <1>2
  <2>2. CASE rest # <<>>
    <3>1. K - 1 \in 1 .. K - 1 /\ K - 1 \in DOMAIN calls /\ rest[K - 1] = calls[K - 1]
      BY <2>2, <1>1, <1>2
    <3>2. PICK p : p = calls[K - 1].fn
      OBVIOUS
    <3>3. calls[K - 1] \in Activation /\ p \in Nodes /\ calls[K - 1].at \in Nat
      <4>1. calls[K - 1] \in Activation
        BY <3>1, <1>1
      <4> QED
        BY <4>1, <3>2 DEF Activation
    <3>4. low' = [low EXCEPT ![p] = Lesser(low[p], low[f])] /\ calls' = [rest EXCEPT ![K - 1].at = @ + 1]
      BY <2>2, <3>1, <3>2, <1>2, <1>3
    <3>5. Lesser(low[p], low[f]) \in {-1} \cup Nat
      BY <1>1, <3>3 DEF Lesser
    <3>6. low' \in [Nodes -> {-1} \cup Nat] /\ low'[p] = Lesser(low[p], low[f])
          /\ \A n \in Nodes \ {p} : low'[n] = low[n]
      BY <3>3, <3>4, <3>5, <1>1
    <3>7. [calls[K - 1] EXCEPT !.at = @ + 1] \in Activation
          /\ [calls[K - 1] EXCEPT !.at = @ + 1].fn = calls[K - 1].fn
          /\ [calls[K - 1] EXCEPT !.at = @ + 1].at = calls[K - 1].at + 1
      BY <3>3 DEF Activation
    <3>8. calls' = [rest EXCEPT ![K - 1] = [calls[K - 1] EXCEPT !.at = @ + 1]]
      BY <3>1, <3>4
    <3>9. /\ calls' \in Seq(Activation) /\ DOMAIN calls' = 1 .. K - 1 /\ Len(calls') = K - 1
          /\ calls'[K - 1] = [calls[K - 1] EXCEPT !.at = @ + 1]
          /\ \A k \in 1 .. K - 2 : calls'[k] = rest[k]
      BY <3>1, <3>7, <3>8, <1>1, <1>2
    <3>10. \A k \in 1 .. K - 2 : calls'[k] = calls[k]
      BY <3>9, <1>1, <1>2
    <3>11. \A k \in 1 .. K - 1 : calls'[k].fn = calls[k].fn
      <4>1. ASSUME NEW k \in 1 .. K - 1 PROVE calls'[k].fn = calls[k].fn
        <5>1. k = K - 1 \/ k \in 1 .. K - 2
          BY <1>1
        <5> QED
          BY <5>1, <3>7, <3>9, <3>10
      <4> QED
        BY <4>1
    <3> QED
      BY <3>1, <3>2, <3>6, <3>7, <3>9, <3>10, <3>11
  <2> QED
    BY <2>1, <2>2
<1>5. Popped(f) = Above(f) /\ Above(f) \in SUBSET Nodes
  <2>1. OnStack \in SUBSET Nodes
    BY <1>1, OnStackNodes
  <2> QED
    BY <1>1, <2>1, Positions DEF Above
<1>6. /\ stack' \in Seq(Nodes) /\ sccs' \in Seq(SUBSET Nodes)
      /\ \A i \in DOMAIN stack' : i \in DOMAIN stack /\ stack'[i] = stack[i]
      /\ IF low[f] = index[f]
            THEN /\ OnStack' = OnStack \ Above(f)
                 /\ sccs' = Append(sccs, Above(f))
            ELSE OnStack' = OnStack /\ sccs' = sccs
  <2>1. CASE low[f] = index[f]
    <3>1. sccs' = Append(sccs, Above(f)) /\ stack' = SubSeq(stack, 1, At(stack, f) - 1)
      BY <2>1, <1>3, <1>5
    <3>2. sccs' \in Seq(SUBSET Nodes)
      BY <3>1, <1>1, <1>5
    <3>3. PICK p : p = At(stack, f)
      OBVIOUS
    <3>4. /\ p \in DOMAIN stack /\ stack' \in Seq(Nodes) /\ Len(stack') = p - 1
          /\ \A i \in 1 .. p - 1 : stack'[i] = stack[i]
          /\ Elements(stack') = {n \in OnStack : index[n] < index[f]}
      BY <3>1, <3>3, <1>1, Positions
    <3>5. \A i \in DOMAIN stack' : i \in DOMAIN stack /\ stack'[i] = stack[i]
      BY <3>4, <1>1
    <3>6. OnStack' = OnStack \ Above(f)
      <4>1. \A n \in OnStack : index[n] \in Int
        BY <1>1, OnStackNodes DEF TypeOK
      <4>2. index[f] \in Int
        BY <1>1 DEF TypeOK
      <4>3. \A n \in OnStack : index[n] < index[f] <=> ~(index[f] <= index[n])
        BY <4>1, <4>2
      <4> QED
        BY <4>3, <3>4 DEF OnStack, Above
    <3> QED
      BY <2>1, <3>1, <3>2, <3>4, <3>5, <3>6
  <2>2. CASE low[f] # index[f]
    <3>1. sccs' = sccs /\ stack' = stack
      BY <2>2, <1>3
    <3> QED
      BY <2>2, <3>1, <1>1 DEF OnStack
  <2> QED
    BY <2>1, <2>2
<1> QED
  BY <1>1, <1>4, <1>6 DEF Returned

(***************************************************************************)
(* StrongConnect returns.                                                  *)
(***************************************************************************)
LEMMA ReturnKeeps ==
  ASSUME SearchInv, Return
  PROVE  SearchInv'
<1>1. calls # <<>> /\ Active.at > Len(Callees)
  BY DEF Return
<1>2. PICK K, f : K = Len(calls) /\ f = Active.fn
  OBVIOUS
<1>3. /\ TypeOK /\ IndexInv /\ CallsInv /\ ComponentsInv /\ WellFormed(in) /\ CalleesFirst
      /\ K \in DOMAIN calls /\ DOMAIN calls = 1 .. K /\ K \in Nat
      /\ f \in OnStack /\ f \in Nodes /\ f = calls[K].fn
      /\ index[f] \in Nat /\ low[f] \in Nat /\ low[f] <= index[f]
      /\ OnStack \in SUBSET Nodes /\ Emitted \in SUBSET Nodes
      /\ \A k \in DOMAIN calls : calls[k].fn = f => k = K
      /\ \A k \in DOMAIN calls : /\ index[calls[k].fn] <= index[f] /\ index[calls[k].fn] \in Int
                                 /\ calls[k].fn \in OnStack /\ calls[k].fn \in Nodes
      /\ sccs \in Seq(SUBSET Nodes) /\ stack \in Seq(Nodes)
  BY <1>1, <1>2, ActiveIs, OnStackNodes, CallTypes DEF SearchInv, LowInv, Active, TypeOK
<1>4. /\ calls' \in Seq(Activation) /\ DOMAIN calls' = 1 .. K - 1 /\ Len(calls') = K - 1
      /\ \A k \in 1 .. K - 1 : calls'[k].fn = calls[k].fn
      /\ \A k \in 1 .. K - 2 : calls'[k] = calls[k]
      /\ K - 1 >= 1 => calls'[K - 1].at = calls[K - 1].at + 1
      /\ low' \in [Nodes -> {-1} \cup Nat]
      /\ \A n \in Nodes : (\A k \in DOMAIN calls : k = K - 1 => n # calls[k].fn) => low'[n] = low[n]
      /\ \A k \in DOMAIN calls : k = K - 1 => low'[calls[k].fn] = Lesser(low[calls[k].fn], low[f])
      /\ UNCHANGED <<in, index, counter, depth>>
      /\ stack' \in Seq(Nodes) /\ sccs' \in Seq(SUBSET Nodes)
      /\ \A i \in DOMAIN stack' : i \in DOMAIN stack /\ stack'[i] = stack[i]
      /\ IF low[f] = index[f]
            THEN /\ OnStack' = OnStack \ Above(f)
                 /\ sccs' = Append(sccs, Above(f))
            ELSE OnStack' = OnStack /\ sccs' = sccs
  <2>1. Returned(K, f)
    BY <1>2, ReturnSets
  <2> QED
    BY <2>1 DEF Returned
\* C is what is emitted.
<1>5. PICK C : /\ C = IF low[f] = index[f] THEN Above(f) ELSE {}
               /\ OnStack' = OnStack \ C
               /\ sccs' = IF low[f] = index[f] THEN Append(sccs, C) ELSE sccs
  <2>1. CASE low[f] = index[f]
    BY <2>1, <1>4
  <2>2. CASE low[f] # index[f]
    <3>1. OnStack' = OnStack \ {} /\ sccs' = sccs
      BY <2>2, <1>4
    <3> QED
      BY <2>2, <3>1
  <2> QED
    BY <2>1, <2>2
<1>6. /\ C \subseteq OnStack
      /\ \A n \in OnStack : n \in C => index[f] <= index[n]
      /\ \A n \in OnStack' : n \in OnStack /\ n \in Nodes
      /\ C = {} \/ C = Above(f)
  BY <1>3, <1>5 DEF Above
<1>7. /\ low[f] = index[f] => /\ DOMAIN sccs' = 1 .. Len(sccs) + 1 /\ sccs'[Len(sccs) + 1] = C
                              /\ \A i \in DOMAIN sccs : sccs'[i] = sccs[i] /\ i \in DOMAIN sccs'
                              /\ C = Above(f) /\ f \in C
      /\ low[f] # index[f] => sccs' = sccs /\ C = {}
      /\ DOMAIN sccs = 1 .. Len(sccs) /\ Len(sccs) \in Nat
  BY <1>3, <1>5 DEF Above
<1>8. Emitted' = Emitted \cup C /\ Visited' = Visited
  <2>1. Emitted' = Emitted \cup C
    <3>1. CASE low[f] = index[f]
      <4>1. Emitted' \subseteq Emitted \cup C
        <5>1. ASSUME NEW i \in DOMAIN sccs' PROVE sccs'[i] \subseteq Emitted \cup C
          <6>1. i \in DOMAIN sccs \/ i = Len(sccs) + 1
            BY <3>1, <1>7
          <6> QED
            BY <6>1, <3>1, <1>7 DEF Emitted
        <5> QED
          BY <5>1 DEF Emitted
      <4>2. Emitted \cup C \subseteq Emitted'
        <5>1. ASSUME NEW i \in DOMAIN sccs PROVE sccs[i] \subseteq Emitted'
          BY <3>1, <1>7 DEF Emitted
        <5>2. C \subseteq Emitted'
          <6>1. Len(sccs) + 1 \in DOMAIN sccs'
            BY <3>1, <1>7
          <6> QED
            BY <6>1, <3>1, <1>7 DEF Emitted
        <5> QED
          BY <5>1, <5>2 DEF Emitted
      <4> QED
        BY <4>1, <4>2
    <3>2. CASE low[f] # index[f]
      BY <3>2, <1>7 DEF Emitted
    <3> QED
      BY <3>1, <3>2
  <2> QED
    BY <2>1, <1>5, <1>6 DEF Visited
<1>9. TypeOK'
  BY <1>3, <1>4 DEF TypeOK
<1>10. IndexInv'
  <2>1. \A n \in Nodes : index'[n] < counter' /\ (index'[n] = -1 <=> n \notin Visited')
    BY <1>3, <1>4, <1>8 DEF IndexInv
  <2>2. OnStack' \cap Emitted' = {}
    BY <1>3, <1>5, <1>6, <1>8 DEF IndexInv
  <2>3. \A i, j \in DOMAIN stack' : i < j => index'[stack'[i]] < index'[stack'[j]]
    BY <1>3, <1>4 DEF IndexInv
  <2> QED
    BY <2>1, <2>2, <2>3 DEF IndexInv

<1>11. ComponentsInv' /\ CalleesFirst'
  <2>1. CASE low[f] = index[f]
    <3>1. \A i \in DOMAIN sccs' : i \in DOMAIN sccs \/ i = Len(sccs) + 1
      BY <2>1, <1>7
    <3>2. \A i \in DOMAIN sccs : sccs[i] \cap C = {} /\ i < Len(sccs) + 1 /\ sccs'[i] = sccs[i]
      BY <2>1, <1>3, <1>6, <1>7 DEF IndexInv, Emitted
    <3>3. sccs'[Len(sccs) + 1] = C /\ C = Above(f) /\ C # {}
      BY <2>1, <1>7
    <3>4. ComponentsInv'
      <4>1. \A i \in DOMAIN sccs' : sccs'[i] # {}
        BY <3>1, <3>2, <3>3, <1>3 DEF ComponentsInv
      <4>2. ASSUME NEW i \in DOMAIN sccs', NEW j \in DOMAIN sccs', i # j PROVE sccs'[i] \cap sccs'[j] = {}
        <5>1. CASE i \in DOMAIN sccs /\ j \in DOMAIN sccs
          BY <4>2, <5>1, <3>2, <1>3 DEF ComponentsInv
        <5>2. CASE i = Len(sccs) + 1 /\ j \in DOMAIN sccs
          BY <5>2, <3>2, <3>3
        <5>3. CASE j = Len(sccs) + 1 /\ i \in DOMAIN sccs
          BY <5>3, <3>2, <3>3
        <5> QED
          BY <4>2, <5>1, <5>2, <5>3, <3>1
      <4> QED
        BY <4>1, <4>2 DEF ComponentsInv
    <3>5. ASSUME NEW i \in DOMAIN sccs', NEW g \in sccs'[i], NEW h \in Elements(in.callees[g])
          PROVE  \E j \in 1 .. i : h \in sccs'[j]
      <4>1. CASE i \in DOMAIN sccs
        <5>1. PICK j \in 1 .. i : h \in sccs[j]
          BY <4>1, <3>2, <1>3 DEF CalleesFirst
        <5>2. j \in DOMAIN sccs
          BY <4>1, <5>1, <1>7
        <5> QED
          BY <5>1, <5>2, <3>2
      <4>2. CASE i = Len(sccs) + 1
        <5>1. h \in Above(f) \/ h \in Emitted
          BY <4>2, <3>3, <2>1, <1>1, <1>2, RootClass
        <5>2. CASE h \in Above(f)
          <6>1. i \in 1 .. i
            BY <4>2, <1>7
          <6> QED
            BY <5>2, <6>1, <4>2, <3>3
        <5>3. CASE h \in Emitted
          <6>1. PICK j \in DOMAIN sccs : h \in sccs[j]
            BY <5>3 DEF Emitted
          <6>2. j \in 1 .. i
            BY <6>1, <4>2, <1>7
          <6> QED
            BY <6>1, <6>2, <3>2
        <5> QED
          BY <5>1, <5>2, <5>3
      <4> QED
        BY <4>1, <4>2, <3>1
    <3>6. in' = in
      BY <1>4
    <3> QED
      BY <3>4, <3>5, <3>6 DEF CalleesFirst, Elements
  <2>2. CASE low[f] # index[f]
    <3>1. sccs' = sccs /\ in' = in
      BY <2>2, <1>4, <1>7
    <3> QED
      BY <3>1, <1>3 DEF ComponentsInv, CalleesFirst, Elements
  <2> QED
    BY <2>1, <2>2
\* The activations below.
<1>12. ASSUME NEW k \in 1 .. K - 1
       PROVE  /\ k \in DOMAIN calls /\ k + 1 \in DOMAIN calls /\ calls[k].fn # f
              /\ index[calls[k].fn] < index[f] /\ calls[k].fn \in OnStack' /\ calls[k].fn \in Nodes
              /\ index[calls[k].fn] \in Int /\ calls'[k].fn = calls[k].fn
              /\ k \in DOMAIN calls' /\ calls[k].fn \in OnStack
              /\ index[calls[k].fn] <= index[calls[K - 1].fn]
              /\ k # K - 1 => calls[k].fn # calls[K - 1].fn
  <2>1. k \in DOMAIN calls /\ k + 1 \in DOMAIN calls /\ k < K /\ K - 1 \in DOMAIN calls
    BY <1>3
  <2>2. index[calls[k].fn] < index[f] /\ calls[k].fn \in Nodes /\ index[calls[k].fn] \in Int
    BY <2>1, <1>3 DEF CallsInv
  <2>3. calls[k].fn \notin C
    BY <2>1, <2>2, <1>3, <1>6
  <2>4. calls[k].fn \in OnStack'
    BY <2>1, <2>3, <1>3, <1>5
  <2>5. k # K - 1 => calls[k].fn # calls[K - 1].fn
    BY <2>1, <1>3, TreatedIs
  <2>6. index[calls[k].fn] <= index[calls[K - 1].fn]
    <3>1. CASE k = K - 1
      BY <3>1, <2>2
    <3>2. CASE k # K - 1
      <4>1. k < K - 1
        BY <3>2, <1>3
      <4>2. index[calls[k].fn] < index[calls[K - 1].fn]
        BY <4>1, <2>1, <1>3 DEF CallsInv
      <4> QED
        BY <4>2, <2>1, <1>3
    <3> QED
      BY <3>1, <3>2
  <2> QED
    BY <2>1, <2>2, <2>4, <2>5, <2>6, <1>3, <1>4
<1>13. CallsInv'
  <2>1. ASSUME NEW k \in DOMAIN calls'
        PROVE  calls'[k].fn \in OnStack' /\ calls'[k].at <= Len(in.callees[calls'[k].fn]) + 1
    <3>1. k \in 1 .. K - 1
      BY <1>4
    <3>2. calls'[k].fn \in OnStack' /\ calls'[k].fn = calls[k].fn
      BY <3>1, <1>12
    <3>3. CASE k = K - 1
      <4>1. calls[k].at <= Len(in.callees[calls[k].fn])
        BY <3>1, <1>3, <1>12 DEF CallsInv
      <4>2. calls'[k].at = calls[k].at + 1
        BY <3>1, <3>3, <1>3, <1>4
      <4>3. calls[k].at \in Nat /\ in.callees[calls[k].fn] \in Seq(Nodes)
        BY <3>1, <1>3, <1>12, CallTypes
      <4>4. Len(in.callees[calls[k].fn]) \in Nat
        BY <4>3
      <4> QED
        BY <3>2, <4>1, <4>2, <4>3, <4>4
    <3>4. CASE k # K - 1
      <4>1. k \in 1 .. K - 2
        BY <3>1, <3>4, <1>3
      <4>2. calls'[k] = calls[k]
        BY <4>1, <1>4
      <4> QED
        BY <3>1, <3>2, <4>2, <1>3, <1>12 DEF CallsInv
    <3> QED
      BY <3>3, <3>4
  <2>2. ASSUME NEW k \in DOMAIN calls', k + 1 \in DOMAIN calls'
        PROVE  /\ calls'[k].at <= Len(in.callees[calls'[k].fn])
               /\ in.callees[calls'[k].fn][calls'[k].at] = calls'[k+1].fn
    <3>1. k \in 1 .. K - 2 /\ k + 1 \in 1 .. K - 1 /\ k \in 1 .. K - 1
      BY <2>2, <1>3, <1>4
    <3>2. calls'[k] = calls[k] /\ calls'[k+1].fn = calls[k+1].fn
      BY <3>1, <1>4
    <3>3. k \in DOMAIN calls /\ k + 1 \in DOMAIN calls
      BY <3>1, <1>12
    <3> QED
      BY <3>2, <3>3, <1>3 DEF CallsInv
  <2>3. ASSUME NEW k \in DOMAIN calls', NEW l \in DOMAIN calls', k < l
        PROVE  index[calls'[k].fn] < index[calls'[l].fn]
    <3>1. k \in 1 .. K - 1 /\ l \in 1 .. K - 1
      BY <1>4
    <3> QED
      BY <3>1, <2>3, <1>3, <1>12 DEF CallsInv
  <2>4. in' = in /\ index' = index
    BY <1>4
  <2> QED
    BY <2>1, <2>2, <2>3, <2>4 DEF CallsInv
<1>14. ASSUME NEW m \in OnStack', NEW x \in Treated(m)'
       PROVE  x \in Treated(m) \/ (x = f /\ K - 1 \in 1 .. K - 1 /\ m = calls[K - 1].fn)
  <2>1. m \in OnStack /\ m \in Nodes /\ in' = in
    BY <1>4, <1>6
  <2>2. PICK j \in DOMAIN in.callees[m] : /\ x = in.callees[m][j]
                                          /\ \A k \in DOMAIN calls' : calls'[k].fn = m => j < calls'[k].at
    BY <2>1 DEF Treated
  <2>3. j \in Nat
    <3>1. in.callees[m] \in Seq(Nodes)
      BY <2>1, <1>3, CalleesAreNodes
    <3> QED
      BY <3>1
  <2>4. CASE m = f
    <3>1. Treated(f) = Elements(in.callees[f])
      BY <1>1, <1>2, <1>3, AllTreated
    <3> QED
      BY <2>2, <2>4, <3>1 DEF Elements
  <2>5. CASE m # f /\ (K - 1 \in 1 .. K - 1 => m # calls[K - 1].fn)
    <3>1. ASSUME NEW k \in DOMAIN calls, calls[k].fn = m PROVE j < calls[k].at
      <4>1. k # K /\ k # K - 1
        BY <2>5, <3>1, <1>3
      <4>2. k \in 1 .. K - 2 /\ k \in DOMAIN calls'
        BY <4>1, <1>3, <1>4
      <4>3. calls'[k] = calls[k]
        BY <4>2, <1>4
      <4> QED
        BY <4>2, <4>3, <3>1, <2>2
    <3> QED
      BY <3>1, <2>2 DEF Treated
  <2>6. CASE K - 1 \in 1 .. K - 1 /\ m = calls[K - 1].fn
    <3>1. K - 1 \in DOMAIN calls' /\ calls'[K - 1].fn = m /\ K - 1 \in DOMAIN calls /\ K - 1 + 1 \in DOMAIN calls
      BY <2>6, <1>12
    <3>2. j < calls[K - 1].at + 1 /\ calls[K - 1].at \in Nat
      BY <3>1, <2>2, <2>6, <1>3, <1>4, CallTypes
    <3>3. in.callees[m][calls[K - 1].at] = f
      BY <3>1, <2>6, <1>3 DEF CallsInv
    <3>4. CASE j = calls[K - 1].at
      BY <3>3, <3>4, <2>2, <2>6
    <3>5. CASE j < calls[K - 1].at
      <4>1. \A k \in DOMAIN calls : calls[k].fn = m => k = K - 1
        BY <3>1, <2>6, <1>3, TreatedIs
      <4> QED
        BY <4>1, <3>5, <2>2 DEF Treated
    <3> QED
      BY <3>2, <3>4, <3>5, <2>3
  <2> QED
    BY <2>4, <2>5, <2>6
<1>15. TreatedInv'
  <2>1. f \in Visited
    BY <1>3 DEF Visited
  <2>2. ASSUME NEW m \in OnStack' PROVE Treated(m)' \subseteq Visited'
    BY <2>1, <1>6, <1>8, <1>14 DEF SearchInv, TreatedInv
  <2> QED
    BY <2>2 DEF TreatedInv
<1>16. LowInv'
  <2>1. ASSUME NEW m \in OnStack' PROVE low'[m] <= index[m] /\ \E x \in OnStack' : index[x] = low'[m] /\ Leads(m, x)
    <3>1. m \in OnStack /\ m \in Nodes /\ m \notin C
      BY <1>5, <1>6
    <3>2. PICK x \in OnStack : index[x] = low[m] /\ Leads(m, x)
      BY <3>1 DEF SearchInv, LowInv
    <3>3. low[m] <= index[m] /\ low[m] \in Int /\ index[m] \in Int
      BY <3>1, <1>3 DEF SearchInv, LowInv, TypeOK
    <3>4. x \in OnStack'
      <4>1. CASE low[f] = index[f]
        <5>1. index[m] < index[f]
          BY <4>1, <3>1, <3>3, <1>3, <1>7 DEF Above
        <5>2. x \notin C
          BY <5>1, <3>2, <3>3, <1>3, <1>6
        <5> QED
          BY <5>2, <1>5
      <4>2. CASE low[f] # index[f]
        BY <4>2, <1>5, <1>7
      <4> QED
        BY <4>1, <4>2
    <3>5. CASE low'[m] = low[m]
      BY <3>2, <3>3, <3>4, <3>5
    <3>6. CASE K - 1 \in 1 .. K - 1 /\ m = calls[K - 1].fn /\ low'[m] = low[f] /\ low[f] < low[m]
      <4>1. index[m] < index[f]
        BY <3>6, <1>12
      <4>2. low[f] # index[f]
        BY <4>1, <3>3, <3>6, <1>3
      <4>3. PICK y \in OnStack : index[y] = low[f] /\ Leads(f, y)
        BY <1>3 DEF SearchInv, LowInv
      <4>4. y \in OnStack'
        BY <4>2, <1>5, <1>7
      <4>5. Leads(m, f)
        BY <4>1, <3>1, <3>3, <1>3 DEF SearchInv, PathInv
      <4>6. Leads(m, y)
        BY <4>3, <4>5, <3>1, <1>3, LeadsOn
      <4>7. low'[m] <= index[m]
        BY <3>3, <3>6, <1>3
      <4> QED
        BY <4>3, <4>4, <4>6, <4>7, <3>6
    <3>7. low'[m] = low[m] \/ (K - 1 \in 1 .. K - 1 /\ m = calls[K - 1].fn /\ low'[m] = low[f] /\ low[f] < low[m])
      <4>1. CASE K - 1 \in 1 .. K - 1 /\ m = calls[K - 1].fn
        <5>1. low'[m] = Lesser(low[m], low[f])
          BY <4>1, <1>4, <1>12
        <5>2. low'[m] = IF low[m] < low[f] THEN low[m] ELSE low[f]
          BY <5>1 DEF Lesser
        <5>3. low'[m] = low[m] \/ (low'[m] = low[f] /\ low[f] < low[m])
          BY <5>2, <3>3, <1>3
        <5> QED
          BY <4>1, <5>3
      <4>2. CASE ~(K - 1 \in 1 .. K - 1 /\ m = calls[K - 1].fn)
        <5>1. \A k \in DOMAIN calls : k = K - 1 => m # calls[k].fn
          BY <4>2, <1>3
        <5> QED
          BY <5>1, <3>1, <1>4
      <4> QED
        BY <4>1, <4>2
    <3> QED
      BY <3>5, <3>6, <3>7
  <2>2. in' = in /\ index' = index
    BY <1>4
  <2> QED
    BY <2>1, <2>2, SameGraph DEF LowInv
<1>17. PathInv'
  <2>1. in' = in /\ index' = index
    BY <1>4
  <2> QED
    BY <2>1, <1>6, SameGraph DEF SearchInv, PathInv
<1>18. BackInv'
  <2>1. ASSUME NEW y \in OnStack'
        PROVE  \E k \in DOMAIN calls' : index[calls'[k].fn] <= index[y] /\ Leads(y, calls'[k].fn)
    <3>1. y \in OnStack /\ y \in Nodes /\ y \notin C
      BY <1>5, <1>6
    <3>2. PICK k \in DOMAIN calls : index[calls[k].fn] <= index[y] /\ Leads(y, calls[k].fn)
      BY <3>1 DEF SearchInv, BackInv
    <3>3. CASE k # K
      <4>1. k \in 1 .. K - 1
        BY <3>3, <1>3
      <4> QED
        BY <4>1, <3>2, <1>12
    <3>4. CASE k = K
      <4>1. index[f] <= index[y] /\ Leads(y, f)
        BY <3>2, <3>4, <1>3
      <4>2. low[f] # index[f]
        BY <4>1, <3>1, <1>7 DEF Above
      <4>3. PICK x \in OnStack : index[x] = low[f] /\ Leads(f, x)
        BY <1>3 DEF SearchInv, LowInv
      <4>4. PICK l \in DOMAIN calls : index[calls[l].fn] <= index[x] /\ Leads(x, calls[l].fn)
        BY DEF SearchInv, BackInv
      <4>5. index[calls[l].fn] < index[f] /\ index[calls[l].fn] \in Int
        BY <4>2, <4>3, <4>4, <1>3
      <4>6. l \in 1 .. K - 1
        <5>1. l # K
          BY <4>5, <1>3
        <5> QED
          BY <5>1, <1>3
      <4>7. Leads(y, calls[l].fn)
        <5>1. x \in Nodes /\ calls[l].fn \in Nodes
          BY <1>3
        <5>2. Leads(f, calls[l].fn)
          BY <5>1, <4>3, <4>4, <1>3, LeadsOn
        <5> QED
          BY <5>1, <5>2, <4>1, <3>1, <1>3, LeadsOn
      <4>8. index[calls[l].fn] <= index[y]
        <5>1. index[y] \in Int
          BY <3>1, <1>3 DEF TypeOK
        <5> QED
          BY <5>1, <4>1, <4>5, <1>3
      <4> QED
        BY <4>6, <4>7, <4>8, <1>12
    <3> QED
      BY <3>3, <3>4
  <2>2. in' = in /\ index' = index
    BY <1>4
  <2> QED
    BY <2>1, <2>2, SameGraph DEF BackInv
<1>19. OwnInv'
  <2> SUFFICES ASSUME NEW k \in DOMAIN calls', NEW m \in OnStack',
                      index[calls'[k].fn] <= index[m],
                      k + 1 \in DOMAIN calls' => index[m] < index[calls'[k+1].fn],
                      NEW x \in Treated(m)', x \in OnStack'
               PROVE  low'[calls'[k].fn] <= index[x]
    <3>1. index' = index
      BY <1>4
    <3> QED
      BY <3>1 DEF OwnInv
  <2>1. /\ k \in 1 .. K - 1 /\ k \in DOMAIN calls /\ calls'[k].fn = calls[k].fn
        /\ index[calls[k].fn] <= index[m]
        /\ m \in OnStack /\ m \in Nodes /\ x \in OnStack /\ x \in Nodes
        /\ index[m] \in Int /\ index[x] \in Int /\ calls[k].fn \in Nodes
    <3>1. k \in 1 .. K - 1
      BY <1>4
    <3>2. k \in DOMAIN calls /\ calls'[k].fn = calls[k].fn /\ calls[k].fn \in Nodes
      BY <3>1, <1>12
    <3>3. m \in OnStack /\ m \in Nodes /\ x \in OnStack /\ x \in Nodes
      BY <1>6
    <3>4. index[m] \in Int /\ index[x] \in Int
      BY <3>3, <1>3 DEF TypeOK
    <3> QED
      BY <3>1, <3>2, <3>3, <3>4
  <2>2. low[calls[k].fn] \in Int
    BY <2>1, <1>3 DEF TypeOK
  <2>3. CASE k # K - 1
    <3>1. k \in 1 .. K - 2 /\ k + 1 \in 1 .. K - 1 /\ K - 1 \in 1 .. K - 1
      BY <2>1, <2>3, <1>3
    <3>2. index[m] < index[calls[k+1].fn]
      BY <3>1, <1>4, <1>12
    <3>3. x \in Treated(m)
      <4>1. m # calls[K - 1].fn
        BY <3>1, <3>2, <1>12, <2>1
      <4> QED
        BY <4>1, <1>14
    <3>4. low[calls[k].fn] <= index[x]
      BY <2>1, <3>2, <3>3 DEF SearchInv, OwnInv
    <3>5. low'[calls[k].fn] = low[calls[k].fn]
      BY <2>1, <2>3, <1>4, <1>12
    <3> QED
      BY <2>1, <3>4, <3>5
  <2>4. CASE k = K - 1
    <3>1. low'[calls[k].fn] = IF low[calls[k].fn] < low[f] THEN low[calls[k].fn] ELSE low[f]
      BY <2>1, <2>4, <1>4 DEF Lesser
    <3>2. low'[calls[k].fn] <= low[calls[k].fn] /\ low'[calls[k].fn] <= low[f] /\ low'[calls[k].fn] \in Int
      BY <3>1, <2>2, <1>3
    <3>3. k + 1 = K
      BY <2>1, <2>4, <1>3
    <3>4. CASE x = f
      BY <3>2, <3>4, <2>1, <1>3
    <3>5. CASE x \in Treated(m) /\ index[m] < index[f]
      <4>1. low[calls[k].fn] <= index[x]
        BY <3>3, <3>5, <2>1, <1>3 DEF SearchInv, OwnInv
      <4> QED
        BY <4>1, <3>2, <2>1, <2>2
    <3>6. CASE x \in Treated(m) /\ index[f] <= index[m]
      <4>1. K + 1 \notin DOMAIN calls
        BY <1>3
      <4>2. low[f] <= index[x]
        BY <4>1, <3>6, <2>1, <1>3 DEF SearchInv, OwnInv
      <4> QED
        BY <4>2, <3>2, <2>1, <1>3
    <3>7. index[m] < index[f] \/ index[f] <= index[m]
      BY <2>1, <1>3
    <3> QED
      BY <3>4, <3>5, <3>6, <3>7, <1>14
  <2> QED
    BY <2>3, <2>4
<1> QED
  BY <1>9, <1>10, <1>11, <1>13, <1>15, <1>16, <1>17, <1>18, <1>19 DEF SearchInv

-----------------------------------------------------------------------------
(***************************************************************************)
(* The depth pass.                                                         *)
(***************************************************************************)
\* The recursive definition of HasPath defines a function.
LEMMA HasPathStep ==
  ASSUME WellFormed(in)
  PROVE  \A n \in 1 .. Size :
            HasPath[n] = IF n = 1 THEN Nodes
                         ELSE {f \in Nodes : Elements(in.callees[f]) \cap HasPath[n-1] # {}}
<1> DEFINE T == SUBSET Nodes
           next == [X \in T |-> {f \in Nodes : Elements(in.callees[f]) \cap X # {}}]
           F == [n \in Nat |-> next]
<1>1. F \in [Nat -> [T -> T]] /\ Nodes \in T
  OBVIOUS
<1>2. PICK g \in [0 .. Size -> T] : g[0] = Nodes /\ \A n \in 1 .. Size : g[n] = F[n][g[n - 1]]
  <2> HIDE DEF T, F, next
  <2> QED
    BY <1>1, SizeIsNat, RecursionExists, Z3
<1>3. ASSUME NEW n \in 1 .. Size PROVE g[n] = {f \in Nodes : Elements(in.callees[f]) \cap g[n-1] # {}}
  <2>1. n \in Nat /\ n - 1 \in 0 .. Size
    BY SizeIsNat
  <2>2. g[n - 1] \in T
    BY <2>1
  <2>3. F[n][g[n - 1]] = {f \in Nodes : Elements(in.callees[f]) \cap g[n-1] # {}}
    BY <2>1, <2>2
  <2> QED
    BY <1>2, <2>3
<1> DEFINE body(h) == [n \in 1 .. Size |->
              IF n = 1 THEN Nodes ELSE {f \in Nodes : Elements(in.callees[f]) \cap h[n-1] # {}}]
           p == [n \in 1 .. Size |-> g[n-1]]
<1>4. p = body(p)
  <2>1. ASSUME NEW n \in 1 .. Size PROVE p[n] = body(p)[n]
    <3>1. CASE n = 1
      BY <3>1, <1>2
    <3>2. CASE n # 1
      <4>1. n - 1 \in 1 .. Size /\ p[n - 1] = g[n - 1 - 1] /\ p[n] = g[n - 1]
        BY <3>2, SizeIsNat
      <4> QED
        BY <4>1, <3>2, <1>3
    <3> QED
      BY <3>1, <3>2
  <2>2. p = [n \in 1 .. Size |-> p[n]]
    OBVIOUS
  <2> QED
    BY <2>1, <2>2
<1>5. HasPath = body(HasPath)
  <2>1. HasPath = CHOOSE h : h = body(h)
    BY DEF HasPath
  <2> HIDE DEF body, p
  <2>2. \E h : h = body(h)
    BY <1>4
  <2> QED
    BY <2>1, <2>2
<1> QED
  BY <1>5

\* There are no more components than functions.
LEMMA ComponentsFew == SearchInv => Len(sccs) <= Size
<1> SUFFICES ASSUME SearchInv PROVE Len(sccs) <= Size
  OBVIOUS
<1> DEFINE pick == [i \in 1 .. Len(sccs) |-> CHOOSE n \in sccs[i] : TRUE]
<1>1. /\ DOMAIN sccs = 1 .. Len(sccs) /\ Len(sccs) \in Nat
      /\ \A i \in DOMAIN sccs : sccs[i] \in SUBSET Nodes /\ sccs[i] # {}
  BY DEF SearchInv, TypeOK, ComponentsInv
<1>2. \A i \in 1 .. Len(sccs) : pick[i] \in sccs[i] /\ pick[i] \in Nodes
  BY <1>1
<1>3. pick \in Injection(1 .. Len(sccs), Nodes)
  <2>1. ASSUME NEW i \in 1 .. Len(sccs), NEW j \in 1 .. Len(sccs), pick[i] = pick[j] PROVE i = j
    BY <1>1, <1>2, <2>1 DEF SearchInv, ComponentsInv
  <2>2. pick \in [1 .. Len(sccs) -> Nodes]
    BY <1>2
  <2> HIDE DEF pick
  <2> QED
    BY <2>1, <2>2 DEF Injection, IsInjective
<1>4. Cardinality(1 .. Len(sccs)) <= Size
  <2> HIDE DEF pick
  <2> QED
    BY <1>3, NodesAssumption, FS_Injection DEF Size
<1>5. Cardinality(1 .. Len(sccs)) = Len(sccs)
  <2>1. 1 \in Int /\ Len(sccs) \in Int
    BY <1>1
  <2>2. Cardinality(1 .. Len(sccs)) = IF 1 > Len(sccs) THEN 0 ELSE Len(sccs) - 1 + 1
    BY <2>1, FS_Interval
  <2> QED
    BY <2>2, <1>1
<1> QED
  BY <1>4, <1>5

\* What the recursion test finds.
LEMMA RecursiveIs ==
  ASSUME SearchInv, ComponentsAreClasses, NEW i \in DOMAIN sccs, NEW f \in sccs[i]
  PROVE  /\ Recursive(sccs[i]) <=> f \in Reach[f]
         /\ ~Recursive(sccs[i]) => sccs[i] = {f}
<1>1. /\ WellFormed(in) /\ sccs[i] \in SUBSET Nodes /\ f \in Nodes
      /\ sccs[i] = {g \in Nodes : Leads(f, g) /\ Leads(g, f)}
  <2>1. WellFormed(in) /\ sccs[i] \in SUBSET Nodes
    BY DEF SearchInv, TypeOK
  <2>2. sccs[i] = Class(f)
    BY DEF ComponentsAreClasses
  <2> QED
    BY <2>1, <2>2, ClassIs
<1>2. IsFiniteSet(sccs[i]) /\ Cardinality(sccs[i]) \in Nat
  BY <1>1, NodesAssumption, FS_Subset, FS_CardinalityType
<1>3. ASSUME NEW g \in sccs[i], g # f PROVE f \in Reach[f] /\ Cardinality(sccs[i]) > 1
  <2>1. g \in Reach[f] /\ f \in Reach[g]
    BY <1>1, <1>3 DEF Leads
  <2>2. f \in Reach[f]
    BY <2>1, <1>1, ReachIsLeast DEF Closed
  <2>3. Cardinality(sccs[i]) # 1
    BY <1>2, <1>3, FS_Singleton
  <2>4. Cardinality(sccs[i]) # 0
    BY <1>2, FS_EmptySet
  <2> QED
    BY <2>2, <2>3, <2>4, <1>2
<1>4. CASE \E g \in sccs[i] : g # f
  BY <1>3, <1>4 DEF Recursive
<1>5. CASE \A g \in sccs[i] : g = f
  <2>1. sccs[i] = {f}
    BY <1>5
  <2>2. Cardinality(sccs[i]) = 1
    BY <2>1, FS_Singleton
  <2>3. Recursive(sccs[i]) <=> f \in Elements(in.callees[f])
    BY <2>1, <2>2 DEF Recursive, Calls
  <2>4. f \in Elements(in.callees[f]) => f \in Reach[f]
    BY <1>1, ReachIsLeast
  <2>5. f \in Reach[f] => f \in Elements(in.callees[f])
    <3> SUFFICES ASSUME f \in Reach[f] PROVE f \in Elements(in.callees[f])
      OBVIOUS
    <3>1. PICK h \in Elements(in.callees[f]) : Leads(h, f)
      BY <1>1, ReachByCallee
    <3>2. h \in Nodes /\ Leads(f, h)
      BY <3>1, <1>1, CalleesAreNodes, ReachIsLeast DEF Leads
    <3> QED
      BY <3>1, <3>2, <1>1, <2>1
  <2> QED
    BY <2>1, <2>3, <2>4, <2>5
<1> QED
  BY <1>4, <1>5

\* Who leads to a loop loops.
LEMMA LoopsOn ==
  ASSUME WellFormed(in), NEW f \in Nodes, NEW g \in Nodes, Leads(f, g), Loops(g)
  PROVE  Loops(f)
<1>1. PICK h \in {g} \cup Reach[g] : h \in Reach[h]
  BY DEF Loops
<1>2. Leads(g, h)
  BY DEF Leads
<1>3. Leads(f, h)
  BY <1>2, LeadsOn
<1> QED
  BY <1>1, <1>3 DEF Loops, Leads

\* The depth that is computed is a measure when those before it are.
MeasuredAs(d, f) ==
  IF Loops(f) THEN d = -1
  ELSE d # -1 /\ \A n \in 1 .. Size : f \in HasPath[n] <=> n <= d

\* The depth computed for a component measures its members.
LEMMA NewDepthIs ==
  ASSUME SearchInv, ComponentsAreClasses, DepthInv, NEW i, i = Len(depth) + 1, i \in DOMAIN sccs
  PROVE  /\ NewDepth(i) \in {-1} \cup (Nat \ {0}) /\ NewDepth(i) <= i
         /\ \A f \in sccs[i] : MeasuredAs(NewDepth(i), f)
<1>1. /\ WellFormed(in) /\ DOMAIN depth = 1 .. i - 1 /\ i \in Nat /\ i >= 1
      /\ \A j \in DOMAIN depth : depth[j] \in {-1} \cup (Nat \ {0}) /\ depth[j] <= j
      /\ \A j \in DOMAIN sccs : sccs[j] \in SUBSET Nodes
      /\ sccs[i] # {} /\ CalleesFirst /\ ComponentsInv /\ DOMAIN sccs = 1 .. Len(sccs)
  BY DEF SearchInv, TypeOK, DepthInv, ComponentsInv
<1>2. \A j \in DOMAIN depth : \A f \in sccs[j] : MeasuredAs(depth[j], f)
  BY DEF DepthInv, Measured, MeasuredAs
\* A callee outside of the component is in one that has been measured.
<1>3. ASSUME NEW f \in sccs[i], NEW g \in Elements(in.callees[f]), g \notin sccs[i]
      PROVE  \E j \in Successors(i) : g \in sccs[j] /\ j \in DOMAIN depth
  <2>1. PICK j \in 1 .. i : g \in sccs[j]
    BY <1>1 DEF CalleesFirst
  <2>2. j # i /\ j \in DOMAIN depth /\ j \in DOMAIN sccs
    BY <2>1, <1>1, <1>3
  <2>3. Calls(f, g)
    BY DEF Calls
  <2> QED
    BY <2>1, <2>2, <2>3 DEF Successors
<1>4. ASSUME NEW j \in Successors(i)
      PROVE  /\ j \in DOMAIN depth /\ j < i /\ DepthOf(j) = depth[j] /\ depth[j] \in Int /\ depth[j] <= i - 1
             /\ \E f \in sccs[i] : \E g \in sccs[j] : g \in Elements(in.callees[f])
  <2>1. PICK f \in sccs[i], g \in sccs[j] : Calls(f, g) /\ j # i /\ j \in DOMAIN sccs
    BY DEF Successors
  <2>2. PICK l \in 1 .. i : g \in sccs[l]
    BY <2>1, <1>1 DEF CalleesFirst, Calls
  <2>3. l \in DOMAIN sccs
    BY <2>2, <1>1
  <2>4. l = j
    BY <2>1, <2>2, <2>3, <1>1 DEF ComponentsInv
  <2>5. j \in DOMAIN depth /\ j < i /\ j \in Int
    BY <2>1, <2>4, <1>1
  <2>6. depth[j] \in Int /\ depth[j] <= j
    BY <2>5, <1>1
  <2> QED
    BY <2>1, <2>5, <2>6, <1>1 DEF DepthOf, Calls
<1>5. ASSUME NEW f \in sccs[i], NEW g \in sccs[i] PROVE Leads(f, g) /\ f \in Nodes /\ g \in Nodes
  <2>1. f \in Nodes /\ g \in Nodes /\ g \in Class(f)
    BY <1>1 DEF ComponentsAreClasses
  <2> QED
    BY <2>1, <1>1, ClassIs
<1>6. CASE Recursive(sccs[i])
  <2>1. NewDepth(i) = -1
    BY <1>6 DEF NewDepth
  <2>2. ASSUME NEW f \in sccs[i] PROVE MeasuredAs(-1, f)
    <3>1. f \in Reach[f]
      BY <1>6, RecursiveIs
    <3> QED
      BY <3>1 DEF Loops, MeasuredAs
  <2> QED
    BY <2>1, <2>2, <1>1
<1>7. CASE \E j \in Successors(i) : DepthOf(j) = -1
  <2>1. NewDepth(i) = -1
    BY <1>7 DEF NewDepth
  <2>2. PICK j \in Successors(i) : DepthOf(j) = -1
    BY <1>7
  <2>3. j \in DOMAIN depth /\ depth[j] = -1
    BY <2>2, <1>4
  <2>4. PICK h \in sccs[i], g \in sccs[j] : g \in Elements(in.callees[h])
    BY <1>4
  <2>5. Loops(g)
    BY <2>3, <2>4, <1>2 DEF MeasuredAs
  <2>6. ASSUME NEW f \in sccs[i] PROVE MeasuredAs(-1, f)
    <3>1. g \in Nodes /\ h \in Nodes /\ f \in Nodes /\ Leads(f, h)
      BY <2>4, <1>1, <1>5, CalleesAreNodes
    <3>2. Leads(f, g)
      BY <3>1, <2>4, <1>1, LeadsOn
    <3>3. Loops(f)
      BY <3>1, <3>2, <2>5, <1>1, LoopsOn
    <3> QED
      BY <3>3 DEF MeasuredAs
  <2> QED
    BY <2>1, <2>6, <1>1
<1>8. CASE ~Recursive(sccs[i]) /\ \A j \in Successors(i) : DepthOf(j) # -1
  <2> DEFINE D == {DepthOf(j) : j \in Successors(i)}
  <2>1. \A j \in Successors(i) : DepthOf(j) \in Nat \ {0} /\ DepthOf(j) <= i - 1
    <3>1. ASSUME NEW j \in Successors(i) PROVE DepthOf(j) \in Nat \ {0} /\ DepthOf(j) <= i - 1
      <4>1. DepthOf(j) = depth[j] /\ j \in DOMAIN depth /\ depth[j] <= i - 1 /\ DepthOf(j) # -1
        BY <1>4, <1>8
      <4> QED
        BY <4>1, <1>1
    <3> QED
      BY <3>1
  <2>2. {0} \cup D \in SUBSET (0 .. i - 1) /\ {0} \cup D # {}
    BY <2>1, <1>1
  <2>3. i - 1 \in Nat
    BY <1>1
  <2>4. PICK d \in {0} \cup D : \A e \in {0} \cup D : e <= d
    <3> HIDE DEF D
    <3> QED
      BY <2>2, <2>3, GreatestNat
  <2>5. PICK c : /\ c \in {0} \cup D /\ \A e \in D : e <= c
                 /\ c = CHOOSE x \in {0} \cup D : \A e \in D : e <= x
    BY <2>4
  <2>6. NewDepth(i) = 1 + c
    BY <1>8, <2>5 DEF NewDepth
  <2>7. c \in Nat /\ c <= i - 1
    <3>1. c \in 0 .. i - 1
      <4> HIDE DEF D
      <4> QED
        BY <2>2, <2>5
    <3> QED
      BY <3>1, <2>3
  <2>8. c # 0 => \E j \in Successors(i) : DepthOf(j) = c
    BY <2>5
  <2>9. \A j \in Successors(i) : DepthOf(j) <= c
    BY <2>5
  <2> HIDE DEF D
  <2>10. ASSUME NEW f \in sccs[i] PROVE MeasuredAs(1 + c, f)
    <3>1. f \in Nodes /\ f \notin Reach[f] /\ sccs[i] = {f} /\ Elements(in.callees[f]) \in SUBSET Nodes
          /\ Elements(in.callees[f]) \subseteq Reach[f]
      BY <1>1, <1>5, <1>8, RecursiveIs, CalleesAreNodes, ReachIsLeast
    <3>2. ASSUME NEW h \in Elements(in.callees[f])
          PROVE  ~Loops(h) /\ \E j \in Successors(i) : DepthOf(j) \in Nat /\ MeasuredAs(DepthOf(j), h)
      <4>1. h \notin sccs[i]
        BY <3>1
      <4>2. PICK j \in Successors(i) : h \in sccs[j] /\ j \in DOMAIN depth
        BY <4>1, <1>3
      <4>3. MeasuredAs(DepthOf(j), h) /\ DepthOf(j) # -1 /\ DepthOf(j) \in Nat
        BY <4>2, <1>2, <1>4, <1>8, <2>1
      <4> QED
        BY <4>3 DEF MeasuredAs
    <3>3. ~Loops(f)
      <4> SUFFICES ASSUME Loops(f) PROVE FALSE
        OBVIOUS
      <4>1. PICK g \in {f} \cup Reach[f] : g \in Reach[g]
        BY DEF Loops
      <4>2. g \in Reach[f]
        BY <4>1, <3>1
      <4>3. PICK h \in Elements(in.callees[f]) : Leads(h, g)
        BY <4>2, <3>1, <1>1, ReachByCallee
      <4>4. Loops(h)
        BY <4>1, <4>3 DEF Loops, Leads
      <4> QED
        BY <4>3, <4>4, <3>2
    <3>4. ASSUME NEW n \in 1 .. Size PROVE f \in HasPath[n] <=> n <= 1 + c
      <4>1. CASE n = 1
        <5>1. HasPath[n] = Nodes
          BY <4>1, <1>1, HasPathStep
        <5>2. n <= 1 + c
          BY <4>1, <2>7
        <5> QED
          BY <5>1, <5>2, <3>1
      <4>2. CASE n # 1
        <5>1. HasPath[n] = {x \in Nodes : Elements(in.callees[x]) \cap HasPath[n-1] # {}}
          BY <4>2, <1>1, HasPathStep
        <5>2. n - 1 \in 1 .. Size /\ n - 1 >= 1 /\ n \in Nat
          BY <4>2, SizeIsNat
        <5>3. ASSUME f \in HasPath[n] PROVE n <= 1 + c
          <6>1. PICK h \in Elements(in.callees[f]) : h \in HasPath[n-1]
            BY <5>1, <5>3
          <6>2. PICK j \in Successors(i) : DepthOf(j) \in Nat /\ MeasuredAs(DepthOf(j), h) /\ ~Loops(h)
            BY <3>2
          <6>3. n - 1 <= DepthOf(j)
            BY <6>1, <6>2, <5>2 DEF MeasuredAs
          <6>4. DepthOf(j) <= c
            BY <2>9
          <6> QED
            BY <6>2, <6>3, <6>4, <5>2, <2>7
        <5>4. ASSUME n <= 1 + c PROVE f \in HasPath[n]
          <6>1. c # 0
            BY <5>2, <5>4, <2>7, <4>2
          <6>2. PICK j \in Successors(i) : DepthOf(j) = c
            BY <6>1, <2>8
          <6>3. PICK h \in sccs[j] : h \in Elements(in.callees[f])
            BY <6>2, <3>1, <1>4
          <6>4. MeasuredAs(c, h) /\ ~Loops(h)
            <7>1. j \in DOMAIN depth /\ depth[j] = c
              BY <6>2, <1>4
            <7> QED
              BY <7>1, <6>3, <1>2, <3>2
          <6>5. n - 1 <= c
            BY <5>2, <5>4, <2>7
          <6>6. h \in HasPath[n-1]
            BY <6>4, <6>5, <5>2 DEF MeasuredAs
          <6> QED
            BY <6>3, <6>6, <5>1, <3>1
        <5> QED
          BY <5>3, <5>4
      <4> QED
        BY <4>1, <4>2
    <3>5. 1 + c # -1
      BY <2>7
    <3> QED
      BY <3>3, <3>4, <3>5 DEF MeasuredAs
  <2>11. 1 + c \in Nat \ {0} /\ 1 + c <= i
    BY <2>7, <1>1
  <2> QED
    BY <2>6, <2>10, <2>11
<1> QED
  BY <1>6, <1>7, <1>8

(***************************************************************************)
(* The whole invariant, step by step.                                      *)
(***************************************************************************)
Inv == SearchInv /\ ComponentsAreClasses /\ DepthInv

\* Measuring a component keeps the depths of the others.
LEMMA SetDepthKeeps ==
  ASSUME Inv, SetDepth
  PROVE  Inv'
<1>1. PICK i : i = Len(depth) + 1
  OBVIOUS
<1>2. /\ SearchInv /\ ComponentsAreClasses /\ DepthInv /\ TypeOK /\ SearchOver
      /\ depth' = Append(depth, NewDepth(i)) /\ UNCHANGED <<in, index, low, counter, stack, calls, sccs>>
      /\ Len(depth) < Len(sccs) /\ i \in DOMAIN sccs
      /\ depth \in Seq({-1} \cup (Nat \ {0})) /\ Len(depth) \in Nat /\ DOMAIN depth = 1 .. Len(depth)
  BY <1>1 DEF Inv, SearchInv, TypeOK, SetDepth
<1>3. /\ NewDepth(i) \in {-1} \cup (Nat \ {0}) /\ NewDepth(i) <= i
      /\ \A f \in sccs[i] : MeasuredAs(NewDepth(i), f)
  BY <1>1, <1>2, NewDepthIs
<1>4. PICK d : d = NewDepth(i)
  OBVIOUS
<1>5. /\ depth' \in Seq({-1} \cup (Nat \ {0})) /\ Len(depth') = i /\ DOMAIN depth' = 1 .. i
      /\ depth'[i] = d /\ \A j \in DOMAIN depth : depth'[j] = depth[j]
  BY <1>1, <1>2, <1>3, <1>4
<1>6. TypeOK'
  BY <1>2, <1>5 DEF TypeOK
<1>7. SearchInv'
  <2>1. OnStack' = OnStack /\ Emitted' = Emitted /\ Visited' = Visited
    BY <1>2 DEF OnStack, Emitted, Visited, Elements
  <2>2. \A f : Treated(f)' = Treated(f)
    BY <1>2 DEF Treated
  <2>3. IndexInv' /\ ComponentsInv' /\ CallsInv' /\ CalleesFirst'
    BY <1>2, <2>1 DEF SearchInv, IndexInv, ComponentsInv, CallsInv, CalleesFirst, Elements
  <2>4. TreatedInv' /\ LowInv' /\ PathInv' /\ BackInv' /\ OwnInv'
    BY <1>2, <2>1, <2>2, SameGraph DEF SearchInv, TreatedInv, LowInv, PathInv, BackInv, OwnInv
  <2> QED
    BY <1>6, <2>3, <2>4 DEF SearchInv
<1>8. ComponentsAreClasses'
  BY <1>2, SameGraph DEF ComponentsAreClasses
<1>9. DepthInv'
  <2>1. SearchOver' /\ Len(depth') <= Len(sccs')
    BY <1>1, <1>2, <1>5 DEF SearchOver
  <2>2. ASSUME NEW j \in DOMAIN depth'
        PROVE  depth'[j] <= j /\ \A f \in sccs[j] : MeasuredAs(depth'[j], f)
    <3>1. CASE j = i
      BY <3>1, <1>3, <1>4, <1>5
    <3>2. CASE j # i
      <4>1. j \in DOMAIN depth
        BY <3>2, <1>1, <1>2, <1>5
      <4> QED
        BY <4>1, <1>2, <1>5 DEF DepthInv, Measured, MeasuredAs
    <3> QED
      BY <3>1, <3>2
  <2>3. ASSUME NEW j \in DOMAIN depth', NEW f \in sccs[j] PROVE Measured(j, f)'
    <3>1. MeasuredAs(depth'[j], f)
      BY <2>2
    <3> QED
      BY <3>1, <1>2, SameGraph DEF Measured, MeasuredAs, Size
  <2> QED
    BY <1>2, <2>1, <2>2, <2>3 DEF DepthInv
<1> QED
  BY <1>7, <1>8, <1>9 DEF Inv

\* While the search goes on no depth is there.
LEMMA NoDepthYet ==
  ASSUME Inv, depth' = depth, calls # <<>> \/ (\E i \in DOMAIN in.keys : index[in.keys[i]] = -1),
         SearchInv'
  PROVE  DepthInv'
<1>1. depth = <<>>
  BY DEF Inv, DepthInv, SearchOver
<1>2. depth' = <<>> /\ Len(depth') = 0 /\ DOMAIN depth' = {}
  BY <1>1
<1>3. Len(sccs') \in Nat
  BY DEF SearchInv, TypeOK
<1>4. Len(depth') <= Len(sccs')
  BY <1>2, <1>3
<1> QED
  BY <1>2, <1>4 DEF DepthInv

\* The component a return emits is a class.
LEMMA ReturnIsClass ==
  ASSUME Inv, Return, SearchInv'
  PROVE  ComponentsAreClasses'
<1>1. PICK K, f : K = Len(calls) /\ f = Active.fn
  OBVIOUS
<1>2. Returned(K, f)
  BY <1>1, ReturnSets DEF Inv
<1>3. in' = in /\ DOMAIN sccs = 1 .. Len(sccs) /\ Len(sccs) \in Nat /\ sccs \in Seq(SUBSET Nodes)
  BY <1>2 DEF Returned, Inv, SearchInv, TypeOK
<1>4. \A i \in DOMAIN sccs : \A g \in sccs[i] : sccs[i] = Class(g)
  BY DEF Inv, ComponentsAreClasses
<1>5. ASSUME NEW i \in DOMAIN sccs', NEW g \in sccs'[i] PROVE sccs'[i] = Class(g)
  <2>1. CASE low[f] = index[f]
    <3>1. sccs' = Append(sccs, Above(f))
      BY <2>1, <1>2 DEF Returned
    <3>2. CASE i \in DOMAIN sccs
      BY <3>1, <3>2, <1>3, <1>4
    <3>3. CASE i \notin DOMAIN sccs
      <4>1. sccs'[i] = Above(f)
        BY <3>1, <3>3, <1>3
      <4>2. \A n \in Above(f) : Above(f) = Class(n)
        BY <1>1, <2>1, RootClass DEF Inv, Return
      <4> QED
        BY <4>1, <4>2
    <3> QED
      BY <3>2, <3>3
  <2>2. CASE low[f] # index[f]
    <3>1. sccs' = sccs
      BY <2>2, <1>2 DEF Returned
    <3> QED
      BY <3>1, <1>4
  <2> QED
    BY <2>1, <2>2
<1>6. \A i, j \in DOMAIN sccs' : sccs'[i] = sccs'[j] => i = j
  BY DEF SearchInv, ComponentsInv
<1> QED
  BY <1>3, <1>5, <1>6, SameGraph DEF ComponentsAreClasses

\* The whole invariant holds at the start.
LEMMA InvInit == Init => Inv
<1> SUFFICES ASSUME Init PROVE Inv
  OBVIOUS
<1>1. depth = <<>> /\ sccs = <<>> /\ DOMAIN depth = {} /\ DOMAIN sccs = {} /\ Len(depth) = 0 /\ Len(sccs) = 0
  BY DEF Init
<1>2. ComponentsAreClasses
  BY <1>1 DEF ComponentsAreClasses
<1>3. DepthInv
  BY <1>1 DEF DepthInv
<1> QED
  BY <1>2, <1>3, InitHolds DEF Inv

\* Every step keeps the whole invariant.
LEMMA InvStep == Inv /\ [Next]_vars => Inv'
<1> SUFFICES ASSUME Inv, [Next]_vars PROVE Inv'
  OBVIOUS
<1>0. SearchInv /\ ComponentsAreClasses /\ DepthInv /\ TypeOK
  BY DEF Inv, SearchInv
<1>1. CASE StartRoot
  <2>1. PICK i \in DOMAIN in.keys : index[in.keys[i]] = -1 /\ Enter(in.keys[i])
    BY <1>1 DEF StartRoot
  <2>2. in.keys[i] \in Nodes
    BY <1>0 DEF TypeOK, WellFormed
  <2>3. SearchInv'
    BY <1>0, <1>1, <2>1, <2>2, EnterKeeps DEF StartRoot
  <2>4. sccs' = sccs /\ in' = in /\ depth' = depth
    BY <2>1 DEF Enter
  <2>5. DepthInv'
    BY <2>1, <2>3, <2>4, NoDepthYet
  <2> QED
    BY <1>0, <2>3, <2>4, <2>5, SameGraph DEF Inv, ComponentsAreClasses
<1>2. CASE Descend
  <2>1. calls # <<>> /\ AtCallee /\ index[Callee] = -1 /\ Enter(Callee)
    BY <1>2 DEF Descend, AtCallee
  <2>2. Callee \in Nodes
    BY <1>0, <2>1, ActiveIs
  <2>3. PICK n \in Nodes : n = Callee
    BY <2>2
  <2>4. SearchInv'
    BY <1>0, <2>1, <2>3, EnterKeeps
  <2>5. sccs' = sccs /\ in' = in /\ depth' = depth
    BY <2>1 DEF Enter
  <2>6. DepthInv'
    BY <2>1, <2>4, <2>5, NoDepthYet
  <2> QED
    BY <1>0, <2>4, <2>5, <2>6, SameGraph DEF Inv, ComponentsAreClasses
<1>3. CASE PassBy
  <2>1. SearchInv'
    BY <1>0, <1>3, PassByKeeps
  <2>2. sccs' = sccs /\ in' = in /\ depth' = depth /\ calls # <<>>
    BY <1>3 DEF PassBy, AtCallee
  <2>3. DepthInv'
    BY <2>1, <2>2, NoDepthYet
  <2> QED
    BY <1>0, <2>1, <2>2, <2>3, SameGraph DEF Inv, ComponentsAreClasses
<1>4. CASE Return
  <2>1. SearchInv'
    BY <1>0, <1>4, ReturnKeeps
  <2>2. depth' = depth /\ calls # <<>>
    BY <1>4 DEF Return
  <2>3. DepthInv'
    BY <2>1, <2>2, NoDepthYet
  <2>4. ComponentsAreClasses'
    BY <1>4, <2>1, ReturnIsClass
  <2> QED
    BY <2>1, <2>3, <2>4 DEF Inv
<1>5. CASE SetDepth
  BY <1>5, SetDepthKeeps
<1>6. CASE Stopped \/ UNCHANGED vars
  <2>1. UNCHANGED <<in, index, low, counter, stack, calls, sccs, depth>>
    BY <1>6 DEF Stopped, vars
  <2>2. OnStack' = OnStack /\ Emitted' = Emitted /\ Visited' = Visited
    BY <2>1 DEF OnStack, Emitted, Visited, Elements
  <2>3. \A f : Treated(f)' = Treated(f)
    BY <2>1 DEF Treated
  <2>4. TypeOK' /\ IndexInv' /\ ComponentsInv' /\ CallsInv' /\ CalleesFirst'
    BY <1>0, <2>1, <2>2 DEF SearchInv, TypeOK, IndexInv, ComponentsInv, CallsInv, CalleesFirst, Elements
  <2>5. TreatedInv' /\ LowInv' /\ PathInv' /\ BackInv' /\ OwnInv'
    BY <1>0, <2>1, <2>2, <2>3, SameGraph DEF SearchInv, TreatedInv, LowInv, PathInv, BackInv, OwnInv
  <2>6. ComponentsAreClasses'
    BY <1>0, <2>1, SameGraph DEF ComponentsAreClasses
  <2>7. DepthInv'
    BY <1>0, <2>1, SameGraph DEF DepthInv, Measured, SearchOver, Size
  <2> QED
    BY <2>4, <2>5, <2>6, <2>7 DEF SearchInv, Inv
<1> QED
  BY <1>1, <1>2, <1>3, <1>4, <1>5, <1>6 DEF Next

\* The whole invariant, at any time.
LEMMA AlwaysInv == Spec => []Inv
BY InvInit, InvStep, PTL DEF Spec

-----------------------------------------------------------------------------
(***************************************************************************)
(* The state of the search and of the depth pass is well-typed: a function *)
(* is popped only when it is on the stack, and a depth is -1 or at least   *)
(* one.                                                                    *)
(***************************************************************************)
THEOREM TypeCorrect == Spec => []TypeOK
<1>1. Inv => TypeOK
  BY DEF Inv, SearchInv
<1> QED
  BY <1>1, AlwaysInv, PTL

(***************************************************************************)
(* StrongConnect emits a component after every component it calls, at any  *)
(* time and for every call graph.                                          *)
(***************************************************************************)
THEOREM ReverseTopological == Spec => []CalleesFirst
<1>1. Inv => CalleesFirst
  BY DEF Inv, SearchInv
<1> QED
  BY <1>1, AlwaysInv, PTL

(***************************************************************************)
(* StrongConnect emits exactly the classes of mutual recursion, each once. *)
(***************************************************************************)
THEOREM EmitsClasses == Spec => []ComponentsAreClasses
<1>1. Inv => ComponentsAreClasses
  BY DEF Inv
<1> QED
  BY <1>1, AlwaysInv, PTL

\* A function is marked recursive exactly when it is on a cycle.
LEMMA RecursionIsExact == Inv => RecursionExact
<1> SUFFICES ASSUME Inv, SearchOver,
                    NEW n \in Elements(in.keys), NEW f \in {n} \cup Reach[n]
             PROVE  \E i \in DOMAIN sccs : f \in sccs[i] /\ (Recursive(sccs[i]) <=> f \in Reach[f])
  BY DEF RecursionExact
<1>1. SearchInv /\ WellFormed(in) /\ ComponentsAreClasses /\ IndexInv
  BY DEF Inv, SearchInv, TypeOK
<1>2. n \in Nodes /\ index[n] # -1
  <2>1. PICK i \in DOMAIN in.keys : n = in.keys[i]
    BY DEF Elements
  <2> QED
    BY <2>1, <1>1 DEF SearchOver, WellFormed
<1>3. OnStack = {}
  BY <1>1, TopReached DEF SearchOver
<1>4. n \in Emitted
  BY <1>1, <1>2, <1>3 DEF IndexInv, Visited
<1>5. f \in Emitted
  <2>1. Emitted \in SUBSET Nodes
    BY <1>1, OnStackNodes DEF SearchInv
  <2> QED
    BY <2>1, <1>1, <1>4, EmittedIsClosed, ClosedHolds
<1>6. PICK i \in DOMAIN sccs : f \in sccs[i]
  BY <1>5 DEF Emitted
<1> QED
  BY <1>1, <1>6, RecursiveIs

\* A depth is that of the longest chain of calls.
LEMMA DepthIsExact == Inv => DepthExact
<1> SUFFICES ASSUME Inv, NEW i \in DOMAIN depth, NEW f \in sccs[i]
             PROVE  depth[i] = LongestChain(f)
  BY DEF DepthExact
<1>1. SearchInv /\ DepthInv /\ Measured(i, f) /\ depth[i] <= i
  BY DEF Inv, DepthInv
<1>2. CASE Loops(f)
  BY <1>1, <1>2 DEF Measured, Loops, LongestChain
<1>3. CASE ~Loops(f)
  <2>1. depth[i] \in {-1} \cup (Nat \ {0}) /\ i \in Nat /\ i <= Len(depth) /\ Len(depth) \in Nat
        /\ Len(depth) <= Len(sccs) /\ Len(sccs) \in Nat
    BY <1>1 DEF SearchInv, TypeOK, DepthInv
  <2>2. depth[i] # -1 /\ \A n \in 1 .. Size : f \in HasPath[n] <=> n <= depth[i]
    BY <1>1, <1>3 DEF Measured
  <2>3. depth[i] \in 1 .. Size
    BY <2>1, <2>2, <1>1, ComponentsFew, SizeIsNat
  <2>4. PICK d : d = depth[i]
    OBVIOUS
  <2>5. LongestChain(f) = CHOOSE n \in 1 .. Size : f \in HasPath[n] /\ \A m \in n + 1 .. Size : f \notin HasPath[m]
    BY <1>3 DEF LongestChain, Loops
  <2>6. f \in HasPath[d] /\ \A m \in d + 1 .. Size : f \notin HasPath[m]
    BY <2>2, <2>3, <2>4, SizeIsNat
  <2>7. ASSUME NEW n \in 1 .. Size, f \in HasPath[n], \A m \in n + 1 .. Size : f \notin HasPath[m]
        PROVE  n = d
    <3>1. n <= d /\ n \in Int /\ d \in Int
      BY <2>2, <2>3, <2>4, <2>7
    <3>2. ~(n < d)
      <4>1. n < d => d \in n + 1 .. Size
        BY <2>3, <2>4, SizeIsNat
      <4> QED
        BY <4>1, <2>6, <2>7
    <3> QED
      BY <3>1, <3>2
  <2> QED
    BY <2>3, <2>4, <2>5, <2>6, <2>7
<1> QED
  BY <1>2, <1>3

(***************************************************************************)
(* What is measured is exact, for every call graph: every function that    *)
(* can be reached is in a component when the search is over, it is found   *)
(* recursive exactly when it can call itself, and the depth is that of the *)
(* longest chain of calls, or -1 when recursion can be reached.            *)
(***************************************************************************)
THEOREM MeasuresAreExact == Spec => []MeasuresExact
<1>1. Inv => MeasuresExact
  BY RecursionIsExact, DepthIsExact DEF MeasuresExact
<1> QED
  BY <1>1, AlwaysInv, PTL

-----------------------------------------------------------------------------
\* Nothing is left of what is done, and nothing comes back.
LessFor(n) == LeftFor(n)' \subseteq LeftFor(n)
Less(n)    == LeftFor(n)' # LeftFor(n)

\* The parts of what is left: what is to be measured, and what is to be
\* visited and passed.
Unmeasured(n) == ~\E i \in DOMAIN depth : n \in sccs[i]
All(n)        == 1 .. Len(in.callees[n]) + 1
AheadOf(n)    == {j \in All(n) : \E k \in DOMAIN calls : calls[k].fn = n /\ calls[k].at <= j}

\* What is left for n has these parts.
LEMMA LeftIs ==
  ASSUME WellFormed(in), NEW n \in Nodes
  PROVE  \A j : j \in LeftFor(n) <=> \/ j = -1 /\ Unmeasured(n)
                                     \/ j = 0 /\ index[n] = -1
                                     \/ j \in All(n) /\ (index[n] = -1 \/ j \in AheadOf(n))
BY DEF LeftFor, Unmeasured, All, AheadOf

\* The numbers of what is to be passed, of measuring and of visiting differ.
LEMMA AllIs ==
  ASSUME WellFormed(in), NEW n \in Nodes
  PROVE  -1 \notin All(n) /\ 0 \notin All(n) /\ 1 \in All(n) /\ All(n) \subseteq Nat
<1>1. Len(in.callees[n]) \in Nat
  BY DEF WellFormed
<1> QED
  BY <1>1 DEF All

\* A step that takes from what is left of n, in the parts.
LEMMA LessByParts ==
  ASSUME WellFormed(in), in' = in, NEW n \in Nodes,
         Unmeasured(n)' => Unmeasured(n),
         index'[n] = -1 => index[n] = -1,
         index[n] # -1 => AheadOf(n)' \subseteq AheadOf(n)
  PROVE  LessFor(n)
<1>1. \A j : j \in LeftFor(n) <=> \/ j = -1 /\ Unmeasured(n)
                                  \/ j = 0 /\ index[n] = -1
                                  \/ j \in All(n) /\ (index[n] = -1 \/ j \in AheadOf(n))
  BY LeftIs
<1>2. \A j : j \in LeftFor(n)' <=> \/ j = -1 /\ Unmeasured(n)'
                                   \/ j = 0 /\ index'[n] = -1
                                   \/ j \in All(n) /\ (index'[n] = -1 \/ j \in AheadOf(n)')
  BY DEF LeftFor, Unmeasured, All, AheadOf
<1>3. AheadOf(n)' \subseteq All(n)
  BY DEF AheadOf, All
<1> QED
  BY <1>1, <1>2, <1>3 DEF LessFor

\* Something of n that was left is not any more.
LEMMA OneLess ==
  ASSUME WellFormed(in), in' = in, NEW n \in Nodes, NEW j,
         \/ j = -1 /\ Unmeasured(n) /\ ~Unmeasured(n)'
         \/ j = 0 /\ index[n] = -1 /\ index'[n] # -1
         \/ j \in All(n) /\ index[n] # -1 /\ index'[n] # -1 /\ j \in AheadOf(n) /\ j \notin AheadOf(n)'
  PROVE  Less(n)
<1>1. j \in LeftFor(n)
  BY LeftIs
<1>2. j \in LeftFor(n)' <=> \/ j = -1 /\ Unmeasured(n)'
                            \/ j = 0 /\ index'[n] = -1
                            \/ j \in All(n) /\ (index'[n] = -1 \/ j \in AheadOf(n)')
  BY DEF LeftFor, Unmeasured, All, AheadOf
<1>3. j \notin LeftFor(n)'
  BY <1>2, AllIs
<1> QED
  BY <1>1, <1>3 DEF Less

\* A visit is one step less for the function that is visited.
LEMMA EnterIsLess ==
  ASSUME SearchInv, NEW n \in Nodes, index[n] = -1, Enter(n)
  PROVE  (\A m \in Nodes : LessFor(m)) /\ Less(n)
<1>1. /\ TypeOK /\ WellFormed(in) /\ in' = in /\ depth' = depth /\ sccs' = sccs
      /\ index'[n] = counter /\ \A m \in Nodes \ {n} : index'[m] = index[m]
      /\ Len(calls') = Len(calls) + 1 /\ calls'[Len(calls) + 1].fn = n
      /\ \A k \in DOMAIN calls : calls'[k] = calls[k]
      /\ calls \in Seq(Activation) /\ calls' \in Seq(Activation) /\ counter \in Nat
  BY EnterSets DEF SearchInv, TypeOK
<1>2. \A m \in Nodes : Unmeasured(m)' <=> Unmeasured(m)
  BY <1>1 DEF Unmeasured
<1>3. ASSUME NEW m \in Nodes, index[m] # -1 PROVE AheadOf(m)' \subseteq AheadOf(m)
  <2>1. m # n
    BY <1>3
  <2>2. ASSUME NEW k \in DOMAIN calls', calls'[k].fn = m PROVE k \in DOMAIN calls /\ calls'[k] = calls[k]
    <3>1. k # Len(calls) + 1
      BY <2>1, <2>2, <1>1
    <3>2. k \in DOMAIN calls
      BY <3>1, <1>1
    <3> QED
      BY <3>2, <1>1
  <2>3. ASSUME NEW j \in AheadOf(m)' PROVE j \in AheadOf(m)
    <3>1. j \in All(m) /\ \E k \in DOMAIN calls' : calls'[k].fn = m /\ calls'[k].at <= j
      BY <2>3, <1>1 DEF AheadOf, All
    <3>2. PICK k \in DOMAIN calls' : calls'[k].fn = m /\ calls'[k].at <= j
      BY <3>1
    <3>3. k \in DOMAIN calls /\ calls[k].fn = m /\ calls[k].at <= j
      BY <3>2, <2>2
    <3> QED
      BY <3>1, <3>3 DEF AheadOf
  <2> QED
    BY <2>3
<1>4. ASSUME NEW m \in Nodes, index'[m] = -1 PROVE index[m] = -1
  BY <1>1, <1>4
<1>5. \A m \in Nodes : LessFor(m)
  BY <1>1, <1>2, <1>3, <1>4, LessByParts
<1>6. Less(n)
  <2>1. index'[n] # -1
    BY <1>1
  <2> QED
    BY <2>1, <1>1, OneLess
<1> QED
  BY <1>5, <1>6

\* When an activation is gone or further on, and no other steps back, the
\* place where it was is one step less.
LEMMA FurtherIsLess ==
  ASSUME SearchInv, calls # <<>>, in' = in, index' = index,
         \A n \in Nodes : Unmeasured(n)' => Unmeasured(n),
         \A k \in DOMAIN calls' : /\ k \in DOMAIN calls /\ calls'[k].fn = calls[k].fn
                                  /\ calls[k].at <= calls'[k].at
                                  /\ calls'[k].at \in Nat
                                  /\ k = Len(calls) => calls[k].at < calls'[k].at
  PROVE  (\A n \in Nodes : LessFor(n)) /\ Less(Active.fn)
<1>1. TypeOK /\ WellFormed(in) /\ IndexInv /\ CallsInv
  BY DEF SearchInv, TypeOK
<1>2. PICK K, f, at : K = Len(calls) /\ f = Active.fn /\ at = Active.at
  OBVIOUS
<1>3. /\ K \in DOMAIN calls /\ f \in Nodes /\ f \in OnStack /\ at \in Nat \ {0}
      /\ at <= Len(in.callees[f]) + 1
      /\ calls[K].fn = f /\ calls[K].at = at
      /\ \A k \in DOMAIN calls : calls[k].fn = f => k = K
  BY <1>2, ActiveIs DEF Active
<1>4. \A k \in DOMAIN calls : calls[k].at \in Nat
  BY <1>1, CallTypes
<1>5. ASSUME NEW n \in Nodes, NEW j \in AheadOf(n)' PROVE j \in AheadOf(n)
  <2>1. j \in All(n) /\ \E k \in DOMAIN calls' : calls'[k].fn = n /\ calls'[k].at <= j
    BY <1>5 DEF AheadOf, All
  <2>2. PICK k \in DOMAIN calls' : calls'[k].fn = n /\ calls'[k].at <= j
    BY <2>1
  <2>3. k \in DOMAIN calls /\ calls[k].fn = n /\ calls[k].at <= calls'[k].at /\ calls'[k].at \in Nat
    BY <2>2
  <2>4. calls[k].at <= j
    BY <2>1, <2>2, <2>3, <1>1, <1>4, AllIs
  <2> QED
    BY <2>1, <2>3, <2>4 DEF AheadOf
<1>6. \A n \in Nodes : LessFor(n)
  BY <1>1, <1>5, LessByParts
<1>7. at \in All(f)
  <2>1. Len(in.callees[f]) \in Nat
    BY <1>1, <1>3 DEF WellFormed
  <2> QED
    BY <2>1, <1>3 DEF All
<1>8. at \in AheadOf(f)
  BY <1>3, <1>7 DEF AheadOf
<1>9. at \notin AheadOf(f)'
  <2> SUFFICES ASSUME at \in AheadOf(f)' PROVE FALSE
    OBVIOUS
  <2>1. PICK k \in DOMAIN calls' : calls'[k].fn = f /\ calls'[k].at <= at
    BY DEF AheadOf
  <2>2. k = K
    BY <2>1, <1>3
  <2>3. at < calls'[k].at /\ calls'[k].at \in Nat
    BY <2>1, <2>2, <1>2, <1>3
  <2> QED
    BY <2>1, <2>3, <1>3
<1>10. index[f] # -1
  BY <1>1, <1>3 DEF IndexInv, Visited
<1>11. Less(f)
  BY <1>1, <1>3, <1>7, <1>8, <1>9, <1>10, OneLess
<1> QED
  BY <1>2, <1>6, <1>11

\* Measuring is one step less for the functions of the component.
LEMMA SetDepthIsLess ==
  ASSUME Inv, SetDepth
  PROVE  (\A n \in Nodes : LessFor(n)) /\ (\E n \in Nodes : Less(n))
<1>1. PICK i : i = Len(depth) + 1
  OBVIOUS
<1>2. /\ TypeOK /\ WellFormed(in) /\ ComponentsInv
      /\ UNCHANGED <<in, index, low, counter, stack, calls, sccs>>
      /\ depth' = Append(depth, NewDepth(i)) /\ Len(depth) < Len(sccs)
  BY <1>1 DEF Inv, SearchInv, TypeOK, SetDepth
<1>3. PICK d : d = NewDepth(i)
  OBVIOUS
<1>4. /\ depth \in Seq({-1} \cup (Nat \ {0})) /\ sccs \in Seq(SUBSET Nodes)
      /\ depth' = Append(depth, d)
  BY <1>2, <1>3 DEF TypeOK
<1>5. /\ DOMAIN depth = 1 .. Len(depth) /\ Len(depth) \in Nat /\ DOMAIN depth' = 1 .. i
      /\ DOMAIN sccs = 1 .. Len(sccs) /\ Len(sccs) \in Nat
  BY <1>1, <1>4
<1>6. i \in DOMAIN sccs /\ i \notin DOMAIN depth /\ i \in DOMAIN depth' /\ DOMAIN depth \subseteq DOMAIN depth'
      /\ DOMAIN depth \subseteq DOMAIN sccs
  BY <1>1, <1>2, <1>5
<1>7. PICK n \in sccs[i] : n \in Nodes
  BY <1>2, <1>4, <1>6 DEF ComponentsInv
<1>8. \A m \in Nodes : Unmeasured(m)' => Unmeasured(m)
  BY <1>2, <1>6 DEF Unmeasured
<1>9. \A m \in Nodes : AheadOf(m)' = AheadOf(m)
  BY <1>2 DEF AheadOf, All
<1>10. \A m \in Nodes : LessFor(m)
  BY <1>2, <1>8, <1>9, LessByParts
<1>11. Unmeasured(n)
  BY <1>2, <1>6, <1>7 DEF ComponentsInv, Unmeasured
<1>12. ~Unmeasured(n)'
  BY <1>2, <1>6, <1>7 DEF Unmeasured
<1>13. Less(n)
  BY <1>2, <1>7, <1>11, <1>12, OneLess
<1> QED
  BY <1>7, <1>10, <1>13

\* Every step is one step less.
LEMMA StepIsLess ==
  ASSUME Inv, Next
  PROVE  \/ UNCHANGED vars
         \/ (\A n \in Nodes : LessFor(n)) /\ (\E n \in Nodes : Less(n))
<1>0. SearchInv /\ TypeOK /\ WellFormed(in)
  BY DEF Inv, SearchInv, TypeOK
<1>1. CASE StartRoot
  <2>1. PICK i \in DOMAIN in.keys : index[in.keys[i]] = -1 /\ Enter(in.keys[i])
    BY <1>1 DEF StartRoot
  <2>2. PICK n \in Nodes : n = in.keys[i]
    BY <1>0 DEF WellFormed
  <2> QED
    BY <1>0, <2>1, <2>2, EnterIsLess
<1>2. CASE Descend
  <2>1. calls # <<>> /\ AtCallee /\ index[Callee] = -1 /\ Enter(Callee)
    BY <1>2 DEF Descend, AtCallee
  <2>2. PICK n \in Nodes : n = Callee
    BY <1>0, <2>1, ActiveIs
  <2> QED
    BY <1>0, <2>1, <2>2, EnterIsLess
<1>3. CASE PassBy
  <2>1. PICK K : K = Len(calls)
    OBVIOUS
  <2>2. /\ UNCHANGED <<in, index, sccs, depth>> /\ calls # <<>>
        /\ calls' = [calls EXCEPT ![K].at = @ + 1]
    BY <1>3, <2>1 DEF PassBy, AtCallee
  <2>3. calls \in Seq(Activation) /\ DOMAIN calls = 1 .. K /\ K \in DOMAIN calls
    BY <1>0, <2>1, <2>2, ActiveIs DEF TypeOK
  <2>4. DOMAIN calls' = DOMAIN calls
    BY <2>2, <2>3
  <2>5. ASSUME NEW k \in DOMAIN calls
        PROVE  /\ calls'[k].fn = calls[k].fn /\ calls[k].at <= calls'[k].at /\ calls'[k].at \in Nat
               /\ k = K => calls[k].at < calls'[k].at
    <3>1. calls[k] \in [fn : Nodes, at : Nat \ {0}]
      <4>1. calls[k] \in Activation
        BY <2>3
      <4> QED
        BY <4>1 DEF Activation
    <3>2. CASE k = K
      <4>1. calls'[k] = [calls[k] EXCEPT !.at = @ + 1]
        BY <2>2, <2>3, <3>2
      <4> QED
        BY <3>1, <4>1
    <3>3. CASE k # K
      <4>1. calls'[k] = calls[k]
        BY <2>2, <2>3, <3>3
      <4> QED
        BY <3>1, <3>3, <4>1
    <3> QED
      BY <3>2, <3>3
  <2>6. \A n \in Nodes : Unmeasured(n)' => Unmeasured(n)
    BY <2>2 DEF Unmeasured
  <2>7. Active.fn \in Nodes
    BY <1>0, <2>2, ActiveIs
  <2> QED
    BY <1>0, <2>1, <2>2, <2>4, <2>5, <2>6, <2>7, FurtherIsLess
<1>4. CASE Return
  <2>1. PICK K, f : K = Len(calls) /\ f = Active.fn
    OBVIOUS
  <2>2. Returned(K, f) /\ calls # <<>>
    BY <1>0, <1>4, <2>1, ReturnSets DEF Return
  <2>3. /\ in' = in /\ index' = index /\ depth' = depth
        /\ DOMAIN calls' = 1 .. K - 1 /\ DOMAIN calls = 1 .. K /\ K \in Nat /\ f \in Nodes
        /\ calls \in Seq(Activation)
        /\ \A k \in 1 .. K - 1 : calls'[k].fn = calls[k].fn
        /\ \A k \in 1 .. K - 2 : calls'[k] = calls[k]
        /\ K - 1 >= 1 => calls'[K - 1].at = calls[K - 1].at + 1
    BY <1>0, <2>1, <2>2, ActiveIs DEF Returned, TypeOK
  <2>4. ASSUME NEW k \in DOMAIN calls'
        PROVE  /\ k \in DOMAIN calls /\ calls'[k].fn = calls[k].fn /\ calls[k].at <= calls'[k].at
               /\ calls'[k].at \in Nat /\ k # K
    <3>1. k \in DOMAIN calls /\ k # K /\ k \in 1 .. K - 1
      BY <2>3
    <3>2. calls[k].at \in Nat
      <4>1. calls[k].at \in Nat \ {0}
        BY <1>0, <3>1, CallTypes DEF SearchInv
      <4> QED
        BY <4>1
    <3>3. CASE k = K - 1
      BY <3>1, <3>2, <3>3, <2>3
    <3>4. CASE k # K - 1
      <4>1. k \in 1 .. K - 2
        BY <3>1, <3>4, <2>3
      <4> QED
        BY <3>1, <3>2, <4>1, <2>3
    <3> QED
      BY <3>3, <3>4
  <2>5. \A n \in Nodes : Unmeasured(n)' => Unmeasured(n)
    <3>1. depth = <<>>
      BY <2>2 DEF Inv, DepthInv, SearchOver
    <3> QED
      BY <2>3, <3>1 DEF Unmeasured
  <2> QED
    BY <1>0, <2>1, <2>2, <2>3, <2>4, <2>5, FurtherIsLess
<1>5. CASE SetDepth
  BY <1>5, SetDepthIsLess
<1>6. CASE Stopped
  BY <1>6 DEF Stopped
<1> QED
  BY <1>1, <1>2, <1>3, <1>4, <1>5, <1>6 DEF Next

(***************************************************************************)
(* For every call graph, with whatever cycles: every step of the search    *)
(* and of the depth pass takes something from what is left to do, and no   *)
(* step puts anything back.  What is left at first is finite, so neither   *)
(* runs for ever, and StrongConnect is entered once per function.          *)
(***************************************************************************)
THEOREM NothingIsDoneTwice == Spec => NothingTwice
<1>1. Inv /\ [Next]_vars
      => [/\ \A n \in Nodes : LeftFor(n)' \subseteq LeftFor(n)
          /\ \E n \in Nodes : LeftFor(n)' # LeftFor(n)]_vars
  BY StepIsLess DEF LessFor, Less
<1> QED
  BY <1>1, AlwaysInv, PTL DEF Spec, NothingTwice
=============================================================================
