-------------------------- MODULE RTWorklistProofs --------------------------
(***************************************************************************)
(* Theorems about RTWorklist, for every set of functions and every         *)
(* well-formed input.                                                      *)
(***************************************************************************)
EXTENDS RTWorklist, RTInduction, SequenceTheorems, FiniteSetTheorems

(***************************************************************************)
(* The picks of the loop exist: a non-empty set of call positions has a    *)
(* first one, a non-empty set of heap kinds a worst one.                   *)
(***************************************************************************)
LEMMA FirstIsFirst ==
  ASSUME NEW S \in SUBSET Nat, S # {}
  PROVE  First(S) \in S /\ \A j \in S : First(S) <= j
<1> DEFINE Below(n) == {m \in S : m <= n}
           Segments == {Below(n) : n \in S}
<1>1. Segments \subseteq FiniteSubsetsOf(Nat)
  <2>1. ASSUME NEW n \in S PROVE IsFiniteSet(Below(n))
    BY FS_BoundedSetOfNaturals DEF Below
  <2> QED
    BY <2>1 DEF FiniteSubsetsOf, Segments
<1>2. PICK Z \in Segments : \A Y \in Segments : <<Y, Z>> \notin StrictSubsetOrdering(Nat)
  <2>1. Segments # {}
    BY DEF Segments
  <2> HIDE DEF Segments
  <2>2. IsWellFoundedOn(StrictSubsetOrdering(Nat), FiniteSubsetsOf(Nat))
    BY FS_StrictSubsetOrderingWellFounded
  <2>3. \E Z \in Segments : \A Y \in Segments : ~(<<Y, Z>> \in StrictSubsetOrdering(Nat))
    BY <1>1, <2>1, <2>2, WFMin
  <2> QED
    BY <2>3
<1>3. PICK x \in S : Z = Below(x)
  BY DEF Segments
<1>4. ASSUME NEW y \in S, y < x PROVE FALSE
  <2>0. x \in Nat /\ y \in Nat /\ \A m \in S : m \in Nat
    OBVIOUS
  <2>1. ASSUME NEW m \in Below(y) PROVE m \in Below(x)
    <3>1. m \in S /\ m \in Nat /\ m <= y
      BY <2>0 DEF Below
    <3>2. m <= x
      BY <3>1, <2>0, <1>4
    <3> QED
      BY <3>1, <3>2 DEF Below
  <2>2. x \in Below(x) /\ x \notin Below(y)
    BY <2>0, <1>4 DEF Below
  <2>3. <<Below(y), Below(x)>> \in StrictSubsetOrdering(Nat)
    BY <2>1, <2>2 DEF StrictSubsetOrdering, Below
  <2> QED
    BY <1>2, <1>3, <2>3 DEF Segments
<1>5. \A y \in S : x <= y
  BY <1>4
<1> QED
  BY <1>5 DEF First

\* Most picks a greatest heap kind.
LEMMA MostIsMost ==
  ASSUME NEW S \in SUBSET HeapKinds, S # {}
  PROVE  Most(S) \in S /\ \A j \in S : j <= Most(S)
<1>1. \E h \in S : \A j \in S : j <= h
  <2> USE DEF HeapKinds
  <2>1. CASE 4 \in S
    BY <2>1
  <2>2. CASE 4 \notin S /\ 3 \in S
    BY <2>2
  <2>3. CASE 4 \notin S /\ 3 \notin S /\ 2 \in S
    BY <2>3
  <2>4. CASE 4 \notin S /\ 3 \notin S /\ 2 \notin S /\ 1 \in S
    BY <2>4
  <2>5. CASE 4 \notin S /\ 3 \notin S /\ 2 \notin S /\ 1 \notin S
    <3>1. \A j \in S : j \in {0, 1, 2, 3, 4}
      OBVIOUS
    <3>2. \A j \in S : j = 0
      BY <3>1, <2>5
    <3>3. PICK h \in S : TRUE
      OBVIOUS
    <3> QED
      BY <3>2, <3>3
  <2> QED
    BY <2>1, <2>2, <2>3, <2>4, <2>5
<1> QED
  BY <1>1 DEF Most
-----------------------------------------------------------------------------
(***************************************************************************)
(* A call of f leads to a function, and a chain taken over through it is a *)
(* chain: the call's frame, then the callee's chain.                       *)
(***************************************************************************)
LEMMA HopTypes ==
  ASSUME TypeOK, NEW f \in Funcs, NEW i \in DOMAIN in.hops[f]
  PROVE  /\ i \in Nat
         /\ in.hops[f][i] \in Hop
         /\ in.hops[f][i].callee \in Funcs
         /\ Inherited(f, i) \in Summary
<1>1. in.hops[f] \in Seq(Hop)
  BY DEF TypeOK, WellFormed, InputType
<1>2. i \in Nat /\ in.hops[f][i] \in Hop
  BY <1>1, ElementOfSeq, LenProperties
<1> QED
  BY <1>2 DEF TypeOK, Inherited, Hop

\* A chain seen through a call is a chain, one frame longer.
LEMMA ThroughIsChain ==
  ASSUME TypeOK, NEW f \in Funcs, NEW i \in DOMAIN in.hops[f], NEW ch \in Chain
  PROVE  /\ Through(f, i, ch) \in Chain
         /\ Through(f, i, ch) # <<>>
         /\ Len(Through(f, i, ch)) = Len(ch) + 1
         /\ Through(f, i, ch)[1] = [fn |-> f, callee |-> in.hops[f][i].callee,
                                    kind |-> in.hops[f][i].kind]
         /\ \A j \in 1 .. Len(ch) : Through(f, i, ch)[j+1] = ch[j]
<1> DEFINE fr == [fn |-> f, callee |-> in.hops[f][i].callee, kind |-> in.hops[f][i].kind]
<1>1. fr \in Frame
  BY HopTypes DEF Hop, Frame
<1>2. <<fr>> \in Seq(Frame) /\ Len(<<fr>>) = 1 /\ <<fr>>[1] = fr
  BY <1>1
<1>3. Through(f, i, ch) = <<fr>> \o ch
  BY DEF Through
<1> HIDE DEF fr
<1>4. /\ <<fr>> \o ch \in Seq(Frame)
      /\ Len(<<fr>> \o ch) = Len(<<fr>>) + Len(ch)
      /\ \A j \in 1 .. Len(<<fr>>) + Len(ch) :
            (<<fr>> \o ch)[j] = IF j <= Len(<<fr>>) THEN <<fr>>[j] ELSE ch[j - Len(<<fr>>)]
  BY <1>2, ConcatProperties DEF Chain
<1>5. Len(ch) \in Nat
  BY LenProperties DEF Chain
<1>6. Len(<<fr>> \o ch) = Len(ch) + 1
  BY <1>2, <1>4, <1>5
<1>7. <<fr>> \o ch # <<>>
  BY <1>4, <1>5, <1>6, EmptySeq
<1>8. (<<fr>> \o ch)[1] = fr
  BY <1>2, <1>4, <1>5
<1>9. \A j \in 1 .. Len(ch) : (<<fr>> \o ch)[j+1] = ch[j]
  BY <1>2, <1>4, <1>5
<1> QED
  BY <1>3, <1>4, <1>6, <1>7, <1>8, <1>9 DEF Chain, fr

(***************************************************************************)
(* What a visit makes of an effect: the direct chain, or a chain through a *)
(* call whose callee has the effect; it has the effect exactly if the      *)
(* function has it directly or one of its callees has it.                  *)
(***************************************************************************)
LEMMA MergedChainShape ==
  ASSUME TypeOK, NEW f \in Funcs, NEW k \in Kinds
  PROVE  /\ MergedChain(f, k) \in Chain
         /\ \/ MergedChain(f, k) = in.direct[f].chain[k]
            \/ \E i \in DOMAIN in.hops[f] :
                  /\ Carries(Inherited(f, i), k)
                  /\ MergedChain(f, k) = Through(f, i, Inherited(f, i).chain[k])
         /\ MergedChain(f, k) # <<>> <=>
              \/ Carries(in.direct[f], k)
              \/ \E i \in DOMAIN in.hops[f] : Carries(Inherited(f, i), k)
<1>1. in.direct[f].chain[k] \in Chain
  BY DEF TypeOK, WellFormed, InputType, Summary
<1>2. CASE Carries(in.direct[f], k) \/ Carriers(f, k) = {}
  <2>1. MergedChain(f, k) = in.direct[f].chain[k]
    BY <1>2 DEF MergedChain
  <2>2. MergedChain(f, k) # <<>> <=> Carries(in.direct[f], k)
    BY <2>1 DEF Carries
  <2>3. Carries(in.direct[f], k) \/ ~ \E i \in DOMAIN in.hops[f] : Carries(Inherited(f, i), k)
    BY <1>2 DEF Carriers
  <2> QED
    BY <1>1, <2>1, <2>2, <2>3
<1>3. CASE ~Carries(in.direct[f], k) /\ Carriers(f, k) # {}
  <2> DEFINE i == First(Carriers(f, k))
  <2>1. Carriers(f, k) \subseteq DOMAIN in.hops[f] /\ Carriers(f, k) \subseteq Nat
    BY HopTypes DEF Carriers
  <2>2. i \in Carriers(f, k)
    BY <1>3, <2>1, FirstIsFirst
  <2>3. MergedChain(f, k) = Through(f, i, Inherited(f, i).chain[k])
    BY <1>3 DEF MergedChain
  <2> HIDE DEF i
  <2>4. i \in DOMAIN in.hops[f] /\ Carries(Inherited(f, i), k)
    BY <2>2 DEF Carriers
  <2>5. Inherited(f, i).chain[k] \in Chain
    BY <2>4, HopTypes DEF Summary
  <2>6. /\ Through(f, i, Inherited(f, i).chain[k]) \in Chain
        /\ Through(f, i, Inherited(f, i).chain[k]) # <<>>
    BY <2>4, <2>5, ThroughIsChain
  <2>7. MergedChain(f, k) \in Chain /\ MergedChain(f, k) # <<>>
    BY <2>3, <2>6
  <2> QED
    BY <2>3, <2>4, <2>7
<1> QED
  BY <1>2, <1>3

(***************************************************************************)
(* The same for memory: the heap kind is the worst of the function's own   *)
(* and its callees', and the chain comes from where that one is.           *)
(***************************************************************************)
LEMMA MergedHeapShape ==
  ASSUME TypeOK, NEW f \in Funcs
  PROVE  /\ MergedHeap(f) \in HeapKinds
         /\ in.direct[f].heap <= MergedHeap(f)
         /\ \A i \in DOMAIN in.hops[f] : Inherited(f, i).heap <= MergedHeap(f)
         /\ MergedHeapChain(f) \in Chain
         /\ \/ /\ MergedHeap(f) = in.direct[f].heap
               /\ MergedHeapChain(f) = in.direct[f].heapChain
            \/ /\ MergedHeap(f) # in.direct[f].heap
               /\ \E i \in DOMAIN in.hops[f] :
                     /\ Inherited(f, i).heap = MergedHeap(f)
                     /\ MergedHeapChain(f) = Through(f, i, Inherited(f, i).heapChain)
<1> DEFINE Offered == {in.direct[f].heap} \cup {Inherited(f, i).heap : i \in DOMAIN in.hops[f]}
<1>1. in.direct[f].heap \in HeapKinds /\ in.direct[f].heapChain \in Chain
  BY DEF TypeOK, WellFormed, InputType, Summary
<1>2. \A i \in DOMAIN in.hops[f] : /\ Inherited(f, i).heap \in HeapKinds
                                   /\ Inherited(f, i).heapChain \in Chain
  BY HopTypes DEF Summary
<1>3. Offered \in SUBSET HeapKinds /\ Offered # {}
  BY <1>1, <1>2
<1>4. MergedHeap(f) \in Offered /\ \A h \in Offered : h <= MergedHeap(f)
  BY <1>3, MostIsMost DEF MergedHeap
<1>5. CASE MergedHeap(f) = in.direct[f].heap
  BY <1>1, <1>3, <1>4, <1>5 DEF MergedHeapChain
<1>6. CASE MergedHeap(f) # in.direct[f].heap
  <2> DEFINE Sites == {j \in DOMAIN in.hops[f] : Inherited(f, j).heap = MergedHeap(f)}
             i == First(Sites)
  <2>1. Sites # {}
    BY <1>4, <1>6
  <2>2. Sites \in SUBSET Nat
    BY HopTypes
  <2>3. i \in Sites
    BY <2>1, <2>2, FirstIsFirst
  <2>4. MergedHeapChain(f) = Through(f, i, Inherited(f, i).heapChain)
    BY <1>6 DEF MergedHeapChain
  <2> HIDE DEF i
  <2>5. i \in DOMAIN in.hops[f] /\ Inherited(f, i).heap = MergedHeap(f)
    BY <2>3
  <2>6. MergedHeapChain(f) \in Chain
    <3>1. Inherited(f, i).heapChain \in Chain
      BY <1>2, <2>5
    <3>2. Through(f, i, Inherited(f, i).heapChain) \in Chain
      <4> HIDE DEF Offered, Sites
      <4> QED
        BY <3>1, <2>5, ThroughIsChain
    <3> QED
      BY <2>4, <3>2
  <2> QED
    BY <1>3, <1>4, <1>6, <2>4, <2>5, <2>6, SMTT(30)
<1> QED
  BY <1>5, <1>6

\* A visit computes a summary.
LEMMA NewSummaryType ==
  ASSUME TypeOK, NEW f \in Funcs
  PROVE  NewSummary(f) \in Summary
BY MergedChainShape, MergedHeapShape DEF NewSummary, Summary
-----------------------------------------------------------------------------
(***************************************************************************)
(* A visit changes the summary of the queue's head only, and to what was   *)
(* computed for it; if it is not changed, nothing was to be changed.       *)
(***************************************************************************)
LEMMA QueueHead ==
  ASSUME TypeOK, worklist # <<>>
  PROVE  /\ Head(worklist) \in Funcs
         /\ Tail(worklist) \in Seq(Funcs)
         /\ \A f \in Funcs : Queued(f) =>
               \/ f = Head(worklist)
               \/ \E i \in DOMAIN Tail(worklist) : Tail(worklist)[i] = f
<1>1. worklist \in Seq(Funcs)
  BY DEF TypeOK
<1>2. /\ Head(worklist) \in Funcs
      /\ Tail(worklist) \in Seq(Funcs)
      /\ Len(Tail(worklist)) = Len(worklist) - 1
      /\ \A i \in 1 .. Len(Tail(worklist)) : Tail(worklist)[i] = worklist[i+1]
  BY <1>1, HeadTailProperties
<1>3. Head(worklist) = worklist[1]
  BY <1>1
<1>4. /\ DOMAIN worklist = 1 .. Len(worklist) /\ Len(worklist) \in Nat
      /\ DOMAIN Tail(worklist) = 1 .. Len(Tail(worklist))
  BY <1>1, <1>2, LenProperties
<1>5. ASSUME NEW f \in Funcs, NEW i \in DOMAIN worklist, worklist[i] = f, i # 1
      PROVE  \E j \in DOMAIN Tail(worklist) : Tail(worklist)[j] = f
  <2>1. i - 1 \in DOMAIN Tail(worklist)
    BY <1>2, <1>4, <1>5
  <2>2. Tail(worklist)[i-1] = worklist[i]
    BY <1>2, <1>4, <1>5, <2>1
  <2> QED
    BY <1>5, <2>1, <2>2
<1> QED
  BY <1>2, <1>3, <1>5 DEF Queued

\* What one visit does to the state.
LEMMA Visit ==
  ASSUME TypeOK, Process
  PROVE  LET f == Head(worklist)
         IN  /\ f \in Funcs
             /\ in' = in
             /\ \A g \in Funcs \ {f} : summ'[g] = summ[g]
             /\ \A g \in Funcs \ {f} : witness'[g] = witness[g]
             /\ witness'[f] = witness[f] \cup UNION {{i} \X Tags(f, i) : i \in DOMAIN in.hops[f]}
             /\ \/ Same(NewSummary(f), summ[f]) /\ summ' = summ
                \/ summ'[f] = NewSummary(f)
BY QueueHead DEF Process, TypeOK

\* What one visit does to the queue.
LEMMA QueueAfterVisit ==
  ASSUME TypeOK, Process
  PROVE  LET f == Head(worklist)
         IN  /\ worklist' \in Seq(Funcs)
             /\ \A g \in Funcs \ {f} : Queued(g) => Queued(g)'
             /\ \/ summ' = summ
                \/ \A g \in Funcs : Keeps(f, g) => Queued(g)'
<1> DEFINE f == Head(worklist)
<1>1. worklist # <<>> /\ f \in Funcs /\ Tail(worklist) \in Seq(Funcs)
  BY QueueHead DEF Process
<1>2. CASE Same(NewSummary(f), summ[f])
  <2>1. worklist' = Tail(worklist) /\ summ' = summ
    BY <1>2 DEF Process
  <2> QED
    BY <1>1, <2>1, QueueHead DEF Queued
<1>3. CASE ~Same(NewSummary(f), summ[f])
  <2>1. worklist' = Tail(worklist) \o in.callers[f]
    BY <1>3 DEF Process, Woken
  <2>2. in.callers[f] \in Seq(Funcs)
    BY <1>1 DEF TypeOK, WellFormed, InputType
  <2>3. DEFINE t == Tail(worklist)
               c == in.callers[f]
  <2>4. /\ t \o c \in Seq(Funcs)
        /\ Len(t \o c) = Len(t) + Len(c)
        /\ \A i \in 1 .. Len(t) + Len(c) :
              (t \o c)[i] = IF i <= Len(t) THEN t[i] ELSE c[i - Len(t)]
    BY <1>1, <2>2, ConcatProperties
  <2>5. /\ Len(t) \in Nat /\ DOMAIN t = 1 .. Len(t)
        /\ Len(c) \in Nat /\ DOMAIN c = 1 .. Len(c)
        /\ DOMAIN (t \o c) = 1 .. Len(t) + Len(c)
    BY <1>1, <2>2, <2>4, LenProperties
  <2>6. worklist' = t \o c
    BY <2>1
  <2> HIDE DEF t, c
  <2>7. ASSUME NEW i \in DOMAIN t PROVE i \in DOMAIN (t \o c) /\ (t \o c)[i] = t[i]
    BY <2>4, <2>5
  <2>8. ASSUME NEW i \in DOMAIN c
        PROVE  i + Len(t) \in DOMAIN (t \o c) /\ (t \o c)[i + Len(t)] = c[i]
    BY <2>4, <2>5
  <2>9. ASSUME NEW g \in Funcs, g # f, Queued(g) PROVE Queued(g)'
    <3>1. PICK i \in DOMAIN t : t[i] = g
      BY <1>1, <2>9, QueueHead DEF t
    <3> QED
      BY <2>6, <2>7, <3>1 DEF Queued
  <2>10. ASSUME NEW g \in Funcs, Keeps(f, g) PROVE Queued(g)'
    <3>1. PICK i \in DOMAIN c : c[i] = g
      BY <2>10 DEF Keeps, c
    <3> QED
      BY <2>6, <2>8, <3>1 DEF Queued
  <2> QED
    BY <2>4, <2>6, <2>9, <2>10
<1> QED
  BY <1>2, <1>3

\* Tags name calls and effects.
LEMMA TagTypes ==
  ASSUME TypeOK, NEW f \in Funcs
  PROVE  UNION {{i} \X Tags(f, i) : i \in DOMAIN in.hops[f]} \in SUBSET (Nat \X Kinds)
BY HopTypes, KindsAssumption DEF Tags, Effects

\* It holds at the start.
LEMMA TypeInit == Init => TypeOK
  BY InputsAssumption, SMTT(30) DEF Init, TypeOK, WellFormed, InputType

\* A visit keeps it.
LEMMA TypeStep == TypeOK /\ [Next]_vars => TypeOK'
<1> SUFFICES ASSUME TypeOK, [Next]_vars PROVE TypeOK'
  OBVIOUS
<1>1. CASE UNCHANGED vars
  BY <1>1 DEF TypeOK, vars
<1>2. CASE Process
  <2> DEFINE f == Head(worklist)
  <2>1. WellFormed(in)'
    <3>1. in' = in
      BY <1>2, Visit
    <3> QED
      BY <3>1 DEF TypeOK, WellFormed, InputType
  <2>2. summ' \in [Funcs -> Summary]
    <3>1. summ' = summ \/ summ' = [summ EXCEPT ![f] = NewSummary(f)]
      BY <1>2 DEF Process
    <3> QED
      BY <1>2, <3>1, Visit, NewSummaryType DEF TypeOK
  <2>3. worklist' \in Seq(Funcs)
    BY <1>2, QueueAfterVisit
  <2>4. witness' \in [Funcs -> SUBSET (Nat \X Kinds)]
    <3>1. f \in Funcs
      BY <1>2, Visit
    <3>2. witness' = [witness EXCEPT ![f] =
            @ \cup UNION {{i} \X Tags(f, i) : i \in DOMAIN in.hops[f]}]
      BY <1>2 DEF Process
    <3> QED
      BY <3>1, <3>2, TagTypes DEF TypeOK
  <2> QED
    BY <2>1, <2>2, <2>3, <2>4 DEF TypeOK
<1> QED
  BY <1>1, <1>2 DEF Next

(***************************************************************************)
(* Type correctness.                                                       *)
(***************************************************************************)
THEOREM TypeCorrect == Spec => []TypeOK
BY TypeInit, TypeStep, PTL DEF Spec
-----------------------------------------------------------------------------
(***************************************************************************)
(* A path stays a path with a call to its first function put in front.     *)
(***************************************************************************)
LEMMA PathExtends ==
  ASSUME TypeOK, NEW f \in Funcs, NEW i \in DOMAIN in.hops[f], NEW ch \in Chain,
         ch # <<>>, CallPath(in.hops[f][i].callee, ch)
  PROVE  CallPath(f, Through(f, i, ch))
<1> DEFINE t == Through(f, i, ch)
<1>1. /\ t \in Chain
      /\ t # <<>>
      /\ Len(t) = Len(ch) + 1
      /\ t[1] = [fn |-> f, callee |-> in.hops[f][i].callee, kind |-> in.hops[f][i].kind]
      /\ \A j \in 1 .. Len(ch) : t[j+1] = ch[j]
  BY ThroughIsChain
<1>2. /\ Len(ch) \in Nat \ {0}
      /\ DOMAIN ch = 1 .. Len(ch)
      /\ DOMAIN t = 1 .. Len(ch) + 1
  BY <1>1, LenProperties, EmptySeq DEF Chain
<1>3. in.hops[f][i].kind \in HopKinds
  BY HopTypes DEF Hop
<1> HIDE DEF t
<1>4. t[1].fn = f /\ t[1].kind \in HopKinds /\ t[1].callee = in.hops[f][i].callee
  BY <1>1, <1>3
<1>5. t[Len(t)].kind \in SourceKinds
  <2>1. t[Len(t)] = ch[Len(ch)]
    BY <1>1, <1>2
  <2> QED
    BY <2>1 DEF CallPath
<1>6. ASSUME NEW j \in DOMAIN t, j + 1 \in DOMAIN t
      PROVE  t[j+1].fn = IF t[j].kind \in HopKinds THEN t[j].callee ELSE t[j].fn
  <2>1. CASE j = 1
    <3>1. t[2] = ch[1]
      BY <1>1, <1>2
    <3> QED
      BY <2>1, <3>1, <1>4 DEF CallPath
  <2>2. CASE j # 1
    <3>1. j - 1 \in DOMAIN ch /\ (j - 1) + 1 \in DOMAIN ch /\ (j - 1) + 1 = j
      BY <1>2, <1>6, <2>2
    <3>2. t[j] = ch[j-1] /\ t[j+1] = ch[j]
      BY <1>1, <1>2, <3>1
    <3>3. ch[(j-1)+1].fn = IF ch[j-1].kind \in HopKinds THEN ch[j-1].callee ELSE ch[j-1].fn
      BY <3>1 DEF CallPath, Linked
    <3> QED
      BY <3>1, <3>2, <3>3
  <2> QED
    BY <2>1, <2>2
<1> QED
  BY <1>4, <1>5, <1>6 DEF CallPath, Linked, t

\* A chain of one's own frames is a path.
LEMMA DirectPath ==
  ASSUME NEW f \in Funcs, NEW ch \in Chain, SourceChain(f, ch)
  PROVE  CallPath(f, ch)
<1>1. /\ Len(ch) \in Nat /\ DOMAIN ch = 1 .. Len(ch)
      /\ ch # <<>> => Len(ch) # 0
  BY LenProperties, EmptySeq DEF Chain
<1>2. \A i \in DOMAIN ch : ch[i].kind \notin HopKinds
  BY DEF SourceChain, SourceKinds, HopKinds
<1> QED
  BY <1>1, <1>2 DEF SourceChain, CallPath, Linked

\* A real chain seen through a call is real.
LEMMA ThroughIsReal ==
  ASSUME TypeOK, NEW f \in Funcs, NEW i \in DOMAIN in.hops[f], NEW ch \in Chain
  PROVE  /\ \A k \in Kinds : RealFrames(ch, k) => RealFrames(Through(f, i, ch), k)
         /\ \A h \in HeapKinds : RealHeapFrames(ch, h) => RealHeapFrames(Through(f, i, ch), h)
<1> DEFINE t == Through(f, i, ch)
<1>1. /\ t \in Chain
      /\ Len(t) = Len(ch) + 1
      /\ t[1] = [fn |-> f, callee |-> in.hops[f][i].callee, kind |-> in.hops[f][i].kind]
      /\ \A j \in 1 .. Len(ch) : t[j+1] = ch[j]
  BY ThroughIsChain
<1>2. /\ Len(ch) \in Nat
      /\ DOMAIN ch = 1 .. Len(ch)
      /\ DOMAIN t = 1 .. Len(ch) + 1
  BY <1>1, LenProperties DEF Chain
<1>3. in.hops[f][i].kind \in HopKinds
  BY HopTypes DEF Hop
<1> HIDE DEF t
<1>4. t[1].kind \in HopKinds /\ HopFrame(t[1])
  BY <1>1, <1>3 DEF HopFrame
<1>5. \A j \in DOMAIN t : j = 1 \/ (j - 1 \in DOMAIN ch /\ t[j] = ch[j-1])
  BY <1>1, <1>2
<1> QED
  BY <1>4, <1>5 DEF RealFrames, RealHeapFrames, t

(***************************************************************************)
(* What a visit computes for f is genuine if all summaries are.            *)
(***************************************************************************)
LEMMA NewChainGenuine ==
  ASSUME TypeOK, ChainsGenuine, NEW f \in Funcs, NEW k \in Kinds
  PROVE  CallPath(f, MergedChain(f, k)) /\ RealFrames(MergedChain(f, k), k)
<1>1. CASE MergedChain(f, k) = in.direct[f].chain[k]
  <2> DEFINE ch == in.direct[f].chain[k]
  <2>1. ch \in Chain /\ SourceChain(f, ch)
    BY DEF TypeOK, WellFormed, InputType, Summary
  <2>2. CallPath(f, ch)
    BY <2>1, DirectPath
  <2>3. RealFrames(ch, k)
    BY <2>1 DEF RealFrames, SourceFrame, SourceChain, SourceKinds, HopKinds
  <2> QED
    BY <1>1, <2>2, <2>3
<1>2. ASSUME NEW i \in DOMAIN in.hops[f], Carries(Inherited(f, i), k),
             MergedChain(f, k) = Through(f, i, Inherited(f, i).chain[k])
      PROVE  CallPath(f, MergedChain(f, k)) /\ RealFrames(MergedChain(f, k), k)
  <2> DEFINE ch == Inherited(f, i).chain[k]
  <2>1. ch \in Chain /\ ch # <<>>
    BY <1>2, HopTypes DEF Summary, Carries
  <2>2. CallPath(in.hops[f][i].callee, ch) /\ RealFrames(ch, k)
    BY HopTypes DEF ChainsGenuine, GenuineChain, Inherited
  <2> HIDE DEF ch
  <2>3. CallPath(f, Through(f, i, ch))
    BY <2>1, <2>2, PathExtends
  <2>4. RealFrames(Through(f, i, ch), k)
    BY <2>1, <2>2, ThroughIsReal
  <2> QED
    BY <1>2, <2>3, <2>4 DEF ch
<1> QED
  BY <1>1, <1>2, MergedChainShape

\* The heap chain a visit computes is genuine.
LEMMA NewHeapGenuine ==
  ASSUME TypeOK, ChainsGenuine, NEW f \in Funcs
  PROVE  /\ CallPath(f, MergedHeapChain(f))
         /\ RealHeapFrames(MergedHeapChain(f), MergedHeap(f))
         /\ MergedHeap(f) = 0 <=> MergedHeapChain(f) = <<>>
<1>1. CASE MergedHeap(f) = in.direct[f].heap /\ MergedHeapChain(f) = in.direct[f].heapChain
  <2> DEFINE ch == in.direct[f].heapChain
  <2>1. ch \in Chain /\ SourceChain(f, ch)
    BY DEF TypeOK, WellFormed, InputType, Summary
  <2>2. CallPath(f, ch)
    BY <2>1, DirectPath
  <2>3. RealHeapFrames(ch, MergedHeap(f))
    BY <1>1, <2>1 DEF RealHeapFrames, HeapFrame, SourceChain, SourceKinds, HopKinds
  <2>4. in.direct[f].heap = 0 <=> in.direct[f].heapChain = <<>>
    BY DEF TypeOK, WellFormed
  <2> QED
    BY <1>1, <2>2, <2>3, <2>4
<1>2. ASSUME MergedHeap(f) # in.direct[f].heap,
             NEW i \in DOMAIN in.hops[f],
             Inherited(f, i).heap = MergedHeap(f),
             MergedHeapChain(f) = Through(f, i, Inherited(f, i).heapChain)
      PROVE  /\ CallPath(f, MergedHeapChain(f))
             /\ RealHeapFrames(MergedHeapChain(f), MergedHeap(f))
             /\ MergedHeap(f) = 0 <=> MergedHeapChain(f) = <<>>
  <2> DEFINE ch == Inherited(f, i).heapChain
  <2>1. MergedHeap(f) \in HeapKinds /\ MergedHeap(f) # 0
    <3>1. in.direct[f].heap \in HeapKinds
      BY DEF TypeOK, WellFormed, InputType, Summary
    <3>2. MergedHeap(f) \in HeapKinds /\ in.direct[f].heap <= MergedHeap(f)
      BY MergedHeapShape
    <3> QED
      BY <1>2, <3>1, <3>2 DEF HeapKinds
  <2>2. /\ CallPath(in.hops[f][i].callee, ch)
        /\ RealHeapFrames(ch, MergedHeap(f))
        /\ ch # <<>>
    BY <1>2, <2>1, HopTypes DEF ChainsGenuine, GenuineHeap, Inherited
  <2>3. ch \in Chain
    BY HopTypes DEF Summary
  <2> HIDE DEF ch
  <2>4. CallPath(f, Through(f, i, ch))
    BY <2>2, <2>3, PathExtends
  <2>5. RealHeapFrames(Through(f, i, ch), MergedHeap(f)) /\ Through(f, i, ch) # <<>>
    BY <2>1, <2>2, <2>3, ThroughIsReal, ThroughIsChain
  <2> QED
    BY <1>2, <2>1, <2>4, <2>5 DEF ch
<1> QED
  BY <1>1, <1>2, MergedHeapShape

(***************************************************************************)
(* A reported effect is real (ChainsGenuine), whatever the program and the *)
(* visiting order.                                                         *)
(***************************************************************************)
THEOREM ReportedEffectsAreReal == Spec => []ChainsGenuine
<1>1. TypeOK /\ Init => ChainsGenuine
  <2> SUFFICES ASSUME TypeOK, Init, NEW f \in Funcs
               PROVE  GenuineHeap(f) /\ \A k \in Kinds : GenuineChain(f, k)
    BY DEF ChainsGenuine
  <2>1. /\ in.direct[f].heapChain \in Chain /\ SourceChain(f, in.direct[f].heapChain)
        /\ in.direct[f].heap = 0 <=> in.direct[f].heapChain = <<>>
        /\ \A k \in Kinds : /\ in.direct[f].chain[k] \in Chain
                            /\ SourceChain(f, in.direct[f].chain[k])
    BY DEF TypeOK, WellFormed, InputType, Summary
  <2>2. summ[f] = in.direct[f]
    BY DEF Init
  <2>3. GenuineHeap(f)
    <3> DEFINE ch == in.direct[f].heapChain
    <3>1. ch \in Chain /\ SourceChain(f, ch)
      BY <2>1
    <3>2. CallPath(f, ch)
      BY <3>1, DirectPath
    <3>3. RealHeapFrames(ch, in.direct[f].heap)
      BY <3>1 DEF RealHeapFrames, HeapFrame, SourceChain, SourceKinds, HopKinds
    <3> HIDE DEF ch
    <3>4. in.direct[f].heap = 0 <=> ch = <<>>
      BY <2>1 DEF ch
    <3> QED
      BY <2>2, <3>2, <3>3, <3>4 DEF GenuineHeap, ch
  <2>4. ASSUME NEW k \in Kinds PROVE GenuineChain(f, k)
    <3> DEFINE ch == in.direct[f].chain[k]
    <3>1. ch \in Chain /\ SourceChain(f, ch)
      BY <2>1
    <3>2. CallPath(f, ch)
      BY <3>1, DirectPath
    <3>3. RealFrames(ch, k)
      BY <3>1 DEF RealFrames, SourceFrame, SourceChain, SourceKinds, HopKinds
    <3> QED
      BY <2>2, <3>2, <3>3 DEF GenuineChain
  <2> QED
    BY <2>3, <2>4
<1>2. TypeOK /\ ChainsGenuine /\ [Next]_vars => ChainsGenuine'
  <2> SUFFICES ASSUME TypeOK, ChainsGenuine, [Next]_vars, NEW g \in Funcs
               PROVE  GenuineHeap(g)' /\ \A k \in Kinds : GenuineChain(g, k)'
    BY DEF ChainsGenuine
  <2> USE DEF RealFrames, RealHeapFrames, HopFrame, SourceFrame, HeapFrame
  <2>1. in' = in
    BY Visit DEF Next, vars
  <2>2. CASE summ'[g] = summ[g]
    <3>1. GenuineHeap(g)'
      <4> DEFINE ch == summ[g].heapChain
                 h  == summ[g].heap
      <4>1. /\ CallPath(g, ch)
            /\ RealHeapFrames(ch, h)
            /\ h = 0 <=> ch = <<>>
        BY DEF ChainsGenuine, GenuineHeap
      <4>2. summ'[g].heapChain = ch /\ summ'[g].heap = h
        BY <2>2
      <4> HIDE DEF ch, h
      <4> QED
        BY <2>1, <4>1, <4>2, SMTT(30) DEF GenuineHeap
    <3>2. ASSUME NEW k \in Kinds PROVE GenuineChain(g, k)'
      <4>1. GenuineChain(g, k)
        BY DEF ChainsGenuine
      <4> QED
        BY <2>1, <2>2, <4>1, ZenonT(40) DEF GenuineChain
    <3> QED
      BY <3>1, <3>2
  <2>3. CASE summ'[g] = NewSummary(g)
    <3>1. /\ summ'[g].heap = MergedHeap(g)
          /\ summ'[g].heapChain = MergedHeapChain(g)
          /\ \A k \in Kinds : summ'[g].chain[k] = MergedChain(g, k)
      BY <2>3 DEF NewSummary
    <3>2. GenuineHeap(g)'
      BY <2>1, <3>1, NewHeapGenuine DEF GenuineHeap
    <3>3. ASSUME NEW k \in Kinds PROVE GenuineChain(g, k)'
      <4>1. CallPath(g, MergedChain(g, k)) /\ RealFrames(MergedChain(g, k), k)
        BY NewChainGenuine
      <4>2. summ'[g].chain[k] = MergedChain(g, k)
        BY <3>1
      <4> QED
        BY <2>1, <4>1, <4>2 DEF GenuineChain
    <3> QED
      BY <3>2, <3>3
  <2>4. summ'[g] = summ[g] \/ summ'[g] = NewSummary(g)
    BY Visit DEF Next, vars
  <2> QED
    BY <2>2, <2>3, <2>4
<1> QED
  BY <1>1, <1>2, TypeCorrect, PTL DEF Spec
-----------------------------------------------------------------------------
(***************************************************************************)
(* Why no visit takes anything back although it starts again from the      *)
(* direct effects: a function's present summary is never above what a      *)
(* visit would compute for it now.                                         *)
(***************************************************************************)
Rising == \A f \in Funcs : /\ Effects(summ[f]) \subseteq Effects(NewSummary(f))
                           /\ summ[f].heap <= MergedHeap(f)

\* The effects a visit computes: one's own and the callees'.
LEMMA NewEffects ==
  TypeOK => \A f \in Funcs : \A k \in Kinds :
     k \in Effects(NewSummary(f)) <=>
        \/ Carries(in.direct[f], k)
        \/ \E i \in DOMAIN in.hops[f] : Carries(Inherited(f, i), k)
<1> SUFFICES ASSUME TypeOK, NEW f \in Funcs, NEW k \in Kinds
             PROVE  k \in Effects(NewSummary(f)) <=>
                      \/ Carries(in.direct[f], k)
                      \/ \E i \in DOMAIN in.hops[f] : Carries(Inherited(f, i), k)
  OBVIOUS
<1>1. k \in Effects(NewSummary(f)) <=> MergedChain(f, k) # <<>>
  BY DEF Effects, NewSummary, Carries
<1> QED
  BY <1>1, MergedChainShape

\* The heap kind a visit computes: the worst of one's own and the callees'.
LEMMA NewHeap ==
  TypeOK => \A f \in Funcs :
     /\ MergedHeap(f) \in HeapKinds
     /\ in.direct[f].heap <= MergedHeap(f)
     /\ \A i \in DOMAIN in.hops[f] : Inherited(f, i).heap <= MergedHeap(f)
     /\ \/ MergedHeap(f) = in.direct[f].heap
        \/ \E i \in DOMAIN in.hops[f] : Inherited(f, i).heap = MergedHeap(f)
BY MergedHeapShape

\* NewEffects, of the next state.
LEMMA NewEffectsNext == TypeOK' => (\A f \in Funcs : \A k \in Kinds :
     k \in Effects(NewSummary(f)) <=>
        \/ Carries(in.direct[f], k)
        \/ \E i \in DOMAIN in.hops[f] : Carries(Inherited(f, i), k))'
BY NewEffects, PTL

\* NewHeap, of the next state.
LEMMA NewHeapNext == TypeOK' => (\A f \in Funcs :
     /\ MergedHeap(f) \in HeapKinds
     /\ in.direct[f].heap <= MergedHeap(f)
     /\ \A i \in DOMAIN in.hops[f] : Inherited(f, i).heap <= MergedHeap(f)
     /\ \/ MergedHeap(f) = in.direct[f].heap
        \/ \E i \in DOMAIN in.hops[f] : Inherited(f, i).heap = MergedHeap(f))'
BY NewHeap, PTL

\* Summaries that compare as the same have the same effects and heap kind.
LEMMA SameMeans ==
  ASSUME NEW s \in Summary, NEW t \in Summary, Same(s, t)
  PROVE  Effects(s) = Effects(t) /\ s.heap = t.heap
<1>1. ASSUME NEW k \in Kinds PROVE Carries(s, k) <=> Carries(t, k)
  <2>1. s.chain[k] \in Chain /\ t.chain[k] \in Chain
    BY DEF Summary
  <2>2. Reason(s.chain[k]) = Reason(t.chain[k])
    BY DEF Same
  <2>3. DOMAIN s.chain[k] = DOMAIN t.chain[k]
    BY <2>2 DEF Reason
  <2> QED
    BY <2>1, <2>3, EmptySeq, LenProperties DEF Chain, Carries
<1> QED
  BY <1>1 DEF Same, Effects

(***************************************************************************)
(* A step takes nothing back when the present summaries are Rising.        *)
(***************************************************************************)
LEMMA StepRises ==
  ASSUME TypeOK, Rising, Process
  PROVE  \A f \in Funcs : /\ Effects(summ[f]) \subseteq Effects(summ'[f])
                          /\ summ[f].heap <= summ'[f].heap
<1> SUFFICES ASSUME NEW f \in Funcs
             PROVE  /\ Effects(summ[f]) \subseteq Effects(summ'[f])
                    /\ summ[f].heap <= summ'[f].heap
  OBVIOUS
<1>1. summ'[f] = summ[f] \/ summ'[f] = NewSummary(f)
  BY Visit
<1>2. summ[f].heap <= summ[f].heap
  <2>1. summ[f].heap \in 0 .. 4
    BY DEF TypeOK, Summary, HeapKinds
  <2> QED
    BY <2>1
<1>3. NewSummary(f).heap = MergedHeap(f)
  BY DEF NewSummary
<1> QED
  BY <1>1, <1>2, <1>3 DEF Rising

(***************************************************************************)
(* What a visit of f would compute depends on the summaries of f's callees *)
(* alone.                                                                  *)
(***************************************************************************)
LEMMA OnlyCalleesMatter ==
  ASSUME TypeOK, in' = in, NEW f \in Funcs,
         \A i \in DOMAIN in.hops[f] : summ'[in.hops[f][i].callee] = summ[in.hops[f][i].callee]
  PROVE  NewSummary(f)' = NewSummary(f)
<1>1. \A i \in DOMAIN in.hops[f] : Inherited(f, i)' = Inherited(f, i)
  BY DEF Inherited
<1>2. ASSUME NEW k \in Kinds PROVE MergedChain(f, k)' = MergedChain(f, k)
  <2>1. Carriers(f, k)' = Carriers(f, k)
    BY <1>1 DEF Carriers
  <2>2. CASE Carries(in.direct[f], k) \/ Carriers(f, k) = {}
    BY <2>1, <2>2 DEF MergedChain
  <2>3. CASE ~Carries(in.direct[f], k) /\ Carriers(f, k) # {}
    <3>0. PICK i : i = First(Carriers(f, k))
      OBVIOUS
    <3>1. MergedChain(f, k) = Through(f, i, Inherited(f, i).chain[k])
      BY <2>3, <3>0 DEF MergedChain
    <3>2. MergedChain(f, k)' = Through(f, i, Inherited(f, i)'.chain[k])
      BY <2>1, <2>3, <3>0 DEF MergedChain, Through
    <3>3. Carriers(f, k) \subseteq DOMAIN in.hops[f] /\ Carriers(f, k) \subseteq Nat
      BY HopTypes DEF Carriers
    <3>4. i \in DOMAIN in.hops[f]
      BY <2>3, <3>0, <3>3, FirstIsFirst
    <3>5. Inherited(f, i)' = Inherited(f, i)
      BY <1>1, <3>4
    <3> QED
      BY <3>1, <3>2, <3>5
  <2> QED
    BY <2>2, <2>3
<1>3. MergedHeap(f)' = MergedHeap(f)
  <2>1. {Inherited(f, i)'.heap : i \in DOMAIN in.hops[f]}
          = {Inherited(f, i).heap : i \in DOMAIN in.hops[f]}
    BY <1>1
  <2> QED
    BY <2>1 DEF MergedHeap
<1>4. MergedHeapChain(f)' = MergedHeapChain(f)
  <2>1. CASE MergedHeap(f) = in.direct[f].heap
    BY <1>3, <2>1 DEF MergedHeapChain
  <2>2. CASE MergedHeap(f) # in.direct[f].heap
    <3> DEFINE Sites == {j \in DOMAIN in.hops[f] : Inherited(f, j).heap = MergedHeap(f)}
    <3>0. PICK i : i = First(Sites)
      OBVIOUS
    <3>1. Sites' = Sites
      BY <1>1, <1>3
    <3>2. MergedHeapChain(f) = Through(f, i, Inherited(f, i).heapChain)
      BY <2>2, <3>0 DEF MergedHeapChain
    <3>3. MergedHeapChain(f)' = Through(f, i, Inherited(f, i)'.heapChain)
      BY <1>3, <2>2, <3>0, <3>1 DEF MergedHeapChain, Through
    <3>4. Sites # {}
      BY <2>2, MergedHeapShape
    <3>5. Sites \in SUBSET Nat
      BY HopTypes
    <3>6. i \in DOMAIN in.hops[f]
      BY <3>0, <3>4, <3>5, FirstIsFirst
    <3> QED
      BY <1>1, <3>2, <3>3, <3>6
  <2> QED
    BY <2>1, <2>2
<1> QED
  BY <1>2, <1>3, <1>4 DEF NewSummary

\* At the start a visit can only add.
LEMMA RisingStart == TypeOK /\ Init => Rising
<1> SUFFICES ASSUME TypeOK, Init, NEW f \in Funcs
             PROVE  /\ Effects(summ[f]) \subseteq Effects(NewSummary(f))
                    /\ summ[f].heap <= MergedHeap(f)
  BY DEF Rising
<1>1. summ[f] = in.direct[f]
  BY DEF Init
<1> QED
  BY <1>1, NewEffects, NewHeap DEF Effects

\* Every step leaves a visit able only to add.
LEMMA RisingStep == TypeOK /\ TypeOK' /\ Rising /\ [Next]_vars => Rising'
<1> SUFFICES ASSUME TypeOK, TypeOK', Rising, [Next]_vars PROVE Rising'
  OBVIOUS
<1>1. CASE UNCHANGED vars
  <2>1. in' = in /\ summ' = summ
    BY <1>1 DEF vars
  <2>2. \A f \in Funcs : NewSummary(f)' = NewSummary(f)
    BY <2>1, OnlyCalleesMatter
  <2>3. \A f \in Funcs : NewSummary(f).heap = MergedHeap(f) /\ NewSummary(f)'.heap = MergedHeap(f)'
    BY DEF NewSummary
  <2> QED
    BY <2>1, <2>2, <2>3 DEF Rising
<1>2. CASE Process
  <2> SUFFICES ASSUME NEW f \in Funcs
               PROVE  /\ Effects(summ'[f]) \subseteq Effects(NewSummary(f)')
                      /\ summ'[f].heap <= MergedHeap(f)'
    BY DEF Rising
  <2>1. in' = in
    BY <1>2, Visit
  <2>2. \A i \in DOMAIN in.hops[f] :
           /\ Inherited(f, i) = summ[in.hops[f][i].callee]
           /\ Inherited(f, i)' = summ'[in.hops[f][i].callee]
           /\ in.hops[f][i].callee \in Funcs
    BY <2>1, HopTypes DEF Inherited
  <2>3. Effects(NewSummary(f)) \subseteq Effects(NewSummary(f)')
    <3> SUFFICES ASSUME NEW k \in Effects(NewSummary(f)) PROVE k \in Effects(NewSummary(f)')
      OBVIOUS
    <3>1. k \in Kinds
      BY DEF Effects
    <3>2. CASE Carries(in.direct[f], k)
      BY <2>1, <3>1, <3>2, NewEffectsNext
    <3>3. CASE \E i \in DOMAIN in.hops[f] : Carries(Inherited(f, i), k)
      <4>1. PICK i \in DOMAIN in.hops[f] : Carries(Inherited(f, i), k)
        BY <3>3
      <4>2. Carries(Inherited(f, i)', k)
        BY <1>2, <2>2, <3>1, <4>1, StepRises DEF Effects
      <4> QED
        BY <2>1, <3>1, <4>2, NewEffectsNext
    <3> QED
      BY <3>1, <3>2, <3>3, NewEffects
  <2>4. MergedHeap(f) <= MergedHeap(f)'
    <3>1. MergedHeap(f) \in HeapKinds /\ MergedHeap(f)' \in HeapKinds
      BY NewHeap, NewHeapNext
    <3>2. CASE MergedHeap(f) = in.direct[f].heap
      BY <2>1, <3>2, NewHeapNext
    <3>3. CASE \E i \in DOMAIN in.hops[f] : Inherited(f, i).heap = MergedHeap(f)
      <4>1. PICK i \in DOMAIN in.hops[f] : Inherited(f, i).heap = MergedHeap(f)
        BY <3>3
      <4>2. MergedHeap(f) <= Inherited(f, i)'.heap
        BY <1>2, <2>2, <4>1, StepRises
      <4>3. Inherited(f, i)'.heap <= MergedHeap(f)'
        BY <2>1, NewHeapNext
      <4>4. Inherited(f, i)'.heap \in HeapKinds
        BY <2>2 DEF TypeOK, Summary
      <4> QED
        BY <3>1, <4>2, <4>3, <4>4 DEF HeapKinds
    <3> QED
      BY <3>2, <3>3, NewHeap
  <2>5. CASE summ'[f] = summ[f]
    <3>1. summ[f].heap \in HeapKinds /\ MergedHeap(f) \in HeapKinds /\ MergedHeap(f)' \in HeapKinds
      BY NewHeap, NewHeapNext DEF TypeOK, Summary
    <3> QED
      BY <2>3, <2>4, <2>5, <3>1 DEF Rising, HeapKinds
  <2>6. CASE summ'[f] = NewSummary(f)
    BY <2>3, <2>4, <2>6 DEF NewSummary
  <2> QED
    BY <1>2, <2>5, <2>6, Visit
<1> QED
  BY <1>1, <1>2 DEF Next

\* At any time a visit can only add.
THEOREM AlwaysRising == Spec => []Rising
BY TypeCorrect, RisingStart, RisingStep, PTL DEF Spec
-----------------------------------------------------------------------------
(***************************************************************************)
(* Effects reach the callers on record (NotifiedCallersServed).            *)
(***************************************************************************)
LEMMA ServedStart == TypeOK /\ Init => NotifiedCallersServed
BY DEF Init, TypeOK, WellFormed, NotifiedCallersServed, Queued

\* A visit serves the edges out of the function.
LEMMA VisitServes ==
  ASSUME TypeOK, Process,
         NEW f \in Funcs, f = Head(worklist), NEW g \in Funcs, Calls(f, g)
  PROVE  Effects(summ[g]) \subseteq Effects(summ'[f]) /\ summ[g].heap <= summ'[f].heap
<1>1. PICK i \in DOMAIN in.hops[f] : in.hops[f][i].callee = g
  BY DEF Calls
<1>2. Inherited(f, i) = summ[g]
  BY <1>1 DEF Inherited
<1>3. Effects(summ[g]) \subseteq Effects(NewSummary(f))
  BY <1>2, NewEffects DEF Effects
<1>4. summ[g].heap <= NewSummary(f).heap
  BY <1>2, NewHeap DEF NewSummary
<1>5. CASE summ'[f] = NewSummary(f)
  BY <1>3, <1>4, <1>5
<1>6. CASE Same(NewSummary(f), summ[f]) /\ summ' = summ
  <2>1. summ[f] \in Summary /\ NewSummary(f) \in Summary
    BY NewSummaryType DEF TypeOK
  <2>2. Effects(NewSummary(f)) = Effects(summ[f]) /\ NewSummary(f).heap = summ[f].heap
    BY <1>6, <2>1, SameMeans
  <2> QED
    BY <1>3, <1>4, <1>6, <2>2
<1> QED
  BY <1>5, <1>6, Visit

\* Every step leaves a notified caller queued or served.
LEMMA ServedStep ==
  TypeOK /\ Rising /\ NotifiedCallersServed /\ [Next]_vars => NotifiedCallersServed'
<1> SUFFICES ASSUME TypeOK, Rising, NotifiedCallersServed, [Next]_vars,
                    NEW f \in Funcs, NEW g \in Funcs, Notified(f, g)'
             PROVE  Queued(f)' \/ EdgeServed(f, g)'
  BY DEF NotifiedCallersServed
<1>1. CASE UNCHANGED vars
  BY <1>1 DEF vars, NotifiedCallersServed, Notified, Calls, Keeps, Queued, EdgeServed
<1>2. CASE Process
  <2> DEFINE v == Head(worklist)
  <2>1. in' = in /\ v \in Funcs
    BY <1>2, Visit
  <2>2. Calls(f, g) /\ Keeps(g, f)
    BY <2>1 DEF Notified, Calls, Keeps
  <2>3. CASE summ' = summ
    <3>1. CASE f = v
      BY <1>2, <2>2, <2>3, <3>1, VisitServes DEF EdgeServed
    <3>2. CASE f # v
      BY <1>2, <2>2, <2>3, <3>2, QueueAfterVisit DEF NotifiedCallersServed, Notified, EdgeServed
    <3> QED
      BY <3>1, <3>2
  <2>4. CASE summ' # summ /\ g = v
    BY <1>2, <2>2, <2>4, QueueAfterVisit
  <2>5. CASE g # v /\ f = v
    <3>1. summ'[g] = summ[g]
      BY <1>2, <2>5, Visit
    <3> QED
      BY <1>2, <2>2, <2>5, <3>1, VisitServes DEF EdgeServed
  <2>6. CASE g # v /\ f # v
    <3>1. summ'[g] = summ[g] /\ summ'[f] = summ[f]
      BY <1>2, <2>6, Visit
    <3> QED
      BY <1>2, <2>2, <2>6, <3>1, QueueAfterVisit DEF NotifiedCallersServed, Notified, EdgeServed
  <2> QED
    BY <2>3, <2>4, <2>5, <2>6
<1> QED
  BY <1>1, <1>2 DEF Next

(***************************************************************************)
(* A caller on record with a callee is queued, or has all of its effects.  *)
(***************************************************************************)
THEOREM EffectsReachCallers == Spec => []NotifiedCallersServed
BY TypeCorrect, AlwaysRising, ServedStart, ServedStep, PTL DEF Spec

(***************************************************************************)
(* The loop stops at a fixpoint (Settled).                                 *)
(***************************************************************************)
LEMMA SettledStart == TypeOK /\ Init => Settled
BY DEF Init, TypeOK, WellFormed, Settled, Queued

\* Every step leaves a function queued or settled.
LEMMA SettledStep == TypeOK /\ TypeOK' /\ Settled /\ [Next]_vars => Settled'
<1> SUFFICES ASSUME TypeOK, TypeOK', Settled, [Next]_vars, NEW f \in Funcs,
                    (\A g \in Funcs : Calls(f, g) => Keeps(g, f))',
                    ~Queued(f)'
             PROVE  Same(summ[f], NewSummary(f))'
  BY DEF Settled
<1>1. in' = in
  BY Visit DEF Next, vars
<1>2. \A g \in Funcs : Calls(f, g) => Keeps(g, f)
  BY <1>1 DEF Calls, Keeps
<1>3. CASE summ' = summ
  <2>1. NewSummary(f)' = NewSummary(f)
    BY <1>1, <1>3, OnlyCalleesMatter
  <2>2. Same(summ[f], NewSummary(f))
    <3>1. CASE Queued(f)
      <4>1. Process /\ f = Head(worklist)
        BY <3>1, QueueAfterVisit DEF Next, vars, Queued
      <4>2. \/ Same(NewSummary(f), summ[f])
            \/ summ[f] = NewSummary(f)
        BY <1>3, <4>1, Visit
      <4> QED
        BY <4>2 DEF Same
    <3>2. CASE ~Queued(f)
      BY <1>2, <3>2 DEF Settled
    <3> QED
      BY <3>1, <3>2
  <2> QED
    BY <1>3, <2>1, <2>2
<1>4. CASE Process /\ summ' # summ
  <2> DEFINE v == Head(worklist)
  <2>1. /\ v \in Funcs
        /\ summ'[v] = NewSummary(v)
        /\ \A g \in Funcs \ {v} : summ'[g] = summ[g]
    BY <1>4, Visit
  <2>2. \A g \in Funcs : Keeps(v, g) => Queued(g)'
    BY <1>4, QueueAfterVisit
  <2>3. ~Calls(f, v)
    BY <1>2, <2>1, <2>2
  <2>4. \A i \in DOMAIN in.hops[f] : in.hops[f][i].callee \in Funcs \ {v}
    BY <2>3, HopTypes DEF Calls
  <2>5. NewSummary(f)' = NewSummary(f)
    BY <1>1, <2>1, <2>4, OnlyCalleesMatter
  <2>6. CASE f = v
    BY <2>1, <2>5, <2>6 DEF Same
  <2>7. CASE f # v
    <3>1. ~Queued(f)
      BY <1>4, <2>7, QueueAfterVisit
    <3>2. Same(summ[f], NewSummary(f))
      BY <1>2, <3>1 DEF Settled
    <3> QED
      BY <2>1, <2>5, <2>7, <3>2
  <2> QED
    BY <2>6, <2>7
<1> QED
  BY <1>3, <1>4 DEF Next, vars

(***************************************************************************)
(* A function with all callers on record is queued, or visiting it again   *)
(* would change nothing: the loop stops at a fixpoint.                     *)
(***************************************************************************)
THEOREM StopsAtFixpoint == Spec => []Settled
BY TypeCorrect, SettledStart, SettledStep, PTL DEF Spec

(***************************************************************************)
(* No visit takes an effect, a heap kind or a tag back (NeverRetracted).   *)
(***************************************************************************)
THEOREM NothingIsRetracted == Spec => NeverRetracted
<1>1. ASSUME TypeOK, Rising, Process, NEW f \in Funcs
      PROVE  /\ Effects(summ[f]) \subseteq Effects(summ'[f])
             /\ summ[f].heap <= summ'[f].heap
             /\ witness[f] \subseteq witness'[f]
  <2>1. witness[f] \subseteq witness'[f]
    BY <1>1, Visit
  <2> QED
    BY <1>1, <2>1, StepRises
<1>2. TypeOK /\ Rising /\ [Next]_vars =>
        [\A f \in Funcs : /\ Effects(summ[f]) \subseteq Effects(summ'[f])
                          /\ summ[f].heap <= summ'[f].heap
                          /\ witness[f] \subseteq witness'[f]]_vars
  BY <1>1 DEF Next
<1> QED
  BY <1>2, TypeCorrect, AlwaysRising, PTL DEF Spec, NeverRetracted
-----------------------------------------------------------------------------
(***************************************************************************)
(* Normal heap never comes without the allocation effect.                  *)
(***************************************************************************)
LEMMA NormalHeapStep ==
  TypeOK /\ NormalHeapIsAlloc /\ [Next]_vars => NormalHeapIsAlloc'
<1> SUFFICES ASSUME TypeOK, NormalHeapIsAlloc, [Next]_vars,
                    NEW f \in Funcs, summ'[f].heap = NormalHeap
             PROVE  Carries(summ'[f], "Alloc")
  BY DEF NormalHeapIsAlloc
<1>1. CASE summ'[f] = summ[f]
  BY <1>1 DEF NormalHeapIsAlloc
<1>2. CASE summ'[f] = NewSummary(f)
  <2>1. MergedHeap(f) = NormalHeap
    BY <1>2 DEF NewSummary
  <2>2. CASE in.direct[f].heap = NormalHeap
    <3>1. Carries(in.direct[f], "Alloc")
      BY <2>2 DEF TypeOK, WellFormed
    <3> QED
      BY <1>2, <3>1, NewEffects, KindsAssumption DEF Effects
  <2>3. CASE \E i \in DOMAIN in.hops[f] : Inherited(f, i).heap = NormalHeap
    <3>1. PICK i \in DOMAIN in.hops[f] : Inherited(f, i).heap = NormalHeap
      BY <2>3
    <3>2. Carries(Inherited(f, i), "Alloc")
      BY <3>1, HopTypes DEF NormalHeapIsAlloc, Inherited
    <3> QED
      BY <1>2, <3>2, NewEffects, KindsAssumption DEF Effects
  <2> QED
    BY <2>1, <2>2, <2>3, NewHeap
<1> QED
  BY <1>1, <1>2, Visit DEF Next, vars

(***************************************************************************)
(* A summary with normal heap has the allocation effect.                   *)
(***************************************************************************)
THEOREM NormalHeapAllocates == Spec => []NormalHeapIsAlloc
<1>1. TypeOK /\ Init => NormalHeapIsAlloc
  BY DEF Init, TypeOK, WellFormed, NormalHeapIsAlloc
<1> QED
  BY <1>1, TypeCorrect, NormalHeapStep, PTL DEF Spec

(***************************************************************************)
(* A tag names a direct call that brings the effect (TagsGenuine), and a   *)
(* direct call whose callee is on record is tagged for all of them         *)
(* (TagsComplete).                                                         *)
(***************************************************************************)
LEMMA TagsGenuineStep ==
  TypeOK /\ Rising /\ NormalHeapIsAlloc /\ TagsGenuine /\ [Next]_vars => TagsGenuine'
<1> SUFFICES ASSUME TypeOK, Rising, NormalHeapIsAlloc, TagsGenuine, [Next]_vars,
                    NEW f \in Funcs, NEW t \in witness'[f]
             PROVE  /\ t[1] \in DOMAIN in'.hops[f]
                    /\ in'.hops[f][t[1]].kind = "call"
                    /\ Carries(Inherited(f, t[1])', t[2])
  BY DEF TagsGenuine
<1>1. CASE UNCHANGED vars
  BY <1>1 DEF vars, TagsGenuine, Inherited
<1>2. CASE Process
  <2>1. in' = in
    BY <1>2, Visit
  <2>2. ASSUME NEW i \in DOMAIN in.hops[f], NEW k \in Kinds, Carries(Inherited(f, i), k)
        PROVE  Carries(Inherited(f, i)', k)
    BY <1>2, <2>1, <2>2, HopTypes, StepRises DEF Inherited, Effects
  <2>3. t[2] \in Kinds /\ t = <<t[1], t[2]>>
    <3>1. witness'[f] \in SUBSET (Nat \X Kinds)
      BY <1>2, Visit, TagTypes DEF TypeOK
    <3> QED
      BY <3>1
  <2>4. CASE t \in witness[f]
    BY <2>1, <2>2, <2>3, <2>4 DEF TagsGenuine
  <2>5. CASE \E i \in DOMAIN in.hops[f] : t \in {i} \X Tags(f, i)
    <3>1. PICK i \in DOMAIN in.hops[f] : t[1] = i /\ t[2] \in Tags(f, i)
      BY <2>5
    <3>2. /\ in.hops[f][i].kind = "call"
          /\ t[2] \in Effects(Inherited(f, i)) \/ (t[2] = "Alloc" /\ Inherited(f, i).heap = NormalHeap)
      BY <3>1 DEF Tags
    <3>3. Carries(Inherited(f, i), t[2])
      BY <3>2, HopTypes DEF Effects, NormalHeapIsAlloc, Inherited
    <3> QED
      BY <2>1, <2>2, <2>3, <3>1, <3>2, <3>3
  <2>6. t \in witness[f] \/ \E i \in DOMAIN in.hops[f] : t \in {i} \X Tags(f, i)
    BY <1>2, Visit
  <2> QED
    BY <2>4, <2>5, <2>6
<1> QED
  BY <1>1, <1>2 DEF Next

(***************************************************************************)
(* Every tag is on a direct call whose callee has the effect.              *)
(***************************************************************************)
THEOREM TagsAreGenuine == Spec => []TagsGenuine
<1>1. Init => TagsGenuine
  BY DEF Init, TagsGenuine
<1> QED
  BY <1>1, TypeCorrect, AlwaysRising, NormalHeapAllocates, TagsGenuineStep, PTL DEF Spec

\* Every step leaves a function queued or its calls tagged.
LEMMA TagsCompleteStep ==
  TypeOK /\ Rising /\ TagsComplete /\ [Next]_vars => TagsComplete'
<1> SUFFICES ASSUME TypeOK, Rising, TagsComplete, [Next]_vars,
                    NEW f \in Funcs, NEW i \in DOMAIN in'.hops[f],
                    in'.hops[f][i].kind = "call",
                    Keeps(in.hops[f][i].callee, f)',
                    ~Queued(f)'
             PROVE  {i} \X Effects(Inherited(f, i)') \subseteq witness'[f]
  BY DEF TagsComplete
<1>1. CASE UNCHANGED vars
  BY <1>1 DEF vars, TagsComplete, Inherited, Keeps, Queued
<1>2. CASE Process
  <2> DEFINE v == Head(worklist)
             g == in.hops[f][i].callee
  <2>1. /\ in' = in /\ v \in Funcs
        /\ witness[f] \subseteq witness'[f]
    BY <1>2, Visit
  <2>2. /\ i \in DOMAIN in.hops[f] /\ in.hops[f][i].kind = "call"
        /\ Keeps(g, f) /\ g \in Funcs
    BY <2>1, HopTypes DEF Keeps
  <2>3. CASE summ'[g] = summ[g]
    <3>1. Inherited(f, i)' = Inherited(f, i)
      BY <2>1, <2>3 DEF Inherited
    <3>2. CASE f = v
      <4>1. {i} \X Tags(f, i) \subseteq witness'[f]
        BY <1>2, <2>2, <3>2, Visit
      <4>2. Effects(Inherited(f, i)) \subseteq Tags(f, i)
        BY <2>2 DEF Tags
      <4> QED
        BY <3>1, <4>1, <4>2
    <3>3. CASE f # v
      <4>1. ~Queued(f)
        BY <1>2, <3>3, QueueAfterVisit
      <4> QED
        BY <2>1, <2>2, <3>1, <4>1 DEF TagsComplete
    <3> QED
      BY <3>2, <3>3
  <2>4. CASE summ'[g] # summ[g]
    <3>1. g = v /\ summ' # summ
      BY <1>2, <2>2, <2>4, Visit
    <3> QED
      BY <1>2, <2>2, <3>1, QueueAfterVisit
  <2> QED
    BY <2>3, <2>4
<1> QED
  BY <1>1, <1>2 DEF Next

(***************************************************************************)
(* A function that is not queued has a tag at every call that brings an    *)
(* effect.                                                                 *)
(***************************************************************************)
THEOREM TagsAreComplete == Spec => []TagsComplete
<1>1. TypeOK /\ Init => TagsComplete
  BY DEF Init, TypeOK, WellFormed, TagsComplete, Queued
<1> QED
  BY <1>1, TypeCorrect, AlwaysRising, TagsCompleteStep, PTL DEF Spec
-----------------------------------------------------------------------------
(***************************************************************************)
(* The loop implements RTEffects: it starts in one of its states, and a    *)
(* visit is one of its steps.                                              *)
(***************************************************************************)
LEMMA PromiseStart == TypeOK /\ Init => Promise!Init
<1> SUFFICES ASSUME TypeOK, Init PROVE Promise!Init
  OBVIOUS
<1>1. worklist # <<>>
  BY FuncsAssumption DEF Init, TypeOK, WellFormed
<1>2. (worklist = <<>>) = FALSE
  BY <1>1
<1>3. [f \in Funcs |-> Effects(summ[f])] \in [Funcs -> SUBSET Kinds]
  BY DEF Effects
<1>4. [f \in Funcs |-> summ[f].heap] \in [Funcs -> Promise!HeapKinds]
  BY DEF TypeOK, Summary, HeapKinds, Promise!HeapKinds
<1>5. {p \in Funcs \X Funcs : Notified(p[1], p[2])}
        \subseteq {p \in Funcs \X Funcs : Calls(p[1], p[2])}
  BY DEF Notified
<1> QED
  BY <1>2, <1>3, <1>4, <1>5 DEF Promise!Init

\* A function's own effects are in its summary from the beginning.
OwnKept == \A f \in Funcs : /\ Effects(in.direct[f]) \subseteq Effects(summ[f])
                            /\ in.direct[f].heap <= summ[f].heap

\* They are at the start.
LEMMA OwnKeptStart == TypeOK /\ Init => OwnKept
<1> SUFFICES ASSUME TypeOK, Init, NEW f \in Funcs
             PROVE  in.direct[f].heap <= summ[f].heap
  BY DEF OwnKept, Init
<1>1. in.direct[f].heap \in 0 .. 4
  BY DEF TypeOK, WellFormed, InputType, Summary, HeapKinds
<1> QED
  BY <1>1 DEF Init

\* And no step takes them away.
LEMMA OwnKeptStep == TypeOK /\ TypeOK' /\ Rising /\ OwnKept /\ [Next]_vars => OwnKept'
<1> SUFFICES ASSUME TypeOK, TypeOK', Rising, OwnKept, [Next]_vars, NEW f \in Funcs
             PROVE  /\ Effects(in'.direct[f]) \subseteq Effects(summ'[f])
                    /\ in'.direct[f].heap <= summ'[f].heap
  BY DEF OwnKept
<1>1. CASE UNCHANGED vars
  BY <1>1 DEF vars, OwnKept
<1>2. CASE Process
  <2>1. in' = in
    BY <1>2, Visit
  <2>2. in.direct[f].heap \in 0 .. 4 /\ summ[f].heap \in 0 .. 4 /\ summ'[f].heap \in 0 .. 4
    BY DEF TypeOK, WellFormed, InputType, Summary, HeapKinds
  <2>3. /\ Effects(summ[f]) \subseteq Effects(summ'[f])
        /\ summ[f].heap <= summ'[f].heap
    BY <1>2, StepRises
  <2> QED
    BY <2>1, <2>2, <2>3 DEF OwnKept
<1> QED
  BY <1>1, <1>2 DEF Next

\* A step of the loop is a step of the abstract specification or none.
LEMMA PromiseStep ==
  TypeOK /\ TypeOK' /\ Rising /\ OwnKept /\ NotifiedCallersServed' /\ [Next]_vars
    => [Promise!Next]_(Promise!vars)
<1> SUFFICES ASSUME TypeOK, TypeOK', Rising, OwnKept, NotifiedCallersServed', [Next]_vars
             PROVE  Promise!Next \/ UNCHANGED Promise!vars
  OBVIOUS
<1>1. CASE UNCHANGED vars
  BY <1>1 DEF vars, Promise!vars, Notified, Calls, Keeps
<1>2. CASE Process
  <2> DEFINE v     == Head(worklist)
             calls == {p \in Funcs \X Funcs : Calls(p[1], p[2])}
             kept  == {p \in Funcs \X Funcs : Notified(p[1], p[2])}
             eff   == [f \in Funcs |-> Effects(summ[f])]
             heap  == [f \in Funcs |-> summ[f].heap]
  <2>1. /\ in' = in /\ v \in Funcs
        /\ \A g \in Funcs \ {v} : summ'[g] = summ[g]
        /\ summ'[v] = summ[v] \/ summ'[v] = NewSummary(v)
    BY <1>2, Visit
  <2>2. calls' = calls /\ kept' = kept
    BY <2>1 DEF Notified, Calls, Keeps
  <2>3. \A i \in DOMAIN in.hops[v] :
           /\ in.hops[v][i].callee \in Promise!Callees(v)
           /\ Inherited(v, i) = summ[in.hops[v][i].callee]
    BY <2>1, HopTypes DEF Promise!Callees, Calls, Inherited
  <2>4. \E new \in SUBSET UNION {eff[g] : g \in Promise!Callees(v)} :
           eff' = [eff EXCEPT ![v] = @ \cup new]
    <3> DEFINE new == Effects(summ'[v]) \ Effects(summ[v])
    <3>1. Effects(summ[v]) \subseteq Effects(summ'[v])
      BY <1>2, <2>1, StepRises
    <3>2. eff' = [eff EXCEPT ![v] = @ \cup new]
      BY <2>1, <3>1
    <3>3. ASSUME NEW k \in new
          PROVE  \E g \in Promise!Callees(v) : k \in eff[g]
      <4>1. k \in Kinds /\ k \in Effects(NewSummary(v)) /\ k \notin Effects(summ[v])
        BY <2>1 DEF Effects
      <4>2. ~Carries(in.direct[v], k)
        BY <2>1, <4>1 DEF OwnKept, Effects
      <4>3. PICK i \in DOMAIN in.hops[v] : Carries(Inherited(v, i), k)
        BY <2>1, <4>1, <4>2, NewEffects
      <4> QED
        BY <2>3, <4>1, <4>3, HopTypes DEF Effects, Promise!Callees
    <3> QED
      BY <3>2, <3>3
  <2>5. \E h \in {heap[v]} \cup {heap[g] : g \in Promise!Callees(v)} :
           h >= heap[v] /\ heap' = [heap EXCEPT ![v] = h]
    <3> DEFINE h == summ'[v].heap
    <3>1. heap' = [heap EXCEPT ![v] = h]
      BY <2>1
    <3>2. summ[v].heap <= h
      BY <1>2, <2>1, StepRises
    <3>3. /\ h \in 0 .. 4 /\ summ[v].heap \in 0 .. 4
          /\ MergedHeap(v) \in 0 .. 4 /\ in.direct[v].heap \in 0 .. 4
      BY <2>1, NewHeap DEF TypeOK, WellFormed, InputType, Summary, HeapKinds
    <3>4. h = summ[v].heap \/ \E i \in DOMAIN in.hops[v] : h = Inherited(v, i).heap
      <4>1. CASE summ'[v] = summ[v]
        BY <4>1
      <4>2. CASE summ'[v] = NewSummary(v)
        <5>1. h = MergedHeap(v)
          BY <4>2 DEF NewSummary
        <5>2. CASE MergedHeap(v) = in.direct[v].heap
          BY <2>1, <3>2, <3>3, <5>1, <5>2 DEF OwnKept
        <5> QED
          BY <2>1, <5>1, <5>2, NewHeap
      <4> QED
        BY <2>1, <4>1, <4>2
    <3>5. h = heap[v] \/ \E g \in Promise!Callees(v) : h = heap[g]
      <4>1. CASE h = summ[v].heap
        BY <2>1, <4>1
      <4>2. CASE \E i \in DOMAIN in.hops[v] : h = Inherited(v, i).heap
        <5>1. PICK i \in DOMAIN in.hops[v] : h = Inherited(v, i).heap
          BY <4>2
        <5>2. heap[in.hops[v][i].callee] = h
          BY <2>1, <2>3, <5>1, HopTypes
        <5> QED
          BY <2>3, <5>1, <5>2
      <4> QED
        BY <3>4, <4>1, <4>2
    <3>6. h >= heap[v]
      BY <2>1, <3>2, <3>3
    <3> HIDE DEF h, heap
    <3> QED
      BY <3>1, <3>5, <3>6
  <2>6. ~(worklist = <<>>)
    BY <1>2 DEF Process
  <2>7. (worklist' = <<>>) => Promise!Closed'
    <3> SUFFICES ASSUME worklist' = <<>>, NEW p \in kept'
                 PROVE  eff'[p[2]] \subseteq eff'[p[1]] /\ heap'[p[2]] <= heap'[p[1]]
      BY DEF Promise!Closed
    <3>1. p[1] \in Funcs /\ p[2] \in Funcs /\ Notified(p[1], p[2])'
      OBVIOUS
    <3>2. ~Queued(p[1])'
      BY DEF Queued
    <3>3. EdgeServed(p[1], p[2])'
      BY <3>1, <3>2 DEF NotifiedCallersServed
    <3> QED
      BY <3>1, <3>3 DEF EdgeServed
  <2>8. (worklist' = <<>>) \in BOOLEAN
    OBVIOUS
  <2> QED
    BY <2>1, <2>2, <2>4, <2>5, <2>6, <2>7, <2>8 DEF Promise!Next, Promise!Learn
<1> QED
  BY <1>1, <1>2 DEF Next

(***************************************************************************)
(* The loop implements the abstract specification RTEffects.               *)
(***************************************************************************)
THEOREM KeepsThePromise == Spec => PromiseKept
<1>1. Spec => []OwnKept
  BY TypeCorrect, AlwaysRising, OwnKeptStart, OwnKeptStep, PTL DEF Spec
<1> QED
  BY <1>1, TypeCorrect, AlwaysRising, EffectsReachCallers, PromiseStart, PromiseStep, PTL
     DEF Spec, PromiseKept, Promise!Spec

-----------------------------------------------------------------------------
(***************************************************************************)
(* The reference definition Reach is what it is meant to be: the least set *)
(* of functions that holds f and what its members call.                    *)
(***************************************************************************)
CallsOf(S)  == S \cup {g \in Funcs : \E e \in S : Calls(e, g)}

\* The queue starts with every function, so there are finitely many.
LEMMA FuncsAreFinite == TypeOK => IsFiniteSet(Funcs)
<1> SUFFICES ASSUME TypeOK PROVE IsFiniteSet(Funcs)
  OBVIOUS
<1>1. in.order \in Seq(Funcs) /\ \A f \in Funcs : \E i \in DOMAIN in.order : in.order[i] = f
  BY DEF TypeOK, WellFormed, InputType
<1>2. DOMAIN in.order = 1 .. Len(in.order) /\ Len(in.order) \in Nat
  BY <1>1
<1>3. in.order \in Surjection(DOMAIN in.order, Funcs)
  BY <1>1 DEF Surjection
<1>4. IsFiniteSet(DOMAIN in.order)
  BY <1>2, FS_Interval
<1> QED
  BY <1>3, <1>4, FS_Surjection

\* Reach is closed, and within every closed set that holds f.
LEMMA ReachIsLeast ==
  ASSUME IsFiniteSet(Funcs), NEW f \in Funcs
  PROVE  /\ f \in Reach(f) /\ Reach(f) \in SUBSET Funcs
         /\ \A e \in Reach(f), g \in Funcs : Calls(e, g) => g \in Reach(f)
         /\ \A S \in SUBSET Funcs : f \in S /\ (\A e \in S, g \in Funcs : Calls(e, g) => g \in S)
                                      => Reach(f) \subseteq S
<1> DEFINE n == Cardinality(Funcs)
           step[i \in 0 .. n] == IF i = 0 THEN {f}
                   ELSE step[i-1] \cup {g \in Funcs : \E e \in step[i-1] : Calls(e, g)}
           T == SUBSET Funcs
           more == [S \in T |-> CallsOf(S)]
           F == [i \in Nat |-> more]
           b == {f}
           body(h) == [i \in 0 .. n |-> IF i = 0 THEN {f}
                   ELSE h[i-1] \cup {g \in Funcs : \E e \in h[i-1] : Calls(e, g)}]
<1>1. n \in Nat
  BY FS_CardinalityType
<1>2. Reach(f) = step[n]
  BY DEF Reach
<1>3. more \in [T -> T] /\ F \in [Nat -> [T -> T]] /\ b \in T
  BY DEF CallsOf
<1>4. step = CHOOSE h : h = body(h)
  BY DEF step
<1> HIDE DEF step, n
<1>5. PICK s \in [0 .. n -> T] : s[0] = b /\ \A i \in 1 .. n : s[i] = F[i][s[i - 1]]
  <2> HIDE DEF T, more, F, b, body
  <2>1. b \in T /\ F \in [Nat -> [T -> T]]
    BY <1>3
  <2> QED
    BY ONLY <1>1, <2>1, RecursionExists, Z3T(30)
<1>6. \A i \in 1 .. n : s[i] = CallsOf(s[i - 1])
  <2>1. ASSUME NEW i \in 1 .. n PROVE s[i] = CallsOf(s[i - 1])
    <3>1. i \in Nat /\ i - 1 \in 0 .. n
      BY <1>1
    <3>2. s[i - 1] \in T
      BY <3>1, <1>5
    <3>3. F[i][s[i - 1]] = CallsOf(s[i - 1])
      BY <3>1, <3>2
    <3> QED
      BY <1>5, <3>3
  <2> QED
    BY <2>1
<1>7. s = body(s)
  <2>1. ASSUME NEW i \in 0 .. n PROVE s[i] = body(s)[i]
    <3>1. CASE i = 0
      BY <3>1, <1>5
    <3>2. CASE i # 0
      <4>1. i \in 1 .. n
        BY <3>2, <1>1
      <4> QED
        BY <4>1, <3>2, <1>6 DEF CallsOf
    <3> QED
      BY <3>1, <3>2
  <2>2. s = [i \in 0 .. n |-> s[i]]
    BY <1>5
  <2> QED
    BY <2>1, <2>2
<1>8. step = body(step)
  <2> HIDE DEF body
  <2>1. \E h : h = body(h)
    BY <1>7
  <2> QED
    BY <1>4, <2>1
<1>9. step[0] = {f} /\ \A i \in 1 .. n : step[i] = CallsOf(step[i - 1])
  <2>1. step[0] = {f}
    <3>1. 0 \in 0 .. n
      BY <1>1
    <3> QED
      BY <3>1, <1>8
  <2>2. ASSUME NEW i \in 1 .. n PROVE step[i] = CallsOf(step[i - 1])
    <3>1. i \in 0 .. n /\ i # 0
      BY <1>1
    <3> QED
      BY <3>1, <1>8 DEF CallsOf
  <2> QED
    BY <2>1, <2>2
<1>10. \A i \in 0 .. n : step[i] \in T
  <2> DEFINE S == {i \in 0 .. n : step[i] \in T}
  <2>1. 0 \in S
    BY <1>1, <1>9
  <2>2. ASSUME NEW i \in 0 .. n - 1, i \in S PROVE i + 1 \in S
    <3>1. i + 1 \in 1 .. n /\ i + 1 - 1 = i /\ i + 1 \in 0 .. n
      BY <1>1
    <3>2. step[i + 1] = CallsOf(step[i])
      <4>1. step[i + 1] = CallsOf(step[i + 1 - 1])
        BY <3>1, <1>9
      <4> QED
        BY <4>1, <3>1
    <3>3. step[i] \in T
      BY <2>2
    <3> QED
      BY <3>1, <3>2, <3>3 DEF CallsOf
  <2>3. 0 .. n \subseteq S
    <3> HIDE DEF S
    <3> QED
      BY <2>1, <2>2, <1>1, SegmentInduction
  <2> QED
    BY <2>3
<1>11. CallsOf(step[n]) = step[n]
  <2>1. \A S \in SUBSET Funcs : S \subseteq more[S] /\ more[S] = CallsOf(S)
    BY DEF CallsOf
  <2>2. step \in [0 .. n -> SUBSET Funcs]
    <3>1. step = [i \in 0 .. n |-> step[i]]
      BY <1>8
    <3> QED
      BY <3>1, <1>10
  <2>3. \A i \in 1 .. n : step[i] = more[step[i - 1]]
    <3>1. ASSUME NEW i \in 1 .. n PROVE step[i] = more[step[i - 1]]
      <4>1. i - 1 \in 0 .. n
        BY <1>1
      <4>2. step[i - 1] \in SUBSET Funcs
        BY <4>1, <1>10
      <4> QED
        BY <4>2, <2>1, <1>9
    <3> QED
      BY <3>1
  <2>4. more \in [SUBSET Funcs -> SUBSET Funcs]
    BY <1>3
  <2>5. more[step[n]] = step[n]
    <3> HIDE DEF more, T, F
    <3> QED
      BY <2>1, <2>2, <2>3, <2>4, GrowthStops DEF n
  <2>6. step[n] \in SUBSET Funcs
    BY <1>1, <1>10
  <2> QED
    BY <2>1, <2>5, <2>6
<1>12. ASSUME NEW S \in SUBSET Funcs
       PROVE  /\ f \in step[n]
              /\ f \in S /\ (\A e \in S, g \in Funcs : Calls(e, g) => g \in S) => step[n] \subseteq S
  <2> DEFINE G == {i \in 0 .. n : /\ f \in step[i]
                                  /\ f \in S /\ (\A e \in S, g \in Funcs : Calls(e, g) => g \in S) => step[i] \subseteq S}
  <2>1. 0 \in G
    BY <1>1, <1>9
  <2>2. ASSUME NEW i \in 0 .. n - 1, i \in G PROVE i + 1 \in G
    <3>1. i + 1 \in 1 .. n /\ i + 1 - 1 = i /\ i + 1 \in 0 .. n
      BY <1>1
    <3>2. step[i + 1] = CallsOf(step[i])
      <4>1. step[i + 1] = CallsOf(step[i + 1 - 1])
        BY <3>1, <1>9
      <4> QED
        BY <4>1, <3>1
    <3> QED
      BY <3>1, <3>2, <2>2 DEF CallsOf
  <2>3. 0 .. n \subseteq G
    <3> HIDE DEF G
    <3> QED
      BY <2>1, <2>2, <1>1, SegmentInduction
  <2>4. n \in G
    <3> HIDE DEF G
    <3> QED
      BY <2>3, <1>1
  <2> QED
    BY <2>4
<1>13. step[n] \in SUBSET Funcs
  BY <1>1, <1>10
<1>14. \A e \in step[n], g \in Funcs : Calls(e, g) => g \in step[n]
  BY <1>11 DEF CallsOf
<1> QED
  BY <1>2, <1>12, <1>13, <1>14


\* The least set, as a fact of one state that can be carried to the next.
ReachLeast == \A f \in Funcs :
  /\ f \in Reach(f) /\ Reach(f) \in SUBSET Funcs
  /\ \A e \in Reach(f), g \in Funcs : Calls(e, g) => g \in Reach(f)
  /\ \A S \in SUBSET Funcs : f \in S /\ (\A e \in S, g \in Funcs : Calls(e, g) => g \in S)
                               => Reach(f) \subseteq S

\* It holds of any state.
LEMMA ReachLeastHolds == TypeOK => ReachLeast
BY FuncsAreFinite, ReachIsLeast DEF ReachLeast

\* And of the next.
LEMMA ReachLeastNext == TypeOK' => ReachLeast'
BY ReachLeastHolds, PTL

\* The calls are the input's, so what is reachable never changes.
LEMMA ReachStays ==
  ASSUME TypeOK, TypeOK', in' = in, NEW f \in Funcs
  PROVE  Reach(f)' = Reach(f)
<1>1. ReachLeast /\ ReachLeast'
  BY ReachLeastHolds, ReachLeastNext
<1>2. \A e, g \in Funcs : Calls(e, g)' <=> Calls(e, g)
  BY DEF Calls
<1>3. Reach(f) \in SUBSET Funcs /\ Reach(f)' \in SUBSET Funcs
  BY <1>1 DEF ReachLeast
<1>4. f \in Reach(f) /\ \A e \in Reach(f), g \in Funcs : Calls(e, g) => g \in Reach(f)
  BY <1>1 DEF ReachLeast
<1>5. f \in Reach(f)' /\ \A e \in Reach(f)', g \in Funcs : Calls(e, g)' => g \in Reach(f)'
  BY <1>1 DEF ReachLeast
<1>6. Reach(f) \subseteq Reach(f)'
  <2>1. \A e \in Reach(f)', g \in Funcs : Calls(e, g) => g \in Reach(f)'
    BY <1>2, <1>3, <1>5
  <2> QED
    BY <1>1, <1>3, <1>5, <2>1 DEF ReachLeast
<1>7. Reach(f)' \subseteq Reach(f)
  <2>1. \A e \in Reach(f), g \in Funcs : Calls(e, g)' => g \in Reach(f)
    BY <1>2, <1>3, <1>4
  <2> QED
    BY <1>1, <1>3, <1>4, <2>1 DEF ReachLeast
<1> QED
  BY <1>6, <1>7

\* What a callee reaches, the caller reaches.
LEMMA CalleeReachesLess ==
  ASSUME TypeOK, NEW f \in Funcs, NEW g \in Funcs, Calls(f, g)
  PROVE  Reach(g) \subseteq Reach(f)
BY ReachLeastHolds DEF ReachLeast

(***************************************************************************)
(* Nothing is reported that is not there: every effect of a summary is a   *)
(* direct effect of a function within reach, and so is its heap kind.      *)
(***************************************************************************)
Justified == \A f \in Funcs :
  /\ \A k \in Effects(summ[f]) : \E g \in Reach(f) : k \in Effects(in.direct[g])
  /\ \E g \in Reach(f) : summ[f].heap = in.direct[g].heap

\* At the start every effect is one's own.
LEMMA JustifiedStart == TypeOK /\ Init => Justified
BY ReachLeastHolds DEF Init, Justified, ReachLeast

\* What a visit computes is justified by what the callees' summaries were.
LEMMA NewIsJustified ==
  ASSUME TypeOK, Justified, NEW f \in Funcs
  PROVE  /\ \A k \in Effects(NewSummary(f)) : \E g \in Reach(f) : k \in Effects(in.direct[g])
         /\ \E g \in Reach(f) : NewSummary(f).heap = in.direct[g].heap
<1>1. f \in Reach(f)
  BY ReachLeastHolds DEF ReachLeast
<1>2. ASSUME NEW i \in DOMAIN in.hops[f]
      PROVE  /\ in.hops[f][i].callee \in Funcs
             /\ Reach(in.hops[f][i].callee) \subseteq Reach(f)
  <2>1. in.hops[f][i].callee \in Funcs
    BY HopTypes
  <2>2. Calls(f, in.hops[f][i].callee)
    BY DEF Calls
  <2> QED
    BY <2>1, <2>2, CalleeReachesLess
<1>3. ASSUME NEW k \in Effects(NewSummary(f)) PROVE \E g \in Reach(f) : k \in Effects(in.direct[g])
  <2>1. k \in Kinds
    BY DEF Effects
  <2>2. CASE Carries(in.direct[f], k)
    BY <1>1, <2>1, <2>2 DEF Effects
  <2>3. CASE \E i \in DOMAIN in.hops[f] : Carries(Inherited(f, i), k)
    <3>1. PICK i \in DOMAIN in.hops[f] : Carries(Inherited(f, i), k)
      BY <2>3
    <3>2. k \in Effects(summ[in.hops[f][i].callee])
      BY <2>1, <3>1 DEF Effects, Inherited
    <3>3. \E g \in Reach(in.hops[f][i].callee) : k \in Effects(in.direct[g])
      BY <1>2, <3>2 DEF Justified
    <3> QED
      BY <1>2, <3>3
  <2> QED
    BY <2>1, <2>2, <2>3, NewEffects
<1>4. \E g \in Reach(f) : NewSummary(f).heap = in.direct[g].heap
  <2>1. NewSummary(f).heap = MergedHeap(f)
    BY DEF NewSummary
  <2>2. CASE MergedHeap(f) = in.direct[f].heap
    BY <1>1, <2>1, <2>2
  <2>3. CASE \E i \in DOMAIN in.hops[f] : Inherited(f, i).heap = MergedHeap(f)
    <3>1. PICK i \in DOMAIN in.hops[f] : Inherited(f, i).heap = MergedHeap(f)
      BY <2>3
    <3>2. summ[in.hops[f][i].callee].heap = MergedHeap(f)
      BY <3>1 DEF Inherited
    <3>3. \E g \in Reach(in.hops[f][i].callee) : MergedHeap(f) = in.direct[g].heap
      BY <1>2, <3>2 DEF Justified
    <3> QED
      BY <1>2, <2>1, <3>3
  <2> QED
    BY <2>2, <2>3, NewHeap
<1> QED
  BY <1>3, <1>4

\* Every step keeps all effects justified.
LEMMA JustifiedStep == TypeOK /\ TypeOK' /\ Justified /\ [Next]_vars => Justified'
<1> SUFFICES ASSUME TypeOK, TypeOK', Justified, [Next]_vars PROVE Justified'
  OBVIOUS
<1>1. in' = in
  BY Visit DEF Next, vars
<1>2. \A f \in Funcs : Reach(f)' = Reach(f)
  BY <1>1, ReachStays
<1>3. ASSUME NEW f \in Funcs
      PROVE  /\ \A k \in Effects(summ'[f]) : \E g \in Reach(f) : k \in Effects(in.direct[g])
             /\ \E g \in Reach(f) : summ'[f].heap = in.direct[g].heap
  <2>1. CASE summ'[f] = summ[f]
    BY <2>1 DEF Justified
  <2>2. CASE summ'[f] = NewSummary(f)
    BY <2>2, NewIsJustified
  <2>3. summ'[f] = summ[f] \/ summ'[f] = NewSummary(f)
    BY Visit DEF Next, vars
  <2> QED
    BY <2>1, <2>2, <2>3
<1> QED
  BY <1>1, <1>2, <1>3 DEF Justified

(***************************************************************************)
(* When the queue is empty and no caller was lost, a function has taken    *)
(* over what everything within its reach has.                              *)
(***************************************************************************)
LEMMA HasAllWithinReach ==
  ASSUME TypeOK, OwnKept, NotifiedCallersServed, Quiescent, AllNotified,
         NEW f \in Funcs, NEW g \in Reach(f)
  PROVE  /\ Effects(in.direct[g]) \subseteq Effects(summ[f])
         /\ in.direct[g].heap <= summ[f].heap
<1> DEFINE S == {e \in Funcs : Effects(summ[e]) \subseteq Effects(summ[f]) /\ summ[e].heap <= summ[f].heap}
<1>1. \A e \in Funcs : summ[e].heap \in Int /\ in.direct[e].heap \in Int
  <2>1. summ \in [Funcs -> Summary] /\ in.direct \in [Funcs -> Summary]
    BY DEF TypeOK, WellFormed, InputType
  <2> QED
    BY <2>1, SMTT(30) DEF Summary, HeapKinds
<1>2. f \in S
  BY <1>1
<1>3. ASSUME NEW e \in S, NEW h \in Funcs, Calls(e, h) PROVE h \in S
  <2>1. Notified(e, h)
    BY <1>3 DEF AllNotified, Notified
  <2>2. ~Queued(e)
    BY DEF Quiescent, Queued
  <2>3. EdgeServed(e, h)
    BY <2>1, <2>2 DEF NotifiedCallersServed
  <2>4. Effects(summ[h]) \subseteq Effects(summ[f])
    BY <2>3 DEF EdgeServed
  <2>5. summ[h].heap <= summ[f].heap
    BY <1>1, <2>3 DEF EdgeServed
  <2> QED
    BY <2>4, <2>5
<1>4. g \in S
  <2>1. S \in SUBSET Funcs
    OBVIOUS
  <2> HIDE DEF S
  <2> QED
    BY <1>2, <1>3, <2>1, ReachLeastHolds DEF ReachLeast
<1>5. Effects(in.direct[g]) \subseteq Effects(summ[g]) /\ in.direct[g].heap <= summ[g].heap
  BY <1>4 DEF OwnKept
<1> QED
  BY <1>1, <1>4, <1>5

\* Both halves together.
LEMMA ExactWhenDone ==
  TypeOK /\ OwnKept /\ NotifiedCallersServed /\ Justified => ExactAtTheEnd
<1> SUFFICES ASSUME TypeOK, OwnKept, NotifiedCallersServed, Justified, Quiescent, AllNotified,
                    NEW f \in Funcs
             PROVE  /\ Effects(summ[f]) = UNION {Effects(in.direct[g]) : g \in Reach(f)}
                    /\ summ[f].heap = Most({in.direct[g].heap : g \in Reach(f)})
  BY DEF ExactAtTheEnd
<1>1. Reach(f) \in SUBSET Funcs
  BY ReachLeastHolds DEF ReachLeast
<1>2. Effects(summ[f]) = UNION {Effects(in.direct[g]) : g \in Reach(f)}
  BY <1>1, HasAllWithinReach DEF Justified
<1>3. summ[f].heap = Most({in.direct[g].heap : g \in Reach(f)})
  <2> DEFINE H == {in.direct[g].heap : g \in Reach(f)}
  <2>1. H \in SUBSET HeapKinds
    BY <1>1 DEF TypeOK, WellFormed, InputType, Summary
  <2>2. summ[f].heap \in H
    BY DEF Justified
  <2>3. \A h \in H : h <= summ[f].heap
    BY HasAllWithinReach
  <2> HIDE DEF H
  <2>4. Most(H) \in H /\ \A h \in H : h <= Most(H)
    BY <2>1, <2>2, MostIsMost
  <2>5. Most(H) \in 0 .. 4 /\ summ[f].heap \in 0 .. 4
    BY <2>1, <2>2, <2>4 DEF HeapKinds
  <2>6. summ[f].heap = Most(H)
    BY <2>2, <2>3, <2>4, <2>5
  <2> QED
    BY <2>6 DEF H
<1> QED
  BY <1>2, <1>3

(***************************************************************************)
(* The result depends on the program alone: whatever the order of the      *)
(* functions and of the visits, a finished function has exactly the        *)
(* effects, and the worst heap kind, of what it can reach.                 *)
(***************************************************************************)
THEOREM ExactInTheEnd == Spec => []ExactAtTheEnd
<1>1. Spec => []OwnKept
  BY TypeCorrect, AlwaysRising, OwnKeptStart, OwnKeptStep, PTL DEF Spec
<1>2. Spec => []Justified
  BY TypeCorrect, JustifiedStart, JustifiedStep, PTL DEF Spec
<1> QED
  BY <1>1, <1>2, TypeCorrect, EffectsReachCallers, ExactWhenDone, PTL

(***************************************************************************)
(* An effect that a function has itself keeps the chain it came with.      *)
(***************************************************************************)
OwnChains == \A f \in Funcs : \A k \in Kinds :
               Carries(in.direct[f], k) => summ[f].chain[k] = in.direct[f].chain[k]

\* A visit starts again from it.
LEMMA OwnChainsStep == TypeOK /\ OwnChains /\ [Next]_vars => OwnChains'
<1> SUFFICES ASSUME TypeOK, OwnChains, [Next]_vars, NEW f \in Funcs, NEW k \in Kinds,
                    Carries(in'.direct[f], k)
             PROVE  summ'[f].chain[k] = in'.direct[f].chain[k]
  BY DEF OwnChains
<1>1. CASE UNCHANGED vars
  BY <1>1 DEF vars, OwnChains
<1>2. CASE Process
  <2>1. in' = in /\ (summ'[f] = summ[f] \/ summ'[f] = NewSummary(f))
    BY <1>2, Visit
  <2>2. CASE summ'[f] = summ[f]
    BY <2>1, <2>2 DEF OwnChains
  <2>3. CASE summ'[f] = NewSummary(f)
    BY <2>1, <2>3 DEF NewSummary, MergedChain
  <2> QED
    BY <2>1, <2>2, <2>3
<1> QED
  BY <1>1, <1>2 DEF Next

(***************************************************************************)
(* All that is known of the loop, for the modules that run it.             *)
(***************************************************************************)
LoopInv == /\ TypeOK
           /\ Rising /\ OwnKept /\ OwnChains /\ NotifiedCallersServed
           /\ Justified /\ NormalHeapIsAlloc /\ TagsGenuine /\ TagsComplete

\* It holds at the start.
LEMMA LoopInvInit == Init => LoopInv
<1> SUFFICES ASSUME Init PROVE LoopInv
  OBVIOUS
<1>1. TypeOK
  BY TypeInit
<1>2. NormalHeapIsAlloc
  BY <1>1 DEF Init, TypeOK, WellFormed, NormalHeapIsAlloc
<1>3. OwnChains /\ TagsGenuine
  BY DEF Init, OwnChains, TagsGenuine
<1>4. TagsComplete
  BY <1>1 DEF Init, TypeOK, WellFormed, TagsComplete, Queued
<1> QED
  BY <1>1, <1>2, <1>3, <1>4, RisingStart, OwnKeptStart, ServedStart, JustifiedStart DEF LoopInv

\* Every visit keeps it.
LEMMA LoopInvStep == LoopInv /\ [Next]_vars => LoopInv'
<1> SUFFICES ASSUME LoopInv, [Next]_vars PROVE LoopInv'
  OBVIOUS
<1>1. TypeOK /\ TypeOK'
  BY TypeStep DEF LoopInv
<1>2. Rising' /\ OwnKept' /\ OwnChains' /\ NotifiedCallersServed'
  BY <1>1, RisingStep, OwnKeptStep, OwnChainsStep, ServedStep DEF LoopInv
<1>3. Justified' /\ NormalHeapIsAlloc' /\ TagsGenuine' /\ TagsComplete'
  BY <1>1, JustifiedStep, NormalHeapStep, TagsGenuineStep, TagsCompleteStep DEF LoopInv
<1> QED
  BY <1>1, <1>2, <1>3 DEF LoopInv
=============================================================================
