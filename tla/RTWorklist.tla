----------------------------- MODULE RTWorklist -----------------------------
(***************************************************************************)
(* The propagation loop of RTEffectInferPass::run: a FIFO queue of         *)
(* functions; the summary of the function at its head is computed again    *)
(* from its direct effects and from the present summaries of its callees,  *)
(* and when it changed the callers on record are queued.                   *)
(*                                                                         *)
(* It starts on what the scan and the recursion step hand to it, a record  *)
(* described in RTSummaries.                                               *)
(***************************************************************************)
EXTENDS RTSummaries, FiniteSets

CONSTANTS Inputs,     \* the inputs the loop is started on
          MaxChain    \* bound: the loop is followed while chains are this short

VARIABLES in,         \* the input
          summ,       \* FuncSummaries
          worklist,   \* Worklist
          witness     \* the part of DirectWitnesses the loop adds

vars == <<in, summ, worklist, witness>>
-----------------------------------------------------------------------------
ASSUME MaxChainAssumption == MaxChain \in Nat
ASSUME InputsAssumption == \A x \in Inputs : WellFormed(x)
-----------------------------------------------------------------------------
\* The summary of the callee of f's i-th call.
Inherited(f, i) == summ[in.hops[f][i].callee]

First(S) == CHOOSE i \in S : \A j \in S : i <= j
Most(S)  == CHOOSE h \in S : \A j \in S : j <= h

\* Mistake: the callee's chain is taken over without the call's frame.
ThroughBare(f, i, ch) == ch

Through(f, i, ch) ==
  <<[fn |-> f, callee |-> in.hops[f][i].callee, kind |-> in.hops[f][i].kind]>> \o ch

Carriers(f, k) == {i \in DOMAIN in.hops[f] : Carries(Inherited(f, i), k)}

\* Mistakes: a visit forgets the direct effects; an inherited effect replaces
\* the direct one (mergeChainPrepended without its early return).
MergedChainForgetful(f, k) ==
  IF Carriers(f, k) = {} THEN <<>>
  ELSE LET i == First(Carriers(f, k)) IN Through(f, i, Inherited(f, i).chain[k])

MergedChainEager(f, k) ==
  IF Carriers(f, k) = {} THEN in.direct[f].chain[k]
  ELSE LET i == First(Carriers(f, k)) IN Through(f, i, Inherited(f, i).chain[k])

\* A direct effect keeps its chain; otherwise the first call that has the
\* effect provides it.
MergedChain(f, k) ==
  IF Carries(in.direct[f], k) \/ Carriers(f, k) = {}
  THEN in.direct[f].chain[k]
  ELSE LET i == First(Carriers(f, k))
       IN  Through(f, i, Inherited(f, i).chain[k])

\* Mistake: a heap kind of its own is kept.
MergedHeapOwn(f) ==
  IF in.direct[f].heap # 0 THEN in.direct[f].heap
  ELSE Most({0} \cup {Inherited(f, i).heap : i \in DOMAIN in.hops[f]})

MergedHeap(f) ==
  Most({in.direct[f].heap} \cup {Inherited(f, i).heap : i \in DOMAIN in.hops[f]})

\* The first call that reaches the worst heap kind provides its chain.
MergedHeapChain(f) ==
  IF MergedHeap(f) = in.direct[f].heap
  THEN in.direct[f].heapChain
  ELSE LET i == First({j \in DOMAIN in.hops[f] : Inherited(f, j).heap = MergedHeap(f)})
       IN  Through(f, i, Inherited(f, i).heapChain)

\* Mistake: heap kinds are added up.
NewSummarySum(f) ==
  [chain     |-> [k \in Kinds |-> MergedChain(f, k)],
   heap      |-> in.direct[f].heap + Most({0} \cup {Inherited(f, i).heap : i \in DOMAIN in.hops[f]}),
   heapChain |-> MergedHeapChain(f)]

NewSummary(f) == [chain     |-> [k \in Kinds |-> MergedChain(f, k)],
                  heap      |-> MergedHeap(f),
                  heapChain |-> MergedHeapChain(f)]

\* Mistake: a change of the heap kind alone goes unnoticed.
SameEffects(s, t) == \A k \in Kinds : Reason(s.chain[k]) = Reason(t.chain[k])

\* The comparison that decides Changed: flags and reasons, then the heap kind.
\* The heap chain is not compared.
Same(s, t) == /\ \A k \in Kinds : Reason(s.chain[k]) = Reason(t.chain[k])
              /\ s.heap = t.heap

\* The callers queued when f changed.
\* Mistakes: nobody is queued; a function does not queue itself.
WokenNone(f)   == <<>>
WokenOthers(f) == SelectSeq(in.callers[f], LAMBDA g : g # f)

Woken(f) == in.callers[f]

\* Mistakes: any memory is tagged as an allocation; a function that has an
\* effect of its own gets no tag for it.
TagsAnyHeap(f, i) ==
  IF in.hops[f][i].kind = "call"
  THEN Effects(Inherited(f, i)) \cup (IF Inherited(f, i).heap # 0 THEN {"Alloc"} ELSE {})
  ELSE {}

TagsFirstOnly(f, i) ==
  IF in.hops[f][i].kind = "call"
  THEN {k \in Effects(Inherited(f, i)) : ~Carries(in.direct[f], k)}
  ELSE {}

\* The tags a visit of f puts on the i-th call, which only a direct call gets.
Tags(f, i) ==
  IF in.hops[f][i].kind = "call"
  THEN Effects(Inherited(f, i))
         \cup (IF Inherited(f, i).heap = NormalHeap THEN {"Alloc"} ELSE {})
  ELSE {}

TypeOK == /\ WellFormed(in)
          /\ summ \in [Funcs -> Summary]
          /\ worklist \in Seq(Funcs)
          /\ witness \in [Funcs -> SUBSET (Nat \X Kinds)]
-----------------------------------------------------------------------------
Init == /\ in \in Inputs
        /\ summ = in.direct
        /\ worklist = in.order
        /\ witness = [f \in Funcs |-> {}]

WithinBound(s) == /\ \A k \in Kinds : Len(s.chain[k]) <= MaxChain
                  /\ Len(s.heapChain) <= MaxChain

(***************************************************************************)
(* One iteration of the loop.                                              *)
(***************************************************************************)
Process ==
  /\ worklist # <<>>
  /\ LET f   == Head(worklist)
         new == NewSummary(f)
     IN  /\ WithinBound(new)
         /\ witness' = [witness EXCEPT ![f] =
              @ \cup UNION {{i} \X Tags(f, i) : i \in DOMAIN in.hops[f]}]
         /\ IF Same(new, summ[f])
            THEN /\ worklist' = Tail(worklist)
                 /\ UNCHANGED summ
            ELSE /\ worklist' = Tail(worklist) \o Woken(f)
                 /\ summ' = [summ EXCEPT ![f] = new]
  /\ UNCHANGED in

Next == Process

Spec     == Init /\ [][Next]_vars
FairSpec == Spec /\ WF_vars(Process)   \* the loop of one thread keeps running
-----------------------------------------------------------------------------
Queued(f)   == \E i \in DOMAIN worklist : worklist[i] = f
Calls(f, g) == \E i \in DOMAIN in.hops[f] : in.hops[f][i].callee = g
Keeps(g, f) == \E i \in DOMAIN in.callers[g] : in.callers[g][i] = f

\* g is a callee whose changes reach f: the queue is told of them.
Notified(f, g) == Calls(f, g) /\ Keeps(g, f)
AllNotified    == \A f, g \in Funcs : Calls(f, g) => Keeps(g, f)

Quiescent == worklist = <<>>

\* One link of a chain: the next frame is in the function this one leads to.
Linked(ch) == \A i \in DOMAIN ch : i + 1 \in DOMAIN ch =>
  ch[i+1].fn = IF ch[i].kind \in HopKinds THEN ch[i].callee ELSE ch[i].fn

HopFrame(fr) == \E i \in DOMAIN in.hops[fr.fn] :
                   /\ in.hops[fr.fn][i].callee = fr.callee
                   /\ in.hops[fr.fn][i].kind = fr.kind

SourceFrame(fr, k) == \E i \in DOMAIN in.direct[fr.fn].chain[k] :
                         in.direct[fr.fn].chain[k][i] = fr

HeapFrame(fr, h) == /\ in.direct[fr.fn].heap = h
                    /\ \E i \in DOMAIN in.direct[fr.fn].heapChain :
                          in.direct[fr.fn].heapChain[i] = fr

\* Every frame is a call of the program or a direct effect of its function;
\* the chain starts in f, is connected, and ends in a direct effect.
CallPath(f, ch) == /\ ch # <<>> => ch[1].fn = f /\ ch[Len(ch)].kind \in SourceKinds
                   /\ Linked(ch)

RealFrames(ch, k)     == \A i \in DOMAIN ch : IF ch[i].kind \in HopKinds
                                              THEN HopFrame(ch[i])
                                              ELSE SourceFrame(ch[i], k)
RealHeapFrames(ch, h) == \A i \in DOMAIN ch : IF ch[i].kind \in HopKinds
                                              THEN HopFrame(ch[i])
                                              ELSE HeapFrame(ch[i], h)

GenuineChain(f, k) == /\ CallPath(f, summ[f].chain[k])
                      /\ RealFrames(summ[f].chain[k], k)

GenuineHeap(f) == /\ CallPath(f, summ[f].heapChain)
                  /\ RealHeapFrames(summ[f].heapChain, summ[f].heap)
                  /\ summ[f].heap = 0 <=> summ[f].heapChain = <<>>

(***************************************************************************)
(* A reported effect is real: its provenance chain, which the loop builds  *)
(* from callees that may since have changed, is at any time a connected    *)
(* path of calls of the program, starting in the function and ending at an *)
(* instruction that has the effect itself; for memory, an instruction that *)
(* touches exactly the reported heap kind (mergeChainPrepended,            *)
(* prependHeapChain and the resolved-target copies of them).               *)
(***************************************************************************)
ChainsGenuine == \A f \in Funcs : GenuineHeap(f) /\ \A k \in Kinds : GenuineChain(f, k)

(***************************************************************************)
(* Effects reach the callers: a caller that is on record with a callee is  *)
(* queued, or has every effect of the callee and at least its heap kind.   *)
(* When the queue is empty this is closure along these edges, whatever the *)
(* order in which functions were visited and queued.                       *)
(***************************************************************************)
EdgeServed(f, g) == /\ Effects(summ[g]) \subseteq Effects(summ[f])
                    /\ summ[g].heap <= summ[f].heap

NotifiedCallersServed ==
  \A f, g \in Funcs : Notified(f, g) => Queued(f) \/ EdgeServed(f, g)

(***************************************************************************)
(* The loop stops at a fixpoint: a function none of whose callees has lost *)
(* it as a caller is queued, or visiting it again would change nothing the *)
(* loop compares, so that the reported reasons agree with the callees'.    *)
(***************************************************************************)
Settled ==
  \A f \in Funcs : (\A g \in Funcs : Calls(f, g) => Keeps(g, f))
                      => Queued(f) \/ Same(summ[f], NewSummary(f))

(***************************************************************************)
(* Selective instrumentation wraps the tagged calls only, so the tags must *)
(* be exactly the calls that bring effects: a tag's callee has the effect, *)
(* and when f is not queued no direct call to a callee that keeps f lacks  *)
(* a tag for an effect of the callee (the comment at the tagging says      *)
(* "every contributing call site").                                        *)
(***************************************************************************)
TagsGenuine ==
  \A f \in Funcs : \A t \in witness[f] :
     /\ t[1] \in DOMAIN in.hops[f]
     /\ in.hops[f][t[1]].kind = "call"
     /\ Carries(Inherited(f, t[1]), t[2])

TagsComplete ==
  \A f \in Funcs : \A i \in DOMAIN in.hops[f] :
     /\ in.hops[f][i].kind = "call"
     /\ Keeps(in.hops[f][i].callee, f)
     /\ ~Queued(f)
     => {i} \X Effects(Inherited(f, i)) \subseteq witness[f]

(***************************************************************************)
(* The checker decides `nonallocating` by the heap kind alone and the tags *)
(* are made from both: normal heap never comes without the effect.         *)
(***************************************************************************)
NormalHeapIsAlloc ==
  \A f \in Funcs : summ[f].heap = NormalHeap => Carries(summ[f], "Alloc")

(***************************************************************************)
(* Although a visit starts again from the direct effects, no visit takes   *)
(* an effect, a heap kind or a tag back: the flags rise to a least         *)
(* fixpoint and no caller is left with an effect its callee has dropped.   *)
(***************************************************************************)
NeverRetracted ==
  [][\A f \in Funcs : /\ Effects(summ[f]) \subseteq Effects(summ'[f])
                      /\ summ[f].heap <= summ'[f].heap
                      /\ witness[f] \subseteq witness'[f]]_vars

(***************************************************************************)
(* The result does not depend on addresses, definition order or visiting   *)
(* order: if no caller is lost, a finished function has an effect exactly  *)
(* when a function reachable through its calls has it directly.            *)
(***************************************************************************)
Reach(f) == LET n == Cardinality(Funcs)
                step[i \in 0 .. n] == IF i = 0 THEN {f}
                   ELSE step[i-1] \cup {g \in Funcs : \E e \in step[i-1] : Calls(e, g)}
            IN  step[n]

ExactAtTheEnd ==
  Quiescent /\ AllNotified =>
    \A f \in Funcs :
      /\ Effects(summ[f]) = UNION {Effects(in.direct[g]) : g \in Reach(f)}
      /\ summ[f].heap = Most({in.direct[g].heap : g \in Reach(f)})

(***************************************************************************)
(* The propagation ends, in recursive programs too, as long as no function *)
(* makes a call that leads back to it before another one; and if one does, *)
(* it ends unless a chain grows beyond every bound.                        *)
(***************************************************************************)
RecursesEarly == \E f \in Funcs : \E i, j \in DOMAIN in.hops[f] :
                   i < j /\ f \in Reach(in.hops[f][i].callee)

Growing == worklist # <<>> /\ ~WithinBound(NewSummary(Head(worklist)))

Terminates == <>(Quiescent \/ (RecursesEarly /\ Growing))

(***************************************************************************)
(* The loop implements the abstract specification of inference.            *)
(***************************************************************************)
Promise == INSTANCE RTEffects WITH
  calls    <- {p \in Funcs \X Funcs : Calls(p[1], p[2])},
  notified <- {p \in Funcs \X Funcs : Notified(p[1], p[2])},
  eff      <- [f \in Funcs |-> Effects(summ[f])],
  heap     <- [f \in Funcs |-> summ[f].heap],
  done     <- worklist = <<>>

PromiseKept == Promise!Spec
-----------------------------------------------------------------------------
(* What the repository says of this loop and the code does not do.         *)

(***************************************************************************)
(* README: the pass "runs a worklist fixpoint to propagate summaries       *)
(* transitively": at the end a caller has its callees' effects.            *)
(***************************************************************************)
PropagatesTransitively ==
  Quiescent => \A f, g \in Funcs : Calls(f, g) => EdgeServed(f, g)

(***************************************************************************)
(* README: "inter-procedural fixpoint analysis": a chain that comes back   *)
(* to a function it has gone through keeps growing with every visit, and   *)
(* the comparison of reasons never finds it unchanged.                     *)
(***************************************************************************)
ChainsAreSimple ==
  \A f \in Funcs, k \in Kinds :
     LET ch == summ[f].chain[k]
     IN  \A i, j \in DOMAIN ch :
            i < j /\ {ch[i].kind, ch[j].kind} \subseteq HopKinds => ch[i].fn # ch[j].fn
=============================================================================
