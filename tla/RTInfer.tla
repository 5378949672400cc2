-------------------------------- MODULE RTInfer --------------------------------
(***************************************************************************)
(* RTEffectInferPass::run from the scan to the metadata: the scan of       *)
(* RTScan, the search for components of RTSCC, the recursion step, the     *)
(* propagation loop of RTWorklist, the depth pass of RTSCC, and the        *)
(* witness metadata.  The recursion step and the last step are here; the   *)
(* rest is the other modules' own.  The functions call no arguments: what  *)
(* the polymorphism pass adds is in RTPoly.                                *)
(***************************************************************************)
EXTENDS RTSummaries, Integers, FiniteSets, SequencesExt

CONSTANTS Externals, Vehicles, Sigs, Args, Programs,   \* as in RTScan
          MaxChain                                     \* as in RTWorklist

VARIABLES prog, pos, pc, direct, callGraph, callersOf, sites, unknown, witness, poly,
          graph, index, low, counter, stack, calls, sccs, depth,
          in, summ, worklist, tags,
          phase,       \* "scan", "search", "spread", "measure" or "done"
          maxDepth,    \* MaxStackDepth of each function
          marked       \* the !rt.witness kinds of each instruction of each function

scanVars   == <<prog, pos, pc, direct, callGraph, callersOf, sites, unknown, witness, poly>>
searchVars == <<graph, index, low, counter, stack, calls, sccs, depth>>
spreadVars == <<in, summ, worklist, tags>>
endVars    == <<maxDepth, marked>>
vars       == <<scanVars, searchVars, spreadVars, phase, endVars>>

Callables == Funcs \cup Externals

Scan   == INSTANCE RTScan
Search == INSTANCE RTSCC WITH in <- graph, Nodes <- Callables, Inputs <- {}
Spread == INSTANCE RTWorklist WITH witness <- tags, Inputs <- {}

\* marked: the tags that the instructions carry already, from an earlier run.
Remarked(p) == \A f \in Funcs : p.marked[f] \in [DOMAIN p.body[f] -> SUBSET Kinds]

\* The functions call no arguments.
ASSUME InferAssumption == /\ IsFiniteSet(Callables)
                          /\ Vehicles \subseteq Externals
                          /\ Externals \cup Scan!Places \cup {"<recursive-scc>"} \subseteq Names
                          /\ Funcs \cap Names = {}
                          /\ "<recursive-scc>" \notin Externals
                          /\ {"Throw", "Unknown", "Recurse"} \subseteq Kinds
                          /\ MaxChain \in Nat
                          /\ \A p \in Programs : /\ Scan!Module(p) /\ Remarked(p)
                                                 /\ \A f \in Funcs : \A i \in DOMAIN p.body[f] :
                                                       p.body[f][i].op # "argument"
-----------------------------------------------------------------------------
NoInput == [hops    |-> [f \in Funcs |-> <<>>], direct |-> [f \in Funcs |-> Scan!NoSummary],
            callers |-> [f \in Funcs |-> <<>>], order  |-> <<>>]

TypeOK == /\ Scan!TypeOK
          /\ graph.keys = <<>> \/ Search!TypeOK
          /\ in = NoInput \/ Spread!TypeOK
          /\ phase \in {"scan", "search", "spread", "measure", "done"}
          /\ phase \in {"spread", "measure"} => WellFormed(in)
          /\ maxDepth \in [Funcs -> {-1} \cup Nat]
          /\ \A f \in Funcs : marked[f] \in [DOMAIN prog.body[f] -> SUBSET Kinds]

Init == /\ Scan!Init
        /\ graph = [keys |-> <<>>, callees |-> [n \in Callables |-> <<>>]]
        /\ index = [n \in Callables |-> -1] /\ low = [n \in Callables |-> -1]
        /\ counter = 0
        /\ stack = <<>> /\ calls = <<>> /\ sccs = <<>> /\ depth = <<>>
        /\ in = NoInput
        /\ summ = NoInput.direct
        /\ worklist = <<>>
        /\ tags = [f \in Funcs |-> {}]
        /\ phase = "scan"
        /\ maxDepth = [f \in Funcs |-> 0]
        /\ marked = prog.marked

Scanning == /\ phase = "scan"
            /\ Scan!Next
            /\ UNCHANGED <<searchVars, spreadVars, phase, endVars>>

\* The call graph as the search goes over it: the functions scanned, and of
\* each its callees, in address order; declarations have no callees.
ByAddress == prog.addr \o SetToSeq(Externals)

Graph == [keys    |-> prog.addr,
          callees |-> [n \in Callables |->
             IF n \in Funcs THEN Scan!Kept(ByAddress, {i \in DOMAIN ByAddress : ByAddress[i] \in callGraph[n]}) ELSE <<>>]]

StartSearch ==
  /\ phase = "scan" /\ Scan!Finished
  /\ graph' = Graph
  /\ phase' = "search"
  /\ UNCHANGED <<scanVars, index, low, counter, stack, calls, sccs, depth, spreadVars, endVars>>

Searching == /\ phase = "search" /\ ~Search!SearchOver
             /\ Search!Next
             /\ UNCHANGED <<scanVars, spreadVars, phase, endVars>>

\* Mistake: the functions that call themselves are left out.
InRecursiveSCCMutual == UNION {C \in ToSet(sccs) : Cardinality(C) > 1}

InRecursiveSCC == UNION {C \in ToSet(sccs) : Search!Recursive(C)}

\* Mistake: the frame is written like that of a call.
CycleFrameCall(f) == [fn |-> f, callee |-> f, kind |-> "call"]

CycleFrame(f) == [fn |-> f, callee |-> "<recursive-scc>", kind |-> "cycle"]

\* Mistake: a function has one chain only, the cycle or its source.
ShownAlone(f, s) ==
  [s EXCEPT !.chain = [k \in Kinds |-> IF k = "Recurse" \/ @[k] # <<>> THEN <<CycleFrame(f)>> ELSE <<>>]]

\* The cycle is an effect of its own, and goes before all the others.
Shown(f, s) ==
  [s EXCEPT !.chain = [k \in Kinds |->
     CASE k = "Recurse"                                -> <<CycleFrame(f)>>
       [] k # "Recurse" /\ @[k] = <<>>                 -> <<>>
       [] k # "Recurse" /\ @[k] # <<>>                 -> <<CycleFrame(f)>> \o @[k]]]

StartSpread ==
  /\ phase = "search" /\ Search!SearchOver
  /\ in' = [Scan!Handover EXCEPT !.direct =
              [f \in Funcs |-> IF f \in InRecursiveSCC THEN Shown(f, @[f]) ELSE @[f]]]
  /\ summ' = in'.direct
  /\ worklist' = in'.order
  /\ phase' = "spread"
  /\ UNCHANGED <<scanVars, searchVars, tags, endVars>>

Spreading == /\ phase = "spread"
             /\ Spread!Process
             /\ UNCHANGED <<scanVars, searchVars, phase, endVars>>

StartMeasure == /\ phase = "spread" /\ worklist = <<>>
                /\ phase' = "measure"
                /\ UNCHANGED <<scanVars, searchVars, spreadVars, endVars>>

Measuring == /\ phase = "measure"
             /\ Search!SetDepth
             /\ UNCHANGED <<scanVars, spreadVars, phase, endVars>>

\* The direct calls that the loop has walked, among the instructions of f.
DirectCall(f, i) == /\ prog.body[f][i].op = "call"
                    /\ prog.body[f][i].callee \in callGraph[f] \cap Funcs

\* The number of the instruction among them.
HopAt(f, i) == Cardinality({j \in 1 .. i : DirectCall(f, j)})

\* Mistake: a call that has an effect of its own gets no tag of the loop.
MarksScanOnly(f, i) ==
  LET own == {k \in Kinds : <<i, k>> \in witness[f]}
  IN  prog.marked[f][i] \cup IF own # {} THEN own
                             ELSE {k \in Kinds : DirectCall(f, i) /\ <<HopAt(f, i), k>> \in tags[f]}

\* DirectWitnesses, grouped by instruction, and the tags that are there.
Marks(f, i) == {k \in Kinds : \/ k \in prog.marked[f][i]
                              \/ <<i, k>> \in witness[f]
                              \/ DirectCall(f, i) /\ <<HopAt(f, i), k>> \in tags[f]}

SCCDepthOf(f) == IF \E i \in DOMAIN sccs : f \in sccs[i]
                 THEN depth[CHOOSE i \in DOMAIN sccs : f \in sccs[i]] ELSE 1

\* Mistake: only the effect tells of unbounded depth.
DepthOfEffect(f) == IF Carries(summ[f], "Recurse") THEN -1 ELSE IF SCCDepthOf(f) = -1 THEN 1 ELSE SCCDepthOf(f)

DepthOf(f) == IF Carries(summ[f], "Recurse") THEN -1 ELSE SCCDepthOf(f)

Finish == /\ phase = "measure" /\ Len(depth) = Len(sccs)
          /\ maxDepth' = [f \in Funcs |-> DepthOf(f)]
          /\ marked' = [f \in Funcs |-> [i \in DOMAIN prog.body[f] |-> Marks(f, i)]]
          /\ phase' = "done"
          /\ UNCHANGED <<scanVars, searchVars, spreadVars>>

Next == \/ Scanning \/ StartSearch \/ Searching \/ StartSpread \/ Spreading
        \/ StartMeasure \/ Measuring \/ Finish

Spec == Init /\ [][Next]_vars
-----------------------------------------------------------------------------
(* The program, as it is written.                                          *)

\* Whom f may call from its region; a declaration calls nobody.
Flow(f) == {g \in Callables : f \in Funcs /\ \E i \in Scan!InScope(f) :
              LET ins == prog.body[f][i]
              IN  \/ ins.op = "call" /\ ins.callee = g /\ g \in Funcs \ prog.known
                  \/ ins.op = "pointer" /\ g \in Scan!Targets(ins)}

Reached(f) ==
  LET step[n \in 0 .. Cardinality(Funcs)] ==
        IF n = 0 THEN Flow(f) ELSE step[n-1] \cup UNION {Flow(g) : g \in step[n-1]}
  IN  step[Cardinality(Funcs)]

Closure(f) == {f} \cup (Reached(f) \cap Funcs)
Cyclic(f)  == \E g \in Closure(f) : g \in Reached(g)

\* The most frames there may be on the stack from f on, if there is no cycle.
Frames(f) ==
  LET size == Cardinality(Funcs) + 1
      chain[n \in 1 .. size] == IF n = 1 THEN Callables ELSE {g \in Funcs : Flow(g) \cap chain[n-1] # {}}
  IN  CHOOSE n \in 1 .. size : f \in chain[n] /\ \A m \in n + 1 .. size : f \notin chain[m]

Own(f)     == UNION {Scan!OwnKinds(prog.body[f][i]) : i \in Scan!InScope(f)}
OwnHeap(f) == {0} \cup UNION {Scan!HeapOf(prog.body[f][i]) : i \in Scan!InScope(f)}
Worst(S)   == CHOOSE h \in S : \A e \in S : e <= h

Done       == phase = "done"
NobodyLost == \A f \in Funcs : \A g \in Flow(f) \cap Funcs : f \in callersOf[g]

\* What f has for certain, and what it may have besides: the effects of the
\* declarations that calls through pointers may lead to (Scan!MayHave).
Certain(f)  == (UNION {Own(g) : g \in Closure(f)}) \cup (IF Cyclic(f) THEN {"Recurse"} ELSE {})
Possible(f) == Certain(f) \cup UNION {Scan!MayKinds(g) : g \in Closure(f)}

(***************************************************************************)
(* From instructions to summaries: unless the scan has forgotten a caller, *)
(* a function is found to have all effects of the instructions in the      *)
(* regions of all functions it may reach, recursion exactly when it may    *)
(* reach a cycle of calls, the worst heap kind of any of them, and nothing *)
(* else but what declarations behind pointers may do.                      *)
(***************************************************************************)
SummariesExact ==
  Done /\ NobodyLost =>
    \A f \in Funcs :
       LET worst == Worst(UNION {OwnHeap(g) : g \in Closure(f)})
       IN  /\ Certain(f) \subseteq Effects(summ[f])
           /\ Effects(summ[f]) \subseteq Possible(f)
           /\ worst <= summ[f].heap
           /\ (\A g \in Closure(f) : "Alloc" \notin Scan!MayKinds(g)) => summ[f].heap = worst

(***************************************************************************)
(* Also when callers are lost: no effect is reported that no reachable     *)
(* instruction has, and the stack depth, which does not go by the callers, *)
(* is exact: -1 if and only if a cycle may be reached, so that a recursion *)
(* effect that is lost still fails a bound.                                *)
(***************************************************************************)
DepthSurvivesLoss ==
  Done => \A f \in Funcs :
     /\ Effects(summ[f]) \subseteq Possible(f)
     /\ Cyclic(f) <=> maxDepth[f] = -1
     /\ ~Cyclic(f) => maxDepth[f] = Frames(f)

(***************************************************************************)
(* The recursion is to be seen in the reason of every effect that a        *)
(* function in a cycle has itself, behind which stands its own             *)
(* instruction, and only of these.                                         *)
(***************************************************************************)
CycleVisible ==
  Done => \A f \in Funcs : \A k \in Kinds \cap Own(f) :
     LET ch == summ[f].chain[k]
     IN  /\ ch[1].callee = "<recursive-scc>" <=> f \in Reached(f)
         /\ Len(ch) = IF f \in Reached(f) THEN 2 ELSE 1
         /\ ch[Len(ch)].kind \notin HopKinds \cup {"cycle"}

\* The functions with a body that i may call.
Leads(i) == Funcs \cap IF i.op = "call" THEN {i.callee}
                       ELSE IF i.op = "pointer" THEN Scan!Targets(i) ELSE {}

\* The tags an instruction must carry, and the ones it may carry besides: a
\* call through a pointer gets none for its targets; a direct call out of the
\* region, or of a function in the table, gets some when the callee is called
\* in the region besides.
MustMark(f, i) ==
  LET ins == prog.body[f][i]
  IN  prog.marked[f][i]
      \cup (IF ins.scope THEN Scan!OwnKinds(ins) ELSE {})
      \cup UNION {Effects(summ[g]) : g \in IF ins.scope /\ ins.op = "call" THEN Leads(ins) \ prog.known ELSE {}}

MayMark(f, i) ==
  LET ins == prog.body[f][i]
  IN  (UNION {Effects(summ[g]) : g \in Leads(ins) \cap Flow(f)})
      \cup (IF ins.scope THEN Scan!MayHave(ins) ELSE {})

(***************************************************************************)
(* What the placement pass wraps: unless a caller was lost, an instruction *)
(* in the region carries the kinds it has itself and, as a direct call of  *)
(* a function with a body, all kinds the callee is finally found to have;  *)
(* and the tags of an earlier run.  Nothing carries a kind that neither it *)
(* nor a function it may lead to has.                                      *)
(***************************************************************************)
MarksExact ==
  Done /\ NobodyLost =>
    \A f \in Funcs : \A i \in DOMAIN prog.body[f] :
       /\ MustMark(f, i) \subseteq marked[f][i]
       /\ marked[f][i] \subseteq MustMark(f, i) \cup MayMark(f, i)
=============================================================================
