-------------------------------- MODULE RTSCC --------------------------------
(***************************************************************************)
(* Recursion and stack depth in RTEffectInferPass::run: Tarjan's algorithm *)
(* over the call graph (StrongConnect, with its recursion kept as an       *)
(* explicit stack of activations), then one pass over the components in    *)
(* the order they were emitted that computes the bounded stack depth.      *)
(*                                                                         *)
(* std::map and std::set of pointers iterate in address order, so the keys *)
(* of the call graph and the callees of a function are sequences.  A       *)
(* resolved indirect call may lead to a function without a body: a node    *)
(* that is no key.                                                         *)
(***************************************************************************)
EXTENDS Integers, Sequences, FiniteSets

CONSTANTS Nodes,     \* the functions of the call graph
          Inputs     \* records [keys, callees] the algorithm is started on

VARIABLES in,        \* the call graph
          index,     \* Index, -1 is unvisited
          low,       \* LowLink
          counter,   \* CurrIndex
          stack,     \* Stack; OnStack holds the same functions
          calls,     \* activations of StrongConnect, innermost last
          sccs,      \* SCCs, as sets in the order they are emitted
          depth      \* SCCDepth of the components treated so far

vars == <<in, index, low, counter, stack, calls, sccs, depth>>
-----------------------------------------------------------------------------
Activation == [fn : Nodes, at : Nat \ {0}]    \* at: the callee it is at

WellFormed(x) ==
  /\ x.keys \in Seq(Nodes)
  /\ x.callees \in [Nodes -> Seq(Nodes)]
  /\ \A n \in Nodes : x.callees[n] # <<>> => \E i \in DOMAIN x.keys : x.keys[i] = n
  /\ \A i, j \in DOMAIN x.keys : x.keys[i] = x.keys[j] => i = j

ASSUME NodesAssumption  == IsFiniteSet(Nodes)
ASSUME InputsAssumption == \A x \in Inputs : WellFormed(x)

TypeOK == /\ WellFormed(in)
          /\ index \in [Nodes -> {-1} \cup Nat]
          /\ low \in [Nodes -> {-1} \cup Nat]
          /\ counter \in Nat
          /\ stack \in Seq(Nodes)
          /\ calls \in Seq(Activation)
          /\ sccs \in Seq(SUBSET Nodes)
          /\ depth \in Seq({-1} \cup (Nat \ {0}))

Elements(s) == {s[i] : i \in DOMAIN s}
Lesser(a, b) == IF a < b THEN a ELSE b
Calls(f, g) == g \in Elements(in.callees[f])
-----------------------------------------------------------------------------
Init == /\ in \in Inputs
        /\ index = [n \in Nodes |-> -1]
        /\ low = [n \in Nodes |-> -1]
        /\ counter = 0
        /\ stack = <<>>
        /\ calls = <<>>
        /\ sccs = <<>>
        /\ depth = <<>>

\* StrongConnect(n) begins.
Enter(n) == /\ index' = [index EXCEPT ![n] = counter]
            /\ low' = [low EXCEPT ![n] = counter]
            /\ counter' = counter + 1
            /\ stack' = Append(stack, n)
            /\ calls' = Append(calls, [fn |-> n, at |-> 1])
            /\ UNCHANGED <<in, sccs, depth>>

\* The loop over the keys: the first one that is unvisited.
StartRoot ==
  /\ calls = <<>>
  /\ \E i \in DOMAIN in.keys :
        /\ index[in.keys[i]] = -1
        /\ \A j \in 1 .. i - 1 : index[in.keys[j]] # -1
        /\ Enter(in.keys[i])

Active   == calls[Len(calls)]
Callees  == in.callees[Active.fn]

AtCallee == calls # <<>> /\ Active.at <= Len(Callees)
Callee   == Callees[Active.at]

\* Mistake: the stack is asked, not Index; a component that has been emitted
\* is searched again.
DescendOffStack == /\ AtCallee
                   /\ Callee \notin Elements(stack)
                   /\ Enter(Callee)

Descend == /\ AtCallee
           /\ index[Callee] = -1
           /\ Enter(Callee)

\* Mistakes: a visited callee counts even when its component has been
\* emitted; it never counts.
SeenLowAlways(f, w)  == Lesser(low[f], index[w])
SeenLowIgnored(f, w) == low[f]

\* A callee that has been visited counts while it is on the stack.
SeenLow(f, w) == IF w \in Elements(stack) THEN Lesser(low[f], index[w]) ELSE low[f]

PassBy == /\ AtCallee
          /\ index[Callee] # -1
          /\ low' = [low EXCEPT ![Active.fn] = SeenLow(Active.fn, Callee)]
          /\ calls' = [calls EXCEPT ![Len(calls)].at = @ + 1]
          /\ UNCHANGED <<in, index, counter, stack, sccs, depth>>

At(s, n) == CHOOSE i \in DOMAIN s : s[i] = n

\* The component: everything on the stack from f up.
Popped(f) == Elements(SubSeq(stack, At(stack, f), Len(stack)))

(***************************************************************************)
(* All callees are done: emit the component if f is its root, and return   *)
(* to the caller, which lowers its lowlink.                                *)
(***************************************************************************)
Return ==
  /\ calls # <<>>
  /\ Active.at > Len(Callees)
  /\ LET f      == Active.fn
         isRoot == low[f] = index[f]
         rest   == SubSeq(calls, 1, Len(calls) - 1)
     IN  /\ IF isRoot
            THEN /\ sccs' = Append(sccs, Popped(f))
                 /\ stack' = SubSeq(stack, 1, At(stack, f) - 1)
            ELSE UNCHANGED <<sccs, stack>>
         /\ IF rest = <<>>
            THEN calls' = rest /\ UNCHANGED low
            ELSE LET p == rest[Len(rest)].fn
                 IN  /\ low' = [low EXCEPT ![p] = Lesser(low[p], low[f])]
                     /\ calls' = [rest EXCEPT ![Len(rest)].at = @ + 1]
  /\ UNCHANGED <<in, index, counter, depth>>

SearchOver == /\ calls = <<>>
              /\ \A i \in DOMAIN in.keys : index[in.keys[i]] # -1

\* Mistake: only components of several functions are recursive.
RecursiveMutual(C) == Cardinality(C) > 1

\* isRecursiveSCC
Recursive(C) == Cardinality(C) > 1 \/ \E f \in C : Calls(f, f)

\* SCCEdges: the components that the i-th one calls.
Successors(i) == {j \in DOMAIN sccs : j # i /\ \E f \in sccs[i], g \in sccs[j] : Calls(f, g)}

\* SCCDepth starts out as 1, which is what a component that has not been
\* treated yet would contribute.
DepthOf(j) == IF j \in DOMAIN depth THEN depth[j] ELSE 1

\* Mistake: an unbounded callee is skipped.
NewDepthSkip(i) ==
  IF Recursive(sccs[i])
  THEN -1
  ELSE 1 + (CHOOSE d \in {0} \cup {DepthOf(j) : j \in Successors(i)} :
              \A e \in {DepthOf(j) : j \in Successors(i)} : e <= d)

NewDepth(i) ==
  IF Recursive(sccs[i]) \/ \E j \in Successors(i) : DepthOf(j) = -1
  THEN -1
  ELSE 1 + (CHOOSE d \in {0} \cup {DepthOf(j) : j \in Successors(i)} :
              \A e \in {DepthOf(j) : j \in Successors(i)} : e <= d)

SetDepth == /\ SearchOver
            /\ Len(depth) < Len(sccs)
            /\ depth' = Append(depth, NewDepth(Len(depth) + 1))
            /\ UNCHANGED <<in, index, low, counter, stack, calls, sccs>>

Finished == SearchOver /\ Len(depth) = Len(sccs)

\* The only state in which there is no step left.
Stopped == Finished /\ UNCHANGED vars

Next == StartRoot \/ Descend \/ PassBy \/ Return \/ SetDepth \/ Stopped

Spec == Init /\ [][Next]_vars
-----------------------------------------------------------------------------

\* Reference definitions: reachability by one or more calls, and the number
\* of frames on the longest chain of calls, by functions over path lengths.
Size == Cardinality(Nodes)

ReachIn[n \in 0 .. Size] ==    \* by at most n + 1 calls
  IF n = 0 THEN [f \in Nodes |-> Elements(in.callees[f])]
  ELSE [f \in Nodes |-> ReachIn[n-1][f] \cup UNION {ReachIn[n-1][g] : g \in Elements(in.callees[f])}]

Reach == ReachIn[Size]

Class(f) == LET R == Reach IN {f} \cup {g \in R[f] : f \in R[g]}

HasPath[n \in 1 .. Size] ==    \* the functions that start a chain of n frames
  IF n = 1 THEN Nodes
  ELSE {f \in Nodes : Elements(in.callees[f]) \cap HasPath[n-1] # {}}

LongestChain(f) ==
  LET R == Reach
  IN  IF \E g \in {f} \cup R[f] : g \in R[g] THEN -1
      ELSE CHOOSE n \in 1 .. Size : f \in HasPath[n] /\ \A m \in n+1 .. Size : f \notin HasPath[m]

(***************************************************************************)
(* Every emitted component is a class of mutually recursive functions, no  *)
(* more and no less, and is emitted once (InRecursiveSCC marks exactly     *)
(* these functions as recursive).                                          *)
(***************************************************************************)
ComponentsAreClasses ==
  /\ \A i \in DOMAIN sccs : \A f \in sccs[i] : sccs[i] = Class(f)
  /\ \A i, j \in DOMAIN sccs : sccs[i] = sccs[j] => i = j

(***************************************************************************)
(* What the depth pass relies on: a component comes after every component  *)
(* it calls, at any time ("Tarjan emits SCCs in reverse topological        *)
(* order"); a depth is never computed from a default.                      *)
(***************************************************************************)
CalleesFirst ==
  \A i \in DOMAIN sccs : \A f \in sccs[i] : \A g \in Elements(in.callees[f]) :
     \E j \in 1 .. i : g \in sccs[j]

RecursionExact ==
  SearchOver =>
    LET R == Reach
    IN  \A f \in UNION {{n} \cup R[n] : n \in Elements(in.keys)} :
           \E i \in DOMAIN sccs : f \in sccs[i] /\ (Recursive(sccs[i]) <=> f \in R[f])

DepthExact ==
  \A i \in DOMAIN depth : \A f \in sccs[i] : depth[i] = LongestChain(f)

(***************************************************************************)
(* What is measured is exact.  When the search is over every function      *)
(* reachable from a key is in a component, and a function has the          *)
(* recursion effect exactly when it can call itself.  The reported stack   *)
(* depth is the number of frames of the longest chain of calls, and -1     *)
(* exactly when recursion can be reached.                                  *)
(***************************************************************************)
MeasuresExact == RecursionExact /\ DepthExact

\* What is still to be done for n: to measure it (-1), to visit it (0), and,
\* as long as StrongConnect has not come to it, each callee (1, 2, ...) and
\* the return after the last.
LeftFor(n) ==
  LET all == 1 .. Len(in.callees[n]) + 1
  IN  (IF \E i \in DOMAIN depth : n \in sccs[i] THEN {} ELSE {-1})
      \cup (IF index[n] = -1 THEN {0} \cup all
            ELSE {j \in all : \E k \in DOMAIN calls : calls[k].fn = n /\ calls[k].at <= j})

(***************************************************************************)
(* Nothing is done twice: whatever the cycles of the graph, every step     *)
(* visits a function for the first time, passes one more callee of one     *)
(* function or measures one more component, and no step makes anything to  *)
(* do again.  So StrongConnect, which recurses on the native stack, is     *)
(* entered once per function and looks at each call once, and the search   *)
(* and the depth pass end after as many steps as there is left at first.   *)
(***************************************************************************)
NothingTwice ==
  [][/\ \A n \in Nodes : LeftFor(n)' \subseteq LeftFor(n)
     /\ \E n \in Nodes : LeftFor(n)' # LeftFor(n)]_vars
=============================================================================
