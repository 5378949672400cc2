---------------------------- MODULE RTInferProofs ----------------------------
(***************************************************************************)
(* Theorems about RTInfer, for every set of programs: from instructions to *)
(* summaries, stack depths and metadata.  The invariants of the scan, of   *)
(* the search and of the loop are those of RTScanProofs, RTSCCProofs and   *)
(* RTWorklistProofs; here they are put together.                           *)
(***************************************************************************)
EXTENDS RTInfer, RTInduction, SequenceTheorems

\* Any call graph and any input of the loop: what is handed on is one of them.
AllGraphs == {x \in [keys : Seq(Callables), callees : [Callables -> Seq(Callables)]] :
                /\ \A n \in Callables : x.callees[n] # <<>> => \E i \in DOMAIN x.keys : x.keys[i] = n
                /\ \A i, j \in DOMAIN x.keys : x.keys[i] = x.keys[j] => i = j}

AllInputs == {x \in [hops : [Funcs -> Seq(Hop)], direct : [Funcs -> Summary],
                     callers : [Funcs -> Seq(Funcs)], order : Seq(Funcs)] : WellFormed(x)}

S == INSTANCE RTScanProofs
Q == INSTANCE RTSCCProofs WITH in <- graph, Nodes <- Callables, Inputs <- AllGraphs
W == INSTANCE RTWorklistProofs WITH witness <- tags, Inputs <- AllInputs
-----------------------------------------------------------------------------
(***************************************************************************)
(* The modules composed here may assume what they assume, and what they    *)
(* define is the same seen through their proofs.                           *)
(***************************************************************************)
LEMMA ModuleSame == \A p : S!Module(p) <=> Scan!Module(p)
  BY DEF S!Module, Scan!Module, S!Instr, Scan!Instr, S!Info, Scan!Info, S!Listing, Scan!Listing,
         S!Callables, Scan!Callables, S!HeapKinds, Scan!HeapKinds

\* The scan may assume this.
LEMMA ScanFits ==
  /\ "Alloc" \in Kinds /\ Funcs # {}
  /\ Vehicles \subseteq Externals
  /\ Externals \cup S!Places \subseteq Names
  /\ Funcs \cap Names = {}
  /\ {"Throw", "Unknown"} \subseteq Kinds
  /\ \A p \in Programs : S!Module(p)
  BY KindsAssumption, FuncsAssumption, InferAssumption, ModuleSame DEF S!Places, Scan!Places

\* The search may assume this.
LEMMA SearchFits ==
  /\ Q!IsFiniteSet(Callables)
  /\ \A x \in AllGraphs : Q!WellFormed(x)
<1>1. Q!IsFiniteSet(Callables)
  BY InferAssumption DEF Q!IsFiniteSet, IsFiniteSet
<1> QED
  BY <1>1 DEF AllGraphs, Q!WellFormed

(***************************************************************************)
(* The scan.                                                               *)
(***************************************************************************)
LEMMA ScanStarts == Scan!Init => S!Init
  BY DEF S!Init, Scan!Init, S!NoSummary, Scan!NoSummary, S!Callables, Scan!Callables

\* Its steps.
LEMMA ScanSteps == Scan!Next => S!Next
  BY DEF S!Next, Scan!Next, S!Begin, Scan!Begin, S!OutOfScope, Scan!OutOfScope, S!Alloca, Scan!Alloca,
         S!PassOver, Scan!PassOver, S!ForwardArgument, Scan!ForwardArgument, S!ResolvedPointer,
         Scan!ResolvedPointer, S!UnknownPointer, Scan!UnknownPointer, S!TableCall, Scan!TableCall,
         S!ThrowVehicle, Scan!ThrowVehicle, S!UnknownExternal, Scan!UnknownExternal, S!InternalCall,
         Scan!InternalCall, S!EndDeferred, Scan!EndDeferred, S!EndPlain, Scan!EndPlain, S!Here, Scan!Here,
         S!Ins, Scan!Ins, S!Body, Scan!Body, S!Cur, Scan!Cur, S!Finished, Scan!Finished, S!Note, Scan!Note,
         S!Touched, Scan!Touched, S!SetHeap, Scan!SetHeap, S!SetEffects, Scan!SetEffects, S!Unwinds,
         Scan!Unwinds, S!At, Scan!At, S!Targets, Scan!Targets, S!CallEdges, Scan!CallEdges, S!Tabled,
         Scan!Tabled, S!NextFunction, Scan!NextFunction, S!Defers, Scan!Defers, S!FreshCallers,
         Scan!FreshCallers, S!FreshSites, Scan!FreshSites, S!FreshUnknown, Scan!FreshUnknown, S!NoSummary,
         Scan!NoSummary, S!Callables, Scan!Callables

\* Its types.
LEMMA ScanTypes == S!TypeOK => Scan!TypeOK
<1>1. S!Module(prog) => Scan!Module(prog)
  BY ModuleSame
<1> QED
  BY <1>1 DEF S!TypeOK, Scan!TypeOK, S!Callables, Scan!Callables, S!Summary, Scan!Summary, S!Chain, Scan!Chain,
         S!Frame, Scan!Frame, S!HopKinds, Scan!HopKinds, S!SourceKinds, Scan!SourceKinds, S!HeapKinds, Scan!HeapKinds

\* Its end, and what it hands over.
LEMMA ScanEnds == Scan!Finished <=> S!Finished
  BY DEF S!Finished, Scan!Finished

\* What the scan hands over.
LEMMA HandoverSame == Scan!Handover = S!Handover
  BY DEF S!Handover, Scan!Handover, S!DirectHops, Scan!DirectHops, S!ResolvedHops, Scan!ResolvedHops, S!Kept,
         Scan!Kept, S!Seen, Scan!Seen, S!Cardinality, Scan!Cardinality

\* Its selection of positions.
LEMMA KeptSame == \A s, I : Scan!Kept(s, I) = S!Kept(s, I)
  BY DEF S!Kept, Scan!Kept, S!Cardinality, Scan!Cardinality

\* How it reads instructions.
LEMMA ReadingSame ==
  /\ \A f : Scan!InScope(f) = S!InScope(f)
  /\ \A i : /\ Scan!OwnKinds(i) = S!OwnKinds(i)
           /\ Scan!HeapOf(i) = S!HeapOf(i)
           /\ Scan!Targets(i) = S!Targets(i)
  BY DEF S!InScope, Scan!InScope, S!OwnKinds, Scan!OwnKinds, S!HeapOf, Scan!HeapOf, S!Targets, Scan!Targets,
         S!Unwinds, Scan!Unwinds

(***************************************************************************)
(* The search.                                                             *)
(***************************************************************************)
LEMMA SearchSteps == Search!Next => Q!Next
  BY DEF Q!Next, Search!Next, Q!StartRoot, Search!StartRoot, Q!Descend, Search!Descend, Q!PassBy,
         Search!PassBy, Q!Return, Search!Return, Q!SetDepth, Search!SetDepth, Q!Enter, Search!Enter,
         Q!AtCallee, Search!AtCallee, Q!Callee, Search!Callee, Q!Callees, Search!Callees, Q!Active,
         Search!Active, Q!SeenLow, Search!SeenLow, Q!Elements, Search!Elements, Q!Lesser, Search!Lesser,
         Q!Popped, Search!Popped, Q!At, Search!At, Q!SearchOver, Search!SearchOver, Q!NewDepth,
         Search!NewDepth, Q!Recursive, Search!Recursive, Q!Calls, Search!Calls, Q!Successors,
         Search!Successors, Q!DepthOf, Search!DepthOf, Q!Cardinality, Search!Cardinality,
         Q!Stopped, Search!Stopped, Q!Finished, Search!Finished, Q!vars, Search!vars

\* Measuring is one of its steps.
LEMMA MeasureSteps == Search!SetDepth => Q!SetDepth
  BY DEF Q!SetDepth, Search!SetDepth, Q!SearchOver, Search!SearchOver, Q!NewDepth, Search!NewDepth,
         Q!Recursive, Search!Recursive, Q!Calls, Search!Calls, Q!Successors, Search!Successors, Q!DepthOf,
         Search!DepthOf, Q!Cardinality, Search!Cardinality, Q!Elements, Search!Elements

\* Its end, its types, and which components are recursive.
LEMMA SearchEnds == Search!SearchOver <=> Q!SearchOver
  BY DEF Q!SearchOver, Search!SearchOver

\* Its types.
LEMMA SearchTypes == Q!TypeOK => Search!TypeOK
  BY DEF Q!TypeOK, Search!TypeOK, Q!WellFormed, Search!WellFormed, Q!Activation, Search!Activation

\* Its test for recursion.
LEMMA RecursiveSame == \A C : Search!Recursive(C) <=> Q!Recursive(C)
  BY DEF Q!Recursive, Search!Recursive, Q!Calls, Search!Calls, Q!Elements, Search!Elements, Q!Cardinality,
         Search!Cardinality

(***************************************************************************)
(* The loop, and the summaries.                                            *)
(***************************************************************************)
LEMMA SpreadSteps == Spread!Process => W!Process
  BY DEF W!Process, Spread!Process, W!NewSummary, Spread!NewSummary, W!MergedChain, Spread!MergedChain,
         W!MergedHeap, Spread!MergedHeap, W!MergedHeapChain, Spread!MergedHeapChain, W!Through,
         Spread!Through, W!Inherited, Spread!Inherited, W!Carriers, Spread!Carriers, W!First, Spread!First,
         W!Most, Spread!Most, W!WithinBound, Spread!WithinBound, W!Same, Spread!Same, W!Woken, Spread!Woken,
         W!Tags, Spread!Tags, W!Carries, Spread!Carries, W!Effects, Spread!Effects, W!Reason, Spread!Reason,
         W!NormalHeap, Spread!NormalHeap

\* Its types.
LEMMA SpreadTypes == W!TypeOK => Spread!TypeOK
  BY DEF W!TypeOK, Spread!TypeOK, W!WellFormed, Spread!WellFormed, W!InputType, Spread!InputType,
         W!SourceChain, Spread!SourceChain, W!Carries, Spread!Carries, W!NormalHeap, Spread!NormalHeap,
         W!SourceKinds, Spread!SourceKinds, W!Summary, Spread!Summary, W!Chain, Spread!Chain, W!Frame,
         Spread!Frame, W!HopKinds, Spread!HopKinds, W!Hop, Spread!Hop, W!HeapKinds, Spread!HeapKinds

\* Effects and the types of summaries.
LEMMA SummarySame ==
  /\ Summary = S!Summary /\ Summary = W!Summary
  /\ \A s : /\ Effects(s) = S!Effects(s) /\ Effects(s) = W!Effects(s)
           /\ \A k : /\ Carries(s, k) <=> S!Carries(s, k)
                    /\ Carries(s, k) <=> W!Carries(s, k)
  BY DEF Summary, S!Summary, W!Summary, Chain, S!Chain, W!Chain, Frame, S!Frame, W!Frame,
         HopKinds, S!HopKinds, W!HopKinds, SourceKinds, S!SourceKinds, W!SourceKinds,
         HeapKinds, S!HeapKinds, W!HeapKinds, Effects, S!Effects, W!Effects, Carries, S!Carries, W!Carries

\* What the loop may rely on.
LEMMA WellFormedSame == \A x : (WellFormed(x) <=> S!WellFormed(x)) /\ (WellFormed(x) <=> W!WellFormed(x))
<1>1. \A x : WellFormed(x) <=> S!WellFormed(x)
  BY DEF S!WellFormed, WellFormed, S!InputType, InputType, S!SourceChain, SourceChain, S!Carries, Carries,
         S!NormalHeap, NormalHeap, S!SourceKinds, SourceKinds, S!Summary, Summary, S!Chain, Chain, S!Frame,
         Frame, S!HopKinds, HopKinds, S!Hop, Hop, S!HeapKinds, HeapKinds
<1>2. \A x : WellFormed(x) <=> W!WellFormed(x)
  BY DEF W!WellFormed, WellFormed, W!InputType, InputType, W!SourceChain, SourceChain, W!Carries, Carries,
         W!NormalHeap, NormalHeap, W!SourceKinds, SourceKinds, W!Summary, Summary, W!Chain, Chain, W!Frame,
         Frame, W!HopKinds, HopKinds, W!Hop, Hop, W!HeapKinds, HeapKinds
<1> QED
  BY <1>1, <1>2

\* The loop may assume this.
LEMMA SpreadFits ==
  /\ "Alloc" \in Kinds /\ Funcs # {}
  /\ MaxChain \in Nat
  /\ \A x \in AllInputs : W!WellFormed(x)
  BY WellFormedSame, KindsAssumption, FuncsAssumption, InferAssumption DEF AllInputs

-----------------------------------------------------------------------------

(***************************************************************************)
(* The call graph that the search goes over is the one that the program's  *)
(* instructions make.                                                      *)
(***************************************************************************)
Scanned == S!TypeOK /\ S!ScanInv /\ S!GraphRight /\ S!Finished

\* A declaration is no function.
LEMMA Apart == Funcs \cap Externals = {} /\ Funcs \in SUBSET Callables /\ Callables = Funcs \cup Externals
  BY InferAssumption DEF Callables

\* One calls what one calls from the region.
LEMMA FlowIs ==
  ASSUME Scanned
  PROVE  /\ \A f \in Funcs : Flow(f) = callGraph[f]
         /\ \A f \in Callables : Flow(f) \in SUBSET Callables
         /\ \A f \in Callables : f \notin Funcs => Flow(f) = {}
<1>1. ASSUME NEW f \in Funcs PROVE Flow(f) = callGraph[f]
  <2>1. callGraph[f] = UNION {S!Called(prog.body[f][i]) : i \in S!InScope(f)}
    BY S!GraphAtEnd, ScanFits DEF Scanned
  <2>2. callGraph[f] \in SUBSET Callables
    BY DEF Scanned, S!TypeOK, S!Callables, Callables
  <2>3. ASSUME NEW g \in Callables, NEW i \in S!InScope(f)
        PROVE  g \in S!Called(prog.body[f][i]) <=>
                 \/ prog.body[f][i].op = "call" /\ prog.body[f][i].callee = g /\ g \in Funcs \ prog.known
                 \/ prog.body[f][i].op = "pointer" /\ g \in S!Targets(prog.body[f][i])
    BY DEF S!Called
  <2>4. Flow(f) = {g \in Callables : \E i \in S!InScope(f) :
                      \/ prog.body[f][i].op = "call" /\ prog.body[f][i].callee = g /\ g \in Funcs \ prog.known
                      \/ prog.body[f][i].op = "pointer" /\ g \in S!Targets(prog.body[f][i])}
    BY ReadingSame DEF Flow
  <2> QED
    BY <2>1, <2>2, <2>3, <2>4
<1> QED
  BY <1>1 DEF Flow

\* Externals, one after the other.
LEMMA ExternalsListed ==
  /\ SetToSeq(Externals) \in Seq(Externals)
  /\ \A e \in Externals : \E i \in DOMAIN SetToSeq(Externals) : SetToSeq(Externals)[i] = e
<1>1. IsFiniteSet(Externals)
  BY Apart, InferAssumption, FS_Subset
<1>2. PICK n \in Nat : ExistsBijection(1 .. n, Externals)
  BY <1>1, FS_NatBijection
<1>3. Cardinality(Externals) = n
  BY <1>2, FS_CountingElements
<1>4. PICK b \in [1 .. n -> Externals] : IsInjective(b)
  BY <1>2 DEF ExistsBijection, Bijection, Injection
<1>5. /\ SetToSeq(Externals) \in [1 .. n -> Externals]
      /\ IsInjective(SetToSeq(Externals))
  BY <1>3, <1>4 DEF SetToSeq
<1>6. SetToSeq(Externals) \in Seq(Externals)
  BY <1>5
<1>7. SetToSeq(Externals) \in Injection(1 .. n, Externals)
  BY <1>5 DEF Injection
<1>8. SetToSeq(Externals) \in Surjection(1 .. n, Externals)
  <2>1. IsFiniteSet(1 .. n) /\ Cardinality(1 .. n) = n
    BY FS_Interval
  <2> QED
    BY <1>1, <1>3, <1>7, <2>1, FS_Injection
<1> QED
  BY <1>5, <1>6, <1>8 DEF Surjection


\* The order of addresses lists all callables.
LEMMA AddressesListed ==
  ASSUME S!TypeOK
  PROVE  /\ prog.addr \in Seq(Funcs)
         /\ \A f \in Funcs : \E i \in DOMAIN prog.addr : prog.addr[i] = f
         /\ \A i, j \in DOMAIN prog.addr : prog.addr[i] = prog.addr[j] => i = j
         /\ ByAddress \in Seq(Callables)
         /\ \A g \in Callables : \E i \in DOMAIN ByAddress : ByAddress[i] = g
<1> DEFINE a == prog.addr
           e == SetToSeq(Externals)
<1>1. /\ a \in Seq(Funcs)
      /\ \A f \in Funcs : \E i \in DOMAIN a : a[i] = f
      /\ \A i, j \in DOMAIN a : a[i] = a[j] => i = j
  BY DEF S!TypeOK, S!Module, S!Listing
<1>2. /\ e \in Seq(Externals)
      /\ \A g \in Externals : \E i \in DOMAIN e : e[i] = g
  BY ExternalsListed
<1>3. ByAddress = a \o e
  BY DEF ByAddress
<1> HIDE DEF a, e
<1>4. /\ Len(a) \in Nat /\ DOMAIN a = 1 .. Len(a) /\ Len(e) \in Nat /\ DOMAIN e = 1 .. Len(e)
      /\ a \in Seq(Callables) /\ e \in Seq(Callables)
  BY <1>1, <1>2, Apart
<1>5. /\ a \o e \in Seq(Callables) /\ DOMAIN (a \o e) = 1 .. Len(a) + Len(e)
      /\ \A i \in 1 .. Len(a) + Len(e) : (a \o e)[i] = IF i <= Len(a) THEN a[i] ELSE e[i - Len(a)]
  BY <1>4, ConcatProperties, LenProperties
<1>6. ASSUME NEW g \in Funcs PROVE \E i \in DOMAIN (a \o e) : (a \o e)[i] = g
  <2>1. PICK i \in 1 .. Len(a) : a[i] = g
    BY <1>1, <1>4
  <2>2. i \in 1 .. Len(a) + Len(e) /\ (a \o e)[i] = a[i]
    BY <1>4, <1>5
  <2> QED
    BY <1>5, <2>1, <2>2
<1>7. ASSUME NEW g \in Externals PROVE \E i \in DOMAIN (a \o e) : (a \o e)[i] = g
  <2>1. PICK i \in 1 .. Len(e) : e[i] = g
    BY <1>2, <1>4
  <2>2. Len(a) + i \in 1 .. Len(a) + Len(e) /\ (a \o e)[Len(a) + i] = e[i]
    <3>1. Len(a) + i \in 1 .. Len(a) + Len(e) /\ ~(Len(a) + i <= Len(a)) /\ (Len(a) + i) - Len(a) = i
      BY <1>4
    <3> QED
      BY <1>5, <3>1
  <2> QED
    BY <1>5, <2>1, <2>2
<1> QED
  BY <1>1, <1>3, <1>5, <1>6, <1>7, Apart DEF a

\* The graph that is made has just the calls of the program.
LEMMA GraphIs ==
  ASSUME Scanned
  PROVE  /\ Graph \in AllGraphs
         /\ \A n \in Callables : {Graph.callees[n][i] : i \in DOMAIN Graph.callees[n]} = Flow(n)
         /\ {Graph.keys[i] : i \in DOMAIN Graph.keys} = Funcs
<1> DEFINE I(n) == {i \in DOMAIN ByAddress : ByAddress[i] \in callGraph[n]}
<1>1. \A n \in Callables : Graph.callees[n] = IF n \in Funcs THEN S!Kept(ByAddress, I(n)) ELSE <<>>
  BY KeptSame DEF Graph
<1>2. Graph.keys = prog.addr /\ DOMAIN Graph.callees = Callables /\ Graph = [keys |-> Graph.keys, callees |-> Graph.callees]
      /\ Graph.callees = [n \in Callables |-> Graph.callees[n]]
  BY DEF Graph
<1>3. /\ ByAddress \in Seq(Callables)
      /\ \A g \in Callables : \E i \in DOMAIN ByAddress : ByAddress[i] = g
  BY AddressesListed DEF Scanned
<1>4. ASSUME NEW n \in Funcs
      PROVE  /\ S!Kept(ByAddress, I(n)) \in Seq(Callables)
             /\ {S!Kept(ByAddress, I(n))[i] : i \in DOMAIN S!Kept(ByAddress, I(n))} = Flow(n)
  <2> DEFINE J == I(n)
             s == S!Kept(ByAddress, J)
  <2>1. \A i \in DOMAIN ByAddress : i \in J <=> ByAddress[i] \in callGraph[n]
    OBVIOUS
  <2>2. Flow(n) = callGraph[n] /\ Flow(n) \in SUBSET Callables
    BY FlowIs, Apart
  <2> HIDE DEF J
  <2>3. /\ s \in Seq(Callables)
        /\ \A j \in DOMAIN s : \E i \in DOMAIN ByAddress : i \in J /\ s[j] = ByAddress[i]
        /\ \A i \in DOMAIN ByAddress : i \in J => \E j \in DOMAIN s : s[j] = ByAddress[i]
    <3>1. s \in Seq(Callables) /\ S!Picks(s, ByAddress, J)
      BY <1>3, S!KeptPlaces, ScanFits
    <3> QED
      BY <3>1 DEF S!Picks
  <2> HIDE DEF s
  <2>4. ASSUME NEW j \in DOMAIN s PROVE s[j] \in Flow(n)
    BY <2>1, <2>2, <2>3
  <2>5. ASSUME NEW g \in Flow(n) PROVE \E j \in DOMAIN s : s[j] = g
    BY <1>3, <2>1, <2>2, <2>3
  <2>6. {s[i] : i \in DOMAIN s} = Flow(n)
    BY <2>4, <2>5
  <2> QED
    BY <2>3, <2>6 DEF s, J
<1> HIDE DEF I
<1>5. ASSUME NEW n \in Callables
      PROVE  /\ Graph.callees[n] \in Seq(Callables)
             /\ {Graph.callees[n][i] : i \in DOMAIN Graph.callees[n]} = Flow(n)
             /\ Graph.callees[n] # <<>> => n \in Funcs
  <2>1. CASE n \in Funcs
    BY <1>1, <1>4, <2>1
  <2>2. CASE n \notin Funcs
    <3>1. Graph.callees[n] = <<>> /\ Flow(n) = {}
      BY <1>1, <2>2, FlowIs
    <3>2. <<>> \in Seq(Callables) /\ {<<>>[i] : i \in DOMAIN <<>>} = {}
      OBVIOUS
    <3> QED
      BY <3>1, <3>2
  <2> QED
    BY <2>1, <2>2
<1>6. /\ prog.addr \in Seq(Funcs) /\ prog.addr \in Seq(Callables)
      /\ \A f \in Funcs : \E i \in DOMAIN prog.addr : prog.addr[i] = f
      /\ \A i, j \in DOMAIN prog.addr : prog.addr[i] = prog.addr[j] => i = j
  <2>1. prog.addr \in Seq(Funcs)
    BY AddressesListed DEF Scanned
  <2>2. prog.addr \in Seq(Callables)
    BY <2>1, Apart
  <2> QED
    BY <2>1, <2>2, AddressesListed DEF Scanned
<1>7. Graph \in AllGraphs
  <2>1. Graph.callees \in [Callables -> Seq(Callables)]
    BY <1>2, <1>5
  <2>2. Graph \in [keys : Seq(Callables), callees : [Callables -> Seq(Callables)]]
    BY <1>2, <1>6, <2>1
  <2> QED
    BY <1>2, <1>5, <1>6, <2>2 DEF AllGraphs
<1>8. {Graph.keys[i] : i \in DOMAIN Graph.keys} = Funcs
  BY <1>2, <1>6
<1> QED
  BY <1>5, <1>7, <1>8

-----------------------------------------------------------------------------
(***************************************************************************)
(* Reached is the least set that holds what f calls and what is called     *)
(* from there.                                                             *)
(***************************************************************************)
Wider(X) == X \cup UNION {Flow(g) : g \in X}

\* There are functions, and not infinitely many.
LEMMA FuncsCounted == IsFiniteSet(Funcs) /\ Cardinality(Funcs) \in Nat /\ Cardinality(Funcs) >= 1
<1>1. IsFiniteSet(Funcs)
  BY Apart, InferAssumption, FS_Subset
<1>2. Cardinality(Funcs) \in Nat /\ Cardinality(Funcs) # 0
  BY <1>1, FuncsAssumption, FS_CardinalityType, FS_EmptySet
<1> QED
  BY <1>1, <1>2

\* Closed, and within every closed set.
LEMMA ReachedIsLeast ==
  ASSUME Scanned, NEW f \in Callables
  PROVE  /\ Reached(f) \in SUBSET Callables
         /\ Flow(f) \subseteq Reached(f)
         /\ \A g \in Reached(f) : Flow(g) \subseteq Reached(f)
         /\ \A S0 \in SUBSET Callables : Flow(f) \subseteq S0 /\ (\A g \in S0 : Flow(g) \subseteq S0) => Reached(f) \subseteq S0
<1> DEFINE n == Cardinality(Funcs)
           step[i \in 0 .. n] == IF i = 0 THEN Flow(f) ELSE step[i-1] \cup UNION {Flow(g) : g \in step[i-1]}
           T == SUBSET Callables
           more == [X \in T |-> Wider(X)]
           F == [i \in Nat |-> more]
           b == Flow(f)
           body(h) == [i \in 0 .. n |-> IF i = 0 THEN Flow(f) ELSE h[i-1] \cup UNION {Flow(g) : g \in h[i-1]}]
<1>1. n \in Nat /\ n >= 1
  BY FuncsCounted
<1>2. Reached(f) = step[n]
  BY DEF Reached
<1>0. \A g \in Callables : Flow(g) \in SUBSET Callables
  BY FlowIs
<1>3. more \in [T -> T] /\ F \in [Nat -> [T -> T]] /\ b \in T
  <2>1. \A X \in T : Wider(X) \in T
    BY <1>0 DEF Wider
  <2> QED
    BY <2>1, <1>0
<1>4. step = CHOOSE h : h = body(h)
  BY DEF step
<1> HIDE DEF step, n
<1>5. PICK s \in [0 .. n -> T] : s[0] = b /\ \A i \in 1 .. n : s[i] = F[i][s[i - 1]]
  <2> HIDE DEF T, more, F, b, body
  <2>1. b \in T /\ F \in [Nat -> [T -> T]] /\ n \in Nat
    BY <1>1, <1>3
  <2> QED
    BY ONLY <2>1, RecursionExists, Z3T(30)
<1>6. \A i \in 1 .. n : s[i] = Wider(s[i - 1])
  <2>1. ASSUME NEW i \in 1 .. n PROVE s[i] = Wider(s[i - 1])
    <3>1. i \in Nat /\ i - 1 \in 0 .. n
      BY <1>1
    <3>2. s[i - 1] \in T
      BY <3>1, <1>5
    <3>3. F[i][s[i - 1]] = Wider(s[i - 1])
      BY <3>1, <3>2
    <3> QED
      BY <1>5, <3>3
  <2> QED
    BY <2>1
<1>7. s = body(s)
  <2>1. ASSUME NEW i \in 0 .. n PROVE s[i] = body(s)[i]
    <3>1. CASE i = 0
      BY <3>1, <1>5
    <3>2. CASE i # 0
      <4>1. i \in 1 .. n
        BY <3>2, <1>1
      <4> QED
        BY <4>1, <3>2, <1>6 DEF Wider
    <3> QED
      BY <3>1, <3>2
  <2>2. s = [i \in 0 .. n |-> s[i]]
    BY <1>5
  <2> QED
    BY <2>1, <2>2
<1>8. step = body(step)
  <2> HIDE DEF body
  <2>1. \E h : h = body(h)
    BY <1>7
  <2> QED
    BY <1>4, <2>1
<1>9. step[0] = Flow(f) /\ \A i \in 1 .. n : step[i] = Wider(step[i - 1])
  <2>1. step[0] = Flow(f)
    <3>1. 0 \in 0 .. n
      BY <1>1
    <3> QED
      BY <3>1, <1>8
  <2>2. ASSUME NEW i \in 1 .. n PROVE step[i] = Wider(step[i - 1])
    <3>1. i \in 0 .. n /\ i # 0
      BY <1>1
    <3> QED
      BY <3>1, <1>8 DEF Wider
  <2> QED
    BY <2>1, <2>2
<1>10. \A i \in 0 .. n : step[i] \in T /\ Flow(f) \subseteq step[i]
  <2> DEFINE G == {i \in 0 .. n : step[i] \in T /\ Flow(f) \subseteq step[i]}
  <2>1. 0 \in G
    BY <1>0, <1>1, <1>9
  <2>2. ASSUME NEW i \in 0 .. n - 1, i \in G PROVE i + 1 \in G
    <3>1. i + 1 \in 1 .. n /\ i + 1 - 1 = i /\ i + 1 \in 0 .. n
      BY <1>1
    <3>2. step[i + 1] = Wider(step[i])
      <4>1. step[i + 1] = Wider(step[i + 1 - 1])
        BY <3>1, <1>9
      <4> QED
        BY <4>1, <3>1
    <3>3. step[i] \in T /\ Flow(f) \subseteq step[i]
      BY <2>2
    <3> QED
      BY <1>0, <3>1, <3>2, <3>3 DEF Wider
  <2>3. 0 .. n \subseteq G
    <3> HIDE DEF G
    <3> QED
      BY <2>1, <2>2, <1>1, SegmentInduction
  <2> QED
    BY <2>3
<1>11. step[n] = Wider(step[n - 1]) /\ n - 1 \in 0 .. n /\ n \in 0 .. n
  BY <1>1, <1>9
\* The functions among them stop growing one step earlier.
<1>12. \A g \in step[n - 1] : Flow(g) \cap Funcs \subseteq step[n - 1]
  <2> DEFINE t == [i \in 0 .. n |-> IF i = 0 THEN {} ELSE step[i - 1] \cap Funcs]
             G == [X \in SUBSET Funcs |-> X \cup ((Flow(f) \cup UNION {Flow(g) : g \in X}) \cap Funcs)]
  <2>1. /\ G \in [SUBSET Funcs -> SUBSET Funcs] /\ \A X \in SUBSET Funcs : X \subseteq G[X]
        /\ t \in [0 .. n -> SUBSET Funcs]
    OBVIOUS
  <2>2. ASSUME NEW i \in 1 .. n PROVE t[i] = G[t[i - 1]]
    <3>1. i - 1 \in 0 .. n /\ i \in 0 .. n /\ i # 0
      BY <1>1
    <3>2. t[i] = step[i - 1] \cap Funcs
      BY <3>1
    <3>3. CASE i = 1
      <4>1. t[i - 1] = {} /\ step[i - 1] = Flow(f)
        BY <1>9, <3>1, <3>3
      <4>2. G[{}] = Flow(f) \cap Funcs
        OBVIOUS
      <4> QED
        BY <3>2, <4>1, <4>2
    <3>4. CASE i # 1
      <4>1. i - 1 \in 1 .. n /\ i - 1 - 1 \in 0 .. n /\ i - 1 # 0
        BY <3>1, <3>4, <1>1
      <4>2. t[i - 1] = step[i - 1 - 1] \cap Funcs
        BY <3>1, <4>1
      <4>3. step[i - 1] = Wider(step[i - 1 - 1])
        BY <1>9, <4>1
      <4>4. step[i - 1 - 1] \in T /\ Flow(f) \subseteq step[i - 1 - 1]
        BY <1>10, <4>1
      <4> DEFINE X == step[i - 1 - 1]
      <4>5. G[X \cap Funcs] = (X \cap Funcs) \cup ((Flow(f) \cup UNION {Flow(g) : g \in X \cap Funcs}) \cap Funcs)
        BY <4>4
      <4> HIDE DEF X, t, G
      <4>6. \A g \in X : g \notin Funcs => Flow(g) = {}
        BY <4>4, FlowIs DEF X
      <4>7. (UNION {Flow(g) : g \in X \cap Funcs}) = (UNION {Flow(g) : g \in X})
        BY <4>6
      <4>8. Wider(X) \cap Funcs = (X \cap Funcs) \cup ((UNION {Flow(g) : g \in X}) \cap Funcs)
        BY DEF Wider
      <4>9. Flow(f) \subseteq X
        BY <4>4 DEF X
      <4>10. Wider(X) \cap Funcs = G[X \cap Funcs]
        BY <4>5, <4>7, <4>8, <4>9
      <4> QED
        BY <3>2, <4>2, <4>3, <4>10 DEF X
    <3> QED
      BY <3>3, <3>4
  <2>3. G[t[n]] = t[n]
    <3> HIDE DEF t, G
    <3> QED
      BY <2>1, <2>2, FuncsCounted, GrowthStops DEF n
  <2>4. t[n] = step[n - 1] \cap Funcs
    BY <1>1
  <2>5. G[t[n]] = t[n] \cup ((Flow(f) \cup UNION {Flow(g) : g \in t[n]}) \cap Funcs)
    <3>1. t[n] \in SUBSET Funcs
      <4> HIDE DEF t, G
      <4> QED
        BY <1>11, <2>1
    <3> HIDE DEF t
    <3> QED
      BY <3>1
  <2> HIDE DEF t, G
  <2>6. \A g \in step[n - 1] \cap Funcs : Flow(g) \cap Funcs \subseteq step[n - 1]
    BY <2>3, <2>4, <2>5
  <2>7. \A g \in step[n - 1] : g \notin Funcs => Flow(g) = {}
    BY <1>10, <1>11, FlowIs
  <2> QED
    BY <2>6, <2>7
<1>13. \A g \in step[n] : Flow(g) \subseteq step[n]
  <2> SUFFICES ASSUME NEW g \in step[n] PROVE Flow(g) \subseteq step[n]
    OBVIOUS
  <2>1. CASE g \in Funcs
    <3>1. g \in step[n - 1]
      BY <2>1, <1>11, <1>12 DEF Wider
    <3> QED
      BY <3>1, <1>11 DEF Wider
  <2>2. CASE g \notin Funcs
    <3>1. g \in Callables
      BY <1>10, <1>11
    <3> QED
      BY <2>2, <3>1, FlowIs
  <2> QED
    BY <2>1, <2>2
<1>14. ASSUME NEW S0 \in SUBSET Callables, Flow(f) \subseteq S0, \A g \in S0 : Flow(g) \subseteq S0
       PROVE  step[n] \subseteq S0
  <2> DEFINE G == {i \in 0 .. n : step[i] \subseteq S0}
  <2>1. 0 \in G
    BY <1>1, <1>9, <1>14
  <2>2. ASSUME NEW i \in 0 .. n - 1, i \in G PROVE i + 1 \in G
    <3>1. i + 1 \in 1 .. n /\ i + 1 - 1 = i /\ i + 1 \in 0 .. n
      BY <1>1
    <3>2. step[i + 1] = Wider(step[i])
      <4>1. step[i + 1] = Wider(step[i + 1 - 1])
        BY <3>1, <1>9
      <4> QED
        BY <4>1, <3>1
    <3> QED
      BY <3>1, <3>2, <2>2, <1>14 DEF Wider
  <2>3. 0 .. n \subseteq G
    <3> HIDE DEF G
    <3> QED
      BY <2>1, <2>2, <1>1, SegmentInduction
  <2> QED
    BY <2>3, <1>11
<1> QED
  BY <1>2, <1>10, <1>11, <1>13, <1>14


\* The callees that the search sees are the ones of the program.
LEMMA SearchSees ==
  ASSUME Scanned, graph = Graph
  PROVE  /\ Q!WellFormed(graph)
         /\ \A f \in Callables : Q!Elements(graph.callees[f]) = Flow(f)
         /\ Q!Elements(graph.keys) = Funcs
<1>1. Q!WellFormed(graph)
  BY GraphIs, SearchFits
<1> QED
  BY <1>1, GraphIs DEF Q!Elements

\* What its reference definition reaches is what the program reaches.
LEMMA ReachSame ==
  ASSUME Scanned, graph = Graph, NEW f \in Callables
  PROVE  Q!Reach[f] = Reached(f)
<1> DEFINE R == Q!Reach[f]
           P == Reached(f)
<1>1. Q!WellFormed(graph) /\ \A g \in Callables : Q!Elements(graph.callees[g]) = Flow(g)
  BY SearchSees
<1>2. /\ R \in SUBSET Callables
      /\ Q!Elements(graph.callees[f]) \subseteq R
      /\ Q!Closed(R)
      /\ \A X \in SUBSET Callables : Q!Elements(graph.callees[f]) \subseteq X /\ Q!Closed(X) => R \subseteq X
  BY <1>1, SearchFits, Q!ReachIsLeast
<1>3. /\ P \in SUBSET Callables
      /\ Flow(f) \subseteq P
      /\ \A g \in P : Flow(g) \subseteq P
      /\ \A X \in SUBSET Callables : Flow(f) \subseteq X /\ (\A g \in X : Flow(g) \subseteq X) => P \subseteq X
  BY ReachedIsLeast
<1> HIDE DEF R, P
<1>4. \A X \in SUBSET Callables : Q!Closed(X) <=> \A g \in X : Flow(g) \subseteq X
  BY <1>1 DEF Q!Closed
<1>5. R \subseteq P
  BY <1>1, <1>2, <1>3, <1>4
<1>6. P \subseteq R
  BY <1>1, <1>2, <1>3, <1>4
<1> QED
  BY <1>5, <1>6 DEF R, P

\* From what is reached nothing more is reached; a declaration reaches nothing.
LEMMA ReachedOn ==
  ASSUME Scanned, NEW f \in Callables
  PROVE  /\ \A g \in Reached(f) : g \in Callables /\ Reached(g) \subseteq Reached(f)
         /\ f \notin Funcs => Reached(f) = {}
<1>1. ASSUME NEW g \in Reached(f) PROVE g \in Callables /\ Reached(g) \subseteq Reached(f)
  <2>1. /\ Reached(f) \in SUBSET Callables /\ g \in Callables
        /\ \A h \in Reached(f) : Flow(h) \subseteq Reached(f)
    BY ReachedIsLeast
  <2>2. \A X \in SUBSET Callables : Flow(g) \subseteq X /\ (\A h \in X : Flow(h) \subseteq X) => Reached(g) \subseteq X
    BY <2>1, ReachedIsLeast
  <2> QED
    BY <2>1, <2>2
<1>2. ASSUME f \notin Funcs PROVE Reached(f) = {}
  <2>1. Flow(f) = {}
    BY <1>2, FlowIs
  <2>2. \A X \in SUBSET Callables : Flow(f) \subseteq X /\ (\A h \in X : Flow(h) \subseteq X) => Reached(f) \subseteq X
    BY ReachedIsLeast
  <2>3. {} \in SUBSET Callables
    OBVIOUS
  <2> QED
    BY <2>1, <2>2, <2>3
<1> QED
  BY <1>1, <1>2

\* Nor does its reference definition of recursion say otherwise.
LEMMA LoopsSame ==
  ASSUME Scanned, graph = Graph, NEW f \in Callables
  PROVE  /\ Q!Loops(f) <=> \E g \in {f} \cup Reached(f) : g \in Reached(g)
         /\ f \in Funcs => (Q!Loops(f) <=> Cyclic(f))
<1>1. \A g \in Callables : Q!Reach[g] = Reached(g)
  BY ReachSame
<1>2. Reached(f) \in SUBSET Callables
  BY ReachedIsLeast
<1>3. Q!Loops(f) <=> \E g \in {f} \cup Reached(f) : g \in Reached(g)
  BY <1>1, <1>2 DEF Q!Loops
<1>4. \A g \in Callables : g \in Reached(g) => g \in Funcs
  BY ReachedOn
<1> QED
  BY <1>2, <1>3, <1>4 DEF Cyclic, Closure


(***************************************************************************)
(* Chains of calls: p[n] are the callables from which n frames may stand   *)
(* on the stack.                                                           *)
(***************************************************************************)
Chained(p, m) ==
  \A n \in 1 .. m : p[n] = IF n = 1 THEN Callables ELSE {g \in Callables : Flow(g) \cap p[n-1] # {}}

\* The functions from which a chain of n frames starts, by recursion.
LEMMA ChainedIs ==
  ASSUME NEW p, NEW m \in Nat, Chained(p, m), NEW n \in 1 .. m
  PROVE  /\ n = 1 => p[n] = Callables
         /\ n # 1 => n - 1 \in 1 .. m /\ p[n] = {g \in Callables : Flow(g) \cap p[n-1] # {}}
<1>1. p[n] = IF n = 1 THEN Callables ELSE {g \in Callables : Flow(g) \cap p[n-1] # {}}
  BY DEF Chained
<1>2. n # 1 => n - 1 \in 1 .. m
  OBVIOUS
<1> QED
  BY <1>1, <1>2

\* There is only one such function.
LEMMA ChainsAgree ==
  ASSUME NEW p, NEW q, NEW m \in Nat, NEW l \in Nat, Chained(p, m), Chained(q, l),
         NEW n \in 1 .. m, n \in 1 .. l
  PROVE  p[n] = q[n]
<1> DEFINE T == {i \in Nat : i \in 1 .. m /\ i \in 1 .. l => p[i] = q[i]}
<1>1. 0 \in T
  OBVIOUS
<1>2. ASSUME NEW i \in Nat, i \in T PROVE i + 1 \in T
  <2> SUFFICES ASSUME i + 1 \in 1 .. m, i + 1 \in 1 .. l PROVE p[i + 1] = q[i + 1]
    OBVIOUS
  <2> DEFINE j == i + 1
  <2>1. j - 1 = i /\ j \in Nat
    OBVIOUS
  <2>2. i \in 1 .. m /\ i \in 1 .. l => p[i] = q[i]
    BY <1>2
  <2> HIDE DEF T, j
  <2>3. CASE j = 1
    <3>1. j \in 1 .. m /\ j \in 1 .. l
      BY DEF j
    <3>2. p[j] = Callables
      BY <2>3, <3>1, ChainedIs
    <3>3. q[j] = Callables
      BY <2>3, <3>1, ChainedIs
    <3> QED
      BY <3>2, <3>3 DEF j
  <2>4. CASE j # 1
    <3>1. j \in 1 .. m /\ j \in 1 .. l
      BY DEF j
    <3>2. i \in 1 .. m /\ p[j] = {g \in Callables : Flow(g) \cap p[i] # {}}
      BY <2>1, <2>4, <3>1, ChainedIs
    <3>3. i \in 1 .. l /\ q[j] = {g \in Callables : Flow(g) \cap q[i] # {}}
      BY <2>1, <2>4, <3>1, ChainedIs
    <3> QED
      BY <2>2, <3>2, <3>3 DEF j
  <2> QED
    BY <2>3, <2>4
<1>3. Nat \subseteq T
  <2> HIDE DEF T
  <2> QED
    BY <1>1, <1>2, SetInduction
<1> QED
  BY <1>3

\* Without a cycle no chain is longer than there are callables to reach, nor
\* has it more than one frame that is not of a function.
Short(n, g) == /\ n <= Cardinality(Reached(g)) + 1
               /\ n <= Cardinality(({g} \cup Reached(g)) \cap Funcs) + 1

Free(h) == \A e \in {h} \cup Reached(h) : e \notin Reached(e)

\* Reached counts its functions.
LEMMA ReachedCounted ==
  ASSUME Scanned, NEW h \in Callables
  PROVE  /\ IsFiniteSet(Reached(h)) /\ Cardinality(Reached(h)) \in Nat
         /\ IsFiniteSet(({h} \cup Reached(h)) \cap Funcs)
         /\ Cardinality(({h} \cup Reached(h)) \cap Funcs) \in Nat
<1>1. IsFiniteSet(Callables) /\ Reached(h) \subseteq Callables /\ ({h} \cup Reached(h)) \cap Funcs \subseteq Callables
  BY InferAssumption, ReachedIsLeast
<1>2. IsFiniteSet(Reached(h)) /\ IsFiniteSet(({h} \cup Reached(h)) \cap Funcs)
  BY <1>1, FS_Subset
<1> QED
  BY <1>2, FS_CardinalityType

\* One call more.
LEMMA ShortGrows ==
  ASSUME Scanned, NEW h \in Callables, Free(h), NEW e \in Flow(h), NEW n \in Nat
  PROVE  e \in Callables /\ Free(e) /\ (Short(n, e) => Short(n + 1, h))
<1> DEFINE A == Reached(e)
           B == Reached(h)
           C == ({e} \cup Reached(e)) \cap Funcs
           D == ({h} \cup Reached(h)) \cap Funcs
<1>1. e \in Callables /\ e \in Reached(h) /\ Reached(e) \subseteq Reached(h) /\ h \in Funcs
  BY ReachedIsLeast, ReachedOn, FlowIs
<1>2. Free(e)
  BY <1>1 DEF Free
<1>3. e \notin Reached(e) /\ h \notin Reached(h)
  BY <1>2 DEF Free
<1>4. /\ IsFiniteSet(A) /\ Cardinality(A) \in Nat /\ IsFiniteSet(B) /\ Cardinality(B) \in Nat
      /\ IsFiniteSet(C) /\ Cardinality(C) \in Nat /\ IsFiniteSet(D) /\ Cardinality(D) \in Nat
  BY <1>1, ReachedCounted
<1>5. A \subseteq B /\ A # B /\ C \subseteq D /\ C # D
  BY <1>1, <1>3
<1> HIDE DEF A, B, C, D
<1>6. Cardinality(A) < Cardinality(B) /\ Cardinality(C) < Cardinality(D)
  BY <1>4, <1>5, FS_Subset
<1>7. ASSUME n <= Cardinality(A) + 1, n <= Cardinality(C) + 1
      PROVE  n + 1 <= Cardinality(B) + 1 /\ n + 1 <= Cardinality(D) + 1
  BY <1>4, <1>6, <1>7
<1> QED
  BY <1>1, <1>2, <1>7 DEF Short, A, B, C, D

\* Without a cycle a chain has no more frames than that.
LEMMA ChainsShort ==
  ASSUME Scanned, NEW p, NEW m \in Nat, Chained(p, m), NEW n \in 1 .. m,
         NEW g \in Callables, g \in p[n], Free(g)
  PROVE  Short(n, g)
<1> DEFINE T == {i \in Nat : i \in 1 .. m =>
                   \A h \in Callables : h \in p[i] /\ Free(h) => Short(i, h)}
<1>1. 0 \in T
  OBVIOUS
<1>2. ASSUME NEW i \in Nat, i \in T PROVE i + 1 \in T
  <2> SUFFICES ASSUME i + 1 \in 1 .. m, NEW h \in Callables, h \in p[i + 1], Free(h)
               PROVE  Short(i + 1, h)
    OBVIOUS
  <2> DEFINE j == i + 1
  <2>1. j - 1 = i /\ j \in Nat /\ j \in 1 .. m
    OBVIOUS
  <2>2. i \in 1 .. m => \A e \in Callables : e \in p[i] /\ Free(e) => Short(i, e)
    BY <1>2
  <2>3. h \in p[j]
    OBVIOUS
  <2> HIDE DEF T, j
  <2>4. CASE j = 1
    <3>1. Cardinality(Reached(h)) \in Nat /\ Cardinality(({h} \cup Reached(h)) \cap Funcs) \in Nat
      BY ReachedCounted
    <3> QED
      BY <2>4, <3>1 DEF Short, j
  <2>5. CASE j # 1
    <3>1. i \in 1 .. m /\ p[j] = {e \in Callables : Flow(e) \cap p[i] # {}}
      BY <2>1, <2>5, ChainedIs
    <3>2. PICK e \in Flow(h) : e \in p[i]
      BY <2>3, <3>1
    <3>3. e \in Callables /\ Free(e) /\ (Short(i, e) => Short(i + 1, h))
      BY ShortGrows
    <3> QED
      BY <2>2, <3>1, <3>2, <3>3
  <2> QED
    BY <2>4, <2>5
<1>3. Nat \subseteq T
  <2> HIDE DEF T
  <2> QED
    BY <1>1, <1>2, SetInduction
<1> QED
  BY <1>3


\* The search's reference definition of chains.
LEMMA HasPathChained ==
  ASSUME Scanned, graph = Graph
  PROVE  Q!Size = Cardinality(Callables) /\ Q!Size \in Nat /\ Chained(Q!HasPath, Q!Size)
<1>1. Q!Size = Cardinality(Callables)
  BY DEF Q!Size, Q!Cardinality, Cardinality
<1>2. Q!Size \in Nat
  BY <1>1, InferAssumption, FS_CardinalityType
<1>3. Q!WellFormed(graph) /\ \A g \in Callables : Q!Elements(graph.callees[g]) = Flow(g)
  BY SearchSees
<1>4. \A n \in 1 .. Q!Size :
         Q!HasPath[n] = IF n = 1 THEN Callables
                        ELSE {f \in Callables : Q!Elements(graph.callees[f]) \cap Q!HasPath[n-1] # {}}
  BY <1>3, SearchFits, Q!HasPathStep
<1>5. \A X : {f \in Callables : Q!Elements(graph.callees[f]) \cap X # {}} = {f \in Callables : Flow(f) \cap X # {}}
  BY <1>3
<1> QED
  BY <1>1, <1>2, <1>4, <1>5, ZenonT(40) DEF Chained

\* There is one of any length.
LEMMA ChainExists ==
  ASSUME NEW m \in Nat
  PROVE  \E s \in [0 .. m -> SUBSET Callables] :
            s[0] = Callables /\ \A n \in 1 .. m : s[n] = {g \in Funcs : Flow(g) \cap s[n-1] # {}}
<1> DEFINE T == SUBSET Callables
           next == [X \in T |-> {g \in Funcs : Flow(g) \cap X # {}}]
           F == [n \in Nat |-> next]
           b == Callables
<1>1. b \in T /\ F \in [Nat -> [T -> T]]
  BY Apart
<1>2. PICK s \in [0 .. m -> T] : s[0] = b /\ \A n \in 1 .. m : s[n] = F[n][s[n - 1]]
  <2> HIDE DEF T, F, next, b
  <2> QED
    BY ONLY <1>1, m \in Nat, RecursionExists, Z3
<1>3. ASSUME NEW n \in 1 .. m PROVE s[n] = {g \in Funcs : Flow(g) \cap s[n-1] # {}}
  <2>1. n \in Nat /\ n - 1 \in 0 .. m
    OBVIOUS
  <2>2. s[n - 1] \in T
    BY <2>1
  <2>3. F[n][s[n - 1]] = {g \in Funcs : Flow(g) \cap s[n-1] # {}}
    BY <2>1, <2>2
  <2> QED
    BY <1>2, <2>3
<1> QED
  BY <1>2, <1>3

\* What is measured are the frames, when there is no cycle.
LEMMA FramesMeasured ==
  ASSUME Scanned, graph = Graph, NEW f \in Funcs, ~Cyclic(f), NEW d \in Nat, d >= 1, d <= Q!Size,
         \A n \in 1 .. Q!Size : f \in Q!HasPath[n] <=> n <= d
  PROVE  Frames(f) = d
<1> DEFINE size == Cardinality(Funcs) + 1
           chain[n \in 1 .. size] == IF n = 1 THEN Callables ELSE {g \in Funcs : Flow(g) \cap chain[n-1] # {}}
           body(h) == [n \in 1 .. size |-> IF n = 1 THEN Callables ELSE {g \in Funcs : Flow(g) \cap h[n-1] # {}}]
<1>1. Frames(f) = CHOOSE n \in 1 .. size : f \in chain[n] /\ \A m \in n + 1 .. size : f \notin chain[m]
  BY DEF Frames
<1>2. size \in Nat /\ size >= 2 /\ f \in Callables /\ Funcs \in SUBSET Callables
  BY FuncsCounted, Apart
<1>3. chain = CHOOSE h : h = body(h)
  BY DEF chain
<1> HIDE DEF chain, size
<1>5. PICK s \in [0 .. size -> SUBSET Callables] :
         s[0] = Callables /\ \A n \in 1 .. size : s[n] = {g \in Funcs : Flow(g) \cap s[n-1] # {}}
  BY <1>2, ChainExists
<1>6. \A n \in 1 .. size : s[n] = {g \in Funcs : Flow(g) \cap s[n-1] # {}}
  BY <1>5
<1> DEFINE p == [n \in 1 .. size |-> s[n-1]]
<1>7. p = body(p)
  <2>1. ASSUME NEW n \in 1 .. size PROVE p[n] = body(p)[n]
    <3>1. CASE n = 1
      <4>1. p[n] = s[n - 1] /\ n - 1 = 0
        BY <3>1
      <4> QED
        BY <4>1, <3>1, <1>5
    <3>2. CASE n # 1
      <4>1. n - 1 \in 1 .. size /\ p[n - 1] = s[n - 1 - 1] /\ p[n] = s[n - 1]
        BY <3>2, <1>2
      <4> QED
        BY <4>1, <3>2, <1>6
    <3> QED
      BY <3>1, <3>2
  <2>2. p = [n \in 1 .. size |-> p[n]]
    OBVIOUS
  <2> QED
    BY <2>1, <2>2
<1>8. chain = body(chain)
  <2> HIDE DEF body, p
  <2>1. \E h : h = body(h)
    BY <1>7
  <2> QED
    BY <1>3, <2>1
<1>9. Chained(chain, size)
  <2>1. \A X : {g \in Callables : Flow(g) \cap X # {}} = {g \in Funcs : Flow(g) \cap X # {}}
    BY <1>2, FlowIs
  <2>2. ASSUME NEW n \in 1 .. size
        PROVE  chain[n] = IF n = 1 THEN Callables ELSE {g \in Callables : Flow(g) \cap chain[n-1] # {}}
    <3>1. chain[n] = IF n = 1 THEN Callables ELSE {g \in Funcs : Flow(g) \cap chain[n-1] # {}}
      BY <1>8
    <3> QED
      BY <2>1, <3>1
  <2> QED
    BY <2>2 DEF Chained
<1>10. Q!Size = Cardinality(Callables) /\ Q!Size \in Nat /\ Chained(Q!HasPath, Q!Size)
  BY HasPathChained
<1> HIDE DEF body, p
<1>11. Free(f)
  <2>1. \A g \in Callables : g \in Reached(g) => g \in Funcs
    BY ReachedOn
  <2>2. Reached(f) \in SUBSET Callables
    BY <1>2, ReachedIsLeast
  <2> QED
    BY <2>1, <2>2 DEF Free, Cyclic, Closure
<1>12. d \in 1 .. Q!Size /\ f \in Q!HasPath[d]
  BY <1>10
<1>13. d \in 1 .. size
  <2>1. Short(d, f)
    BY <1>2, <1>10, <1>11, <1>12, ChainsShort
  <2>2. Cardinality(({f} \cup Reached(f)) \cap Funcs) <= Cardinality(Funcs)
    <3>1. ({f} \cup Reached(f)) \cap Funcs \subseteq Funcs
      OBVIOUS
    <3> QED
      BY <3>1, FuncsCounted, FS_Subset
  <2>3. Cardinality(({f} \cup Reached(f)) \cap Funcs) \in Nat /\ Cardinality(Funcs) \in Nat
    BY <1>2, ReachedCounted, FuncsCounted
  <2> QED
    BY <2>1, <2>2, <2>3, <1>12 DEF Short, size
<1>14. f \in chain[d]
  <2>1. chain[d] = Q!HasPath[d]
    BY <1>2, <1>9, <1>10, <1>12, <1>13, ChainsAgree
  <2> QED
    BY <2>1, <1>12
<1>15. ASSUME NEW m \in 1 .. size, m > d PROVE f \notin chain[m]
  <2>1. CASE m <= Q!Size
    <3>1. m \in 1 .. Q!Size
      BY <2>1, <1>10
    <3>2. chain[m] = Q!HasPath[m]
      BY <3>1, <1>2, <1>9, <1>10, ChainsAgree
    <3> QED
      BY <3>1, <3>2, <1>15
  <2>2. CASE m > Q!Size
    <3> SUFFICES ASSUME f \in chain[m] PROVE FALSE
      OBVIOUS
    <3>1. Short(m, f)
      BY <1>2, <1>9, <1>11, ChainsShort
    <3>2. Cardinality(Reached(f)) < Cardinality(Callables)
      <4> DEFINE A == Reached(f)
      <4>1. A \subseteq Callables /\ A # Callables
        BY <1>2, <1>11, ReachedIsLeast DEF Free
      <4>2. IsFiniteSet(Callables)
        BY InferAssumption
      <4> HIDE DEF A
      <4>3. Cardinality(A) < Cardinality(Callables)
        BY <4>1, <4>2, FS_Subset, FS_CardinalityType
      <4> QED
        BY <4>3 DEF A
    <3>3. Cardinality(Reached(f)) \in Nat
      BY <1>2, ReachedCounted
    <3>4. m <= Cardinality(Reached(f)) + 1
      BY <3>1 DEF Short
    <3> QED
      BY <2>2, <3>2, <3>3, <3>4, <1>10
  <2> QED
    BY <2>1, <2>2, <1>10
<1>16. ASSUME NEW n \in 1 .. size
       PROVE  (f \in chain[n] /\ \A m \in n + 1 .. size : f \notin chain[m]) <=> n = d
  <2>1. ASSUME n = d PROVE f \in chain[n] /\ \A m \in n + 1 .. size : f \notin chain[m]
    <3>1. \A m \in n + 1 .. size : m \in 1 .. size /\ m > d
      BY <2>1, <1>2
    <3> QED
      BY <2>1, <3>1, <1>14, <1>15
  <2>2. CASE n < d
    <3>1. d \in n + 1 .. size
      BY <2>2, <1>13
    <3> QED
      BY <2>2, <3>1, <1>14
  <2>3. CASE n > d
    BY <2>3, <1>15
  <2> QED
    BY <2>1, <2>2, <2>3
<1> QED
  BY <1>1, <1>13, <1>16

-----------------------------------------------------------------------------
(***************************************************************************)
(* What the loop starts on: the scan's summaries, with the recursion in    *)
(* sight.                                                                  *)
(***************************************************************************)
Started == [Scan!Handover EXCEPT !.direct =
              [f \in Funcs |-> IF f \in InRecursiveSCC THEN Shown(f, @[f]) ELSE @[f]]]

\* The recursion step changes chains only, and keeps them the function's own.
LEMMA ShownIs ==
  ASSUME NEW f \in Funcs, NEW s \in Summary
  PROVE  /\ Shown(f, s) \in Summary
         /\ Shown(f, s).heap = s.heap /\ Shown(f, s).heapChain = s.heapChain
         /\ \A k \in Kinds : Shown(f, s).chain[k] =
               IF k = "Recurse" THEN <<CycleFrame(f)>>
               ELSE IF s.chain[k] = <<>> THEN <<>> ELSE <<CycleFrame(f)>> \o s.chain[k]
<1> DEFINE c == [k \in Kinds |->
                   CASE k = "Recurse"                              -> <<CycleFrame(f)>>
                     [] k # "Recurse" /\ s.chain[k] = <<>>         -> <<>>
                     [] k # "Recurse" /\ s.chain[k] # <<>>         -> <<CycleFrame(f)>> \o s.chain[k]]
<1>1. CycleFrame(f) \in Frame
  BY InferAssumption DEF CycleFrame, Frame, SourceKinds
<1>2. s = [chain |-> s.chain, heap |-> s.heap, heapChain |-> s.heapChain] /\ s.chain \in [Kinds -> Chain]
      /\ s.heap \in HeapKinds /\ s.heapChain \in Chain
  BY DEF Summary
<1>3. Shown(f, s) = [chain |-> c, heap |-> s.heap, heapChain |-> s.heapChain]
  <2>1. Shown(f, s) = [s EXCEPT !.chain = c]
    BY DEF Shown
  <2> HIDE DEF c
  <2>2. [s EXCEPT !.chain = c] = [chain |-> c, heap |-> s.heap, heapChain |-> s.heapChain]
    BY <1>2
  <2> QED
    BY <2>1, <2>2
<1>4. ASSUME NEW k \in Kinds
      PROVE  /\ c[k] \in Chain
             /\ c[k] = IF k = "Recurse" THEN <<CycleFrame(f)>>
                       ELSE IF s.chain[k] = <<>> THEN <<>> ELSE <<CycleFrame(f)>> \o s.chain[k]
  <2>1. c[k] = IF k = "Recurse" THEN <<CycleFrame(f)>>
               ELSE IF s.chain[k] = <<>> THEN <<>> ELSE <<CycleFrame(f)>> \o s.chain[k]
    OBVIOUS
  <2>2. s.chain[k] \in Seq(Frame)
    BY <1>2 DEF Chain
  <2>3. <<CycleFrame(f)>> \in Seq(Frame)
    BY <1>1
  <2>4. <<CycleFrame(f)>> \o s.chain[k] \in Seq(Frame) /\ <<>> \in Seq(Frame)
    BY <2>2, <2>3
  <2> QED
    BY <2>1, <2>3, <2>4 DEF Chain
<1>5. c \in [Kinds -> Chain]
  <2>1. c = [k \in Kinds |-> c[k]]
    OBVIOUS
  <2> HIDE DEF c
  <2> QED
    BY <1>4, <2>1
<1> HIDE DEF c
<1>6. Shown(f, s) \in Summary
  BY <1>2, <1>3, <1>5 DEF Summary
<1> QED
  BY <1>3, <1>4, <1>6

\* Frames before and after.
LEMMA ShownChains ==
  ASSUME NEW f \in Funcs, NEW ch \in Chain, SourceChain(f, ch)
  PROVE  /\ SourceChain(f, <<CycleFrame(f)>>) /\ SourceChain(f, <<>>)
         /\ SourceChain(f, <<CycleFrame(f)>> \o ch)
         /\ <<CycleFrame(f)>> # <<>> /\ <<CycleFrame(f)>> \o ch # <<>>
<1>1. CycleFrame(f).fn = f /\ CycleFrame(f).kind \in SourceKinds
  BY DEF CycleFrame, SourceKinds
<1>2. /\ DOMAIN <<CycleFrame(f)>> = {1} /\ <<CycleFrame(f)>>[1] = CycleFrame(f) /\ <<CycleFrame(f)>> # <<>>
      /\ DOMAIN <<>> = {}
  OBVIOUS
<1>3. ch \in Seq(Frame) /\ Len(ch) \in Nat /\ DOMAIN ch = 1 .. Len(ch)
  BY DEF Chain
<1>4. /\ DOMAIN (<<CycleFrame(f)>> \o ch) = 1 .. 1 + Len(ch)
      /\ \A i \in 1 .. 1 + Len(ch) : (<<CycleFrame(f)>> \o ch)[i] = IF i = 1 THEN CycleFrame(f) ELSE ch[i - 1]
  BY <1>3
<1>5. \A i \in 1 .. 1 + Len(ch) : i # 1 => i - 1 \in DOMAIN ch
  BY <1>3
<1>6. SourceChain(f, <<CycleFrame(f)>> \o ch)
  BY <1>1, <1>4, <1>5 DEF SourceChain
<1>7. <<CycleFrame(f)>> \o ch # <<>>
  <2>1. 1 \in DOMAIN (<<CycleFrame(f)>> \o ch)
    BY <1>3, <1>4
  <2> QED
    BY <2>1, <1>2
<1> QED
  BY <1>1, <1>2, <1>6, <1>7 DEF SourceChain


OwnSummary(f) == IF f \in InRecursiveSCC THEN Shown(f, direct[f]) ELSE direct[f]

\* Part by part.
LEMMA StartedIs ==
  Started = [hops    |-> [f \in Funcs |-> S!HopsOf(f)],
             direct  |-> [f \in Funcs |-> OwnSummary(f)],
             callers |-> S!Handover.callers,
             order   |-> prog.addr]
<1> DEFINE H == Scan!Handover
           d == [f \in Funcs |-> IF f \in InRecursiveSCC THEN Shown(f, H.direct[f]) ELSE H.direct[f]]
<1>1. Started = [H EXCEPT !.direct = d]
  BY DEF Started
<1>2. H = [hops    |-> [f \in Funcs |-> S!HopsOf(f)], direct |-> direct,
           callers |-> S!Handover.callers, order |-> prog.addr]
  BY HandoverSame DEF S!Handover, S!HopsOf
<1>3. d = [f \in Funcs |-> OwnSummary(f)]
  BY <1>2 DEF OwnSummary
<1> HIDE DEF H, d
<1> QED
  BY <1>1, <1>2, <1>3

\* The loop may rely on it.
LEMMA StartedFits ==
  ASSUME Scanned
  PROVE  Started \in AllInputs
<1> DEFINE H == S!Handover
<1>1. WellFormed(H)
  BY S!HandoverRight, ScanFits, WellFormedSame DEF Scanned
<1>2. /\ H.hops = [f \in Funcs |-> S!HopsOf(f)]
      /\ H.direct = direct
      /\ H.order = prog.addr
  BY DEF S!Handover, S!HopsOf
<1> HIDE DEF H
<1>3. ASSUME NEW f \in Funcs
      PROVE  /\ OwnSummary(f) \in Summary
             /\ \A k \in Kinds : SourceChain(f, OwnSummary(f).chain[k])
             /\ OwnSummary(f).heap = direct[f].heap /\ OwnSummary(f).heapChain = direct[f].heapChain
             /\ \A k \in Kinds : Carries(direct[f], k) => Carries(OwnSummary(f), k)
  <2> DEFINE s == direct[f]
  <2>1. s \in Summary /\ \A k \in Kinds : s.chain[k] \in Chain /\ SourceChain(f, s.chain[k])
    BY <1>1, <1>2 DEF WellFormed, InputType, Summary
  <2> HIDE DEF s
  <2>2. CASE f \notin InRecursiveSCC
    BY <2>1, <2>2 DEF OwnSummary, s
  <2>3. CASE f \in InRecursiveSCC
    <3>1. OwnSummary(f) = Shown(f, s)
      BY <2>3 DEF OwnSummary, s
    <3>2. /\ Shown(f, s) \in Summary
          /\ Shown(f, s).heap = s.heap /\ Shown(f, s).heapChain = s.heapChain
          /\ \A k \in Kinds : Shown(f, s).chain[k] =
               IF k = "Recurse" THEN <<CycleFrame(f)>>
               ELSE IF s.chain[k] = <<>> THEN <<>> ELSE <<CycleFrame(f)>> \o s.chain[k]
      BY <2>1, ShownIs
    <3>3. ASSUME NEW k \in Kinds
          PROVE  SourceChain(f, Shown(f, s).chain[k]) /\ (Carries(s, k) => Carries(Shown(f, s), k))
      <4>1. s.chain[k] \in Chain /\ SourceChain(f, s.chain[k])
        BY <2>1
      <4>2. /\ SourceChain(f, <<CycleFrame(f)>>) /\ SourceChain(f, <<>>)
            /\ SourceChain(f, <<CycleFrame(f)>> \o s.chain[k])
            /\ <<CycleFrame(f)>> # <<>> /\ <<CycleFrame(f)>> \o s.chain[k] # <<>>
        BY <4>1, ShownChains
      <4> QED
        BY <3>2, <4>2 DEF Carries
    <3> QED
      BY <3>1, <3>2, <3>3 DEF s
  <2> QED
    BY <2>2, <2>3
<1> DEFINE d == [f \in Funcs |-> OwnSummary(f)]
           X == [hops |-> H.hops, direct |-> d, callers |-> H.callers, order |-> H.order]
<1>4. /\ X.hops = H.hops /\ X.direct = d /\ X.callers = H.callers /\ X.order = H.order
      /\ d \in [Funcs -> Summary] /\ \A f \in Funcs : d[f] = OwnSummary(f)
  BY <1>3
<1>5. Started = X
  BY <1>2, StartedIs DEF H
<1>6. X \in [hops : [Funcs -> Seq(Hop)], direct : [Funcs -> Summary], callers : [Funcs -> Seq(Funcs)], order : Seq(Funcs)]
  <2>1. H.hops \in [Funcs -> Seq(Hop)] /\ H.callers \in [Funcs -> Seq(Funcs)] /\ H.order \in Seq(Funcs)
    BY <1>1 DEF WellFormed, InputType
  <2> HIDE DEF d
  <2> QED
    BY <1>4, <2>1
<1> HIDE DEF X, d
<1>7. WellFormed(X)
  <2>1. InputType(X)
    BY <1>1, <1>4 DEF WellFormed, InputType
  <2>2. ASSUME NEW f \in Funcs
        PROVE  /\ \A k \in Kinds : SourceChain(f, X.direct[f].chain[k])
               /\ SourceChain(f, X.direct[f].heapChain)
               /\ X.direct[f].heap = 0 <=> X.direct[f].heapChain = <<>>
               /\ X.direct[f].heap = NormalHeap => Carries(X.direct[f], "Alloc")
               /\ \E i \in DOMAIN X.order : X.order[i] = f
               /\ \A i \in DOMAIN X.callers[f] :
                     \E j \in DOMAIN X.hops[X.callers[f][i]] :
                        X.hops[X.callers[f][i]][j].callee = f
    <3>1. /\ SourceChain(f, H.direct[f].heapChain)
          /\ H.direct[f].heap = 0 <=> H.direct[f].heapChain = <<>>
          /\ H.direct[f].heap = NormalHeap => Carries(H.direct[f], "Alloc")
          /\ \E i \in DOMAIN H.order : H.order[i] = f
          /\ \A i \in DOMAIN H.callers[f] :
                \E j \in DOMAIN H.hops[H.callers[f][i]] :
                   H.hops[H.callers[f][i]][j].callee = f
      BY <1>1 DEF WellFormed
    <3>2. X.direct[f] = OwnSummary(f)
      BY <1>4
    <3>3. H.direct[f] = direct[f]
      BY <1>2
    <3>4. /\ \A k \in Kinds : SourceChain(f, X.direct[f].chain[k])
          /\ X.direct[f].heap = H.direct[f].heap /\ X.direct[f].heapChain = H.direct[f].heapChain
          /\ Carries(H.direct[f], "Alloc") => Carries(X.direct[f], "Alloc")
      BY <1>3, <3>2, <3>3, KindsAssumption
    <3>5. /\ SourceChain(f, X.direct[f].heapChain)
          /\ X.direct[f].heap = 0 <=> X.direct[f].heapChain = <<>>
          /\ X.direct[f].heap = NormalHeap => Carries(X.direct[f], "Alloc")
      BY <3>1, <3>4
    <3>6. /\ \E i \in DOMAIN X.order : X.order[i] = f
          /\ \A i \in DOMAIN X.callers[f] :
                \E j \in DOMAIN X.hops[X.callers[f][i]] :
                   X.hops[X.callers[f][i]][j].callee = f
      BY <1>4, <3>1
    <3> QED
      BY <3>4, <3>5, <3>6
  <2> QED
    BY <2>1, <2>2 DEF WellFormed
<1> QED
  BY <1>5, <1>6, <1>7 DEF AllInputs

-----------------------------------------------------------------------------
(***************************************************************************)
(* The inductive invariant: each phase keeps the invariant of the module   *)
(* it runs, on the input that the phases before it have left, and what is  *)
(* to come is as it was set up.                                            *)
(***************************************************************************)
ScanPart == prog \in Programs /\ S!TypeOK /\ S!ScanInv /\ S!GraphRight

Unsearched == /\ graph = [keys |-> <<>>, callees |-> [n \in Callables |-> <<>>]]
              /\ index = [n \in Callables |-> -1] /\ low = [n \in Callables |-> -1]
              /\ counter = 0
              /\ stack = <<>> /\ calls = <<>> /\ sccs = <<>> /\ depth = <<>>

SearchPart == S!Finished /\ graph = Graph /\ Q!Inv

Unspread == in = NoInput /\ worklist = <<>> /\ tags = [f \in Funcs |-> {}]

SpreadPart == Q!SearchOver /\ in = Started /\ W!LoopInv

Unmeasured == /\ maxDepth = [f \in Funcs |-> 0]
              /\ marked = prog.marked

Results == /\ Len(depth) = Len(sccs)
           /\ maxDepth = [f \in Funcs |-> DepthOf(f)]
           /\ marked = [f \in Funcs |-> [i \in DOMAIN prog.body[f] |-> Marks(f, i)]]

InferInv == /\ phase \in {"scan", "search", "spread", "measure", "done"}
            /\ ScanPart
            /\ IF phase = "scan" THEN Unsearched ELSE SearchPart
            /\ IF phase \in {"scan", "search"} THEN Unspread ELSE SpreadPart
            /\ phase \in {"measure", "done"} => worklist = <<>>
            /\ IF phase = "done" THEN Results ELSE Unmeasured

\* The invariants of the three modules, as steps of this one need them.
LEMMA ScanPartStep == ScanPart /\ [S!Next]_scanVars => ScanPart'
<1> SUFFICES ASSUME ScanPart, [S!Next]_scanVars PROVE ScanPart'
  OBVIOUS
<1>1. [S!Next]_(S!vars)
  BY DEF scanVars, S!vars
<1>2. S!TypeOK' /\ S!ScanInv' /\ S!GraphRight'
  BY <1>1, ScanFits, S!TypeStep, S!ScanInvStep, S!GraphStep DEF ScanPart
<1>3. prog' = prog
  BY DEF scanVars, S!Next, S!Begin, S!OutOfScope, S!Alloca, S!PassOver, S!ForwardArgument, S!ResolvedPointer,
         S!UnknownPointer, S!TableCall, S!ThrowVehicle, S!UnknownExternal, S!InternalCall, S!EndDeferred,
         S!EndPlain, S!NextFunction, S!Note
<1> QED
  BY <1>2, <1>3 DEF ScanPart

\* While the scan rests, nothing it is made of changes.
LEMMA ScanRests ==
  ASSUME UNCHANGED scanVars
  PROVE  /\ ScanPart => ScanPart'
         /\ S!Finished' <=> S!Finished
         /\ prog' = prog /\ direct' = direct /\ witness' = witness
         /\ Graph' = Graph
         /\ S!Handover' = S!Handover
         /\ \A f : S!HopsOf(f)' = S!HopsOf(f)
<1>1. ScanPart => ScanPart'
  BY ScanPartStep
<1>2. /\ prog' = prog /\ pos' = pos /\ direct' = direct /\ callGraph' = callGraph
      /\ callersOf' = callersOf /\ witness' = witness
  BY DEF scanVars
<1> QED
  BY <1>1, <1>2 DEF Graph, ByAddress, S!Finished, S!Handover, S!HopsOf, S!DirectHops, S!ResolvedHops, S!Seen

\* The search's invariant holds at its start,
LEMMA SearchPartInit == Q!Init => Q!Inv
  BY SearchFits, Q!InvInit

\* and every step keeps it.
LEMMA SearchPartStep == Q!Inv /\ [Q!Next]_searchVars => Q!Inv'
<1> SUFFICES ASSUME Q!Inv, [Q!Next]_searchVars PROVE Q!Inv'
  OBVIOUS
<1>1. [Q!Next]_(Q!vars)
  BY DEF searchVars, Q!vars
<1> QED
  BY <1>1, SearchFits, Q!InvStep

\* The loop's invariant holds at its start,
LEMMA LoopPartInit == W!Init => W!LoopInv
  BY SpreadFits, W!LoopInvInit

\* and every step keeps it.
LEMMA LoopPartStep == W!LoopInv /\ [W!Next]_spreadVars => W!LoopInv'
<1> SUFFICES ASSUME W!LoopInv, [W!Next]_spreadVars PROVE W!LoopInv'
  OBVIOUS
<1>1. [W!Next]_(W!vars)
  BY DEF spreadVars, W!vars
<1> QED
  BY <1>1, SpreadFits, W!LoopInvStep

\* What the loop starts on stays, once the search is over.
LEMMA StartedRests ==
  ASSUME UNCHANGED scanVars, graph' = graph, sccs' = sccs
  PROVE  Started' = Started /\ InRecursiveSCC' = InRecursiveSCC
<1>1. InRecursiveSCC' = InRecursiveSCC
  BY RecursiveSame DEF InRecursiveSCC, ToSet, Search!Recursive, Search!Calls, Search!Elements, Search!Cardinality
<1>2. Scan!Handover' = Scan!Handover
  <2>1. S!Handover' = S!Handover
    BY ScanRests
  <2>2. (Scan!Handover = S!Handover)'
    BY HandoverSame, PTL
  <2> QED
    BY <2>1, <2>2, HandoverSame
<1> QED
  BY <1>1, <1>2 DEF Started, Shown, CycleFrame


\* The invariant holds at the start.
LEMMA InferInit == Init => InferInv
<1> SUFFICES ASSUME Init PROVE InferInv
  OBVIOUS
<1>1. S!Init
  BY ScanStarts DEF Init
<1>2. ScanPart
  BY <1>1, ScanFits, S!TypeInit, S!ScanInvInit, S!GraphInit DEF ScanPart, S!Init
<1> QED
  BY <1>2 DEF Init, InferInv, Unsearched, Unspread, Unmeasured

\* The scan goes on.
LEMMA ScanningKeeps == InferInv /\ Scanning => InferInv'
<1> SUFFICES ASSUME InferInv, Scanning PROVE InferInv'
  OBVIOUS
<1>1. phase = "scan" /\ phase' = "scan"
  BY DEF Scanning
<1>2. ScanPart /\ Unsearched /\ Unspread /\ Unmeasured
  BY <1>1 DEF InferInv
<1>3. [S!Next]_scanVars
  BY ScanSteps DEF Scanning
<1>4. ScanPart' /\ prog' = prog
  <2>1. prog' = prog
    BY <1>3 DEF scanVars, S!Next, S!Begin, S!OutOfScope, S!Alloca, S!PassOver, S!ForwardArgument, S!ResolvedPointer,
         S!UnknownPointer, S!TableCall, S!ThrowVehicle, S!UnknownExternal, S!InternalCall, S!EndDeferred,
         S!EndPlain, S!NextFunction, S!Note
  <2> QED
    BY <1>2, <1>3, <2>1, ScanPartStep
<1>5. UNCHANGED <<searchVars, spreadVars, endVars>>
  BY DEF Scanning
<1>6. Unsearched'
  BY <1>2, <1>5 DEF Unsearched, searchVars
<1>7. Unspread'
  BY <1>2, <1>5 DEF Unspread, spreadVars, NoInput
<1>8. Unmeasured'
  BY <1>2, <1>4, <1>5 DEF Unmeasured, endVars
<1> QED
  BY <1>1, <1>4, <1>6, <1>7, <1>8 DEF InferInv

\* The search starts on the graph that the scan has made.
LEMMA StartSearchKeeps == InferInv /\ StartSearch => InferInv'
<1> SUFFICES ASSUME InferInv, StartSearch PROVE InferInv'
  OBVIOUS
<1>1. phase = "scan" /\ phase' = "search"
  BY DEF StartSearch
<1>2. ScanPart /\ Unsearched /\ Unspread /\ Unmeasured
  BY <1>1 DEF InferInv
<1>3. UNCHANGED scanVars /\ S!Finished /\ graph' = Graph
  BY ScanEnds DEF StartSearch
<1>4. Scanned
  BY <1>2, <1>3 DEF Scanned, ScanPart
<1>5. ScanPart' /\ S!Finished' /\ prog' = prog /\ graph' = Graph'
  BY <1>2, <1>3, ScanRests
<1>6. Q!Init'
  <2>1. graph' \in AllGraphs
    BY <1>3, <1>4, GraphIs
  <2>2. AllGraphs' = AllGraphs
    BY DEF AllGraphs
  <2> QED
    BY <1>2, <2>1, <2>2 DEF StartSearch, Unsearched, Q!Init
<1>7. Q!Inv'
  <2>1. (Q!Init => Q!Inv)'
    BY SearchPartInit, PTL
  <2> QED
    BY <1>6, <2>1
<1>8. Unspread' /\ Unmeasured'
  BY <1>2, <1>5 DEF StartSearch, Unspread, Unmeasured, spreadVars, endVars, NoInput
<1> QED
  BY <1>1, <1>5, <1>7, <1>8 DEF InferInv, SearchPart

\* The search goes on.
LEMMA SearchingKeeps == InferInv /\ Searching => InferInv'
<1> SUFFICES ASSUME InferInv, Searching PROVE InferInv'
  OBVIOUS
<1>1. phase = "search" /\ phase' = "search"
  BY DEF Searching
<1>2. ScanPart /\ SearchPart /\ Unspread /\ Unmeasured
  BY <1>1 DEF InferInv
<1>3. UNCHANGED <<scanVars, spreadVars, endVars>>
  BY DEF Searching
<1>4. ScanPart' /\ S!Finished' /\ prog' = prog /\ Graph' = Graph
  BY <1>2, <1>3, ScanRests DEF SearchPart
<1>5. Q!Next
  BY SearchSteps DEF Searching
<1>6. Q!Inv' /\ graph' = graph
  <2>1. graph' = graph
    BY <1>5 DEF Q!Next, Q!StartRoot, Q!Descend, Q!PassBy, Q!Return, Q!SetDepth, Q!Enter, Q!Stopped, Q!vars
  <2> QED
    BY <1>2, <1>5, <2>1, SearchPartStep DEF SearchPart
<1>7. Unspread' /\ Unmeasured'
  BY <1>2, <1>3, <1>4 DEF Unspread, Unmeasured, spreadVars, endVars, NoInput
<1> QED
  BY <1>1, <1>2, <1>4, <1>6, <1>7 DEF InferInv, SearchPart

\* The search rests.
LEMMA SearchRests ==
  ASSUME UNCHANGED searchVars
  PROVE  /\ Q!Inv => Q!Inv'
         /\ Q!SearchOver' <=> Q!SearchOver
         /\ graph' = graph /\ sccs' = sccs /\ depth' = depth
  BY SearchPartStep DEF searchVars, Q!SearchOver

\* The loop starts on what the scan and the search have found.
LEMMA StartSpreadKeeps == InferInv /\ StartSpread => InferInv'
<1> SUFFICES ASSUME InferInv, StartSpread PROVE InferInv'
  OBVIOUS
<1>1. phase = "search" /\ phase' = "spread"
  BY DEF StartSpread
<1>2. ScanPart /\ SearchPart /\ Unspread /\ Unmeasured
  BY <1>1 DEF InferInv
<1>3. UNCHANGED <<scanVars, searchVars, tags, endVars>> /\ Q!SearchOver
  BY SearchEnds DEF StartSpread
<1>4. /\ ScanPart' /\ S!Finished' /\ prog' = prog /\ Graph' = Graph
      /\ Q!Inv' /\ Q!SearchOver' /\ graph' = graph /\ sccs' = sccs
  BY <1>2, <1>3, ScanRests, SearchRests DEF SearchPart
<1>5. in' = Started /\ Started' = Started
  BY <1>3, <1>4, StartedRests DEF StartSpread, Started
<1>6. Scanned
  BY <1>2 DEF Scanned, ScanPart, SearchPart
<1>7. W!Init'
  <2>1. in' \in AllInputs
    BY <1>5, <1>6, StartedFits
  <2>2. AllInputs' = AllInputs
    BY DEF AllInputs
  <2>3. summ' = in'.direct /\ worklist' = in'.order
    BY DEF StartSpread
  <2>4. tags' = [f \in Funcs |-> {}]
    BY <1>2, <1>3 DEF Unspread
  <2> QED
    BY <2>1, <2>2, <2>3, <2>4 DEF W!Init
<1>8. W!LoopInv'
  <2>1. (W!Init => W!LoopInv)'
    BY LoopPartInit, PTL
  <2> QED
    BY <1>7, <2>1
<1>9. Unmeasured'
  BY <1>2, <1>3, <1>4 DEF Unmeasured, endVars
<1> QED
  BY <1>1, <1>2, <1>4, <1>5, <1>8, <1>9 DEF InferInv, SearchPart, SpreadPart

\* The loop goes on.
LEMMA SpreadingKeeps == InferInv /\ Spreading => InferInv'
<1> SUFFICES ASSUME InferInv, Spreading PROVE InferInv'
  OBVIOUS
<1>1. phase = "spread" /\ phase' = "spread"
  BY DEF Spreading
<1>2. ScanPart /\ SearchPart /\ SpreadPart /\ Unmeasured
  BY <1>1 DEF InferInv
<1>3. UNCHANGED <<scanVars, searchVars, endVars>>
  BY DEF Spreading
<1>4. /\ ScanPart' /\ S!Finished' /\ prog' = prog /\ Graph' = Graph
      /\ Q!Inv' /\ (Q!SearchOver' <=> Q!SearchOver) /\ graph' = graph /\ sccs' = sccs
  BY <1>2, <1>3, ScanRests, SearchRests DEF SearchPart
<1>5. Started' = Started
  BY <1>3, <1>4, StartedRests
<1>6. W!Process
  BY SpreadSteps DEF Spreading
<1>7. W!LoopInv' /\ in' = in
  <2>1. W!Next /\ in' = in
    BY <1>6 DEF W!Next, W!Process
  <2> QED
    BY <1>2, <2>1, LoopPartStep DEF SpreadPart
<1>8. Unmeasured'
  BY <1>2, <1>3, <1>4 DEF Unmeasured, endVars
<1> QED
  BY <1>1, <1>2, <1>4, <1>5, <1>7, <1>8 DEF InferInv, SearchPart, SpreadPart

\* The loop rests.
LEMMA SpreadRests ==
  ASSUME UNCHANGED spreadVars
  PROVE  /\ W!LoopInv => W!LoopInv'
         /\ in' = in /\ worklist' = worklist /\ summ' = summ /\ tags' = tags
  BY LoopPartStep DEF spreadVars

\* All rest but the measures.
LEMMA StartMeasureKeeps == InferInv /\ StartMeasure => InferInv'
<1> SUFFICES ASSUME InferInv, StartMeasure PROVE InferInv'
  OBVIOUS
<1>1. phase = "spread" /\ phase' = "measure" /\ worklist = <<>>
  BY DEF StartMeasure
<1>2. ScanPart /\ SearchPart /\ SpreadPart /\ Unmeasured
  BY <1>1 DEF InferInv
<1>3. UNCHANGED scanVars /\ UNCHANGED searchVars /\ UNCHANGED spreadVars /\ UNCHANGED endVars
  BY DEF StartMeasure
<1>4. /\ ScanPart' /\ S!Finished' /\ prog' = prog /\ Graph' = Graph
      /\ Q!Inv' /\ Q!SearchOver' /\ graph' = graph /\ sccs' = sccs
  BY <1>2, <1>3, ScanRests, SearchRests DEF SearchPart, SpreadPart
<1>5. Started' = Started /\ W!LoopInv' /\ in' = in /\ worklist' = <<>>
  BY <1>1, <1>2, <1>3, <1>4, StartedRests, SpreadRests DEF SpreadPart
<1>6. Unmeasured'
  BY <1>2, <1>3, <1>4 DEF Unmeasured, endVars
<1> QED
  BY <1>1, <1>2, <1>4, <1>5, <1>6 DEF InferInv, SearchPart, SpreadPart

\* One component more is measured.
LEMMA MeasuringKeeps == InferInv /\ Measuring => InferInv'
<1> SUFFICES ASSUME InferInv, Measuring PROVE InferInv'
  OBVIOUS
<1>1. phase = "measure" /\ phase' = "measure" /\ worklist = <<>>
  BY DEF Measuring, InferInv
<1>2. ScanPart /\ SearchPart /\ SpreadPart /\ Unmeasured
  BY <1>1 DEF InferInv
<1>3. UNCHANGED scanVars /\ UNCHANGED spreadVars /\ UNCHANGED endVars
  BY DEF Measuring
<1>4. ScanPart' /\ S!Finished' /\ prog' = prog /\ Graph' = Graph
  BY <1>2, <1>3, ScanRests DEF SearchPart
<1>5. Q!SetDepth
  BY MeasureSteps DEF Measuring
<1>6. Q!Inv' /\ Q!SearchOver' /\ graph' = graph /\ sccs' = sccs
  <2>1. Q!Next /\ Q!SearchOver' /\ graph' = graph /\ sccs' = sccs
    BY <1>5 DEF Q!Next, Q!SetDepth, Q!SearchOver
  <2> QED
    BY <1>2, <2>1, SearchPartStep DEF SearchPart
<1>7. Started' = Started /\ W!LoopInv' /\ in' = in /\ worklist' = <<>>
  BY <1>1, <1>2, <1>3, <1>6, StartedRests, SpreadRests DEF SpreadPart
<1>8. Unmeasured'
  BY <1>2, <1>3, <1>4 DEF Unmeasured, endVars
<1> QED
  BY <1>1, <1>2, <1>4, <1>6, <1>7, <1>8 DEF InferInv, SearchPart, SpreadPart

\* The results are written down.
LEMMA FinishKeeps == InferInv /\ Finish => InferInv'
<1> SUFFICES ASSUME InferInv, Finish PROVE InferInv'
  OBVIOUS
<1>1. phase = "measure" /\ phase' = "done" /\ worklist = <<>>
  BY DEF Finish, InferInv
<1>2. ScanPart /\ SearchPart /\ SpreadPart
  BY <1>1 DEF InferInv
<1>3. UNCHANGED scanVars /\ UNCHANGED searchVars /\ UNCHANGED spreadVars
  BY DEF Finish
<1>4. /\ ScanPart' /\ S!Finished' /\ prog' = prog /\ Graph' = Graph /\ witness' = witness
      /\ Q!Inv' /\ Q!SearchOver' /\ graph' = graph /\ sccs' = sccs /\ depth' = depth
  BY <1>2, <1>3, ScanRests, SearchRests DEF SearchPart, SpreadPart
<1>5. /\ Started' = Started /\ W!LoopInv' /\ in' = in /\ worklist' = <<>> /\ summ' = summ /\ tags' = tags
  BY <1>1, <1>2, <1>3, <1>4, StartedRests, SpreadRests DEF SpreadPart
<1>6. callGraph' = callGraph
  BY <1>3 DEF scanVars
<1>7. Results'
  <2>1. \A f : DepthOf(f)' = DepthOf(f)
    BY <1>4, <1>5 DEF DepthOf, SCCDepthOf, Carries
  <2>2. \A f, i : Marks(f, i)' = Marks(f, i)
    BY <1>4, <1>5, <1>6 DEF Marks, DirectCall, HopAt
  <2> QED
    BY <1>4, <2>1, <2>2 DEF Finish, Results
<1> QED
  BY <1>1, <1>2, <1>4, <1>5, <1>7 DEF InferInv, SearchPart, SpreadPart


\* Every action keeps the invariant.
LEMMA InferStep == InferInv /\ [Next]_vars => InferInv'
<1> SUFFICES ASSUME InferInv, [Next]_vars PROVE InferInv'
  OBVIOUS
<1>1. CASE Scanning
  BY <1>1, ScanningKeeps
<1>2. CASE StartSearch
  BY <1>2, StartSearchKeeps
<1>3. CASE Searching
  BY <1>3, SearchingKeeps
<1>4. CASE StartSpread
  BY <1>4, StartSpreadKeeps
<1>5. CASE Spreading
  BY <1>5, SpreadingKeeps
<1>6. CASE StartMeasure
  BY <1>6, StartMeasureKeeps
<1>7. CASE Measuring
  BY <1>7, MeasuringKeeps
<1>8. CASE Finish
  BY <1>8, FinishKeeps
<1>9. CASE UNCHANGED vars
  <2>1. /\ UNCHANGED scanVars /\ UNCHANGED searchVars /\ UNCHANGED spreadVars /\ UNCHANGED endVars
        /\ phase' = phase
    BY <1>9 DEF vars
  <2>2. /\ ScanPart => ScanPart'
        /\ S!Finished' <=> S!Finished
        /\ prog' = prog /\ witness' = witness /\ Graph' = Graph
        /\ Q!Inv => Q!Inv'
        /\ Q!SearchOver' <=> Q!SearchOver
        /\ graph' = graph /\ sccs' = sccs /\ depth' = depth
        /\ W!LoopInv => W!LoopInv'
        /\ in' = in /\ worklist' = worklist /\ summ' = summ /\ tags' = tags
    BY <2>1, ScanRests, SearchRests, SpreadRests
  <2>3. Started' = Started
    BY <2>1, <2>2, StartedRests
  <2>4. callGraph' = callGraph
    BY <2>1 DEF scanVars
  <2>5. Unsearched => Unsearched'
    BY <2>1 DEF Unsearched, searchVars
  <2>6. (Unspread => Unspread') /\ (Unmeasured => Unmeasured')
    BY <2>1, <2>2 DEF Unspread, Unmeasured, endVars, NoInput
  <2>7. Results => Results'
    <3>1. \A f : DepthOf(f)' = DepthOf(f)
      BY <2>2 DEF DepthOf, SCCDepthOf, Carries
    <3>2. \A f, i : Marks(f, i)' = Marks(f, i)
      BY <2>2, <2>4 DEF Marks, DirectCall, HopAt
    <3> QED
      BY <2>1, <2>2, <3>1, <3>2 DEF Results, endVars
  <2> QED
    BY <2>1, <2>2, <2>3, <2>5, <2>6, <2>7 DEF InferInv, SearchPart, SpreadPart
<1> QED
  BY <1>1, <1>2, <1>3, <1>4, <1>5, <1>6, <1>7, <1>8, <1>9 DEF Next

\* It always holds.
LEMMA AlwaysInferInv == Spec => []InferInv
  BY InferInit, InferStep, PTL DEF Spec
-----------------------------------------------------------------------------
\* What is done is measured.
LEMMA DoneParts ==
  ASSUME InferInv, Done
  PROVE  /\ ScanPart /\ SearchPart /\ SpreadPart /\ Results /\ worklist = <<>>
         /\ Scanned
  BY DEF InferInv, Done, Scanned, ScanPart, SearchPart

\* The depths that are looked up are measured ones.
LEMMA DepthLookup ==
  ASSUME Scanned, SearchPart, Q!SearchOver, Len(depth) = Len(sccs), NEW f \in Funcs
  PROVE  \E i \in DOMAIN sccs : /\ f \in sccs[i] /\ SCCDepthOf(f) = depth[i] /\ i \in DOMAIN depth
                                /\ Q!Measured(i, f)
<1>1. Q!Inv /\ graph = Graph
  BY DEF SearchPart
<1>2. Q!Elements(graph.keys) = Funcs /\ f \in Callables
  BY <1>1, SearchSees, Apart
<1>3. \E i \in DOMAIN sccs : f \in sccs[i]
  <2>1. Q!RecursionExact
    BY <1>1, SearchFits, Q!RecursionIsExact
  <2>2. f \in UNION {{n} \cup Q!Reach[n] : n \in Q!Elements(graph.keys)}
    BY <1>2
  <2>3. \A g \in UNION {{n} \cup Q!Reach[n] : n \in Q!Elements(graph.keys)} : \E i \in DOMAIN sccs : g \in sccs[i]
    BY <2>1 DEF Q!RecursionExact
  <2> QED
    BY <2>2, <2>3
<1>4. Q!DepthInv /\ Q!TypeOK
  BY <1>1 DEF Q!Inv, Q!SearchInv
<1>5. sccs \in Seq(SUBSET Callables) /\ depth \in Seq({-1} \cup (Nat \ {0}))
  BY <1>4 DEF Q!TypeOK
<1>6. DOMAIN depth = DOMAIN sccs
  BY <1>5
<1> DEFINE i == CHOOSE i \in DOMAIN sccs : f \in sccs[i]
<1>7. i \in DOMAIN sccs /\ f \in sccs[i] /\ SCCDepthOf(f) = depth[i]
  BY <1>3 DEF SCCDepthOf
<1> HIDE DEF i
<1>8. Q!Measured(i, f)
  BY <1>4, <1>6, <1>7 DEF Q!DepthInv
<1> QED
  BY <1>6, <1>7, <1>8

\* The types follow from the invariants of the phases.
LEMMA TypesHold == InferInv => TypeOK
<1> SUFFICES ASSUME InferInv PROVE TypeOK
  OBVIOUS
<1>1. Scan!TypeOK
  BY ScanTypes DEF InferInv, ScanPart
<1>2. graph.keys = <<>> \/ Search!TypeOK
  BY SearchTypes DEF InferInv, Unsearched, SearchPart, Q!Inv, Q!SearchInv
<1>3. in = NoInput \/ Spread!TypeOK
  BY SpreadTypes DEF InferInv, Unspread, SpreadPart, W!LoopInv
<1>4. phase \in {"spread", "measure"} => WellFormed(in)
  BY WellFormedSame DEF InferInv, SpreadPart, W!LoopInv, W!TypeOK
<1>5. maxDepth \in [Funcs -> {-1} \cup Nat]
  <2>1. CASE phase # "done"
    BY <2>1 DEF InferInv, Unmeasured
  <2>2. CASE phase = "done"
    <3>1. /\ SearchPart /\ Scanned /\ Q!SearchOver /\ Len(depth) = Len(sccs)
          /\ maxDepth = [f \in Funcs |-> DepthOf(f)]
      BY <2>2, DoneParts DEF Done, SpreadPart, Results
    <3>2. depth \in Seq({-1} \cup (Nat \ {0}))
      BY <3>1 DEF SearchPart, Q!Inv, Q!SearchInv, Q!TypeOK
    <3>3. \A f \in Funcs : DepthOf(f) \in {-1} \cup Nat
      <4> SUFFICES ASSUME NEW f \in Funcs PROVE DepthOf(f) \in {-1} \cup Nat
        OBVIOUS
      <4>1. \E i \in DOMAIN depth : SCCDepthOf(f) = depth[i]
        BY <3>1, DepthLookup
      <4> QED
        BY <3>2, <4>1 DEF DepthOf
    <3> QED
      BY <3>1, <3>3
  <2> QED
    BY <2>1, <2>2
<1>6. \A f \in Funcs : marked[f] \in [DOMAIN prog.body[f] -> SUBSET Kinds]
  <2>1. CASE phase # "done"
    <3>1. marked = prog.marked /\ prog \in Programs
      BY <2>1 DEF InferInv, Unmeasured, ScanPart
    <3>2. Remarked(prog)
      BY <3>1, InferAssumption
    <3> QED
      BY <3>1, <3>2 DEF Remarked
  <2>2. CASE phase = "done"
    <3>1. marked = [f \in Funcs |-> [i \in DOMAIN prog.body[f] |-> Marks(f, i)]]
      BY <2>2 DEF InferInv, Results
    <3> QED
      BY <3>1 DEF Marks
  <2> QED
    BY <2>1, <2>2
<1> QED
  BY <1>1, <1>2, <1>3, <1>4, <1>5, <1>6 DEF TypeOK, InferInv

(***************************************************************************)
(* Through all phases everything keeps its type: depths are -1 or natural  *)
(* numbers, and what the loop starts on is well-formed.                    *)
(***************************************************************************)
THEOREM TypeCorrect == Spec => []TypeOK
  BY AlwaysInferInv, TypesHold, PTL

-----------------------------------------------------------------------------
\* A function's own effects and memory are what the scan has found; recursion
\* is never among them.
LEMMA OwnIs ==
  ASSUME Scanned, NEW f \in Funcs
  PROVE  /\ Effects(direct[f]) = Own(f) /\ Own(f) \in SUBSET Kinds /\ "Recurse" \notin Own(f)
         /\ direct[f].heap \in OwnHeap(f) /\ OwnHeap(f) \in SUBSET HeapKinds
         /\ \A h \in OwnHeap(f) : h <= direct[f].heap
<1>1. S!TypeOK /\ S!ScanInv /\ S!Scanned(f)
  BY ScanFits, S!AllScanned DEF Scanned
<1>2. S!Module(prog)
  BY <1>1 DEF S!TypeOK
<1>3. \A i \in S!InScope(f) : i \in DOMAIN prog.body[f] /\ prog.body[f][i] \in S!Instr
  BY <1>2, ScanFits, S!Bodies DEF S!InScope
<1>4. /\ Own(f) = UNION {S!OwnKinds(prog.body[f][i]) : i \in S!InScope(f)}
      /\ OwnHeap(f) = {0} \cup UNION {S!HeapOf(prog.body[f][i]) : i \in S!InScope(f)}
  BY ReadingSame DEF Own, OwnHeap
<1>5. \A i \in S!InScope(f) : /\ S!OwnKinds(prog.body[f][i]) \subseteq Kinds
                             /\ S!HeapOf(prog.body[f][i]) \subseteq HeapKinds
  <2>1. HeapKinds = S!HeapKinds
    BY DEF HeapKinds, S!HeapKinds
  <2> QED
    BY <1>2, <1>3, <2>1, ScanFits, S!OwnTypes
<1>6. ASSUME NEW i \in S!InScope(f) PROVE "Recurse" \notin S!OwnKinds(prog.body[f][i])
  <2>1. ASSUME NEW g \in prog.known PROVE "Recurse" \notin prog.info[g].kinds
    BY <1>2 DEF S!Module, S!Info
  <2>2. /\ "Recurse" \notin {"Throw"} /\ "Recurse" \notin {"Unknown"} /\ "Recurse" \notin {}
    OBVIOUS
  <2> QED
    BY <2>1, <2>2 DEF S!OwnKinds
<1>7. \A k \in Kinds : S!Carries(direct[f], k) <=> S!Sources(f, k) # {}
  BY <1>1, ScanFits, S!CarriesSource
<1>8. \A k \in Kinds : S!Sources(f, k) # {} <=> k \in Own(f)
  BY <1>4 DEF S!Sources
<1>9. \A k \in Kinds : S!Carries(direct[f], k) <=> Carries(direct[f], k)
  BY DEF S!Carries, Carries
<1>10. Effects(direct[f]) = Own(f) /\ Own(f) \in SUBSET Kinds
  BY <1>4, <1>5, <1>7, <1>8, <1>9 DEF Effects
<1>11. "Recurse" \notin Own(f)
  BY <1>4, <1>6
<1>12. OwnHeap(f) \in SUBSET HeapKinds
  BY <1>4, <1>5 DEF HeapKinds
<1>13. direct[f].heap \in OwnHeap(f) /\ \A h \in OwnHeap(f) : h <= direct[f].heap
  <2>1. S!HeapRight(f)
    BY <1>1 DEF S!ScanInv
  <2>2. S!Over(f) = S!InScope(f)
    BY <1>1, ScanFits, S!ScannedOver
  <2> QED
    BY <1>4, <2>1, <2>2 DEF S!HeapRight
<1> QED
  BY <1>10, <1>11, <1>12, <1>13

\* The functions that may call themselves are the ones the search has marked.
LEMMA RecursiveAre ==
  ASSUME Scanned, SearchPart, Q!SearchOver, NEW f \in Funcs
  PROVE  f \in InRecursiveSCC <=> f \in Reached(f)
<1>1. Q!Inv /\ graph = Graph
  BY DEF SearchPart
<1>2. Q!Elements(graph.keys) = Funcs /\ f \in Callables
  BY <1>1, SearchSees, Apart
<1>3. Q!Reach[f] = Reached(f)
  BY <1>1, <1>2, ReachSame
<1>4. PICK i \in DOMAIN sccs : f \in sccs[i] /\ (Q!Recursive(sccs[i]) <=> f \in Q!Reach[f])
  <2>1. Q!RecursionExact
    BY <1>1, SearchFits, Q!RecursionIsExact
  <2>2. f \in UNION {{n} \cup Q!Reach[n] : n \in Q!Elements(graph.keys)}
    BY <1>2
  <2> QED
    BY <2>1, <2>2 DEF Q!RecursionExact
<1>5. \A j \in DOMAIN sccs : f \in sccs[j] => (Q!Recursive(sccs[j]) <=> f \in Q!Reach[f])
  <2> SUFFICES ASSUME NEW j \in DOMAIN sccs, f \in sccs[j] PROVE Q!Recursive(sccs[j]) <=> f \in Q!Reach[f]
    OBVIOUS
  <2>1. Q!SearchInv /\ Q!ComponentsAreClasses
    BY <1>1 DEF Q!Inv
  <2> QED
    BY <2>1, SearchFits, Q!RecursiveIs
<1>6. f \in InRecursiveSCC <=> \E j \in DOMAIN sccs : f \in sccs[j] /\ Q!Recursive(sccs[j])
  BY RecursiveSame DEF InRecursiveSCC, ToSet
<1> QED
  BY <1>3, <1>4, <1>5, <1>6

\* What a function has to begin with: its own effects, and recursion.
LEMMA StartedEffects ==
  ASSUME Scanned, SearchPart, SpreadPart, NEW f \in Funcs
  PROVE  /\ Effects(in.direct[f]) = Own(f) \cup (IF f \in Reached(f) THEN {"Recurse"} ELSE {})
         /\ in.direct[f].heap = direct[f].heap
         /\ in.direct[f] = OwnSummary(f)
<1>1. in.direct[f] = OwnSummary(f)
  BY StartedIs DEF SpreadPart
<1>2. f \in InRecursiveSCC <=> f \in Reached(f)
  BY RecursiveAre DEF SpreadPart
<1>3. Effects(direct[f]) = Own(f) /\ "Recurse" \notin Own(f) /\ Own(f) \in SUBSET Kinds
  BY OwnIs
<1>4. direct[f] \in Summary
  BY SummarySame DEF Scanned, S!TypeOK
<1>5. CASE f \notin InRecursiveSCC
  BY <1>1, <1>2, <1>3, <1>5 DEF OwnSummary
<1>6. CASE f \in InRecursiveSCC
  <2> DEFINE s == direct[f]
             t == Shown(f, s)
  <2>1. /\ t.heap = s.heap
        /\ \A k \in Kinds : t.chain[k] =
               IF k = "Recurse" THEN <<CycleFrame(f)>>
               ELSE IF s.chain[k] = <<>> THEN <<>> ELSE <<CycleFrame(f)>> \o s.chain[k]
    BY <1>4, ShownIs
  <2>2. in.direct[f] = t
    BY <1>1, <1>6 DEF OwnSummary
  <2> HIDE DEF t
  <2>3. "Recurse" \in Kinds
    BY InferAssumption
  <2>4. ASSUME NEW k \in Kinds PROVE t.chain[k] # <<>> <=> k = "Recurse" \/ s.chain[k] # <<>>
    <3>1. s.chain[k] \in Seq(Frame)
      BY <1>4 DEF Summary, Chain
    <3>2. <<CycleFrame(f)>> # <<>> /\ <<CycleFrame(f)>> \o s.chain[k] # <<>>
      <4> HIDE DEF s
      <4>1. 1 \in DOMAIN (<<CycleFrame(f)>> \o s.chain[k]) /\ 1 \notin DOMAIN <<>>
        BY <3>1
      <4> QED
        BY <4>1
    <3> QED
      BY <2>1, <3>2
  <2>5. Effects(t) = Effects(s) \cup {"Recurse"}
    BY <2>3, <2>4 DEF Effects, Carries
  <2> QED
    BY <1>1, <1>2, <1>3, <1>6, <2>1, <2>2, <2>5
<1> QED
  BY <1>5, <1>6


\* The calls that the loop goes by are the ones from the regions.
LEMMA CallsAre ==
  ASSUME Scanned, SpreadPart, NEW f \in Funcs, NEW g \in Funcs
  PROVE  W!Calls(f, g) <=> g \in Flow(f)
<1>1. in.hops[f] = S!HopsOf(f)
  BY StartedIs DEF SpreadPart
<1>2. (\E j \in DOMAIN S!HopsOf(f) : S!HopsOf(f)[j].callee = g) <=> g \in callGraph[f]
  BY ScanFits, S!HopsExact DEF Scanned
<1>3. Flow(f) = callGraph[f]
  BY FlowIs
<1> QED
  BY <1>1, <1>2, <1>3 DEF W!Calls

\* If no caller is lost the loop tells all callers.
LEMMA NobodyLostAre ==
  ASSUME Scanned, SpreadPart, NobodyLost
  PROVE  /\ W!AllNotified
         /\ \A f \in Funcs : \A g \in Flow(f) \cap Funcs : W!Keeps(g, f)
<1>1. ASSUME NEW f \in Funcs, NEW g \in Flow(f) \cap Funcs PROVE W!Keeps(g, f)
  <2>1. in.callers = S!Handover.callers
    BY StartedIs DEF SpreadPart
  <2>2. (\E i \in DOMAIN S!Handover.callers[g] : S!Handover.callers[g][i] = f) <=> f \in callersOf[g]
    BY ScanFits, S!CallersExact DEF Scanned
  <2>3. f \in callersOf[g]
    BY DEF NobodyLost
  <2> QED
    BY <2>1, <2>2, <2>3 DEF W!Keeps
<1>2. W!AllNotified
  BY <1>1, CallsAre DEF W!AllNotified
<1> QED
  BY <1>1, <1>2

\* What the loop reaches is what the program reaches.
LEMMA ClosureIs ==
  ASSUME Scanned, SpreadPart, NEW f \in Funcs
  PROVE  W!Reach(f) = Closure(f)
<1> DEFINE R == W!Reach(f)
           P == Reached(f)
<1>1. /\ f \in R /\ R \in SUBSET Funcs
      /\ \A e \in R, g \in Funcs : W!Calls(e, g) => g \in R
      /\ \A X \in SUBSET Funcs : f \in X /\ (\A e \in X, g \in Funcs : W!Calls(e, g) => g \in X) => R \subseteq X
  <2>1. W!ReachLeast
    BY SpreadFits, W!ReachLeastHolds DEF SpreadPart, W!LoopInv
  <2> QED
    BY <2>1 DEF W!ReachLeast
<1>2. f \in Callables /\ Funcs \in SUBSET Callables /\ Callables = Funcs \cup Externals
  BY Apart
<1>3. /\ P \in SUBSET Callables
      /\ Flow(f) \subseteq P
      /\ \A g \in P : Flow(g) \subseteq P
      /\ \A X \in SUBSET Callables : Flow(f) \subseteq X /\ (\A g \in X : Flow(g) \subseteq X) => P \subseteq X
  BY <1>2, ReachedIsLeast
<1>4. \A e \in Funcs, g \in Funcs : W!Calls(e, g) <=> g \in Flow(e)
  BY CallsAre
<1>5. \A e \in Callables : Flow(e) \in SUBSET Callables /\ (e \notin Funcs => Flow(e) = {})
  BY FlowIs
<1> HIDE DEF R, P
<1>6. R \subseteq {f} \cup (P \cap Funcs)
  <2> DEFINE X == {f} \cup (P \cap Funcs)
  <2>1. X \in SUBSET Funcs /\ f \in X
    OBVIOUS
  <2>2. ASSUME NEW e \in X, NEW g \in Funcs, W!Calls(e, g) PROVE g \in X
    <3>1. e \in Funcs /\ g \in Flow(e)
      BY <2>1, <2>2, <1>4
    <3> QED
      BY <3>1, <1>3
  <2> HIDE DEF X
  <2>3. R \subseteq X
    BY <2>1, <2>2, <1>1
  <2> QED
    BY <2>3 DEF X
<1>7. P \subseteq R \cup Externals
  <2> DEFINE X == R \cup Externals
  <2>1. X \in SUBSET Callables
    BY <1>1, <1>2
  <2>2. \A e \in X : Flow(e) \subseteq X
    <3> SUFFICES ASSUME NEW e \in X, NEW g \in Flow(e) PROVE g \in X
      OBVIOUS
    <3>1. e \in Funcs /\ g \in Callables
      BY <2>1, <1>5
    <3>2. e \in R
      BY <3>1, Apart
    <3> QED
      BY <3>1, <3>2, <1>1, <1>2, <1>4
  <2>3. Flow(f) \subseteq X
    BY <1>1, <2>2
  <2> HIDE DEF X
  <2>4. P \subseteq X
    BY <2>1, <2>2, <2>3, <1>3
  <2> QED
    BY <2>4 DEF X
<1>8. R = {f} \cup (P \cap Funcs)
  BY <1>1, <1>6, <1>7, Apart
<1> QED
  BY <1>8 DEF R, P, Closure

\* No effect comes from nowhere, and the worst memory of somebody reached.
LEMMA EffectsAreJustified ==
  ASSUME InferInv, Done, NEW f \in Funcs
  PROVE  /\ Closure(f) \in SUBSET Funcs
         /\ Effects(summ[f]) \subseteq (UNION {Own(g) : g \in Closure(f)}) \cup (IF Cyclic(f) THEN {"Recurse"} ELSE {})
         /\ \E g \in Closure(f) : summ[f].heap = direct[g].heap
<1>1. Scanned /\ SearchPart /\ SpreadPart /\ W!LoopInv
  BY DoneParts DEF SpreadPart
<1>2. W!Reach(f) = Closure(f)
  BY <1>1, ClosureIs
<1>3. Closure(f) \in SUBSET Funcs
  BY DEF Closure
<1>4. \A g \in Funcs : /\ Effects(in.direct[g]) = Own(g) \cup (IF g \in Reached(g) THEN {"Recurse"} ELSE {})
                      /\ in.direct[g].heap = direct[g].heap
  BY <1>1, StartedEffects
<1>5. /\ \A k \in W!Effects(summ[f]) : \E g \in W!Reach(f) : k \in W!Effects(in.direct[g])
      /\ \E g \in W!Reach(f) : summ[f].heap = in.direct[g].heap
  BY <1>1 DEF W!LoopInv, W!Justified
<1>6. \A s : Effects(s) = W!Effects(s)
  BY SummarySame
<1>7. ASSUME NEW k \in Effects(summ[f])
      PROVE  k \in (UNION {Own(g) : g \in Closure(f)}) \cup (IF Cyclic(f) THEN {"Recurse"} ELSE {})
  <2>1. PICK g \in Closure(f) : k \in Effects(in.direct[g])
    BY <1>2, <1>5, <1>6
  <2>2. k \in Own(g) \/ (k = "Recurse" /\ g \in Reached(g))
    BY <1>3, <1>4, <2>1
  <2> QED
    BY <2>1, <2>2 DEF Cyclic
<1>8. \E g \in Closure(f) : summ[f].heap = direct[g].heap
  BY <1>2, <1>3, <1>4, <1>5
<1> QED
  BY <1>3, <1>7, <1>8


\* The worst of them, if it is one of them and none is worse.
LEMMA WorstIs ==
  ASSUME NEW X \in SUBSET HeapKinds, NEW h \in X, \A e \in X : e <= h
  PROVE  Worst(X) = h
<1>1. \A g \in X : (\A e \in X : e <= g) => g = h
  BY DEF HeapKinds
<1> QED
  BY <1>1 DEF Worst

\* When all is done, below and above are the same.
LEMMA SummariesMeet ==
  ASSUME InferInv, Done, NobodyLost, NEW f \in Funcs
  PROVE  /\ Effects(summ[f]) = (UNION {Own(g) : g \in Closure(f)}) \cup (IF Cyclic(f) THEN {"Recurse"} ELSE {})
         /\ summ[f].heap \in HeapKinds
         /\ summ[f].heap = Worst(UNION {OwnHeap(g) : g \in Closure(f)})
<1>1. Scanned /\ SearchPart /\ SpreadPart /\ W!LoopInv /\ worklist = <<>>
  BY DoneParts DEF SpreadPart
<1>2. /\ Closure(f) \in SUBSET Funcs
      /\ Effects(summ[f]) \subseteq (UNION {Own(g) : g \in Closure(f)}) \cup (IF Cyclic(f) THEN {"Recurse"} ELSE {})
      /\ \E g \in Closure(f) : summ[f].heap = direct[g].heap
  BY EffectsAreJustified
<1>3. \A g \in Funcs : /\ Effects(in.direct[g]) = Own(g) \cup (IF g \in Reached(g) THEN {"Recurse"} ELSE {})
                      /\ in.direct[g].heap = direct[g].heap
  BY <1>1, StartedEffects
<1>4. ASSUME NEW g \in Closure(f)
      PROVE  Effects(in.direct[g]) \subseteq Effects(summ[f]) /\ in.direct[g].heap <= summ[f].heap
  <2>1. g \in W!Reach(f)
    BY <1>1, ClosureIs
  <2>2. W!AllNotified /\ W!Quiescent
    BY <1>1, NobodyLostAre DEF W!Quiescent
  <2>3. W!TypeOK /\ W!OwnKept /\ W!NotifiedCallersServed
    BY <1>1 DEF W!LoopInv
  <2>4. W!Effects(in.direct[g]) \subseteq W!Effects(summ[f]) /\ in.direct[g].heap <= summ[f].heap
    BY <2>1, <2>2, <2>3, SpreadFits, W!HasAllWithinReach
  <2> QED
    BY <2>4, SummarySame
<1>5. ASSUME NEW g \in Closure(f) PROVE Own(g) \subseteq Effects(summ[f])
  BY <1>2, <1>3, <1>4
<1>6. ASSUME Cyclic(f) PROVE "Recurse" \in Effects(summ[f])
  <2>1. PICK g \in Closure(f) : g \in Reached(g)
    BY <1>6 DEF Cyclic
  <2> QED
    BY <2>1, <1>2, <1>3, <1>4
<1>7. Effects(summ[f]) = (UNION {Own(g) : g \in Closure(f)}) \cup (IF Cyclic(f) THEN {"Recurse"} ELSE {})
  BY <1>2, <1>5, <1>6
<1>8. summ[f].heap = Worst(UNION {OwnHeap(g) : g \in Closure(f)}) /\ summ[f].heap \in HeapKinds
  <2> DEFINE X == UNION {OwnHeap(g) : g \in Closure(f)}
  <2>1. \A g \in Funcs : /\ direct[g].heap \in OwnHeap(g) /\ OwnHeap(g) \in SUBSET HeapKinds
                        /\ \A h \in OwnHeap(g) : h <= direct[g].heap
    BY <1>1, OwnIs
  <2>2. X \in SUBSET HeapKinds
    BY <1>2, <2>1
  <2>3. summ[f].heap \in X
    BY <1>2, <2>1
  <2>4. ASSUME NEW e \in X PROVE e <= summ[f].heap
    <3>1. PICK g \in Closure(f) : e \in OwnHeap(g)
      OBVIOUS
    <3>2. e <= direct[g].heap /\ direct[g].heap <= summ[f].heap
      BY <1>2, <1>3, <1>4, <2>1, <3>1
    <3>3. e \in HeapKinds /\ direct[g].heap \in HeapKinds /\ summ[f].heap \in HeapKinds
      BY <1>2, <2>1, <2>2, <2>3, <3>1
    <3> QED
      BY <3>2, <3>3 DEF HeapKinds
  <2> HIDE DEF X
  <2>5. Worst(X) = summ[f].heap
    BY <2>2, <2>3, <2>4, WorstIs
  <2>6. summ[f].heap \in HeapKinds
    BY <2>2, <2>3
  <2> QED
    BY <2>5, <2>6 DEF X
<1> QED
  BY <1>7, <1>8

\* The property leaves open what declarations behind pointers may do.
LEMMA SummariesAreExact == InferInv => SummariesExact
<1> SUFFICES ASSUME InferInv, Done, NobodyLost, NEW f \in Funcs, NEW w, w = Worst(UNION {OwnHeap(g) : g \in Closure(f)})
             PROVE  /\ Certain(f) \subseteq Effects(summ[f])
                    /\ Effects(summ[f]) \subseteq Possible(f)
                    /\ w <= summ[f].heap
                    /\ (\A g \in Closure(f) : "Alloc" \notin Scan!MayKinds(g)) => summ[f].heap = w
  BY DEF SummariesExact
<1>1. Effects(summ[f]) = Certain(f)
  BY SummariesMeet DEF Certain
<1>2. w = summ[f].heap /\ w \in HeapKinds
  BY SummariesMeet
<1>3. w <= w
  BY <1>2 DEF HeapKinds
<1> QED
  BY <1>1, <1>2, <1>3 DEF Possible

(***************************************************************************)
(* From instructions to summaries, over the scan, the search, the          *)
(* recursion step and the loop: unless a caller was lost, the effects of a *)
(* function are those of the instructions in the regions of all it may     *)
(* reach, and recursion exactly when a cycle may be reached; beyond these  *)
(* there may be only what declarations behind pointers do.                 *)
(***************************************************************************)
THEOREM SummariesAlwaysExact == Spec => []SummariesExact
  BY AlwaysInferInv, SummariesAreExact, PTL

\* The depth is measured on the call graph, which forgets nothing.
LEMMA DepthSurvives == InferInv => DepthSurvivesLoss
<1> SUFFICES ASSUME InferInv, Done, NEW f \in Funcs
             PROVE  /\ Effects(summ[f]) \subseteq Certain(f)
                    /\ Cyclic(f) <=> maxDepth[f] = -1
                    /\ ~Cyclic(f) => maxDepth[f] = Frames(f)
  BY DEF DepthSurvivesLoss, Possible
<1>1. /\ Scanned /\ SearchPart /\ Q!SearchOver /\ Q!Inv /\ graph = Graph /\ Len(depth) = Len(sccs)
      /\ maxDepth[f] = DepthOf(f)
  BY DoneParts DEF SearchPart, SpreadPart, Results
<1>2. /\ Closure(f) \in SUBSET Funcs
      /\ Effects(summ[f]) \subseteq (UNION {Own(g) : g \in Closure(f)}) \cup (IF Cyclic(f) THEN {"Recurse"} ELSE {})
      /\ Effects(summ[f]) \subseteq Certain(f)
  BY EffectsAreJustified DEF Certain
<1>3. Carries(summ[f], "Recurse") => Cyclic(f)
  <2>1. \A g \in Closure(f) : "Recurse" \notin Own(g)
    BY <1>1, <1>2, OwnIs
  <2>2. Carries(summ[f], "Recurse") => "Recurse" \in Effects(summ[f])
    BY InferAssumption DEF Effects
  <2> QED
    BY <1>2, <2>1, <2>2
<1>4. PICK i \in DOMAIN sccs : f \in sccs[i] /\ SCCDepthOf(f) = depth[i] /\ i \in DOMAIN depth /\ Q!Measured(i, f)
  BY <1>1, DepthLookup
<1>5. Q!Loops(f) <=> Cyclic(f)
  BY <1>1, LoopsSame, Apart
<1>6. CASE Cyclic(f)
  <2>1. depth[i] = -1
    BY <1>4, <1>5, <1>6 DEF Q!Measured
  <2> QED
    BY <1>1, <1>2, <1>4, <1>6, <2>1 DEF DepthOf
<1>7. CASE ~Cyclic(f)
  <2>1. depth[i] # -1 /\ \A n \in 1 .. Q!Size : f \in Q!HasPath[n] <=> n <= depth[i]
    BY <1>4, <1>5, <1>7 DEF Q!Measured
  <2>2. depth \in Seq({-1} \cup (Nat \ {0})) /\ sccs \in Seq(SUBSET Callables)
    BY <1>1 DEF Q!Inv, Q!SearchInv, Q!TypeOK
  <2>3. depth[i] \in Nat /\ depth[i] >= 1
    BY <1>4, <2>1, <2>2
  <2>4. depth[i] <= Q!Size
    <3>1. depth[i] <= i
      BY <1>1, <1>4 DEF Q!Inv, Q!DepthInv
    <3>2. Len(sccs) <= Q!Size
      BY <1>1, SearchFits, Q!ComponentsFew DEF Q!Inv
    <3>3. i \in Nat /\ i <= Len(sccs) /\ Len(sccs) \in Nat /\ Q!Size \in Nat
      BY <1>1, <1>4, <2>2, HasPathChained
    <3> QED
      BY <2>3, <3>1, <3>2, <3>3
  <2> DEFINE d == depth[i]
  <2>5. /\ d \in Nat /\ d >= 1 /\ d <= Q!Size
        /\ \A n \in 1 .. Q!Size : f \in Q!HasPath[n] <=> n <= d
    BY <2>1, <2>3, <2>4
  <2> HIDE DEF d
  <2>6. Frames(f) = d
    BY <1>1, <1>7, <2>5, FramesMeasured
  <2>7. maxDepth[f] = d
    BY <1>1, <1>3, <1>4, <1>7 DEF DepthOf, d
  <2> QED
    BY <1>2, <1>7, <2>5, <2>6, <2>7
<1> QED
  BY <1>6, <1>7

(***************************************************************************)
(* Whether callers were lost or not, the reported stack depth is the       *)
(* number of frames of the longest chain of calls, and -1 exactly when a   *)
(* cycle of calls may be reached; and no effect comes from nowhere.        *)
(***************************************************************************)
THEOREM DepthAlwaysSurvives == Spec => []DepthSurvivesLoss
  BY AlwaysInferInv, DepthSurvives, PTL

\* The reason that an instruction gives is one frame, and not a cycle's.
LEMMA OwnFrame ==
  ASSUME Scanned, NEW f \in Funcs, NEW k \in Own(f)
  PROVE  \E fr \in Frame : /\ direct[f].chain[k] = <<fr>>
                           /\ fr.callee # "<recursive-scc>"
                           /\ fr.kind \notin HopKinds \cup {"cycle"}
<1>1. S!TypeOK /\ S!ScanInv /\ S!Scanned(f) /\ S!Module(prog)
  BY ScanFits, S!AllScanned DEF Scanned, S!TypeOK
<1>2. k \in Kinds /\ Carries(direct[f], k)
  BY OwnIs DEF Effects
<1>3. S!Carries(direct[f], k)
  BY <1>2 DEF S!Carries, Carries
<1>4. PICK i \in S!Sources(f, k) : \E x \in S!OwnFrames(f, S!Blamed(prog.body[f][i], k)) : direct[f].chain[k] = <<x>>
  BY <1>1, <1>2, <1>3, ScanFits, S!CarriesSource
<1>5. PICK fr \in S!OwnFrames(f, S!Blamed(prog.body[f][i], k)) : direct[f].chain[k] = <<fr>>
  BY <1>4
<1>6. prog.body[f][i] \in S!Instr
  BY <1>1, <1>4, ScanFits, S!Bodies DEF S!Sources, S!InScope
<1>7. S!Blamed(prog.body[f][i], k) \in Callables \cup {"<indirect>", "<indirect call>"}
  BY <1>6 DEF S!Blamed, S!Instr, S!Callables, Callables
<1>8. "<recursive-scc>" \notin Callables
  BY InferAssumption DEF Callables
<1>9. S!Blamed(prog.body[f][i], k) # "<recursive-scc>"
  BY <1>7, <1>8
<1>10. fr.callee = S!Blamed(prog.body[f][i], k) /\ fr.kind \in SourceKinds \ {"cycle"}
  BY <1>5 DEF S!OwnFrames, S!OwnSources, SourceKinds, S!SourceKinds
<1>11. fr.kind \notin HopKinds \cup {"cycle"}
  BY <1>10 DEF HopKinds, SourceKinds
<1>12. fr \in Frame
  <2>1. direct[f].chain[k] \in Seq(Frame)
    BY <1>1, <1>2, SummarySame, ZenonT(40) DEF S!TypeOK, Summary, Chain
  <2>2. <<fr>> \in Seq(Frame) /\ 1 \in DOMAIN <<fr>> /\ <<fr>>[1] = fr
    BY <2>1, <1>5
  <2> QED
    BY <2>2
<1> QED
  BY <1>5, <1>9, <1>10, <1>11, <1>12

\* Nothing is put before it but the cycle, and later visits leave it alone.
LEMMA CycleShown == InferInv => CycleVisible
<1> SUFFICES ASSUME InferInv, Done, NEW f \in Funcs, NEW k \in Kinds \cap Own(f), NEW ch, ch = summ[f].chain[k]
             PROVE  /\ ch[1].callee = "<recursive-scc>" <=> f \in Reached(f)
                    /\ Len(ch) = IF f \in Reached(f) THEN 2 ELSE 1
                    /\ ch[Len(ch)].kind \notin HopKinds \cup {"cycle"}
  BY DEF CycleVisible
<1>1. Scanned /\ SearchPart /\ SpreadPart /\ Q!SearchOver /\ W!LoopInv
  BY DoneParts DEF SpreadPart
<1>2. PICK fr \in Frame : /\ direct[f].chain[k] = <<fr>>
                          /\ fr.callee # "<recursive-scc>"
                          /\ fr.kind \notin HopKinds \cup {"cycle"}
  BY <1>1, OwnFrame
<1>3. k # "Recurse"
  BY <1>1, OwnIs
<1>4. in.direct[f] = OwnSummary(f) /\ k \in Effects(in.direct[f])
  BY <1>1, StartedEffects
<1>5. ch = OwnSummary(f).chain[k]
  <2>1. W!Carries(in.direct[f], k)
    BY <1>4 DEF Effects, Carries, W!Carries
  <2>2. summ[f].chain[k] = in.direct[f].chain[k]
    BY <1>1, <2>1 DEF W!LoopInv, W!OwnChains
  <2> QED
    BY <1>4, <2>2
<1>6. f \in InRecursiveSCC <=> f \in Reached(f)
  BY <1>1, RecursiveAre
<1>7. CASE f \notin Reached(f)
  <2>1. ch = <<fr>>
    BY <1>2, <1>5, <1>6, <1>7 DEF OwnSummary
  <2> QED
    BY <1>2, <1>7, <2>1
<1>8. CASE f \in Reached(f)
  <2>1. direct[f] \in Summary
    BY <1>1, SummarySame DEF Scanned, S!TypeOK
  <2> DEFINE c == CycleFrame(f)
             s == direct[f]
             t == Shown(f, s)
  <2>2. s.chain[k] # <<>>
    <3>1. 1 \in DOMAIN <<fr>> /\ 1 \notin DOMAIN <<>>
      OBVIOUS
    <3> QED
      BY <1>2, <3>1
  <2>3. t.chain[k] = <<c>> \o s.chain[k]
    <3>1. t.chain[k] = IF k = "Recurse" THEN <<c>> ELSE IF s.chain[k] = <<>> THEN <<>> ELSE <<c>> \o s.chain[k]
      BY <2>1, ShownIs
    <3> HIDE DEF t, s, c
    <3> QED
      BY <3>1, <1>3, <2>2
  <2>4. ch = <<c>> \o <<fr>>
    BY <1>2, <1>5, <1>6, <1>8, <2>3 DEF OwnSummary
  <2>5. Len(ch) = 2 /\ ch[1] = c /\ ch[2] = fr
    <3>1. c \in Frame
      BY InferAssumption DEF CycleFrame, Frame, SourceKinds
    <3>2. <<c>> \in Seq(Frame) /\ Len(<<c>>) = 1 /\ <<c>>[1] = c /\ <<fr>> \in Seq(Frame) /\ Len(<<fr>>) = 1 /\ <<fr>>[1] = fr
      BY <3>1
    <3> HIDE DEF c
    <3> QED
      BY <2>4, <3>2
  <2>6. CycleFrame(f).callee = "<recursive-scc>"
    BY DEF CycleFrame
  <2> QED
    BY <1>2, <1>8, <2>5, <2>6
<1> QED
  BY <1>7, <1>8

(***************************************************************************)
(* The reason of each effect that a function has itself begins with the    *)
(* cycle exactly when the function may call itself, and ends in its own    *)
(* instruction, whatever the propagation loop did after the recursion step.*)
(***************************************************************************)
THEOREM CycleAlwaysVisible == Spec => []CycleVisible
  BY AlwaysInferInv, CycleShown, PTL

\* The scan's tags: the instructions in the region, with their effects.
LEMMA ScanMarks ==
  ASSUME ScanPart, Scanned, NEW f \in Funcs, NEW i \in DOMAIN prog.body[f]
  PROVE  {k \in Kinds : <<i, k>> \in witness[f]} = IF prog.body[f][i].scope THEN Scan!OwnKinds(prog.body[f][i]) ELSE {}
<1>1. S!TypeOK /\ S!ScanInv /\ S!Scanned(f) /\ S!Module(prog)
  BY ScanFits, S!AllScanned DEF Scanned, S!TypeOK
<1>2. S!Forwards(f) = {}
  BY InferAssumption DEF ScanPart, S!Forwards, S!InScope
<1>3. S!Over(f) = S!InScope(f) /\ \A k \in Kinds : S!Sources(f, k) \cap S!Over(f) = S!Sources(f, k)
  BY <1>1, ScanFits, S!ScannedOver
<1>4. witness[f] = {t \in (S!InScope(f) \X Kinds) : t[1] \in S!Sources(f, t[2]) \cap S!Over(f)}
                   \cup (IF S!Scanned(f) /\ S!Opaque(f) THEN S!Forwards(f) \X {"Unknown"} ELSE {})
  BY <1>1 DEF S!ScanInv, S!TagsRight
<1>5. S!Forwards(f) \X {"Unknown"} = {}
  BY <1>2
<1>6. witness[f] = {t \in (S!InScope(f) \X Kinds) : t[1] \in S!Sources(f, t[2]) \cap S!Over(f)}
  BY <1>4, <1>5
<1>7. S!OwnKinds(prog.body[f][i]) \subseteq Kinds
  BY <1>1, ScanFits, S!Bodies, S!OwnTypes
<1>8. \A k \in Kinds : <<i, k>> \in witness[f] <=> i \in S!Sources(f, k)
  BY <1>3, <1>6 DEF S!Sources
<1>9. \A k : i \in S!Sources(f, k) <=> prog.body[f][i].scope /\ k \in S!OwnKinds(prog.body[f][i])
  BY DEF S!Sources, S!InScope
<1>10. Scan!OwnKinds(prog.body[f][i]) = S!OwnKinds(prog.body[f][i])
  BY ReadingSame
<1> HIDE DEF S!OwnKinds
<1> QED
  BY <1>7, <1>8, <1>9, <1>10

\* A direct call is the call of that number that the loop walks.
LEMMA HopIs ==
  ASSUME Scanned, SpreadPart, NEW f \in Funcs, NEW i \in DOMAIN prog.body[f], DirectCall(f, i)
  PROVE  /\ HopAt(f, i) \in DOMAIN in.hops[f]
         /\ in.hops[f][HopAt(f, i)] = [callee |-> prog.body[f][i].callee, kind |-> "call"]
<1>1. \A j \in DOMAIN prog.body[f] : DirectCall(f, j) <=> j \in S!DirectCalls(f)
  BY DEF DirectCall, S!DirectCalls
<1>2. prog.body[f] \in Seq(S!Instr)
  BY ScanFits DEF Scanned, S!TypeOK, S!Module
<1>3. i \in Nat /\ \A j \in 1 .. i : j \in DOMAIN prog.body[f]
  BY <1>2
<1>4. \A j \in S!DirectCalls(f) : j \in Nat /\ j >= 1
  BY <1>2 DEF S!DirectCalls
<1>5. {j \in 1 .. i : DirectCall(f, j)} = {j \in S!DirectCalls(f) : j <= i}
  BY <1>1, <1>3, <1>4
<1>6. HopAt(f, i) = S!Rank(S!DirectCalls(f), i)
  BY <1>5 DEF HopAt, S!Rank, S!Cardinality, Cardinality
<1>7. i \in S!DirectCalls(f)
  BY <1>1
<1>8. /\ S!Rank(S!DirectCalls(f), i) \in DOMAIN S!HopsOf(f)
      /\ S!HopsOf(f)[S!Rank(S!DirectCalls(f), i)] = [callee |-> prog.body[f][i].callee, kind |-> "call"]
  BY <1>7, ScanFits, S!HopsExact DEF Scanned
<1>9. in.hops[f] = S!HopsOf(f)
  BY StartedIs DEF SpreadPart
<1> QED
  BY <1>6, <1>8, <1>9

\* The loop's tags: what the callee is finally found to have.
LEMMA LoopMarks ==
  ASSUME Scanned, SpreadPart, NobodyLost, worklist = <<>>, NEW f \in Funcs, NEW i \in DOMAIN prog.body[f], DirectCall(f, i)
  PROVE  {k \in Kinds : <<HopAt(f, i), k>> \in tags[f]} = Effects(summ[prog.body[f][i].callee])
<1> DEFINE g == prog.body[f][i].callee
           h == HopAt(f, i)
<1>0. h \in DOMAIN in.hops[f] /\ in.hops[f][h] = [callee |-> g, kind |-> "call"]
  BY HopIs
<1>2. g \in Flow(f) \cap Funcs
  BY FlowIs DEF DirectCall
<1> HIDE DEF g, h
<1>1. h \in DOMAIN in.hops[f] /\ in.hops[f][h].callee = g /\ in.hops[f][h].kind = "call"
  BY <1>0
<1>3. W!Keeps(g, f) /\ ~W!Queued(f)
  BY <1>2, NobodyLostAre DEF W!Queued
<1>4. W!TagsGenuine /\ W!TagsComplete
  BY DEF SpreadPart, W!LoopInv
<1>5. W!Inherited(f, h) = summ[g]
  BY <1>1 DEF W!Inherited
<1>6. ASSUME NEW k \in Kinds, <<h, k>> \in tags[f] PROVE k \in Effects(summ[g])
  <2>1. W!Carries(W!Inherited(f, h), k)
    BY <1>4, <1>6 DEF W!TagsGenuine
  <2> QED
    BY <2>1, <1>5 DEF Effects, Carries, W!Carries
<1>7. ASSUME NEW k \in Effects(summ[g]) PROVE k \in Kinds /\ <<h, k>> \in tags[f]
  <2>1. k \in W!Effects(W!Inherited(f, h))
    BY <1>5, SummarySame
  <2>2. {h} \X W!Effects(W!Inherited(f, h)) \subseteq tags[f]
    BY <1>1, <1>3, <1>4 DEF W!TagsComplete
  <2> QED
    BY <2>1, <2>2 DEF Effects
<1>8. {k \in Kinds : <<h, k>> \in tags[f]} = Effects(summ[g])
  BY <1>6, <1>7
<1> QED
  BY <1>8 DEF g, h

\* Together: as the code stands, a direct call is walked and tagged when its
\* callee is called in the region, wherever it stands itself.
LEMMA MarksAreExact == InferInv => MarksExact
<1> SUFFICES ASSUME InferInv, Done, NobodyLost, NEW f \in Funcs, NEW i \in DOMAIN prog.body[f], NEW ins, ins = prog.body[f][i]
             PROVE  /\ MustMark(f, i) \subseteq marked[f][i]
                    /\ marked[f][i] \subseteq MustMark(f, i) \cup MayMark(f, i)
  BY DEF MarksExact
<1> DEFINE own  == IF ins.scope THEN Scan!OwnKinds(ins) ELSE {}
           from == IF ins.op = "call" /\ ins.callee \in Flow(f) \cap Funcs THEN Effects(summ[ins.callee]) ELSE {}
<1>1. ScanPart /\ Scanned /\ SpreadPart /\ worklist = <<>> /\ Results
  BY DoneParts
<1>2. marked[f][i] = Marks(f, i)
  BY <1>1 DEF Results
<1>3. {k \in Kinds : <<i, k>> \in witness[f]} = own
  BY <1>1, ScanMarks
<1>4. DirectCall(f, i) <=> ins.op = "call" /\ ins.callee \in Flow(f) \cap Funcs
  BY <1>1, FlowIs DEF DirectCall
<1>5. DirectCall(f, i) => {k \in Kinds : <<HopAt(f, i), k>> \in tags[f]} = Effects(summ[ins.callee])
  BY <1>1, LoopMarks
<1>6. prog.marked[f][i] \subseteq Kinds
  <2>1. Remarked(prog)
    BY <1>1, InferAssumption DEF ScanPart
  <2> QED
    BY <2>1 DEF Remarked
<1>7. Marks(f, i) = prog.marked[f][i] \cup {k \in Kinds : <<i, k>> \in witness[f]}
                    \cup (IF DirectCall(f, i) THEN {k \in Kinds : <<HopAt(f, i), k>> \in tags[f]} ELSE {})
  BY <1>6 DEF Marks
<1>8. marked[f][i] = prog.marked[f][i] \cup own \cup from
  BY <1>2, <1>3, <1>4, <1>5, <1>7
<1>9. MustMark(f, i) = prog.marked[f][i] \cup own
                       \cup UNION {Effects(summ[g]) : g \in IF ins.scope /\ ins.op = "call" THEN Leads(ins) \ prog.known ELSE {}}
  BY DEF MustMark
<1>10. UNION {Effects(summ[g]) : g \in Leads(ins) \cap Flow(f)} \subseteq MayMark(f, i)
  BY DEF MayMark
<1>11. ins.op = "call" => Leads(ins) = Funcs \cap {ins.callee}
  BY DEF Leads
<1> HIDE DEF own
<1>12. MustMark(f, i) \subseteq marked[f][i]
  <2>1. ASSUME ins.scope, ins.op = "call", NEW g \in Leads(ins) \ prog.known PROVE Effects(summ[g]) \subseteq from
    <3>1. g = ins.callee /\ g \in Funcs /\ g \notin prog.known
      BY <2>1, <1>11
    <3>2. i \in Scan!InScope(f)
      BY <2>1 DEF Scan!InScope
    <3>3. g \in Callables
      BY <3>1 DEF Callables
    <3>4. g \in Flow(f)
      BY <2>1, <3>1, <3>2, <3>3 DEF Flow
    <3> QED
      BY <2>1, <3>1, <3>4
  <2> HIDE DEF from
  <2> QED
    BY <1>8, <1>9, <2>1
<1>13. from \subseteq MayMark(f, i)
  <2>1. CASE ins.op = "call" /\ ins.callee \in Flow(f) \cap Funcs
    <3>1. ins.callee \in Leads(ins) \cap Flow(f)
      BY <2>1, <1>11
    <3> QED
      BY <2>1, <3>1, <1>10
  <2>2. CASE ~(ins.op = "call" /\ ins.callee \in Flow(f) \cap Funcs)
    BY <2>2
  <2> QED
    BY <2>1, <2>2
<1> HIDE DEF from
<1> QED
  BY <1>8, <1>9, <1>12, <1>13

(***************************************************************************)
(* What the placement pass is given to wrap: unless a caller was lost, an  *)
(* instruction carries the kinds it has itself, as a direct call from the  *)
(* region all kinds its callee is finally found to have, and its tags of   *)
(* an earlier run, and no kind that nothing it may lead to has.            *)
(***************************************************************************)
THEOREM MarksAlwaysExact == Spec => []MarksExact
  BY AlwaysInferInv, MarksAreExact, PTL
=============================================================================
