-------------------------------- MODULE RTScan --------------------------------
(***************************************************************************)
(* The first loop of RTEffectInferPass::run: it scans the functions in the *)
(* order the module defines them, and each instruction in order.  It       *)
(* collects the effects a function has directly, with their witnesses, and *)
(* the call graph, with the callers of each function; an indirect call is  *)
(* resolved by its type, deferred when it calls an argument, or unknown.   *)
(*                                                                         *)
(* An instruction is a record:                                             *)
(*   op       "alloca", "plain", "call", "pointer" (an indirect call),     *)
(*            "argument" (one through an argument of the function), or     *)
(*            "ignored" (a call that is passed over: an intrinsic, a       *)
(*            region marker, or no function to be seen);                   *)
(*   scope    it is in the function's region, if the function has one;     *)
(*   global   it has a global variable as an operand;                      *)
(*   invoke   it is an invoke;                                             *)
(*   callee   what getCalledFunction yields, "<indirect>" for nothing;     *)
(*   sig      the type of an indirect call;   arg   the argument called.   *)
(***************************************************************************)
EXTENDS RTSummaries, FiniteSets

CONSTANTS Externals,   \* functions without a body
          Vehicles,    \* the ones isThrowVehicle knows
          Sigs,        \* function types
          Args,        \* argument numbers
          Programs     \* the modules that are scanned

VARIABLES prog,        \* the module
          pos,         \* F: a position in prog.order
          pc,          \* I: 0 before the function's state is set up
          direct,      \* DirectEffects
          callGraph,   \* CallGraph
          callersOf,   \* CallersOf
          sites,       \* Sites: the calls of arguments
          unknown,     \* HasNonPolyUnknown
          witness,     \* DirectWitnesses
          poly         \* PolyArgs, {} when not IsEffectPolymorphic

vars == <<prog, pos, pc, direct, callGraph, callersOf, sites, unknown, witness, poly>>
-----------------------------------------------------------------------------
Callables == Funcs \cup Externals
Places    == {"<alloca>", "<global>", "<indirect>", "<indirect call>", "<argument-forward call>"}

ASSUME ScanAssumption == /\ Vehicles \subseteq Externals
                         /\ Externals \cup Places \subseteq Names
                         /\ Funcs \cap Names = {}
                         /\ {"Throw", "Unknown"} \subseteq Kinds

Instr == [op : {"alloca", "plain", "call", "pointer", "argument", "ignored"},
          scope : BOOLEAN, global : BOOLEAN, invoke : BOOLEAN,
          callee : Callables \cup {"<indirect>"}, sig : Sigs, arg : Args]

\* An entry of the external table: it may give a heap kind without may_alloc.
Info == [kinds : SUBSET (Kinds \ {"Unknown", "Recurse"}), heap : HeapKinds]

Listing(s) == /\ s \in Seq(Funcs)
              /\ \A f \in Funcs : \E i \in DOMAIN s : s[i] = f
              /\ \A i, j \in DOMAIN s : s[i] = s[j] => i = j

\* order: as the module defines the functions; addr: by address; known: the
\* functions in the table; taken: the ones whose address is taken.
Module(p) == /\ p.body \in [Funcs -> Seq(Instr)]
             /\ \A f \in Funcs : \A i \in DOMAIN p.body[f] :
                   p.body[f][i].op = "call" => p.body[f][i].callee \in Callables
             /\ Listing(p.order)
             /\ Listing(p.addr)
             /\ p.known \subseteq Callables
             /\ p.info \in [Callables -> Info]
             /\ p.taken \subseteq Callables
             /\ p.sig \in [Callables -> Sigs]
             /\ p.nounwind \subseteq Callables

ASSUME ProgramsAssumption == \A p \in Programs : Module(p)

TypeOK == /\ Module(prog)
          /\ pos \in 1 .. Len(prog.order) + 1
          /\ pc \in Nat
          /\ direct \in [Funcs -> Summary]
          /\ callGraph \in [Funcs -> SUBSET Callables]
          /\ callersOf \in [Callables -> SUBSET Funcs]
          /\ unknown \in BOOLEAN
          /\ witness \in [Funcs -> SUBSET (Nat \X Kinds)]
          /\ poly \in [Funcs -> SUBSET Args]
          /\ sites \subseteq Nat
          /\ pc > 0 => LET body == prog.body[prog.order[pos]]
                       IN  \A i \in sites : i \in DOMAIN body /\ i < pc /\ body[i].op = "argument"
-----------------------------------------------------------------------------
NoSummary == [chain |-> [k \in Kinds |-> <<>>], heap |-> 0, heapChain |-> <<>>]

\* Mistake: the last instruction that has an effect provides its chain.
SetEffectsLast(s, ks, fr) ==
  [s EXCEPT !.chain = [k \in Kinds |-> IF k \in ks THEN <<fr>> ELSE @[k]]]

\* setEffect, for each kind in ks: the first one sets the chain.
SetEffects(s, ks, fr) ==
  [s EXCEPT !.chain = [k \in Kinds |-> IF k \in ks /\ @[k] = <<>> THEN <<fr>> ELSE @[k]]]

\* Mistake: the last kind is noted.
SetHeapLast(s, h, fr) == [s EXCEPT !.heap = h, !.heapChain = <<fr>>]

\* setHeapKind: only a worse kind is noted.
SetHeap(s, h, fr) ==
  IF h <= s.heap THEN s ELSE [s EXCEPT !.heap = h, !.heapChain = <<fr>>]

Init == /\ prog \in Programs
        /\ pos = 1
        /\ pc = 0
        /\ direct = [f \in Funcs |-> NoSummary]
        /\ callGraph = [f \in Funcs |-> {}]
        /\ callersOf = [g \in Callables |-> {}]
        /\ sites = {}
        /\ unknown = FALSE
        /\ witness = [f \in Funcs |-> {}]
        /\ poly = [f \in Funcs |-> {}]

Finished == pos > Len(prog.order)
Cur      == prog.order[pos]
Body     == prog.body[Cur]
Ins      == Body[pc]

\* The scan of a function begins; whoever was its caller so far is forgotten.
FreshCallers == [callersOf EXCEPT ![Cur] = {}]

FreshSites == {}

\* Mistake: what made the function before unknown still counts.
FreshUnknownStale == unknown

FreshUnknown == FALSE

Begin == /\ ~Finished
         /\ pc = 0
         /\ pc' = 1
         /\ direct' = [direct EXCEPT ![Cur] = NoSummary]
         /\ callGraph' = [callGraph EXCEPT ![Cur] = {}]
         /\ callersOf' = FreshCallers
         /\ sites' = FreshSites
         /\ unknown' = FreshUnknown
         /\ UNCHANGED <<prog, pos, witness, poly>>

At(name, kind) == [fn |-> Cur, callee |-> name, kind |-> kind]

\* An instruction in scope is at hand.
Here(op) == /\ ~Finished
            /\ pc \in DOMAIN Body
            /\ Ins.scope
            /\ Ins.op = op

Unwinds(i) == i.invoke /\ i.callee \notin prog.nounwind

\* What is noted of any instruction but an alloca: globals, then invokes.
Touched ==
  LET s == IF Ins.global THEN SetHeap(direct[Cur], 2, At("<global>", "global-access"))
           ELSE direct[Cur]
  IN  SetEffects(s, IF Unwinds(Ins) THEN {"Throw"} ELSE {}, At(Ins.callee, "invoke"))

\* The instruction is done with: s is the summary now, and it is a witness
\* of ks, besides the exception an invoke may let through.
Note(s, ks) ==
  /\ direct' = [direct EXCEPT ![Cur] = s]
  /\ witness' = [witness EXCEPT ![Cur] =
       @ \cup {pc} \X (ks \cup (IF Unwinds(Ins) THEN {"Throw"} ELSE {}))]
  /\ pc' = pc + 1
  /\ UNCHANGED <<prog, pos, poly>>

OutOfScope == /\ ~Finished
              /\ pc \in DOMAIN Body
              /\ ~Ins.scope
              /\ pc' = pc + 1
              /\ UNCHANGED <<prog, pos, direct, callGraph, callersOf, sites, unknown, witness, poly>>

Alloca == /\ Here("alloca")
          /\ direct' = [direct EXCEPT ![Cur] = SetHeap(@, 1, At("<alloca>", "stack-alloc"))]
          /\ pc' = pc + 1
          /\ UNCHANGED <<prog, pos, callGraph, callersOf, sites, unknown, witness, poly>>

\* No call, or one that is passed over.
PassOver == /\ Here("plain") \/ Here("ignored")
            /\ Note(Touched, {})
            /\ UNCHANGED <<callGraph, callersOf, sites, unknown>>

ForwardArgument == /\ Here("argument")
                   /\ sites' = sites \cup {pc}
                   /\ Note(Touched, {})
                   /\ UNCHANGED <<callGraph, callersOf, unknown>>

\* resolveIndirectTargets
Targets(i) == {g \in prog.taken : prog.sig[g] = i.sig}

\* Mistake: the callers of only one target are kept.
CallEdgesOne(S) ==
  /\ callGraph' = [callGraph EXCEPT ![Cur] = @ \cup S]
  /\ LET one == CHOOSE g \in S : TRUE
     IN  callersOf' = [callersOf EXCEPT ![one] = @ \cup {Cur}]

CallEdges(S) ==
  /\ callGraph' = [callGraph EXCEPT ![Cur] = @ \cup S]
  /\ callersOf' = [g \in Callables |-> callersOf[g] \cup (IF g \in S THEN {Cur} ELSE {})]

ResolvedPointer == /\ Here("pointer")
                   /\ Targets(Ins) # {}
                   /\ CallEdges(Targets(Ins))
                   /\ Note(Touched, {})
                   /\ UNCHANGED <<sites, unknown>>

UnknownPointer ==
  /\ Here("pointer")
  /\ Targets(Ins) = {}
  /\ unknown' = TRUE
  /\ Note(SetEffects(Touched, {"Unknown"}, At("<indirect call>", "indirect-call")), {"Unknown"})
  /\ UNCHANGED <<callGraph, callersOf, sites>>

\* Mistake: the heap kind of an entry counts without may_alloc.
TabledAnyHeap(s, info, fr) == SetHeap(SetEffects(s, info.kinds, fr), info.heap, fr)

Tabled(s, info, fr) ==
  LET t == SetEffects(s, info.kinds, fr)
  IN  IF "Alloc" \in info.kinds THEN SetHeap(t, info.heap, fr) ELSE t

TableCall ==
  /\ Here("call")
  /\ Ins.callee \in prog.known
  /\ LET info == prog.info[Ins.callee]
     IN  Note(Tabled(Touched, info, At(Ins.callee, "external")), info.kinds)
  /\ UNCHANGED <<callGraph, callersOf, sites, unknown>>

ThrowVehicle ==
  /\ Here("call")
  /\ Ins.callee \in Vehicles \ prog.known
  /\ Note(SetEffects(Touched, {"Throw"}, At(Ins.callee, "external")), {"Throw"})
  /\ UNCHANGED <<callGraph, callersOf, sites, unknown>>

UnknownExternal ==
  /\ Here("call")
  /\ Ins.callee \in Externals \ (Vehicles \cup prog.known)
  /\ unknown' = TRUE
  /\ Note(SetEffects(Touched, {"Unknown"}, At(Ins.callee, "unknown-external")), {"Unknown"})
  /\ UNCHANGED <<callGraph, callersOf, sites>>

InternalCall == /\ Here("call")
                /\ Ins.callee \in Funcs \ prog.known
                /\ CallEdges({Ins.callee})
                /\ Note(Touched, {})
                /\ UNCHANGED <<sites, unknown>>

NextFunction == /\ ~Finished
                /\ pc > Len(Body)
                /\ pos' = pos + 1
                /\ pc' = 0
                /\ UNCHANGED <<prog, callGraph, callersOf, sites, unknown>>

\* The calls of arguments are left to the callers, unless something unknown
\* is called besides.
\* Mistake: they are left to the callers in any case.
DefersAlways == sites # {}

Defers == sites # {} /\ ~unknown

EndDeferred == /\ NextFunction
               /\ Defers
               /\ poly' = [poly EXCEPT ![Cur] = {Body[i].arg : i \in sites}]
               /\ UNCHANGED <<direct, witness>>

EndPlain ==
  /\ NextFunction
  /\ ~Defers
  /\ direct' = [direct EXCEPT ![Cur] =
       IF sites = {} THEN @
       ELSE SetEffects(@, {"Unknown"}, At("<argument-forward call>", "indirect-call"))]
  /\ witness' = [witness EXCEPT ![Cur] = @ \cup (sites \X {"Unknown"})]
  /\ UNCHANGED poly

Next == \/ Begin \/ OutOfScope \/ Alloca \/ PassOver
        \/ ForwardArgument \/ ResolvedPointer \/ UnknownPointer
        \/ TableCall \/ ThrowVehicle \/ UnknownExternal \/ InternalCall
        \/ EndDeferred \/ EndPlain

Spec == Init /\ [][Next]_vars
-----------------------------------------------------------------------------
(***************************************************************************)
(* What the scan hands to the propagation loop.  The loop walks all direct *)
(* calls of a function whose callee is in its call graph, the ones out of  *)
(* scope too, and then the callees that no direct call reaches.            *)
(***************************************************************************)
\* The elements of s at the positions in I, in their order.
Kept(s, I) ==
  LET K      == I \cap DOMAIN s
      nth(n) == CHOOSE i \in K : Cardinality({j \in K : j < i}) = n - 1
  IN  [n \in 1 .. Cardinality(K) |-> s[nth(n)]]

DirectHops(f) ==
  LET calls == Kept(prog.body[f], {i \in DOMAIN prog.body[f] :
                      prog.body[f][i].op = "call" /\ prog.body[f][i].callee \in callGraph[f] \cap Funcs})
  IN  [i \in DOMAIN calls |-> [callee |-> calls[i].callee, kind |-> "call"]]

Seen(f) == {prog.body[f][i].callee : i \in {j \in DOMAIN prog.body[f] : prog.body[f][j].op = "call"}}

ResolvedHops(f) ==
  LET only == Kept(prog.addr, {i \in DOMAIN prog.addr : prog.addr[i] \in callGraph[f] \ Seen(f)})
  IN  [i \in DOMAIN only |-> [callee |-> only[i], kind |-> "indirect-resolved"]]

Handover == [hops    |-> [f \in Funcs |-> DirectHops(f) \o ResolvedHops(f)],
             direct  |-> direct,
             callers |-> [g \in Funcs |->
                         Kept(prog.addr, {i \in DOMAIN prog.addr : prog.addr[i] \in callersOf[g]})],
             order   |-> prog.addr]
-----------------------------------------------------------------------------
Position(f) == CHOOSE i \in DOMAIN prog.order : prog.order[i] = f
Scanned(f)  == Position(f) < pos
InScope(f)  == {i \in DOMAIN prog.body[f] : prog.body[f][i].scope}

\* The effects that instruction i has by itself.
OwnKinds(i) ==
  IF i.op = "alloca" THEN {}
  ELSE (IF Unwinds(i) THEN {"Throw"} ELSE {})
       \cup CASE i.op = "call" /\ i.callee \in prog.known -> prog.info[i.callee].kinds
              [] i.op = "call" /\ i.callee \in Vehicles \ prog.known -> {"Throw"}
              [] i.op = "call" /\ i.callee \in Externals \ (Vehicles \cup prog.known) -> {"Unknown"}
              [] i.op = "pointer" /\ Targets(i) = {} -> {"Unknown"}
              [] OTHER -> {}

Forwards(f) == {i \in InScope(f) : prog.body[f][i].op = "argument"}
Opaque(f)   == \E i \in InScope(f) : "Unknown" \in OwnKinds(prog.body[f][i])

Sources(f, k) == {i \in InScope(f) : k \in OwnKinds(prog.body[f][i])}

\* What a declaration is said to do, or that nothing is known of it.
Declared(g) == IF g \in prog.known THEN prog.info[g].kinds
               ELSE IF g \in Vehicles THEN {"Throw"} ELSE {"Unknown"}

(***************************************************************************)
(* The code takes nothing over from a declaration that a call through a    *)
(* pointer may lead to, where an unknown callee counts as unknown          *)
(* elsewhere.  The properties do not insist on it: what the declaration    *)
(* does is an effect that the call may have or not.                        *)
(***************************************************************************)
MayHave(i) == IF i.op = "pointer" THEN UNION {Declared(g) : g \in Targets(i) \cap Externals} ELSE {}

MayKinds(f) == UNION {MayHave(prog.body[f][i]) : i \in InScope(f)}

CertainTags(f) == {t \in (InScope(f) \X Kinds) : t[1] \in Sources(f, t[2])}
                  \cup (IF Opaque(f) THEN Forwards(f) \X {"Unknown"} ELSE {})

PossibleTags(f) == {t \in (InScope(f) \X Kinds) : t[2] \in MayHave(prog.body[f][t[1]])}
                   \cup (IF "Unknown" \in MayKinds(f) THEN Forwards(f) \X {"Unknown"} ELSE {})

(***************************************************************************)
(* The tags that selective instrumentation relies on: every instruction in *)
(* scope that has an effect, whatever the chain, and no other; calls of    *)
(* arguments when the function also calls something unknown, before or     *)
(* after them.  It is open for a pointer that leads to a declaration.      *)
(***************************************************************************)
TagsExact ==
  \A f \in Funcs : Scanned(f) =>
     /\ CertainTags(f) \subseteq witness[f]
     /\ witness[f] \subseteq CertainTags(f) \cup PossibleTags(f)

EffectsExact ==
  \A f \in Funcs : Scanned(f) => \A k \in Kinds :
     /\ Sources(f, k) # {} => Carries(direct[f], k)
     /\ Carries(direct[f], k) => Sources(f, k) # {} \/ k \in MayKinds(f)
     /\ Sources(f, k) # {} /\ k \notin MayKinds(f) =>
          LET first == prog.body[f][CHOOSE i \in Sources(f, k) : \A j \in Sources(f, k) : i <= j]
          IN  /\ Len(direct[f].chain[k]) = 1
              /\ direct[f].chain[k][1].fn = f
              /\ direct[f].chain[k][1].callee =
                   IF first.op = "pointer" /\ k = "Unknown" THEN "<indirect call>" ELSE first.callee

HeapOf(i) ==
  {0} \cup CASE i.op = "alloca" -> {1}
             [] i.op = "call" /\ i.callee \in prog.known /\ "Alloc" \in prog.info[i.callee].kinds ->
                  {prog.info[i.callee].heap} \cup (IF i.global THEN {2} ELSE {})
             [] OTHER -> IF i.global THEN {2} ELSE {}

HeapIsWorst ==
  \A f \in Funcs : Scanned(f) =>
     LET kinds == {0} \cup UNION {HeapOf(prog.body[f][i]) : i \in InScope(f)}
         worst == CHOOSE h \in kinds : \A g \in kinds : g <= h
     IN  /\ worst <= direct[f].heap
         /\ "Alloc" \notin MayKinds(f) => direct[f].heap = worst

(***************************************************************************)
(* The direct effects are what the instructions in scope say, whatever     *)
(* order they come in: an effect is set exactly when one of them has it,   *)
(* its chain is one frame that names the callee of the first that has it   *)
(* (setEffect), and the heap kind is the worst of any of them (setHeapKind *)
(* keeps the worse).  What a declaration behind a pointer may do is open.  *)
(***************************************************************************)
DirectExact == EffectsExact /\ HeapIsWorst

(***************************************************************************)
(* A function that calls its argument is never silently safe: either its   *)
(* callers are told which arguments to resolve, or it is unknown, and not  *)
(* both.                                                                   *)
(***************************************************************************)
DeferredOrUnknown ==
  \A f \in Funcs : Scanned(f) =>
     LET args == {prog.body[f][i].arg : i \in Forwards(f)}
     IN  \/ poly[f] = args /\ ~Carries(direct[f], "Unknown")
         \/ poly[f] = {} /\ Carries(direct[f], "Unknown")

(***************************************************************************)
(* The callers that are left after later scans forgot some: a function is  *)
(* a caller on record only of functions it calls, and of every function it *)
(* calls that has no body or was scanned no later than the caller.         *)
(***************************************************************************)
EarlierCalleesKeep ==
  \A f \in Funcs, g \in Callables :
     /\ f \in callersOf[g] => g \in callGraph[f]
     /\ Scanned(f) /\ g \in callGraph[f] /\ (g \in Funcs => Position(g) <= Position(f))
           => f \in callersOf[g]

(***************************************************************************)
(* The propagation loop may rely on its input: what the scan hands over is *)
(* what RTWorklist assumes (one source frame per effect, normal heap only  *)
(* with the allocation effect, callers that do call).                      *)
(***************************************************************************)
HandsOverWellFormed == Finished => WellFormed(Handover)
=============================================================================
