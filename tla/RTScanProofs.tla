----------------------------- MODULE RTScanProofs -----------------------------
(***************************************************************************)
(* Theorems about RTScan, for every set of programs: what the scan has     *)
(* found out is what the instructions say.                                 *)
(***************************************************************************)
EXTENDS RTScan, RTInduction, SequenceTheorems, FiniteSetTheorems

(***************************************************************************)
(* The instructions of f that have been scanned, and what their scan has   *)
(* to have left, function by function.                                     *)
(***************************************************************************)
Begun(f) == Position(f) < pos \/ (Position(f) = pos /\ pc > 0)

Over(f) == {i \in InScope(f) : Scanned(f) \/ (Position(f) = pos /\ i < pc)}

Blamed(i, k) == IF i.op = "pointer" /\ k = "Unknown" THEN "<indirect call>" ELSE i.callee

\* A cycle is no instruction's.
OwnSources == SourceKinds \ {"cycle"}

OwnFrames(f, callee) == {[fn |-> f, callee |-> callee, kind |-> kind] : kind \in OwnSources}

\* The first instruction that has the effect provides its chain.
ChainRight(f, k) ==
  LET S == Sources(f, k) \cap Over(f)
  IN  /\ S = {} => direct[f].chain[k] = <<>>
      /\ \A i \in S : (\A j \in S : i <= j) =>
            \E fr \in OwnFrames(f, Blamed(prog.body[f][i], k)) : direct[f].chain[k] = <<fr>>

HeapRight(f) ==
  LET H == {0} \cup UNION {HeapOf(prog.body[f][i]) : i \in Over(f)}
  IN  /\ direct[f].heap \in H
      /\ \A h \in H : h <= direct[f].heap

HeapChained(f) == /\ SourceChain(f, direct[f].heapChain)
                  /\ direct[f].heap = 0 <=> direct[f].heapChain = <<>>
                  /\ direct[f].heap = NormalHeap => Carries(direct[f], "Alloc")

TagsRight(f) ==
  witness[f] = {t \in (InScope(f) \X Kinds) : t[1] \in Sources(f, t[2]) \cap Over(f)}
               \cup (IF Scanned(f) /\ Opaque(f) THEN Forwards(f) \X {"Unknown"} ELSE {})

PolyRight(f) == poly[f] = IF Scanned(f) /\ ~Opaque(f) THEN {prog.body[f][i].arg : i \in Forwards(f)} ELSE {}

\* Of the function at hand, the calls of arguments and whether it calls
\* anything unknown.
NotedRight(f) == pc > 0 /\ Position(f) = pos =>
                   /\ sites = Forwards(f) \cap Over(f)
                   /\ unknown <=> Sources(f, "Unknown") \cap Over(f) # {}

EdgesRight ==
  /\ \A f \in Funcs : ~Begun(f) => callGraph[f] = {}
  /\ \A f \in Funcs, g \in Callables : f \in callersOf[g] => g \in callGraph[f]
  /\ \A f \in Funcs, g \in Callables :
        Begun(f) /\ g \in callGraph[f] /\ (g \in Funcs => Position(g) <= Position(f)) => f \in callersOf[g]

Bounds == pc > 0 => ~Finished /\ pc <= Len(Body) + 1

ScanInv == /\ Bounds
           /\ \A f \in Funcs : /\ \A k \in Kinds : ChainRight(f, k)
                               /\ HeapRight(f) /\ HeapChained(f)
                               /\ TagsRight(f) /\ PolyRight(f) /\ NotedRight(f)
           /\ EdgesRight
-----------------------------------------------------------------------------
(***************************************************************************)
(* A module lists each function once; the position of a function is where  *)
(* it is listed.                                                           *)
(***************************************************************************)
LEMMA Positions ==
  ASSUME Module(prog)
  PROVE  /\ prog.order \in Seq(Funcs) /\ Len(prog.order) \in Nat
         /\ DOMAIN prog.order = 1 .. Len(prog.order)
         /\ \A f \in Funcs : Position(f) \in DOMAIN prog.order /\ prog.order[Position(f)] = f
         /\ \A i \in DOMAIN prog.order : prog.order[i] \in Funcs /\ Position(prog.order[i]) = i
<1>1. /\ prog.order \in Seq(Funcs)
      /\ \A f \in Funcs : \E i \in DOMAIN prog.order : prog.order[i] = f
      /\ \A i, j \in DOMAIN prog.order : prog.order[i] = prog.order[j] => i = j
  BY DEF Module, Listing
<1>2. \A f \in Funcs : Position(f) \in DOMAIN prog.order /\ prog.order[Position(f)] = f
  BY <1>1 DEF Position
<1>3. Len(prog.order) \in Nat /\ DOMAIN prog.order = 1 .. Len(prog.order)
  BY <1>1, LenProperties
<1>4. \A i \in DOMAIN prog.order : prog.order[i] \in Funcs
  BY <1>1, <1>3, ElementOfSeq
<1> QED
  BY <1>1, <1>2, <1>3, <1>4

\* The position of the scan is in its ranges.
LEMMA PositionTypes ==
  ASSUME Module(prog), NEW f \in Funcs
  PROVE  Position(f) \in Nat
<1> DEFINE n == Len(prog.order)
<1>1. n \in Nat /\ Position(f) \in 1 .. n
  BY Positions
<1> HIDE DEF n
<1> QED
  BY <1>1

\* A body is a sequence of instructions.
LEMMA Bodies ==
  ASSUME Module(prog), NEW f \in Funcs
  PROVE  /\ prog.body[f] \in Seq(Instr) /\ Len(prog.body[f]) \in Nat
         /\ DOMAIN prog.body[f] = 1 .. Len(prog.body[f])
         /\ \A i \in DOMAIN prog.body[f] : i \in Nat /\ i > 0 /\ prog.body[f][i] \in Instr
<1>1. prog.body[f] \in Seq(Instr)
  BY DEF Module
<1>2. Len(prog.body[f]) \in Nat /\ DOMAIN prog.body[f] = 1 .. Len(prog.body[f])
  BY <1>1, LenProperties
<1>3. \A i \in DOMAIN prog.body[f] : prog.body[f][i] \in Instr
  BY <1>1, <1>2, ElementOfSeq
<1> QED
  BY <1>1, <1>2, <1>3

\* The types of the function at hand.
LEMMA AtHandTypes ==
  ASSUME TypeOK, ~Finished
  PROVE  /\ Cur \in Funcs /\ Position(Cur) = pos /\ pos \in Nat
         /\ \A f \in Funcs : Position(f) = pos <=> f = Cur
         /\ direct[Cur] \in Summary
<1>1. pos \in DOMAIN prog.order
  BY Positions DEF TypeOK, Finished
<1>2. Cur \in Funcs /\ Position(Cur) = pos
  BY <1>1, Positions DEF TypeOK, Cur
<1>3. \A f \in Funcs : Position(f) = pos => f = Cur
  BY Positions DEF TypeOK, Cur
<1> QED
  BY <1>1, <1>2, <1>3, Positions DEF TypeOK

\* The types of the parts of an instruction.
LEMMA InstrTypes ==
  ASSUME TypeOK, ~Finished, pc \in DOMAIN Body
  PROVE  /\ pc \in Nat /\ pc > 0 /\ pc <= Len(Body) /\ Ins \in Instr
         /\ Ins.callee \in Callables \cup {"<indirect>"}
         /\ Ins.op = "call" => Ins.callee \in Callables
<1>1. Cur \in Funcs
  BY AtHandTypes
<1>2. Ins \in Instr /\ pc \in Nat /\ pc > 0 /\ pc <= Len(Body)
  BY <1>1, Bodies DEF TypeOK, Body, Ins
<1>3. Ins.callee \in Callables \cup {"<indirect>"}
  BY <1>2 DEF Instr
<1>4. Ins.op = "call" => Ins.callee \in Callables
  BY <1>1 DEF TypeOK, Module, Ins, Body
<1> QED
  BY <1>2, <1>3, <1>4
-----------------------------------------------------------------------------
(***************************************************************************)
(* setEffect and setHeapKind: the first one sets the chain, only a worse   *)
(* kind is noted.                                                          *)
(***************************************************************************)
LEMMA FrameChain ==
  ASSUME NEW fr \in Frame
  PROVE  /\ <<fr>> \in Chain /\ <<fr>> # <<>> /\ Len(<<fr>>) = 1
         /\ DOMAIN <<fr>> = {1} /\ <<fr>>[1] = fr
  BY DEF Chain

\* What recording effects sets.
LEMMA SetEffectsSets ==
  ASSUME NEW s \in Summary, NEW ks \in SUBSET Kinds, NEW fr \in Frame
  PROVE  /\ SetEffects(s, ks, fr) \in Summary
         /\ SetEffects(s, ks, fr).heap = s.heap
         /\ SetEffects(s, ks, fr).heapChain = s.heapChain
         /\ \A k \in Kinds : SetEffects(s, ks, fr).chain[k] =
               IF k \in ks /\ s.chain[k] = <<>> THEN <<fr>> ELSE s.chain[k]
<1> DEFINE c == [k \in Kinds |-> IF k \in ks /\ s.chain[k] = <<>> THEN <<fr>> ELSE s.chain[k]]
<1>1. c \in [Kinds -> Chain]
  BY FrameChain DEF Summary
<1>2. SetEffects(s, ks, fr) = [s EXCEPT !.chain = c]
  BY DEF SetEffects, Summary
<1>3. \A k \in Kinds : c[k] = IF k \in ks /\ s.chain[k] = <<>> THEN <<fr>> ELSE s.chain[k]
  OBVIOUS
<1> HIDE DEF c
<1>4. [s EXCEPT !.chain = c] \in Summary /\ [s EXCEPT !.chain = c].chain = c
  BY <1>1 DEF Summary
<1> QED
  BY <1>2, <1>3, <1>4 DEF Summary

\* What recording a heap kind sets.
LEMMA SetHeapSets ==
  ASSUME NEW s \in Summary, NEW h \in HeapKinds, NEW fr \in Frame
  PROVE  /\ SetHeap(s, h, fr) \in Summary
         /\ SetHeap(s, h, fr).chain = s.chain
         /\ SetHeap(s, h, fr).heap = IF h <= s.heap THEN s.heap ELSE h
         /\ SetHeap(s, h, fr).heapChain = IF h <= s.heap THEN s.heapChain ELSE <<fr>>
<1>1. <<fr>> \in Chain
  BY FrameChain
<1> QED
  BY <1>1 DEF SetHeap, Summary
-----------------------------------------------------------------------------
(***************************************************************************)
(* What the instruction at hand may do to the summary s of its function.   *)
(***************************************************************************)
ChainsGrown(s, t, i) ==
  \A k \in Kinds :
     IF s.chain[k] # <<>> \/ k \notin OwnKinds(i) THEN t.chain[k] = s.chain[k]
     ELSE \E fr \in OwnFrames(Cur, Blamed(i, k)) : t.chain[k] = <<fr>>

HeapGrown(s, t, i) ==
  /\ t.heap \in {s.heap} \cup HeapOf(i)
  /\ s.heap <= t.heap /\ \A h \in HeapOf(i) : h <= t.heap
  /\ IF t.heap = s.heap THEN t.heapChain = s.heapChain
     ELSE \E callee \in Names \cup Funcs : \E fr \in OwnFrames(Cur, callee) : t.heapChain = <<fr>>
  /\ t.heap = NormalHeap => s.heap = NormalHeap \/ "Alloc" \in OwnKinds(i)

Grown(s, t, i) == t \in Summary /\ ChainsGrown(s, t, i) /\ HeapGrown(s, t, i)

Advance(t, S) ==
  /\ ~Finished /\ pc \in DOMAIN Body /\ Ins.scope
  /\ pc' = pc + 1
  /\ UNCHANGED <<prog, pos, poly>>
  /\ direct' = [direct EXCEPT ![Cur] = t]
  /\ witness' = [witness EXCEPT ![Cur] = @ \cup {pc} \X OwnKinds(Ins)]
  /\ sites' = sites \cup (IF Ins.op = "argument" THEN {pc} ELSE {})
  /\ unknown' \in BOOLEAN
  /\ unknown' <=> unknown \/ "Unknown" \in OwnKinds(Ins)
  /\ callGraph' = [callGraph EXCEPT ![Cur] = @ \cup S]
  /\ callersOf' = [g \in Callables |-> callersOf[g] \cup (IF g \in S THEN {Cur} ELSE {})]

Scan == \/ Alloca \/ PassOver \/ ForwardArgument \/ ResolvedPointer \/ UnknownPointer
        \/ TableCall \/ ThrowVehicle \/ UnknownExternal \/ InternalCall

\* The frames made here are frames of the function at hand.
LEMMA FramesHere ==
  ASSUME TypeOK, ~Finished, NEW name \in Names \cup Funcs, NEW kind \in OwnSources
  PROVE  At(name, kind) \in Frame /\ At(name, kind) \in OwnFrames(Cur, name)
  BY AtHandTypes DEF At, Frame, OwnFrames, OwnSources

\* What an instruction other than an alloca adds for unwinding and globals.
LEMMA TouchedGrows ==
  ASSUME TypeOK, ~Finished, pc \in DOMAIN Body, Ins.op # "alloca"
  PROVE  /\ Touched \in Summary
         /\ \A k \in Kinds : Touched.chain[k] =
               IF k = "Throw" /\ Unwinds(Ins) /\ direct[Cur].chain[k] = <<>>
               THEN <<At(Ins.callee, "invoke")>> ELSE direct[Cur].chain[k]
         /\ Touched.heap = IF Ins.global /\ direct[Cur].heap < 2 THEN 2 ELSE direct[Cur].heap
         /\ Touched.heapChain = IF Ins.global /\ direct[Cur].heap < 2
                                THEN <<At("<global>", "global-access")>> ELSE direct[Cur].heapChain
<1> DEFINE s == IF Ins.global THEN SetHeap(direct[Cur], 2, At("<global>", "global-access"))
                ELSE direct[Cur]
           ks == IF Unwinds(Ins) THEN {"Throw"} ELSE {}
<1>1. direct[Cur] \in Summary /\ direct[Cur].heap \in Nat
  BY AtHandTypes DEF Summary, HeapKinds
<1>2. At("<global>", "global-access") \in Frame
  BY FramesHere, ScanAssumption DEF Places, OwnSources, SourceKinds
<1>3. /\ s \in Summary /\ s.chain = direct[Cur].chain
      /\ s.heap = IF Ins.global /\ direct[Cur].heap < 2 THEN 2 ELSE direct[Cur].heap
      /\ s.heapChain = IF Ins.global /\ direct[Cur].heap < 2
                       THEN <<At("<global>", "global-access")>> ELSE direct[Cur].heapChain
  <2>1. 2 \in HeapKinds
    BY DEF HeapKinds
  <2> QED
    BY <1>1, <1>2, <2>1, SetHeapSets
<1>4. At(Ins.callee, "invoke") \in Frame
  <2>1. Ins.callee \in Names \cup Funcs
    BY InstrTypes, ScanAssumption DEF Callables, Places
  <2> QED
    BY <2>1, FramesHere DEF OwnSources, SourceKinds
<1>5. ks \in SUBSET Kinds
  BY ScanAssumption
<1>6. Touched = SetEffects(s, ks, At(Ins.callee, "invoke"))
  BY DEF Touched
<1>7. \A k \in Kinds : k \in ks <=> k = "Throw" /\ Unwinds(Ins)
  OBVIOUS
<1> HIDE DEF s, ks
<1>8. Touched \in Summary /\ Touched.heap = s.heap /\ Touched.heapChain = s.heapChain
  BY <1>3, <1>4, <1>5, <1>6, SetEffectsSets
<1>9. \A k \in Kinds : Touched.chain[k] =
         IF k \in ks /\ s.chain[k] = <<>> THEN <<At(Ins.callee, "invoke")>> ELSE s.chain[k]
  BY <1>3, <1>4, <1>5, <1>6, SetEffectsSets
<1>10. \A k \in Kinds : Touched.chain[k] =
          IF k = "Throw" /\ Unwinds(Ins) /\ direct[Cur].chain[k] = <<>>
          THEN <<At(Ins.callee, "invoke")>> ELSE direct[Cur].chain[k]
  BY <1>3, <1>7, <1>9
<1> QED
  BY <1>3, <1>8, <1>10

(***************************************************************************)
(* An instruction that has the kinds ks beside the exception of an invoke: *)
(* its summary grows by them.                                              *)
(***************************************************************************)
LEMMA ChainsGrow ==
  ASSUME TypeOK, ~Finished, pc \in DOMAIN Body, Ins.op # "alloca",
         NEW ks \in SUBSET Kinds, NEW name \in Names \cup Funcs, NEW kind \in OwnSources,
         OwnKinds(Ins) = ks \cup (IF Unwinds(Ins) THEN {"Throw"} ELSE {}),
         \A k \in ks : name = Blamed(Ins, k),
         NEW t,
         \A k \in Kinds : t.chain[k] = IF k \in ks /\ Touched.chain[k] = <<>>
                                       THEN <<At(name, kind)>> ELSE Touched.chain[k]
  PROVE  ChainsGrown(direct[Cur], t, Ins)
<1> SUFFICES ASSUME NEW k \in Kinds
             PROVE  IF direct[Cur].chain[k] # <<>> \/ k \notin OwnKinds(Ins)
                    THEN t.chain[k] = direct[Cur].chain[k]
                    ELSE \E fr \in OwnFrames(Cur, Blamed(Ins, k)) : t.chain[k] = <<fr>>
  BY DEF ChainsGrown
<1>1. Touched.chain[k] =
        IF k = "Throw" /\ Unwinds(Ins) /\ direct[Cur].chain[k] = <<>>
        THEN <<At(Ins.callee, "invoke")>> ELSE direct[Cur].chain[k]
  BY TouchedGrows
<1>2. <<At(Ins.callee, "invoke")>> # <<>> /\ <<At(name, kind)>> # <<>>
  OBVIOUS
<1>3. k \in OwnKinds(Ins) <=> k \in ks \/ (k = "Throw" /\ Unwinds(Ins))
  OBVIOUS
<1>4. t.chain[k] = IF k \in ks /\ Touched.chain[k] = <<>>
                   THEN <<At(name, kind)>> ELSE Touched.chain[k]
  OBVIOUS
<1>5. CASE direct[Cur].chain[k] # <<>> \/ k \notin OwnKinds(Ins)
  BY <1>1, <1>3, <1>4, <1>5
<1>6. CASE ~(direct[Cur].chain[k] # <<>> \/ k \notin OwnKinds(Ins)) /\ k = "Throw" /\ Unwinds(Ins)
  <2>1. At(Ins.callee, "invoke") \in OwnFrames(Cur, Blamed(Ins, k))
    BY <1>6 DEF At, OwnFrames, Blamed, OwnSources, SourceKinds
  <2>2. t.chain[k] = <<At(Ins.callee, "invoke")>>
    BY <1>1, <1>2, <1>4, <1>6
  <2> QED
    BY <1>6, <2>1, <2>2
<1>7. CASE ~(direct[Cur].chain[k] # <<>> \/ k \notin OwnKinds(Ins)) /\ ~(k = "Throw" /\ Unwinds(Ins))
  <2>1. k \in ks /\ name = Blamed(Ins, k)
    BY <1>3, <1>7
  <2>2. At(name, kind) \in OwnFrames(Cur, Blamed(Ins, k))
    BY <2>1 DEF At, OwnFrames
  <2>3. t.chain[k] = <<At(name, kind)>>
    BY <1>1, <1>4, <1>7, <2>1
  <2> QED
    BY <1>7, <2>2, <2>3
<1> QED
  BY <1>5, <1>6, <1>7

\* The heap kind of any instruction but an alloca or an allocation.
LEMMA HeapGrows ==
  ASSUME TypeOK, ~Finished, pc \in DOMAIN Body, Ins.op # "alloca",
         HeapOf(Ins) = {0} \cup (IF Ins.global THEN {2} ELSE {}),
         NEW t, t.heap = Touched.heap, t.heapChain = Touched.heapChain
  PROVE  HeapGrown(direct[Cur], t, Ins)
<1>1. direct[Cur].heap \in 0 .. 4
  BY AtHandTypes DEF Summary, HeapKinds
<1>2. t.heap = IF Ins.global /\ direct[Cur].heap < 2 THEN 2 ELSE direct[Cur].heap
  BY TouchedGrows
<1>3. t.heapChain = IF Ins.global /\ direct[Cur].heap < 2
                    THEN <<At("<global>", "global-access")>> ELSE direct[Cur].heapChain
  BY TouchedGrows
<1>4. /\ "<global>" \in Names \cup Funcs
      /\ At("<global>", "global-access") \in OwnFrames(Cur, "<global>")
  BY FramesHere, ScanAssumption DEF Places, OwnSources, SourceKinds
<1>5. \A h : h \in HeapOf(Ins) <=> h = 0 \/ (h = 2 /\ Ins.global)
  OBVIOUS
<1>6. CASE Ins.global /\ direct[Cur].heap < 2
  <2>1. t.heap = 2 /\ t.heapChain = <<At("<global>", "global-access")>>
    BY <1>2, <1>3, <1>6
  <2> QED
    BY <1>1, <1>4, <1>5, <1>6, <2>1 DEF HeapGrown, NormalHeap
<1>7. CASE ~(Ins.global /\ direct[Cur].heap < 2)
  <2>1. t.heap = direct[Cur].heap /\ t.heapChain = direct[Cur].heapChain
    BY <1>2, <1>3, <1>7
  <2> QED
    BY <1>1, <1>5, <1>7, <2>1 DEF HeapGrown, NormalHeap
<1> QED
  BY <1>6, <1>7

(***************************************************************************)
(* Each action of the scan advances by one instruction that grows the      *)
(* summary of its function by what is its own.                             *)
(***************************************************************************)
Advances == \E t \in Summary, S \in SUBSET Callables : Advance(t, S) /\ Grown(direct[Cur], t, Ins)

\* What Note leaves to be shown of an action.
LEMMA NoteAdvances ==
  ASSUME TypeOK, ~Finished, pc \in DOMAIN Body, Ins.scope,
         NEW ks \in SUBSET Kinds, NEW t, NEW S \in SUBSET Callables,
         Note(t, ks), Grown(direct[Cur], t, Ins),
         OwnKinds(Ins) = ks \cup (IF Unwinds(Ins) THEN {"Throw"} ELSE {}),
         sites' = sites \cup (IF Ins.op = "argument" THEN {pc} ELSE {}),
         unknown' \in BOOLEAN, unknown' <=> unknown \/ "Unknown" \in OwnKinds(Ins),
         callGraph' = [callGraph EXCEPT ![Cur] = @ \cup S],
         callersOf' = [g \in Callables |-> callersOf[g] \cup (IF g \in S THEN {Cur} ELSE {})]
  PROVE  Advances
<1>1. t \in Summary
  BY DEF Grown
<1>2. witness' = [witness EXCEPT ![Cur] = @ \cup {pc} \X OwnKinds(Ins)]
  BY DEF Note
<1>3. Advance(t, S)
  BY <1>2 DEF Advance, Note
<1> QED
  BY <1>1, <1>3 DEF Advances

\* An instruction without targets adds no edge.
LEMMA NoEdges ==
  ASSUME TypeOK, ~Finished, UNCHANGED <<callGraph, callersOf>>
  PROVE  /\ callGraph' = [callGraph EXCEPT ![Cur] = @ \cup {}]
         /\ callersOf' = [g \in Callables |-> callersOf[g] \cup (IF g \in {} THEN {Cur} ELSE {})]
<1>1. Cur \in Funcs
  BY AtHandTypes
<1> QED
  BY <1>1 DEF TypeOK

\* A stack allocation.
LEMMA AllocaAdvances ==
  ASSUME TypeOK, Alloca
  PROVE  Advances
<1> DEFINE fr == At("<alloca>", "stack-alloc")
           t  == SetHeap(direct[Cur], 1, fr)
<1>1. ~Finished /\ pc \in DOMAIN Body /\ Ins.scope /\ Ins.op = "alloca" /\ Cur \in Funcs
  BY AtHandTypes DEF Alloca, Here
<1>2. direct[Cur] \in Summary /\ direct[Cur].heap \in 0 .. 4
  BY <1>1, AtHandTypes DEF Summary, HeapKinds
<1>3. "<alloca>" \in Names \cup Funcs /\ fr \in Frame /\ fr \in OwnFrames(Cur, "<alloca>")
  BY <1>1, FramesHere, ScanAssumption DEF Places, OwnSources, SourceKinds
<1>4. OwnKinds(Ins) = {} /\ HeapOf(Ins) = {0, 1}
  BY <1>1 DEF OwnKinds, HeapOf
<1>5. /\ t \in Summary /\ t.chain = direct[Cur].chain
      /\ t.heap = IF 1 <= direct[Cur].heap THEN direct[Cur].heap ELSE 1
      /\ t.heapChain = IF 1 <= direct[Cur].heap THEN direct[Cur].heapChain ELSE <<fr>>
  <2>1. 1 \in HeapKinds
    BY DEF HeapKinds
  <2> HIDE DEF fr
  <2> QED
    BY <1>2, <1>3, <2>1, SetHeapSets
<1> HIDE DEF fr
<1>6. direct' = [direct EXCEPT ![Cur] = t]
  BY <1>1 DEF Alloca, TypeOK, fr
<1> HIDE DEF t
<1>7. ChainsGrown(direct[Cur], t, Ins)
  BY <1>4, <1>5 DEF ChainsGrown
<1>8. HeapGrown(direct[Cur], t, Ins)
  BY <1>2, <1>3, <1>4, <1>5 DEF HeapGrown, NormalHeap
<1>9. witness' = [witness EXCEPT ![Cur] = @ \cup {pc} \X OwnKinds(Ins)]
  BY <1>1, <1>4 DEF Alloca, TypeOK
<1>10. /\ callGraph' = [callGraph EXCEPT ![Cur] = @ \cup {}]
       /\ callersOf' = [g \in Callables |-> callersOf[g] \cup (IF g \in {} THEN {Cur} ELSE {})]
  BY <1>1, NoEdges DEF Alloca
<1>11. sites' = sites \cup (IF Ins.op = "argument" THEN {pc} ELSE {})
  BY <1>1 DEF Alloca
<1>12. unknown' \in BOOLEAN /\ (unknown' <=> unknown \/ "Unknown" \in OwnKinds(Ins))
  BY <1>4 DEF Alloca, TypeOK
<1>13. Advance(t, {})
  BY <1>1, <1>6, <1>9, <1>10, <1>11, <1>12 DEF Advance, Alloca
<1>14. t \in Summary /\ Advance(t, {}) /\ Grown(direct[Cur], t, Ins)
  BY <1>5, <1>7, <1>8, <1>13 DEF Grown
<1> QED
  BY <1>14 DEF Advances

\* An instruction that has no effect of its own but an invoke's.
LEMMA TouchedOnly ==
  ASSUME TypeOK, ~Finished, pc \in DOMAIN Body, Ins.op # "alloca",
         OwnKinds(Ins) = {} \cup (IF Unwinds(Ins) THEN {"Throw"} ELSE {}),
         HeapOf(Ins) = {0} \cup (IF Ins.global THEN {2} ELSE {})
  PROVE  Grown(direct[Cur], Touched, Ins)
<1>1. Touched \in Summary /\ HeapGrown(direct[Cur], Touched, Ins)
  BY TouchedGrows, HeapGrows
<1>2. /\ {} \in SUBSET Kinds /\ "<global>" \in Names \cup Funcs /\ "call" \notin OwnSources
      /\ "external" \in OwnSources
  BY ScanAssumption DEF Places, OwnSources, SourceKinds
<1>3. \A k \in Kinds : Touched.chain[k] = IF k \in {} /\ Touched.chain[k] = <<>>
                          THEN <<At("<global>", "external")>> ELSE Touched.chain[k]
  OBVIOUS
<1>4. ChainsGrown(direct[Cur], Touched, Ins)
  BY <1>2, <1>3, ChainsGrow
<1> QED
  BY <1>1, <1>4 DEF Grown

\* An instruction that sets the effects in ks.
LEMMA EffectsNoted ==
  ASSUME TypeOK, ~Finished, pc \in DOMAIN Body, Ins.op # "alloca",
         NEW ks \in SUBSET Kinds, NEW name \in Names \cup Funcs, NEW kind \in OwnSources,
         OwnKinds(Ins) = ks \cup (IF Unwinds(Ins) THEN {"Throw"} ELSE {}),
         \A k \in ks : name = Blamed(Ins, k),
         HeapOf(Ins) = {0} \cup (IF Ins.global THEN {2} ELSE {})
  PROVE  Grown(direct[Cur], SetEffects(Touched, ks, At(name, kind)), Ins)
<1> DEFINE t == SetEffects(Touched, ks, At(name, kind))
<1>1. Touched \in Summary /\ At(name, kind) \in Frame
  BY TouchedGrows, FramesHere
<1>2. /\ t \in Summary /\ t.heap = Touched.heap /\ t.heapChain = Touched.heapChain
      /\ \A k \in Kinds : t.chain[k] = IF k \in ks /\ Touched.chain[k] = <<>>
                                       THEN <<At(name, kind)>> ELSE Touched.chain[k]
  BY <1>1, SetEffectsSets
<1> HIDE DEF t
<1>3. ChainsGrown(direct[Cur], t, Ins)
  <2>1. \A k \in Kinds : t.chain[k] = IF k \in ks /\ Touched.chain[k] = <<>>
                                     THEN <<At(name, kind)>> ELSE Touched.chain[k]
    BY <1>2
  <2> QED
    BY <2>1, ChainsGrow, ZenonT(40)
<1>4. HeapGrown(direct[Cur], t, Ins)
  BY <1>2, HeapGrows
<1>5. Grown(direct[Cur], t, Ins)
  BY <1>2, <1>3, <1>4 DEF Grown
<1> QED
  BY <1>5 DEF t

\* An instruction without effect.
LEMMA PassOverAdvances ==
  ASSUME TypeOK, PassOver
  PROVE  Advances
<1>1. /\ ~Finished /\ pc \in DOMAIN Body /\ Ins.scope
      /\ Ins.op = "plain" \/ Ins.op = "ignored"
  BY DEF PassOver, Here
<1>2. /\ OwnKinds(Ins) = {} \cup (IF Unwinds(Ins) THEN {"Throw"} ELSE {})
      /\ HeapOf(Ins) = {0} \cup (IF Ins.global THEN {2} ELSE {})
      /\ "Unknown" \notin OwnKinds(Ins)
  BY <1>1 DEF OwnKinds, HeapOf
<1>3. Grown(direct[Cur], Touched, Ins)
  BY <1>1, <1>2, TouchedOnly
<1>4. /\ callGraph' = [callGraph EXCEPT ![Cur] = @ \cup {}]
      /\ callersOf' = [g \in Callables |-> callersOf[g] \cup (IF g \in {} THEN {Cur} ELSE {})]
  BY <1>1, NoEdges DEF PassOver
<1>5. /\ sites' = sites \cup (IF Ins.op = "argument" THEN {pc} ELSE {})
      /\ unknown' \in BOOLEAN /\ (unknown' <=> unknown \/ "Unknown" \in OwnKinds(Ins))
  BY <1>1, <1>2 DEF PassOver, TypeOK
<1>6. Note(Touched, {}) /\ {} \in SUBSET Kinds /\ {} \in SUBSET Callables
  BY DEF PassOver
<1> QED
  BY <1>1, <1>2, <1>3, <1>4, <1>5, <1>6, NoteAdvances

\* A call through a parameter.
LEMMA ForwardAdvances ==
  ASSUME TypeOK, ForwardArgument
  PROVE  Advances
<1>1. ~Finished /\ pc \in DOMAIN Body /\ Ins.scope /\ Ins.op = "argument"
  BY DEF ForwardArgument, Here
<1>2. /\ OwnKinds(Ins) = {} \cup (IF Unwinds(Ins) THEN {"Throw"} ELSE {})
      /\ HeapOf(Ins) = {0} \cup (IF Ins.global THEN {2} ELSE {})
      /\ "Unknown" \notin OwnKinds(Ins)
  BY <1>1 DEF OwnKinds, HeapOf
<1>3. Grown(direct[Cur], Touched, Ins)
  BY <1>1, <1>2, TouchedOnly
<1>4. /\ callGraph' = [callGraph EXCEPT ![Cur] = @ \cup {}]
      /\ callersOf' = [g \in Callables |-> callersOf[g] \cup (IF g \in {} THEN {Cur} ELSE {})]
  BY <1>1, NoEdges DEF ForwardArgument
<1>5. /\ sites' = sites \cup (IF Ins.op = "argument" THEN {pc} ELSE {})
      /\ unknown' \in BOOLEAN /\ (unknown' <=> unknown \/ "Unknown" \in OwnKinds(Ins))
  BY <1>1, <1>2 DEF ForwardArgument, TypeOK
<1>6. Note(Touched, {}) /\ {} \in SUBSET Kinds /\ {} \in SUBSET Callables
  BY DEF ForwardArgument
<1> QED
  BY <1>1, <1>2, <1>3, <1>4, <1>5, <1>6, NoteAdvances

\* The edges an instruction that calls the functions in S adds.
LEMMA SomeEdges ==
  ASSUME TypeOK, NEW S, S \subseteq Callables, CallEdges(S)
  PROVE  /\ callGraph' = [callGraph EXCEPT ![Cur] = @ \cup S]
         /\ callersOf' = [g \in Callables |-> callersOf[g] \cup (IF g \in S THEN {Cur} ELSE {})]
  BY DEF CallEdges

\* An indirect call with resolved targets.
LEMMA ResolvedAdvances ==
  ASSUME TypeOK, ResolvedPointer
  PROVE  Advances
<1>1. /\ ~Finished /\ pc \in DOMAIN Body /\ Ins.scope /\ Ins.op = "pointer"
      /\ Targets(Ins) # {} /\ Targets(Ins) \in SUBSET Callables
  BY DEF ResolvedPointer, Here, Targets, TypeOK, Module
<1>2. /\ OwnKinds(Ins) = {} \cup (IF Unwinds(Ins) THEN {"Throw"} ELSE {})
      /\ HeapOf(Ins) = {0} \cup (IF Ins.global THEN {2} ELSE {})
      /\ "Unknown" \notin OwnKinds(Ins)
  BY <1>1 DEF OwnKinds, HeapOf
<1>3. Grown(direct[Cur], Touched, Ins)
  BY <1>1, <1>2, TouchedOnly
<1> DEFINE S == Targets(Ins)
<1>4. /\ callGraph' = [callGraph EXCEPT ![Cur] = @ \cup S]
      /\ callersOf' = [g \in Callables |-> callersOf[g] \cup (IF g \in S THEN {Cur} ELSE {})]
  BY <1>1, SomeEdges DEF ResolvedPointer
<1>5. /\ sites' = sites \cup (IF Ins.op = "argument" THEN {pc} ELSE {})
      /\ unknown' \in BOOLEAN /\ (unknown' <=> unknown \/ "Unknown" \in OwnKinds(Ins))
  BY <1>1, <1>2 DEF ResolvedPointer, TypeOK
<1>6. Note(Touched, {}) /\ {} \in SUBSET Kinds
  BY DEF ResolvedPointer
<1> QED
  BY <1>1, <1>2, <1>3, <1>4, <1>5, <1>6, NoteAdvances

\* A call of a function of the module.
LEMMA InternalAdvances ==
  ASSUME TypeOK, InternalCall
  PROVE  Advances
<1>1. /\ ~Finished /\ pc \in DOMAIN Body /\ Ins.scope /\ Ins.op = "call"
      /\ Ins.callee \in Funcs \ prog.known /\ {Ins.callee} \in SUBSET Callables
  BY DEF InternalCall, Here, Callables
<1>2. Ins.callee \notin Externals
  BY <1>1, ScanAssumption
<1>3. /\ OwnKinds(Ins) = {} \cup (IF Unwinds(Ins) THEN {"Throw"} ELSE {})
      /\ HeapOf(Ins) = {0} \cup (IF Ins.global THEN {2} ELSE {})
      /\ "Unknown" \notin OwnKinds(Ins)
  BY <1>1, <1>2, ScanAssumption DEF OwnKinds, HeapOf
<1>4. Grown(direct[Cur], Touched, Ins)
  BY <1>1, <1>3, TouchedOnly
<1> DEFINE S == {Ins.callee}
<1>5. /\ callGraph' = [callGraph EXCEPT ![Cur] = @ \cup S]
      /\ callersOf' = [g \in Callables |-> callersOf[g] \cup (IF g \in S THEN {Cur} ELSE {})]
  BY <1>1, SomeEdges DEF InternalCall
<1>6. /\ sites' = sites \cup (IF Ins.op = "argument" THEN {pc} ELSE {})
      /\ unknown' \in BOOLEAN /\ (unknown' <=> unknown \/ "Unknown" \in OwnKinds(Ins))
  BY <1>1, <1>3 DEF InternalCall, TypeOK
<1>7. Note(Touched, {}) /\ {} \in SUBSET Kinds
  BY DEF InternalCall
<1> QED
  BY <1>1, <1>3, <1>4, <1>5, <1>6, <1>7, NoteAdvances

\* An unresolved indirect call.
LEMMA UnknownPointerAdvances ==
  ASSUME TypeOK, UnknownPointer
  PROVE  Advances
<1> DEFINE ks == {"Unknown"}
           t  == SetEffects(Touched, ks, At("<indirect call>", "indirect-call"))
<1>1. ~Finished /\ pc \in DOMAIN Body /\ Ins.scope /\ Ins.op = "pointer" /\ Targets(Ins) = {}
  BY DEF UnknownPointer, Here
<1>2. /\ OwnKinds(Ins) = ks \cup (IF Unwinds(Ins) THEN {"Throw"} ELSE {})
      /\ HeapOf(Ins) = {0} \cup (IF Ins.global THEN {2} ELSE {})
      /\ "Unknown" \in OwnKinds(Ins)
  BY <1>1 DEF OwnKinds, HeapOf
<1>3. /\ ks \in SUBSET Kinds /\ "<indirect call>" \in Names \cup Funcs
      /\ "indirect-call" \in OwnSources
      /\ \A k \in ks : "<indirect call>" = Blamed(Ins, k)
  BY <1>1, ScanAssumption DEF Places, OwnSources, SourceKinds, Blamed
<1>4. Grown(direct[Cur], t, Ins)
  BY <1>1, <1>2, <1>3, EffectsNoted
<1>5. /\ callGraph' = [callGraph EXCEPT ![Cur] = @ \cup {}]
      /\ callersOf' = [g \in Callables |-> callersOf[g] \cup (IF g \in {} THEN {Cur} ELSE {})]
  BY <1>1, NoEdges DEF UnknownPointer
<1>6. /\ sites' = sites \cup (IF Ins.op = "argument" THEN {pc} ELSE {})
      /\ unknown' \in BOOLEAN /\ (unknown' <=> unknown \/ "Unknown" \in OwnKinds(Ins))
  BY <1>1, <1>2 DEF UnknownPointer, TypeOK
<1>7. Note(t, ks) /\ {} \in SUBSET Callables
  BY DEF UnknownPointer
<1> HIDE DEF t, ks
<1> QED
  BY <1>1, <1>2, <1>3, <1>4, <1>5, <1>6, <1>7, NoteAdvances

\* A call of an external that is in no table.
LEMMA UnknownExternalAdvances ==
  ASSUME TypeOK, UnknownExternal
  PROVE  Advances
<1> DEFINE ks == {"Unknown"}
           t  == SetEffects(Touched, ks, At(Ins.callee, "unknown-external"))
<1>1. /\ ~Finished /\ pc \in DOMAIN Body /\ Ins.scope /\ Ins.op = "call"
      /\ Ins.callee \in Externals \ (Vehicles \cup prog.known)
  BY DEF UnknownExternal, Here
<1>2. /\ OwnKinds(Ins) = ks \cup (IF Unwinds(Ins) THEN {"Throw"} ELSE {})
      /\ HeapOf(Ins) = {0} \cup (IF Ins.global THEN {2} ELSE {})
      /\ "Unknown" \in OwnKinds(Ins)
  BY <1>1 DEF OwnKinds, HeapOf
<1>3. /\ ks \in SUBSET Kinds /\ Ins.callee \in Names \cup Funcs
      /\ "unknown-external" \in OwnSources
      /\ \A k \in ks : Ins.callee = Blamed(Ins, k)
  BY <1>1, ScanAssumption DEF OwnSources, SourceKinds, Blamed
<1>4. Grown(direct[Cur], t, Ins)
  BY <1>1, <1>2, <1>3, EffectsNoted
<1>5. /\ callGraph' = [callGraph EXCEPT ![Cur] = @ \cup {}]
      /\ callersOf' = [g \in Callables |-> callersOf[g] \cup (IF g \in {} THEN {Cur} ELSE {})]
  BY <1>1, NoEdges DEF UnknownExternal
<1>6. /\ sites' = sites \cup (IF Ins.op = "argument" THEN {pc} ELSE {})
      /\ unknown' \in BOOLEAN /\ (unknown' <=> unknown \/ "Unknown" \in OwnKinds(Ins))
  BY <1>1, <1>2 DEF UnknownExternal, TypeOK
<1>7. Note(t, ks) /\ {} \in SUBSET Callables
  BY DEF UnknownExternal
<1> HIDE DEF t, ks
<1> QED
  BY <1>1, <1>2, <1>3, <1>4, <1>5, <1>6, <1>7, NoteAdvances

\* An external vehicle of exceptions.
LEMMA VehicleAdvances ==
  ASSUME TypeOK, ThrowVehicle
  PROVE  Advances
<1> DEFINE ks == {"Throw"}
           t  == SetEffects(Touched, ks, At(Ins.callee, "external"))
<1>1. /\ ~Finished /\ pc \in DOMAIN Body /\ Ins.scope /\ Ins.op = "call"
      /\ Ins.callee \in Vehicles \ prog.known
  BY DEF ThrowVehicle, Here
<1>2. /\ OwnKinds(Ins) = ks \cup (IF Unwinds(Ins) THEN {"Throw"} ELSE {})
      /\ HeapOf(Ins) = {0} \cup (IF Ins.global THEN {2} ELSE {})
      /\ "Unknown" \notin OwnKinds(Ins)
  BY <1>1 DEF OwnKinds, HeapOf
<1>3. /\ ks \in SUBSET Kinds /\ Ins.callee \in Names \cup Funcs
      /\ "external" \in OwnSources
      /\ \A k \in ks : Ins.callee = Blamed(Ins, k)
  BY <1>1, ScanAssumption DEF OwnSources, SourceKinds, Blamed
<1>4. Grown(direct[Cur], t, Ins)
  BY <1>1, <1>2, <1>3, EffectsNoted
<1>5. /\ callGraph' = [callGraph EXCEPT ![Cur] = @ \cup {}]
      /\ callersOf' = [g \in Callables |-> callersOf[g] \cup (IF g \in {} THEN {Cur} ELSE {})]
  BY <1>1, NoEdges DEF ThrowVehicle
<1>6. /\ sites' = sites \cup (IF Ins.op = "argument" THEN {pc} ELSE {})
      /\ unknown' \in BOOLEAN /\ (unknown' <=> unknown \/ "Unknown" \in OwnKinds(Ins))
  BY <1>1, <1>2 DEF ThrowVehicle, TypeOK
<1>7. Note(t, ks) /\ {} \in SUBSET Callables
  BY DEF ThrowVehicle
<1> HIDE DEF t, ks
<1> QED
  BY <1>1, <1>2, <1>3, <1>4, <1>5, <1>6, <1>7, NoteAdvances

\* An entry of the external table: its effects, and its heap kind if it
\* allocates.
LEMMA TabledGrows ==
  ASSUME TypeOK, ~Finished, pc \in DOMAIN Body, Ins.op = "call", Ins.callee \in prog.known,
         NEW info, info = prog.info[Ins.callee]
  PROVE  Grown(direct[Cur], Tabled(Touched, info, At(Ins.callee, "external")), Ins)
<1> DEFINE fr == At(Ins.callee, "external")
           u  == SetEffects(Touched, info.kinds, fr)
           t  == Tabled(Touched, info, fr)
<1>1. info \in Info /\ Ins.callee \in Callables
  BY DEF TypeOK, Module
<1>2. info.kinds \in SUBSET Kinds /\ info.heap \in HeapKinds /\ "Unknown" \notin info.kinds
  BY <1>1 DEF Info
<1>3. /\ Ins.callee \in Names \cup Funcs /\ "external" \in OwnSources
      /\ \A k \in info.kinds : Ins.callee = Blamed(Ins, k)
  BY <1>1, ScanAssumption DEF OwnSources, SourceKinds, Blamed, Callables
<1>4. OwnKinds(Ins) = info.kinds \cup (IF Unwinds(Ins) THEN {"Throw"} ELSE {})
  BY DEF OwnKinds
<1>5. Touched \in Summary /\ fr \in Frame /\ fr \in OwnFrames(Cur, Ins.callee)
  BY <1>3, TouchedGrows, FramesHere
<1>6. CASE "Alloc" \notin info.kinds
  <2>1. HeapOf(Ins) = {0} \cup (IF Ins.global THEN {2} ELSE {})
    BY <1>6 DEF HeapOf
  <2>2. Grown(direct[Cur], u, Ins)
    BY <1>2, <1>3, <1>4, <2>1, EffectsNoted
  <2> QED
    BY <1>6, <2>2 DEF Tabled
<1>7. CASE "Alloc" \in info.kinds
  <2>1. HeapOf(Ins) = {0} \cup ({info.heap} \cup (IF Ins.global THEN {2} ELSE {}))
    BY <1>7 DEF HeapOf
  <2>2. t = SetHeap(u, info.heap, fr)
    BY <1>7 DEF Tabled
  <2>3. /\ u \in Summary /\ u.heap = Touched.heap /\ u.heapChain = Touched.heapChain
        /\ \A k \in Kinds : u.chain[k] = IF k \in info.kinds /\ Touched.chain[k] = <<>>
                                         THEN <<fr>> ELSE Touched.chain[k]
    <3> HIDE DEF fr
    <3> QED
      BY <1>2, <1>5, SetEffectsSets, ZenonT(40)
  <2> HIDE DEF u, t
  <2>4. /\ t \in Summary /\ t.chain = u.chain
        /\ t.heap = IF info.heap <= u.heap THEN u.heap ELSE info.heap
        /\ t.heapChain = IF info.heap <= u.heap THEN u.heapChain ELSE <<fr>>
    <3> HIDE DEF fr
    <3> QED
      BY <1>2, <1>5, <2>2, <2>3, SetHeapSets
  <2>5. ChainsGrown(direct[Cur], t, Ins)
    <3> DEFINE ks == info.kinds
    <3>1. \A k \in Kinds : t.chain[k] = IF k \in ks /\ Touched.chain[k] = <<>>
                               THEN <<At(Ins.callee, "external")>> ELSE Touched.chain[k]
      BY <2>3, <2>4
    <3>2. /\ ks \in SUBSET Kinds /\ OwnKinds(Ins) = ks \cup (IF Unwinds(Ins) THEN {"Throw"} ELSE {})
          /\ \A k \in ks : Ins.callee = Blamed(Ins, k)
      BY <1>2, <1>3, <1>4
    <3>3. Ins.op # "alloca"
      OBVIOUS
    <3> HIDE DEF ks, fr
    <3> QED
      BY <1>3, <3>1, <3>2, <3>3, ChainsGrow, ZenonT(40)
  <2>6. HeapGrown(direct[Cur], t, Ins)
    <3> DEFINE d == direct[Cur].heap
               g == At("<global>", "global-access")
    <3>1. d \in 0 .. 4 /\ info.heap \in 0 .. 4
      BY <1>2, AtHandTypes DEF Summary, HeapKinds
    <3>2. /\ u.heap = IF Ins.global /\ d < 2 THEN 2 ELSE d
          /\ u.heapChain = IF Ins.global /\ d < 2 THEN <<g>> ELSE direct[Cur].heapChain
      BY <2>3, TouchedGrows
    <3>3. "<global>" \in Names \cup Funcs /\ g \in OwnFrames(Cur, "<global>")
      BY FramesHere, ScanAssumption DEF Places, OwnSources, SourceKinds
    <3>4. "Alloc" \in OwnKinds(Ins)
      BY <1>4, <1>7
    <3>5. \A h : h \in HeapOf(Ins) <=> h = 0 \/ h = info.heap \/ (h = 2 /\ Ins.global)
      BY <2>1
    <3> HIDE DEF d, g, fr
    <3>6. /\ t.heap \in {d} \cup HeapOf(Ins)
          /\ d <= t.heap /\ \A h \in HeapOf(Ins) : h <= t.heap
      BY <2>4, <3>1, <3>2, <3>5
    <3>7. IF t.heap = d THEN t.heapChain = direct[Cur].heapChain
          ELSE \E callee \in Names \cup Funcs : \E x \in OwnFrames(Cur, callee) : t.heapChain = <<x>>
      <4>1. CASE info.heap <= u.heap /\ ~(Ins.global /\ d < 2)
        BY <2>4, <3>2, <4>1
      <4>2. CASE info.heap <= u.heap /\ Ins.global /\ d < 2
        <5>1. t.heap = 2 /\ t.heapChain = <<g>>
          BY <2>4, <3>2, <4>2
        <5> QED
          BY <3>1, <3>3, <4>2, <5>1
      <4>3. CASE ~(info.heap <= u.heap)
        <5>1. t.heap # d /\ t.heapChain = <<fr>>
          BY <2>4, <3>1, <3>2, <4>3
        <5> QED
          BY <1>3, <1>5, <5>1
      <4> QED
        BY <4>1, <4>2, <4>3
    <3> QED
      BY <3>4, <3>6, <3>7 DEF HeapGrown, d
  <2>7. Grown(direct[Cur], t, Ins)
    BY <2>4, <2>5, <2>6 DEF Grown
  <2> QED
    BY <2>7 DEF t
<1> QED
  BY <1>6, <1>7

\* An external that is in the table.
LEMMA TableAdvances ==
  ASSUME TypeOK, TableCall
  PROVE  Advances
<1> DEFINE info == prog.info[Ins.callee]
           ks   == info.kinds
           t    == Tabled(Touched, info, At(Ins.callee, "external"))
<1>1. /\ ~Finished /\ pc \in DOMAIN Body /\ Ins.scope /\ Ins.op = "call"
      /\ Ins.callee \in prog.known
  BY DEF TableCall, Here
<1>2. ks \in SUBSET Kinds /\ "Unknown" \notin ks
  BY <1>1 DEF TypeOK, Module, Info
<1>3. OwnKinds(Ins) = ks \cup (IF Unwinds(Ins) THEN {"Throw"} ELSE {})
  BY <1>1 DEF OwnKinds
<1>4. Grown(direct[Cur], t, Ins)
  BY <1>1, TabledGrows
<1>5. /\ callGraph' = [callGraph EXCEPT ![Cur] = @ \cup {}]
      /\ callersOf' = [g \in Callables |-> callersOf[g] \cup (IF g \in {} THEN {Cur} ELSE {})]
  BY <1>1, NoEdges DEF TableCall
<1>6. /\ sites' = sites \cup (IF Ins.op = "argument" THEN {pc} ELSE {})
      /\ unknown' \in BOOLEAN /\ (unknown' <=> unknown \/ "Unknown" \in OwnKinds(Ins))
  BY <1>1, <1>2, <1>3 DEF TableCall, TypeOK
<1>7. Note(t, ks) /\ {} \in SUBSET Callables
  BY DEF TableCall
<1> HIDE DEF t, ks
<1> QED
  BY <1>1, <1>2, <1>3, <1>4, <1>5, <1>6, <1>7, NoteAdvances

\* Whatever the instruction, the scan advances as stated.
LEMMA ScanAdvances ==
  ASSUME TypeOK, Scan
  PROVE  Advances
BY AllocaAdvances, PassOverAdvances, ForwardAdvances, ResolvedAdvances, InternalAdvances,
   UnknownPointerAdvances, UnknownExternalAdvances, VehicleAdvances, TableAdvances DEF Scan

-----------------------------------------------------------------------------
(***************************************************************************)
(* Type correctness: the program does not change, and what an instruction  *)
(* has by itself are effects and heap kinds.                               *)
(***************************************************************************)
LEMMA ProgramStays ==
  ASSUME prog' = prog
  PROVE  /\ Module(prog)' <=> Module(prog)
         /\ \A f \in Funcs : /\ InScope(f)' = InScope(f)
                             /\ Position(f)' = Position(f)
                             /\ Forwards(f)' = Forwards(f)
                             /\ (Opaque(f)' <=> Opaque(f))
                             /\ \A k \in Kinds : Sources(f, k)' = Sources(f, k)
         /\ \A i : OwnKinds(i)' = OwnKinds(i) /\ HeapOf(i)' = HeapOf(i)
<1>1. \A i : OwnKinds(i)' = OwnKinds(i) /\ HeapOf(i)' = HeapOf(i)
  BY DEF OwnKinds, HeapOf, Unwinds, Targets
<1>2. \A f \in Funcs : InScope(f)' = InScope(f) /\ Position(f)' = Position(f)
  BY DEF InScope, Position
<1>3. \A f \in Funcs : Forwards(f)' = Forwards(f)
  BY <1>2 DEF Forwards
<1>4. \A f \in Funcs : Opaque(f)' <=> Opaque(f)
  BY <1>1, <1>2 DEF Opaque
<1>5. \A f \in Funcs : \A k \in Kinds : Sources(f, k)' = Sources(f, k)
  BY <1>1, <1>2 DEF Sources
<1>6. Module(prog)' <=> Module(prog)
  BY DEF Module
<1> QED
  BY <1>1, <1>2, <1>3, <1>4, <1>5, <1>6

\* The types of what one instruction has of its own.
LEMMA OwnTypes ==
  ASSUME Module(prog), NEW f \in Funcs, NEW i \in DOMAIN prog.body[f]
  PROVE  OwnKinds(prog.body[f][i]) \subseteq Kinds /\ HeapOf(prog.body[f][i]) \subseteq HeapKinds
<1> DEFINE ins == prog.body[f][i]
<1>1. ins \in Instr /\ (ins.op = "call" => ins.callee \in Callables)
  BY Bodies DEF Module
<1>2. ASSUME ins.op = "call" PROVE prog.info[ins.callee] \in Info
  BY <1>1, <1>2 DEF Module
<1>3. ASSUME ins.op = "call"
      PROVE  prog.info[ins.callee].kinds \subseteq Kinds /\ prog.info[ins.callee].heap \in HeapKinds
  BY <1>2, <1>3 DEF Info
<1>4. {"Throw", "Unknown"} \subseteq Kinds
  BY ScanAssumption
<1> HIDE DEF ins
<1>5. OwnKinds(ins) \subseteq Kinds
  BY <1>3, <1>4 DEF OwnKinds
<1>6. HeapOf(ins) \subseteq HeapKinds
  <2>1. {0, 1, 2} \subseteq HeapKinds
    BY DEF HeapKinds
  <2> QED
    BY <1>3, <2>1 DEF HeapOf
<1> QED
  BY <1>5, <1>6 DEF ins

\* The scan starts well typed.
LEMMA TypeInit == Init => TypeOK
<1> SUFFICES ASSUME Init PROVE TypeOK
  OBVIOUS
<1>1. Module(prog)
  BY ProgramsAssumption DEF Init
<1>2. pos \in 1 .. Len(prog.order) + 1
  BY <1>1, Positions DEF Init
<1>3. NoSummary \in Summary
  <2>1. <<>> \in Chain /\ 0 \in HeapKinds
    BY DEF Chain, HeapKinds
  <2> QED
    BY <2>1 DEF NoSummary, Summary
<1>4. direct \in [Funcs -> Summary]
  BY <1>3 DEF Init
<1> QED
  BY <1>1, <1>2, <1>4 DEF Init, TypeOK

\* Scanning one instruction keeps the types.
LEMMA TypeScan ==
  ASSUME TypeOK, NEW t \in Summary, NEW S \in SUBSET Callables, Advance(t, S)
  PROVE  TypeOK'
<1>1. ~Finished /\ pc \in DOMAIN Body /\ Cur \in Funcs
  BY AtHandTypes DEF Advance
<1>2. pc \in Nat /\ pc > 0 /\ pc' = pc + 1 /\ prog' = prog /\ pos' = pos
  BY <1>1, InstrTypes DEF Advance
<1>3. OwnKinds(Ins) \subseteq Kinds
  BY <1>1, OwnTypes DEF TypeOK, Ins, Body
<1>4. Module(prog)' /\ pos' \in 1 .. Len(prog'.order) + 1
  BY <1>2, ProgramStays DEF TypeOK
<1>5. direct' \in [Funcs -> Summary] /\ callGraph' \in [Funcs -> SUBSET Callables]
  BY DEF Advance, TypeOK
<1>6. callersOf' \in [Callables -> SUBSET Funcs]
  BY <1>1 DEF Advance, TypeOK
<1>7. witness' \in [Funcs -> SUBSET (Nat \X Kinds)]
  <2>1. {pc} \X OwnKinds(Ins) \in SUBSET (Nat \X Kinds)
    BY <1>2, <1>3
  <2> QED
    BY <1>1, <2>1 DEF Advance, TypeOK
<1>8. /\ sites' \subseteq Nat
      /\ \A i \in sites' : /\ i \in DOMAIN prog.body[prog.order[pos]] /\ i < pc'
                          /\ prog.body[prog.order[pos]][i].op = "argument"
  BY <1>2, SMTT(30) DEF Advance, TypeOK, Ins, Body, Cur
<1>9. /\ unknown' \in BOOLEAN /\ poly' \in [Funcs -> SUBSET Args] /\ pc' \in Nat
  BY <1>2 DEF Advance, TypeOK
<1> QED
  BY <1>2, <1>4, <1>5, <1>6, <1>7, <1>8, <1>9 DEF TypeOK

\* Beginning a function keeps the types.
LEMMA TypeBegin ==
  ASSUME TypeOK, Begin
  PROVE  TypeOK'
<1>1. Cur \in Funcs /\ prog' = prog /\ pos' = pos /\ pc' = 1 /\ pos \in Nat
  BY AtHandTypes DEF Begin
<1>2. Module(prog)' /\ pos' \in 1 .. Len(prog'.order) + 1
  BY <1>1, ProgramStays DEF TypeOK
<1>3. NoSummary \in Summary
  <2>1. <<>> \in Chain /\ 0 \in HeapKinds
    BY DEF Chain, HeapKinds
  <2> QED
    BY <2>1 DEF NoSummary, Summary
<1>4. direct' \in [Funcs -> Summary]
  BY <1>3 DEF Begin, TypeOK
<1>5. /\ callGraph' \in [Funcs -> SUBSET Callables]
      /\ callersOf' \in [Callables -> SUBSET Funcs]
  BY <1>1 DEF Begin, FreshCallers, TypeOK, Callables
<1>6. sites' = {} /\ unknown' = FALSE /\ witness' = witness /\ poly' = poly
  BY DEF Begin, FreshSites, FreshUnknown
<1> QED
  BY <1>1, <1>2, <1>4, <1>5, <1>6 DEF TypeOK

\* Passing over a function keeps the types.
LEMMA TypeOutOfScope ==
  ASSUME TypeOK, OutOfScope
  PROVE  TypeOK'
<1>1. pc \in Nat /\ pc > 0 /\ pc' = pc + 1 /\ prog' = prog /\ pos' = pos
  BY InstrTypes DEF OutOfScope
<1>2. Module(prog)' /\ pos' \in 1 .. Len(prog'.order) + 1
  BY <1>1, ProgramStays DEF TypeOK
<1>3. \A i \in sites : /\ i \in DOMAIN prog.body[prog.order[pos]] /\ i < pc'
                       /\ prog.body[prog.order[pos]][i].op = "argument"
  BY <1>1 DEF TypeOK
<1> QED
  BY <1>1, <1>2, <1>3 DEF OutOfScope, TypeOK

\* What both ways to end the scan of a function do.
LEMMA EndFacts ==
  ASSUME TypeOK, NextFunction
  PROVE  /\ ~Finished /\ Cur \in Funcs /\ prog' = prog /\ pos' = pos + 1 /\ pc' = 0
         /\ pos \in Nat /\ pos' \in 1 .. Len(prog'.order) + 1 /\ pc \in Nat /\ pc > 0
         /\ pc > Len(Body) /\ sites' = sites
         /\ \A i \in sites : i \in DOMAIN Body /\ Body[i] \in Instr
         /\ Module(prog)'
<1>1. ~Finished /\ Cur \in Funcs /\ pos \in Nat
  BY AtHandTypes DEF NextFunction
<1>2. prog' = prog /\ pos' = pos + 1 /\ pc' = 0 /\ pc > Len(Body) /\ sites' = sites
  BY DEF NextFunction
<1>3. pos' \in 1 .. Len(prog'.order) + 1
  BY <1>1, <1>2, Positions DEF TypeOK, Finished
<1>4. pc \in Nat /\ pc > 0
  BY <1>1, <1>2, Bodies DEF TypeOK, Body
<1>5. \A i \in sites : i \in DOMAIN Body
  BY <1>4 DEF TypeOK, Body, Cur
<1>6. \A i \in sites : Body[i] \in Instr
  BY <1>1, <1>5, Bodies DEF TypeOK, Body
<1>7. Module(prog)'
  BY <1>2, ProgramStays DEF TypeOK
<1> QED
  BY <1>1, <1>2, <1>3, <1>4, <1>5, <1>6, <1>7

\* Ending a function keeps the types.
LEMMA TypeEnd ==
  ASSUME TypeOK, EndDeferred \/ EndPlain
  PROVE  TypeOK'
<1>1. NextFunction
  BY DEF EndDeferred, EndPlain
<1>2. /\ callGraph' = callGraph /\ callersOf' = callersOf
      /\ sites' = sites /\ unknown' = unknown
  BY <1>1 DEF NextFunction
<1>3. /\ direct' \in [Funcs -> Summary] /\ witness' \in [Funcs -> SUBSET (Nat \X Kinds)]
      /\ poly' \in [Funcs -> SUBSET Args]
  <2>1. CASE EndDeferred
    <3>1. \A i \in sites : Body[i].arg \in Args
      BY <1>1, EndFacts DEF Instr
    <3> DEFINE args == {Body[i].arg : i \in sites}
    <3>2. args \in SUBSET Args /\ poly' = [poly EXCEPT ![Cur] = args]
      BY <2>1, <3>1 DEF EndDeferred
    <3> HIDE DEF args
    <3> QED
      BY <2>1, <3>2 DEF EndDeferred, TypeOK
  <2>2. CASE EndPlain
    <3>1. Cur \in Funcs /\ direct[Cur] \in Summary
      BY <1>1, EndFacts, AtHandTypes
    <3>2. /\ {"Unknown"} \in SUBSET Kinds /\ "<argument-forward call>" \in Names \cup Funcs
          /\ "indirect-call" \in OwnSources
      BY ScanAssumption DEF Places, OwnSources, SourceKinds
    <3>3. SetEffects(direct[Cur], {"Unknown"}, At("<argument-forward call>", "indirect-call")) \in Summary
      BY <1>1, <3>1, <3>2, EndFacts, FramesHere, SetEffectsSets
    <3>4. direct' \in [Funcs -> Summary]
      BY <2>2, <3>1, <3>3 DEF EndPlain, TypeOK
    <3>5. sites \X {"Unknown"} \in SUBSET (Nat \X Kinds)
      BY <3>2 DEF TypeOK
    <3>6. witness' \in [Funcs -> SUBSET (Nat \X Kinds)]
      BY <2>2, <3>1, <3>5 DEF EndPlain, TypeOK
    <3> QED
      BY <2>2, <3>4, <3>6 DEF EndPlain, TypeOK
  <2> QED
    BY <2>1, <2>2
<1>4. pc' = 0 /\ pos' \in 1 .. Len(prog'.order) + 1 /\ Module(prog)'
  BY <1>1, EndFacts
<1> QED
  BY <1>2, <1>3, <1>4 DEF TypeOK

\* Every step keeps the types.
LEMMA TypeStep == TypeOK /\ [Next]_vars => TypeOK'
<1> SUFFICES ASSUME TypeOK, [Next]_vars PROVE TypeOK'
  OBVIOUS
<1>1. CASE Begin
  BY <1>1, TypeBegin
<1>2. CASE OutOfScope
  BY <1>2, TypeOutOfScope
<1>3. CASE Scan
  BY <1>3, ScanAdvances, TypeScan DEF Advances
<1>4. CASE EndDeferred \/ EndPlain
  BY <1>4, TypeEnd
<1>5. CASE UNCHANGED vars
  <2>1. Module(prog)'
    BY <1>5, ProgramStays DEF TypeOK, vars
  <2> QED
    BY <1>5, <2>1 DEF TypeOK, vars
<1> QED
  BY <1>1, <1>2, <1>3, <1>4, <1>5 DEF Next, Scan

(***************************************************************************)
(* The state of the scan keeps its type.                                   *)
(***************************************************************************)
THEOREM TypeCorrect == Spec => []TypeOK
  BY TypeInit, TypeStep, PTL DEF Spec

-----------------------------------------------------------------------------
(***************************************************************************)
(* An instruction has been scanned, or passed over.                        *)
(***************************************************************************)
LEMMA AfterInstr ==
  ASSUME TypeOK, ~Finished, pc \in DOMAIN Body, prog' = prog, pos' = pos, pc' = pc + 1
  PROVE  /\ Cur \in Funcs /\ pc \in Nat /\ pc > 0 /\ Ins = prog.body[Cur][pc]
         /\ pc \in DOMAIN prog.body[Cur]
         /\ \A f \in Funcs : /\ Scanned(f)' <=> Scanned(f)
                             /\ Begun(f)' <=> Begun(f)
                             /\ Over(f)' = Over(f) \cup (IF f = Cur /\ Ins.scope THEN {pc} ELSE {})
         /\ ~Scanned(Cur) /\ Begun(Cur) /\ Position(Cur) = pos
         /\ \A i \in Over(Cur) : i \in Nat /\ i > 0 /\ i < pc
<1>1. Cur \in Funcs /\ Position(Cur) = pos /\ pos \in Nat
  BY AtHandTypes
<1>2. pc \in Nat /\ pc > 0 /\ Ins = prog.body[Cur][pc] /\ pc \in DOMAIN prog.body[Cur]
  BY InstrTypes DEF Ins, Body
<1>3. \A f \in Funcs : Position(f)' = Position(f) /\ InScope(f)' = InScope(f)
  BY ProgramStays
<1>4. \A f \in Funcs : (Scanned(f)' <=> Scanned(f)) /\ (Begun(f)' <=> Begun(f))
  BY <1>2, <1>3 DEF Scanned, Begun
<1>5. ~Scanned(Cur) /\ Begun(Cur)
  BY <1>1, <1>2 DEF Scanned, Begun
<1>6. \A i \in Over(Cur) : i \in Nat /\ i > 0 /\ i < pc
  BY <1>1, <1>5, Bodies DEF Over, InScope, TypeOK
<1>7. ASSUME NEW f \in Funcs
      PROVE  Over(f)' = Over(f) \cup (IF f = Cur /\ Ins.scope THEN {pc} ELSE {})
  <2>1. \A i \in InScope(f) : i \in Nat
    BY Bodies DEF InScope, TypeOK
  <2>2. Position(f) = pos <=> f = Cur
    BY AtHandTypes
  <2>3. pc \in InScope(Cur) <=> Ins.scope
    BY <1>2 DEF InScope
  <2>4. Over(f)' = {i \in InScope(f) : Scanned(f) \/ (Position(f) = pos /\ i < pc + 1)}
    BY <1>3, <1>4 DEF Over
  <2>5. ASSUME NEW i PROVE i \in Over(f)' <=> i \in Over(f) \/ (f = Cur /\ Ins.scope /\ i = pc)
    <3>1. i \in Over(f) <=> i \in InScope(f) /\ (Scanned(f) \/ (f = Cur /\ i < pc))
      BY <2>2 DEF Over
    <3>2. i \in Over(f)' <=> i \in InScope(f) /\ (Scanned(f) \/ (f = Cur /\ i < pc + 1))
      BY <2>2, <2>4
    <3>3. i \in InScope(f) => (i < pc + 1 <=> i < pc \/ i = pc)
      BY <1>2, <2>1
    <3> QED
      BY <1>5, <2>3, <3>1, <3>2, <3>3
  <2> QED
    BY <2>5
<1> QED
  BY <1>1, <1>2, <1>4, <1>5, <1>6, <1>7

\* One instruction more: the chains.
LEMMA ChainAdvance ==
  ASSUME TypeOK, NEW t \in Summary, NEW S \in SUBSET Callables, Advance(t, S),
         Grown(direct[Cur], t, Ins), NEW f \in Funcs, NEW k \in Kinds, ChainRight(f, k)
  PROVE  ChainRight(f, k)'
<1>1. /\ prog' = prog /\ pos' = pos /\ pc' = pc + 1
      /\ ~Finished /\ pc \in DOMAIN Body /\ Ins.scope
      /\ direct'[f] = IF f = Cur THEN t ELSE direct[f]
  BY DEF Advance, TypeOK
<1>2. Sources(f, k)' = Sources(f, k)
  BY <1>1, ProgramStays
<1>3. /\ Over(f)' = Over(f) \cup (IF f = Cur THEN {pc} ELSE {})
      /\ pc \in Nat /\ Ins = prog.body[Cur][pc] /\ pc \in DOMAIN prog.body[Cur]
      /\ \A i \in Over(Cur) : i \in Nat /\ i < pc
  BY <1>1, AfterInstr
<1> DEFINE P == Sources(f, k) \cap Over(f)
           Q == Sources(f, k) \cap Over(f)'
<1>4. /\ P = {} => direct[f].chain[k] = <<>>
      /\ \A i \in P : (\A j \in P : i <= j) =>
            \E fr \in OwnFrames(f, Blamed(prog.body[f][i], k)) : direct[f].chain[k] = <<fr>>
  BY DEF ChainRight
<1> SUFFICES /\ Q = {} => direct'[f].chain[k] = <<>>
             /\ \A i \in Q : (\A j \in Q : i <= j) =>
                   \E fr \in OwnFrames(f, Blamed(prog.body[f][i], k)) : direct'[f].chain[k] = <<fr>>
  BY <1>1, <1>2 DEF ChainRight, OwnFrames
<1>5. CASE f # Cur
  BY <1>1, <1>3, <1>4, <1>5
<1>6. CASE f = Cur
  <2>1. pc \in Sources(f, k) <=> k \in OwnKinds(Ins)
    BY <1>1, <1>3, <1>6 DEF Sources, InScope
  <2>2. Q = P \cup (IF k \in OwnKinds(Ins) THEN {pc} ELSE {})
    BY <1>3, <1>6, <2>1
  <2>3. direct'[f].chain[k] = t.chain[k]
    BY <1>1, <1>6
  <2>4. /\ (direct[f].chain[k] # <<>> \/ k \notin OwnKinds(Ins)) => t.chain[k] = direct[f].chain[k]
        /\ ~(direct[f].chain[k] # <<>> \/ k \notin OwnKinds(Ins)) =>
              \E fr \in OwnFrames(f, Blamed(Ins, k)) : t.chain[k] = <<fr>>
    BY <1>6 DEF Grown, ChainsGrown
  <2>5. \A i \in P : i \in Nat /\ i < pc
    BY <1>3, <1>6
  <2> HIDE DEF P, Q
  <2>6. CASE k \notin OwnKinds(Ins)
    BY <1>4, <2>2, <2>3, <2>4, <2>6
  <2>7. CASE k \in OwnKinds(Ins) /\ P = {}
    <3>1. Q = {pc} /\ direct[f].chain[k] = <<>>
      BY <1>4, <2>2, <2>7
    <3>2. \E fr \in OwnFrames(f, Blamed(Ins, k)) : t.chain[k] = <<fr>>
      BY <2>4, <2>7, <3>1
    <3> QED
      BY <1>3, <1>6, <2>3, <3>1, <3>2
  <2>8. CASE k \in OwnKinds(Ins) /\ P # {}
    <3>1. PICK m \in P : \A j \in P : m <= j
      <4>1. P \in SUBSET Nat
        BY <2>5
      <4> QED
        BY <2>8, <4>1, LeastNat
    <3>2. direct[f].chain[k] # <<>>
      <4>1. PICK fr \in OwnFrames(f, Blamed(prog.body[f][m], k)) : direct[f].chain[k] = <<fr>>
        BY <1>4, <3>1
      <4> QED
        BY <4>1
    <3>3. t.chain[k] = direct[f].chain[k]
      BY <2>4, <3>2
    <3>4. ASSUME NEW i \in Q, \A j \in Q : i <= j PROVE i \in P /\ \A j \in P : i <= j
      <4>1. i <= m /\ m < pc /\ m \in Nat
        BY <2>2, <2>5, <3>1, <3>4
      <4>2. i # pc
        BY <1>3, <4>1
      <4> QED
        BY <2>2, <3>4, <4>2
    <3> QED
      BY <1>4, <2>2, <2>3, <2>8, <3>3, <3>4
  <2> QED
    BY <2>6, <2>7, <2>8
<1> QED
  BY <1>5, <1>6

\* Heap kinds can be compared.
LEMMA HeapsAreNumbers ==
  ASSUME Module(prog), NEW f \in Funcs, NEW I, I \subseteq DOMAIN prog.body[f]
  PROVE  {0} \cup UNION {HeapOf(prog.body[f][i]) : i \in I} \subseteq Nat
<1>1. \A i \in I : HeapOf(prog.body[f][i]) \subseteq HeapKinds
  BY OwnTypes
<1>2. HeapKinds \subseteq Nat
  BY DEF HeapKinds
<1>3. ASSUME NEW h \in UNION {HeapOf(prog.body[f][i]) : i \in I} PROVE h \in Nat
  <2>1. PICK i \in I : h \in HeapOf(prog.body[f][i])
    OBVIOUS
  <2> QED
    BY <1>1, <1>2, <2>1
<1> QED
  BY <1>3

\* One instruction more: the heap kind.
LEMMA HeapAdvance ==
  ASSUME TypeOK, NEW t \in Summary, NEW S \in SUBSET Callables, Advance(t, S),
         Grown(direct[Cur], t, Ins), NEW f \in Funcs, HeapRight(f)
  PROVE  HeapRight(f)'
<1>1. /\ prog' = prog /\ pos' = pos /\ pc' = pc + 1
      /\ ~Finished /\ pc \in DOMAIN Body /\ Ins.scope
      /\ direct'[f] = IF f = Cur THEN t ELSE direct[f]
  BY DEF Advance, TypeOK
<1>2. /\ Over(f)' = Over(f) \cup (IF f = Cur THEN {pc} ELSE {})
      /\ Ins = prog.body[Cur][pc] /\ Over(f) \subseteq DOMAIN prog.body[f]
      /\ pc \in DOMAIN prog.body[Cur]
  BY <1>1, AfterInstr DEF Over, InScope
<1>3. \A i : HeapOf(i)' = HeapOf(i)
  BY <1>1, ProgramStays
<1> DEFINE H == {0} \cup UNION {HeapOf(prog.body[f][i]) : i \in Over(f)}
           G == {0} \cup UNION {HeapOf(prog.body[f][i]) : i \in Over(f)'}
<1>4. direct[f].heap \in H /\ \A h \in H : h <= direct[f].heap
  BY DEF HeapRight
<1>5. SUFFICES direct'[f].heap \in G /\ \A h \in G : h <= direct'[f].heap
  BY <1>1, <1>3 DEF HeapRight
<1>6. CASE f # Cur
  BY <1>1, <1>2, <1>4, <1>6
<1>7. CASE f = Cur
  <2>1. \A h : h \in G <=> h \in H \/ h \in HeapOf(Ins)
    BY <1>2, <1>7
  <2>2. H \subseteq Nat
    <3> HIDE DEF G
    <3>1. Module(prog)
      BY DEF TypeOK
    <3> QED
      BY <1>2, <3>1, HeapsAreNumbers
  <2> HIDE DEF G, H
  <2>3. direct'[f] = t
    BY <1>1, <1>7
  <2>4. /\ t.heap \in {direct[f].heap} \cup HeapOf(Ins)
        /\ direct[f].heap <= t.heap /\ \A h \in HeapOf(Ins) : h <= t.heap
    BY <1>7 DEF Grown, HeapGrown
  <2>5. t.heap \in Nat /\ direct[f].heap \in Nat
    <3>1. direct[f] \in Summary
      BY DEF TypeOK
    <3> QED
      BY <3>1 DEF Summary, HeapKinds
  <2>6. t.heap \in G
    BY <1>4, <2>1, <2>4
  <2>7. ASSUME NEW h \in G PROVE h <= t.heap
    <3>1. CASE h \in HeapOf(Ins)
      BY <2>4, <3>1
    <3>2. CASE h \in H
      <4>1. h \in Nat /\ h <= direct[f].heap
        BY <1>4, <2>2, <3>2
      <4> QED
        BY <2>4, <2>5, <4>1
    <3> QED
      BY <2>1, <3>1, <3>2
  <2> QED
    BY <2>3, <2>6, <2>7
<1> QED
  BY <1>6, <1>7

\* One instruction more: the heap chain.
LEMMA HeapChainAdvance ==
  ASSUME TypeOK, NEW t \in Summary, NEW S \in SUBSET Callables, Advance(t, S),
         Grown(direct[Cur], t, Ins), NEW f \in Funcs, HeapChained(f), ChainRight(f, "Alloc"),
         ChainRight(f, "Alloc")'
  PROVE  HeapChained(f)'
<1>1. /\ prog' = prog /\ pos' = pos /\ pc' = pc + 1
      /\ ~Finished /\ pc \in DOMAIN Body /\ Ins.scope
      /\ direct'[f] = IF f = Cur THEN t ELSE direct[f]
  BY DEF Advance, TypeOK
<1>2. CASE f # Cur
  BY <1>1, <1>2 DEF HeapChained, Carries
<1>3. CASE f = Cur
  <2>1. direct'[f] = t
    BY <1>1, <1>3
  <2>2. /\ direct[f].heap <= t.heap
        /\ IF t.heap = direct[f].heap THEN t.heapChain = direct[f].heapChain
           ELSE \E callee \in Names \cup Funcs :
                   \E fr \in OwnFrames(f, callee) : t.heapChain = <<fr>>
        /\ t.heap = NormalHeap => direct[f].heap = NormalHeap \/ "Alloc" \in OwnKinds(Ins)
    BY <1>3 DEF Grown, HeapGrown
  <2>3. direct[f].heap \in 0 .. 4 /\ t.heap \in 0 .. 4
    BY DEF TypeOK, Summary, HeapKinds
  <2>4. SourceChain(f, t.heapChain) /\ (t.heap = 0 <=> t.heapChain = <<>>)
    <3>1. CASE t.heap = direct[f].heap
      BY <2>2, <3>1 DEF HeapChained
    <3>2. CASE t.heap # direct[f].heap
      <4>0. PICK callee \in Names \cup Funcs : \E fr \in OwnFrames(f, callee) : t.heapChain = <<fr>>
        BY <2>2, <3>2
      <4>1. PICK fr \in OwnFrames(f, callee) : t.heapChain = <<fr>>
        BY <4>0
      <4>2. fr.fn = f /\ fr.kind \in OwnSources
        BY DEF OwnFrames
      <4>3. t.heap # 0 /\ <<fr>> # <<>>
        BY <2>2, <2>3, <3>2
      <4>4. SourceChain(f, <<fr>>)
        BY <4>2 DEF SourceChain, OwnSources
      <4> QED
        BY <4>1, <4>3, <4>4
    <3> QED
      BY <3>1, <3>2
  <2>5. ASSUME t.heap = NormalHeap PROVE t.chain["Alloc"] # <<>>
    <3>1. /\ (direct[f].chain["Alloc"] # <<>> \/ "Alloc" \notin OwnKinds(Ins)) =>
                t.chain["Alloc"] = direct[f].chain["Alloc"]
          /\ ~(direct[f].chain["Alloc"] # <<>> \/ "Alloc" \notin OwnKinds(Ins)) =>
                \E fr \in OwnFrames(f, Blamed(Ins, "Alloc")) : t.chain["Alloc"] = <<fr>>
      BY <1>3, KindsAssumption DEF Grown, ChainsGrown
    <3>2. CASE direct[f].chain["Alloc"] # <<>>
      BY <3>1, <3>2
    <3>3. CASE direct[f].chain["Alloc"] = <<>> /\ "Alloc" \in OwnKinds(Ins)
      <4>1. PICK fr \in OwnFrames(f, Blamed(Ins, "Alloc")) : t.chain["Alloc"] = <<fr>>
        BY <3>1, <3>3
      <4> QED
        BY <4>1
    <3> QED
      BY <2>2, <2>5, <3>2, <3>3 DEF HeapChained, Carries
  <2> QED
    BY <2>1, <2>4, <2>5 DEF HeapChained, Carries, NormalHeap
<1> QED
  BY <1>2, <1>3

\* One instruction more: the tags.
LEMMA TagsAdvance ==
  ASSUME TypeOK, NEW t \in Summary, NEW S \in SUBSET Callables, Advance(t, S),
         NEW f \in Funcs, TagsRight(f)
  PROVE  TagsRight(f)'
<1>1. /\ prog' = prog /\ pos' = pos /\ pc' = pc + 1
      /\ ~Finished /\ pc \in DOMAIN Body /\ Ins.scope
      /\ witness'[f] = IF f = Cur THEN witness[f] \cup {pc} \X OwnKinds(Ins) ELSE witness[f]
  BY DEF Advance, TypeOK
<1>2. /\ Over(f)' = Over(f) \cup (IF f = Cur THEN {pc} ELSE {})
      /\ Ins = prog.body[Cur][pc] /\ pc \in DOMAIN prog.body[Cur]
      /\ Scanned(f)' <=> Scanned(f)
      /\ ~Scanned(Cur)
  BY <1>1, AfterInstr
<1>3. /\ InScope(f)' = InScope(f) /\ Forwards(f)' = Forwards(f) /\ (Opaque(f)' <=> Opaque(f))
      /\ \A k \in Kinds : Sources(f, k)' = Sources(f, k)
  BY <1>1, ProgramStays
<1>4. SUFFICES witness'[f] = {x \in (InScope(f) \X Kinds) : x[1] \in Sources(f, x[2]) \cap Over(f)'}
               \cup (IF Scanned(f) /\ Opaque(f) THEN Forwards(f) \X {"Unknown"} ELSE {})
  BY <1>2, <1>3 DEF TagsRight
<1>5. CASE f # Cur
  BY <1>1, <1>2, <1>5 DEF TagsRight
<1>6. CASE f = Cur
  <2>1. witness[f] = {x \in (InScope(f) \X Kinds) : x[1] \in Sources(f, x[2]) \cap Over(f)}
    BY <1>2, <1>6 DEF TagsRight
  <2>2. OwnKinds(Ins) \subseteq Kinds /\ pc \in InScope(f)
    BY <1>1, <1>2, <1>6, OwnTypes DEF InScope, TypeOK
  <2>3. \A k \in Kinds : pc \in Sources(f, k) <=> k \in OwnKinds(Ins)
    BY <1>2, <1>6, <2>2 DEF Sources
  <2>4. {x \in (InScope(f) \X Kinds) : x[1] \in Sources(f, x[2]) \cap (Over(f) \cup {pc})}
        = {x \in (InScope(f) \X Kinds) : x[1] \in Sources(f, x[2]) \cap Over(f)}
          \cup {pc} \X OwnKinds(Ins)
    BY <2>2, <2>3
  <2> QED
    BY <1>1, <1>2, <1>6, <2>1, <2>4
<1> QED
  BY <1>5, <1>6

\* One instruction more: what is deferred or unknown.
LEMMA NotedAdvance ==
  ASSUME TypeOK, NEW t \in Summary, NEW S \in SUBSET Callables, Advance(t, S),
         NEW f \in Funcs, NotedRight(f)
  PROVE  NotedRight(f)'
<1>1. /\ prog' = prog /\ pos' = pos /\ pc' = pc + 1
      /\ ~Finished /\ pc \in DOMAIN Body /\ Ins.scope
      /\ sites' = sites \cup (IF Ins.op = "argument" THEN {pc} ELSE {})
      /\ unknown' <=> unknown \/ "Unknown" \in OwnKinds(Ins)
  BY DEF Advance, TypeOK
<1>2. /\ Over(f)' = Over(f) \cup (IF f = Cur THEN {pc} ELSE {})
      /\ Ins = prog.body[Cur][pc] /\ pc \in DOMAIN prog.body[Cur] /\ pc > 0
  BY <1>1, AfterInstr
<1>3. /\ Forwards(f)' = Forwards(f) /\ Position(f)' = Position(f)
      /\ Sources(f, "Unknown")' = Sources(f, "Unknown")
  BY <1>1, ProgramStays, ScanAssumption
<1>4. Position(f) = pos <=> f = Cur
  BY <1>1, AtHandTypes
<1>5. SUFFICES ASSUME f = Cur
               PROVE  /\ sites' = Forwards(f) \cap Over(f)'
                      /\ unknown' <=> Sources(f, "Unknown") \cap Over(f)' # {}
  BY <1>1, <1>3, <1>4 DEF NotedRight
<1>6. /\ sites = Forwards(f) \cap Over(f)
      /\ unknown <=> Sources(f, "Unknown") \cap Over(f) # {}
  BY <1>2, <1>4, <1>5 DEF NotedRight
<1>7. /\ pc \in Forwards(f) <=> Ins.op = "argument"
      /\ pc \in Sources(f, "Unknown") <=> "Unknown" \in OwnKinds(Ins)
  BY <1>1, <1>2, <1>5 DEF Forwards, Sources, InScope
<1>8. sites' = Forwards(f) \cap Over(f)'
  BY <1>1, <1>2, <1>5, <1>6, <1>7
<1>9. unknown' <=> Sources(f, "Unknown") \cap Over(f)' # {}
  <2>1. Sources(f, "Unknown") \cap Over(f)' =
          (Sources(f, "Unknown") \cap Over(f)) \cup (IF "Unknown" \in OwnKinds(Ins) THEN {pc} ELSE {})
    BY <1>2, <1>5, <1>7
  <2> QED
    BY <1>1, <1>6, <2>1
<1> QED
  BY <1>8, <1>9

\* One instruction more: the edges.
LEMMA EdgesAdvance ==
  ASSUME TypeOK, NEW t \in Summary, NEW S \in SUBSET Callables, Advance(t, S), EdgesRight
  PROVE  EdgesRight'
<1>1. /\ prog' = prog /\ pos' = pos /\ pc' = pc + 1
      /\ ~Finished /\ pc \in DOMAIN Body /\ Ins.scope
      /\ \A f \in Funcs : callGraph'[f] = IF f = Cur THEN callGraph[f] \cup S ELSE callGraph[f]
      /\ \A g \in Callables : callersOf'[g] = callersOf[g] \cup (IF g \in S THEN {Cur} ELSE {})
  BY DEF Advance, TypeOK
<1>2. Begun(Cur) /\ \A f \in Funcs : Begun(f)' <=> Begun(f)
  BY <1>1, AfterInstr
<1>3. \A f \in Funcs : Position(f)' = Position(f)
  BY <1>1, ProgramStays
<1>4. \A f \in Funcs : ~Begun(f)' => callGraph'[f] = {}
  BY <1>1, <1>2 DEF EdgesRight
<1>5. ASSUME NEW f \in Funcs, NEW g \in Callables, f \in callersOf'[g]
      PROVE  g \in callGraph'[f]
  <2>1. callGraph'[f] = IF f = Cur THEN callGraph[f] \cup S ELSE callGraph[f]
    BY <1>1
  <2>2. f \in callersOf[g] \/ (g \in S /\ f = Cur)
    BY <1>1, <1>5
  <2>3. f \in callersOf[g] => g \in callGraph[f]
    BY DEF EdgesRight
  <2> QED
    BY <2>1, <2>2, <2>3
<1>6. ASSUME NEW f \in Funcs, NEW g \in Callables, Begun(f), g \in callGraph'[f],
             g \in Funcs => Position(g) <= Position(f)
      PROVE  f \in callersOf'[g]
  <2>1. g \in callGraph[f] \/ (g \in S /\ f = Cur)
    BY <1>1, <1>6
  <2>2. g \in callGraph[f] => f \in callersOf[g]
    BY <1>6 DEF EdgesRight
  <2>3. callersOf'[g] = callersOf[g] \cup (IF g \in S THEN {Cur} ELSE {})
    BY <1>1
  <2> QED
    BY <2>1, <2>2, <2>3
<1> QED
  BY <1>2, <1>3, <1>4, <1>5, <1>6 DEF EdgesRight

\* One instruction more: the whole invariant.
LEMMA ScanInvAdvance ==
  ASSUME TypeOK, ScanInv, NEW t \in Summary, NEW S \in SUBSET Callables, Advance(t, S),
         Grown(direct[Cur], t, Ins)
  PROVE  ScanInv'
<1>1. ASSUME NEW f \in Funcs
      PROVE  /\ \A k \in Kinds : ChainRight(f, k)'
             /\ HeapRight(f)' /\ HeapChained(f)'
             /\ TagsRight(f)' /\ PolyRight(f)' /\ NotedRight(f)'
  <2>1. \A k \in Kinds : ChainRight(f, k)'
    BY ChainAdvance DEF ScanInv
  <2>2. HeapRight(f)'
    BY HeapAdvance DEF ScanInv
  <2>3. HeapChained(f)'
    BY <2>1, KindsAssumption, HeapChainAdvance DEF ScanInv
  <2>4. TagsRight(f)' /\ NotedRight(f)'
    BY TagsAdvance, NotedAdvance DEF ScanInv
  <2>5. PolyRight(f)'
    <3>1. /\ prog' = prog /\ pos' = pos /\ pc' = pc + 1 /\ poly' = poly
          /\ ~Finished /\ pc \in DOMAIN Body
      BY DEF Advance
    <3>2. (Scanned(f)' <=> Scanned(f)) /\ Forwards(f)' = Forwards(f) /\ (Opaque(f)' <=> Opaque(f))
      BY <3>1, AfterInstr, ProgramStays
    <3>3. PolyRight(f)
      BY DEF ScanInv
    <3> QED
      BY <3>1, <3>2, <3>3 DEF PolyRight
  <2> QED
    BY <2>1, <2>2, <2>3, <2>4, <2>5
<1>2. EdgesRight'
  BY EdgesAdvance DEF ScanInv
<1>3. Bounds'
  <2>1. ~Finished /\ pc \in DOMAIN Body /\ prog' = prog /\ pos' = pos /\ pc' = pc + 1
    BY DEF Advance
  <2>2. pc \in Nat /\ pc <= Len(Body) /\ Len(Body) \in Nat
    BY <2>1, InstrTypes, AtHandTypes, Bodies DEF TypeOK, Body
  <2>3. Finished' <=> Finished
    BY <2>1 DEF Finished
  <2>4. Body' = Body
    BY <2>1 DEF Body, Cur
  <2> QED
    BY <2>1, <2>2, <2>3, <2>4 DEF Bounds
<1> QED
  BY <1>1, <1>2, <1>3 DEF ScanInv

-----------------------------------------------------------------------------
(***************************************************************************)
(* The steps that leave the summaries as they are.                         *)
(***************************************************************************)
SameSummary(s, t) == /\ \A k \in Kinds : t.chain[k] = s.chain[k]
                     /\ t.heap = s.heap /\ t.heapChain = s.heapChain

\* What is known of a summary stays when the summary does.
LEMMA SummaryKept ==
  ASSUME TypeOK, ScanInv, prog' = prog, NEW f \in Funcs,
         Over(f)' = Over(f), SameSummary(direct[f], direct'[f])
  PROVE  (\A k \in Kinds : ChainRight(f, k)') /\ HeapRight(f)' /\ HeapChained(f)'
<1>1. ASSUME NEW k \in Kinds PROVE ChainRight(f, k)'
  <2>1. Sources(f, k)' = Sources(f, k)
    BY ProgramStays
  <2>2. ChainRight(f, k)
    BY DEF ScanInv
  <2>3. direct'[f].chain[k] = direct[f].chain[k]
    BY DEF SameSummary
  <2> QED
    BY <2>1, <2>2, <2>3 DEF ChainRight, OwnFrames
<1>2. HeapRight(f)'
  <2>1. \A i : HeapOf(i)' = HeapOf(i)
    BY ProgramStays
  <2>2. HeapRight(f)
    BY DEF ScanInv
  <2>3. direct'[f].heap = direct[f].heap
    BY DEF SameSummary
  <2> QED
    BY <2>1, <2>2, <2>3 DEF HeapRight
<1>3. HeapChained(f)'
  <2>1. HeapChained(f)
    BY DEF ScanInv
  <2> QED
    BY <2>1, KindsAssumption DEF SameSummary, HeapChained, Carries
<1> QED
  BY <1>1, <1>2, <1>3

\* Tags, arguments and edges do not change while Over and Scanned do not.
LEMMA RestKept ==
  ASSUME TypeOK, ScanInv, prog' = prog, NEW f \in Funcs,
         Over(f)' = Over(f), Scanned(f)' <=> Scanned(f),
         witness' = witness, poly' = poly
  PROVE  TagsRight(f)' /\ PolyRight(f)'
<1>1. /\ InScope(f)' = InScope(f) /\ Forwards(f)' = Forwards(f) /\ (Opaque(f)' <=> Opaque(f))
      /\ \A k \in Kinds : Sources(f, k)' = Sources(f, k)
  BY ProgramStays
<1>2. TagsRight(f) /\ PolyRight(f)
  BY DEF ScanInv
<1>3. TagsRight(f)'
  BY <1>1, <1>2 DEF TagsRight
<1>4. PolyRight(f)'
  BY <1>1, <1>2 DEF PolyRight
<1> QED
  BY <1>3, <1>4

\* The edges of finished functions stay.
LEMMA EdgesKept ==
  ASSUME ScanInv, prog' = prog, callGraph' = callGraph, callersOf' = callersOf,
         \A f \in Funcs : Begun(f)' <=> Begun(f)
  PROVE  EdgesRight'
<1>1. \A f \in Funcs : Position(f)' = Position(f)
  BY ProgramStays
<1>2. EdgesRight
  BY DEF ScanInv
<1> QED
  BY <1>1, <1>2 DEF EdgesRight

\* Passing over a function keeps the invariant.
LEMMA ScanInvOutOfScope ==
  ASSUME TypeOK, ScanInv, OutOfScope
  PROVE  ScanInv'
<1>1. /\ prog' = prog /\ pos' = pos /\ pc' = pc + 1 /\ ~Finished /\ pc \in DOMAIN Body /\ ~Ins.scope
      /\ direct' = direct /\ callGraph' = callGraph /\ callersOf' = callersOf
      /\ sites' = sites /\ unknown' = unknown /\ witness' = witness /\ poly' = poly
  BY DEF OutOfScope
<1>2. /\ pc > 0 /\ pc \in Nat
      /\ \A f \in Funcs : /\ Scanned(f)' <=> Scanned(f)
                          /\ Begun(f)' <=> Begun(f)
                          /\ Over(f)' = Over(f)
  BY <1>1, AfterInstr
<1>3. ASSUME NEW f \in Funcs
      PROVE  /\ \A k \in Kinds : ChainRight(f, k)'
             /\ HeapRight(f)' /\ HeapChained(f)'
             /\ TagsRight(f)' /\ PolyRight(f)' /\ NotedRight(f)'
  <2>1. SameSummary(direct[f], direct'[f])
    BY <1>1 DEF SameSummary
  <2>2. (\A k \in Kinds : ChainRight(f, k)') /\ HeapRight(f)' /\ HeapChained(f)'
    BY <1>1, <1>2, <2>1, SummaryKept
  <2>3. TagsRight(f)' /\ PolyRight(f)'
    BY <1>1, <1>2, RestKept
  <2>4. /\ Forwards(f)' = Forwards(f) /\ Position(f)' = Position(f)
        /\ Sources(f, "Unknown")' = Sources(f, "Unknown")
    BY <1>1, ProgramStays, ScanAssumption
  <2>5. NotedRight(f)
    BY DEF ScanInv
  <2>6. NotedRight(f)'
    BY <1>1, <1>2, <2>4, <2>5 DEF NotedRight
  <2> QED
    BY <2>2, <2>3, <2>6
<1>4. EdgesRight'
  BY <1>1, <1>2, EdgesKept
<1>5. Bounds'
  <2>1. pc \in Nat /\ pc <= Len(Body) /\ Len(Body) \in Nat
    BY <1>1, InstrTypes, AtHandTypes, Bodies DEF TypeOK, Body
  <2>2. (Finished' <=> Finished) /\ Body' = Body
    BY <1>1 DEF Finished, Body, Cur
  <2> QED
    BY <1>1, <2>1, <2>2 DEF Bounds
<1> QED
  BY <1>3, <1>4, <1>5 DEF ScanInv

\* Beginning a function keeps the invariant.
LEMMA ScanInvBegin ==
  ASSUME TypeOK, ScanInv, Begin
  PROVE  ScanInv'
<1>1. /\ prog' = prog /\ pos' = pos /\ pc = 0 /\ pc' = 1 /\ ~Finished
      /\ direct' = [direct EXCEPT ![Cur] = NoSummary]
      /\ callGraph' = [callGraph EXCEPT ![Cur] = {}]
      /\ callersOf' = [callersOf EXCEPT ![Cur] = {}]
      /\ sites' = {} /\ unknown' = FALSE /\ witness' = witness /\ poly' = poly
  BY DEF Begin, FreshCallers, FreshSites, FreshUnknown
<1>2. /\ Cur \in Funcs /\ pos \in Nat /\ Position(Cur) = pos
      /\ \A f \in Funcs : Position(f) = pos <=> f = Cur
  BY <1>1, AtHandTypes
<1>3. \A f \in Funcs : /\ Position(f)' = Position(f) /\ InScope(f)' = InScope(f)
                       /\ Forwards(f)' = Forwards(f)
  BY <1>1, ProgramStays
<1>4. \A f \in Funcs : Position(f) \in Nat
  BY PositionTypes DEF TypeOK
<1>5. \A f \in Funcs : Scanned(f)' <=> Scanned(f)
  BY <1>1, <1>3 DEF Scanned
<1>6. ASSUME NEW f \in Funcs PROVE Over(f)' = Over(f) /\ (f = Cur => Over(f) = {})
  <2>1. \A i \in InScope(f) : i \in Nat /\ i > 0
    BY Bodies DEF InScope, TypeOK
  <2>2. Over(f)' = {i \in InScope(f) : Scanned(f) \/ (Position(f) = pos /\ i < 1)}
    BY <1>1, <1>3, <1>5 DEF Over
  <2>3. Over(f) = {i \in InScope(f) : Scanned(f) \/ (Position(f) = pos /\ i < 0)}
    BY <1>1 DEF Over
  <2>4. \A i \in InScope(f) : ~(i < 1) /\ ~(i < 0)
    BY <2>1
  <2>5. f = Cur => ~Scanned(f)
    BY <1>2 DEF Scanned
  <2> QED
    BY <2>2, <2>3, <2>4, <2>5
<1>7. ASSUME NEW f \in Funcs PROVE SameSummary(direct[f], direct'[f])
  <2>1. CASE f # Cur
    <3>1. direct'[f] = direct[f]
      BY <1>1, <2>1 DEF TypeOK
    <3> QED
      BY <3>1 DEF SameSummary
  <2>2. CASE f = Cur
    <3>1. Over(f) = {} /\ direct'[f] = NoSummary
      BY <1>1, <1>2, <1>6, <2>2 DEF TypeOK
    <3>2. \A k \in Kinds : direct[f].chain[k] = <<>>
      BY <3>1 DEF ScanInv, ChainRight
    <3>3. direct[f].heap = 0
      <4>1. HeapRight(f)
        BY DEF ScanInv
      <4>2. UNION {HeapOf(prog.body[f][i]) : i \in {}} = {}
        OBVIOUS
      <4> QED
        BY <3>1, <4>1, <4>2 DEF HeapRight
    <3>4. direct[f].heapChain = <<>>
      BY <3>3 DEF ScanInv, HeapChained
    <3> QED
      BY <3>1, <3>2, <3>3, <3>4 DEF SameSummary, NoSummary
  <2> QED
    BY <2>1, <2>2
<1>8. ASSUME NEW f \in Funcs
      PROVE  /\ \A k \in Kinds : ChainRight(f, k)'
             /\ HeapRight(f)' /\ HeapChained(f)'
             /\ TagsRight(f)' /\ PolyRight(f)' /\ NotedRight(f)'
  <2>1. (\A k \in Kinds : ChainRight(f, k)') /\ HeapRight(f)' /\ HeapChained(f)'
    BY <1>1, <1>6, <1>7, SummaryKept
  <2>2. TagsRight(f)' /\ PolyRight(f)'
    BY <1>1, <1>5, <1>6, RestKept
  <2>3. NotedRight(f)'
    BY <1>1, <1>2, <1>3, <1>6 DEF NotedRight
  <2> QED
    BY <2>1, <2>2, <2>3
<1>9. EdgesRight'
  <2>1. \A f \in Funcs : Begun(f)' <=> Begun(f) \/ f = Cur
    BY <1>1, <1>2, <1>3 DEF Begun
  <2>2. \A f \in Funcs : callGraph'[f] = IF f = Cur THEN {} ELSE callGraph[f]
    BY <1>1 DEF TypeOK
  <2>3. \A g \in Callables : callersOf'[g] = IF g = Cur THEN {} ELSE callersOf[g]
    BY <1>1 DEF TypeOK
  <2>4. ~Begun(Cur)
    BY <1>1, <1>2 DEF Begun
  <2>5. \A f \in Funcs : ~Begun(f)' => callGraph'[f] = {}
    BY <2>1, <2>2 DEF ScanInv, EdgesRight
  <2>6. ASSUME NEW f \in Funcs, NEW g \in Callables, f \in callersOf'[g]
        PROVE  g \in callGraph'[f]
    <3>1. f \in callersOf[g]
      BY <2>3, <2>6
    <3>2. g \in callGraph[f]
      BY <3>1 DEF ScanInv, EdgesRight
    <3>3. f # Cur
      BY <1>2, <2>4, <3>2 DEF ScanInv, EdgesRight
    <3> QED
      BY <2>2, <3>2, <3>3
  <2>7. ASSUME NEW f \in Funcs, NEW g \in Callables, Begun(f)', g \in callGraph'[f],
               g \in Funcs => Position(g) <= Position(f)
        PROVE  f \in callersOf'[g]
    <3>1. f # Cur /\ g \in callGraph[f] /\ Begun(f)
      BY <2>1, <2>2, <2>7
    <3>2. Position(f) < pos
      BY <1>2, <3>1 DEF Begun
    <3>3. g # Cur
      BY <1>2, <1>4, <2>7, <3>2
    <3>4. f \in callersOf[g]
      BY <2>7, <3>1 DEF ScanInv, EdgesRight
    <3> QED
      BY <2>3, <3>3, <3>4
  <2> QED
    BY <1>3, <2>5, <2>6, <2>7 DEF EdgesRight
<1>10. Bounds'
  <2>1. (Finished' <=> Finished) /\ Body' = Body
    BY <1>1 DEF Finished, Body, Cur
  <2>2. Len(Body) \in Nat
    BY <1>2, Bodies DEF Body, TypeOK
  <2> QED
    BY <1>1, <2>1, <2>2 DEF Bounds
<1> QED
  BY <1>8, <1>9, <1>10 DEF ScanInv

\* The scan of a function has ended.
LEMMA AfterEnd ==
  ASSUME TypeOK, ScanInv, NextFunction
  PROVE  /\ \A f \in Funcs : /\ Begun(f)' <=> Begun(f)
                             /\ Scanned(f)' <=> Scanned(f) \/ f = Cur
                             /\ Over(f)' = Over(f)
                             /\ NotedRight(f)'
         /\ ~Scanned(Cur) /\ Over(Cur) = InScope(Cur)
         /\ sites = Forwards(Cur) /\ (unknown <=> Opaque(Cur))
<1>1. /\ ~Finished /\ Cur \in Funcs /\ prog' = prog /\ pos' = pos + 1 /\ pc' = 0
      /\ pos \in Nat /\ pc \in Nat /\ pc > 0 /\ pc > Len(Body)
  BY EndFacts
<1>2. Position(Cur) = pos /\ \A f \in Funcs : Position(f) = pos <=> f = Cur
  BY <1>1, AtHandTypes
<1>3. \A f \in Funcs : Position(f)' = Position(f) /\ InScope(f)' = InScope(f)
  BY <1>1, ProgramStays
<1>4. \A f \in Funcs : Position(f) \in Nat
  BY PositionTypes DEF TypeOK
<1>5. \A f \in Funcs : (Begun(f)' <=> Begun(f)) /\ (Scanned(f)' <=> Scanned(f) \/ f = Cur)
  BY <1>1, <1>2, <1>3, <1>4 DEF Begun, Scanned
<1>6. ~Scanned(Cur)
  BY <1>1, <1>2 DEF Scanned
<1>7. \A i \in InScope(Cur) : i < pc
  <2>1. Len(Body) \in Nat /\ DOMAIN Body = 1 .. Len(Body)
    BY <1>1, Bodies DEF Body, TypeOK
  <2> QED
    BY <1>1, <2>1 DEF InScope, Body
<1>8. Over(Cur) = InScope(Cur)
  BY <1>2, <1>7 DEF Over
<1>9. ASSUME NEW f \in Funcs PROVE Over(f)' = Over(f)
  <2>1. Over(f)' = {i \in InScope(f) : Scanned(f)' \/ (Position(f) = pos + 1 /\ i < 0)}
    BY <1>1, <1>3 DEF Over
  <2>2. \A i \in InScope(f) : ~(i < 0)
    BY Bodies DEF InScope, TypeOK
  <2>3. CASE f = Cur
    BY <1>5, <1>8, <2>1, <2>3
  <2>4. CASE f # Cur
    <3>1. Over(f) = {i \in InScope(f) : Scanned(f)}
      BY <1>2, <2>4 DEF Over
    <3> QED
      BY <1>5, <2>1, <2>2, <2>4, <3>1
  <2> QED
    BY <2>3, <2>4
<1>10. sites = Forwards(Cur) /\ (unknown <=> Opaque(Cur))
  <2>1. /\ sites = Forwards(Cur) \cap Over(Cur)
        /\ unknown <=> Sources(Cur, "Unknown") \cap Over(Cur) # {}
    BY <1>1, <1>2 DEF ScanInv, NotedRight
  <2>2. Forwards(Cur) \subseteq InScope(Cur)
    BY DEF Forwards
  <2>3. Sources(Cur, "Unknown") \cap InScope(Cur) # {} <=> Opaque(Cur)
    BY DEF Sources, Opaque
  <2> QED
    BY <1>8, <2>1, <2>2, <2>3
<1>11. \A f \in Funcs : NotedRight(f)'
  BY <1>1 DEF NotedRight
<1> QED
  BY <1>5, <1>6, <1>8, <1>9, <1>10, <1>11

\* Ending a function keeps the invariant.
LEMMA ScanInvEnd ==
  ASSUME TypeOK, ScanInv, EndDeferred \/ EndPlain
  PROVE  ScanInv'
<1>1. NextFunction
  BY DEF EndDeferred, EndPlain
<1>2. /\ ~Finished /\ Cur \in Funcs /\ prog' = prog /\ pos' = pos + 1 /\ pc' = 0
      /\ callGraph' = callGraph /\ callersOf' = callersOf
      /\ \A i \in sites : i \in DOMAIN Body
  BY <1>1, EndFacts DEF NextFunction
<1>3. /\ \A f \in Funcs : /\ Begun(f)' <=> Begun(f)
                          /\ Scanned(f)' <=> Scanned(f) \/ f = Cur
                          /\ Over(f)' = Over(f)
                          /\ NotedRight(f)'
      /\ ~Scanned(Cur) /\ Over(Cur) = InScope(Cur)
      /\ sites = Forwards(Cur) /\ (unknown <=> Opaque(Cur))
  BY <1>1, AfterEnd
<1>4. /\ \A f \in Funcs : f # Cur => direct'[f] = direct[f] /\ witness'[f] = witness[f] /\ poly'[f] = poly[f]
      /\ poly'[Cur] = IF Defers THEN {Body[i].arg : i \in sites} ELSE poly[Cur]
      /\ witness'[Cur] = IF Defers THEN witness[Cur] ELSE witness[Cur] \cup (sites \X {"Unknown"})
      /\ direct'[Cur] = IF Defers \/ sites = {} THEN direct[Cur]
           ELSE SetEffects(direct[Cur], {"Unknown"}, At("<argument-forward call>", "indirect-call"))
  <2>1. CASE EndDeferred
    BY <1>2, <2>1 DEF EndDeferred, TypeOK
  <2>2. CASE EndPlain
    <3> DEFINE s == SetEffects(direct[Cur], {"Unknown"}, At("<argument-forward call>", "indirect-call"))
    <3>1. direct' = [direct EXCEPT ![Cur] = IF sites = {} THEN direct[Cur] ELSE s]
      BY <2>2 DEF EndPlain
    <3>2. /\ witness' = [witness EXCEPT ![Cur] = witness[Cur] \cup (sites \X {"Unknown"})]
          /\ poly' = poly /\ ~Defers
      BY <2>2 DEF EndPlain
    <3> HIDE DEF s
    <3>3. /\ \A f \in Funcs : f # Cur => direct'[f] = direct[f] /\ witness'[f] = witness[f] /\ poly'[f] = poly[f]
          /\ poly'[Cur] = poly[Cur]
          /\ witness'[Cur] = witness[Cur] \cup (sites \X {"Unknown"})
          /\ direct'[Cur] = IF sites = {} THEN direct[Cur] ELSE s
      BY <1>2, <3>1, <3>2 DEF TypeOK
    <3> QED
      BY <3>2, <3>3 DEF s
  <2> QED
    BY <2>1, <2>2, <1>1 DEF EndDeferred, EndPlain
<1>5. ASSUME NEW f \in Funcs PROVE SameSummary(direct[f], direct'[f])
  <2>1. CASE direct'[f] = direct[f]
    BY <2>1 DEF SameSummary
  <2>2. CASE f = Cur /\ unknown
    <3> DEFINE fr == At("<argument-forward call>", "indirect-call")
    <3>1. direct[f] \in Summary /\ {"Unknown"} \in SUBSET Kinds /\ fr \in Frame
      BY <1>2, FramesHere, ScanAssumption DEF Places, OwnSources, SourceKinds, TypeOK
    <3>2. direct[f].chain["Unknown"] # <<>>
      <4>1. Sources(f, "Unknown") \cap Over(f) # {}
        BY <1>3, <2>2 DEF Opaque, Sources
      <4>2. Sources(f, "Unknown") \cap Over(f) \in SUBSET Nat
        BY Bodies DEF Sources, InScope, TypeOK
      <4> HIDE DEF fr
      <4>3. PICK i \in Sources(f, "Unknown") \cap Over(f) :
                     \A j \in Sources(f, "Unknown") \cap Over(f) : i <= j
        BY <4>1, <4>2, LeastNat
      <4>4. ChainRight(f, "Unknown")
        BY ScanAssumption DEF ScanInv
      <4>5. PICK x \in OwnFrames(f, Blamed(prog.body[f][i], "Unknown")) :
                     direct[f].chain["Unknown"] = <<x>>
        BY <4>3, <4>4 DEF ChainRight
      <4> QED
        BY <4>5
    <3> DEFINE s == SetEffects(direct[f], {"Unknown"}, fr)
    <3>3. /\ s.heap = direct[f].heap /\ s.heapChain = direct[f].heapChain
          /\ \A k \in Kinds : s.chain[k] =
                IF k \in {"Unknown"} /\ direct[f].chain[k] = <<>> THEN <<fr>> ELSE direct[f].chain[k]
      <4> HIDE DEF fr
      <4> QED
        BY <3>1, SetEffectsSets
    <3>4. direct'[f] = direct[f] \/ direct'[f] = s
      BY <1>4, <2>2
    <3> HIDE DEF s, fr
    <3>5. SameSummary(direct[f], s)
      BY <3>2, <3>3 DEF SameSummary
    <3> QED
      BY <2>1, <3>4, <3>5
  <2> QED
    BY <1>4, <2>1, <2>2 DEF Defers
<1>6. ASSUME NEW f \in Funcs PROVE TagsRight(f)' /\ PolyRight(f)'
  <2>1. /\ InScope(f)' = InScope(f) /\ Forwards(f)' = Forwards(f) /\ (Opaque(f)' <=> Opaque(f))
        /\ \A k \in Kinds : Sources(f, k)' = Sources(f, k)
    BY <1>2, ProgramStays
  <2>2. TagsRight(f) /\ PolyRight(f)
    BY DEF ScanInv
  <2>3. Over(f)' = Over(f) /\ (Scanned(f)' <=> Scanned(f) \/ f = Cur)
    BY <1>3
  <2>4. CASE f # Cur
    <3>1. /\ witness'[f] = witness[f] /\ poly'[f] = poly[f]
          /\ (Scanned(f)' <=> Scanned(f)) /\ prog' = prog
      BY <1>2, <1>4, <2>3, <2>4
    <3>2. TagsRight(f)'
      BY <2>1, <2>2, <2>3, <3>1 DEF TagsRight
    <3>3. PolyRight(f)'
      BY <2>1, <2>2, <3>1 DEF PolyRight
    <3> QED
      BY <3>2, <3>3
  <2>5. CASE f = Cur
    <3>1. /\ witness[f] = {t \in (InScope(f) \X Kinds) : t[1] \in Sources(f, t[2]) \cap Over(f)}
          /\ poly[f] = {}
      BY <1>3, <2>2, <2>5 DEF TagsRight, PolyRight
    <3>2. Defers <=> Forwards(f) # {} /\ ~Opaque(f)
      BY <1>3, <2>5 DEF Defers
    <3>3. TagsRight(f)'
      <4>1. witness'[f] = witness[f] \cup (IF Opaque(f) THEN Forwards(f) \X {"Unknown"} ELSE {})
        <5>1. Forwards(f) = {} => Forwards(f) \X {"Unknown"} = {}
          OBVIOUS
        <5> QED
          BY <1>3, <1>4, <2>5, <3>2, <5>1
      <4> QED
        BY <2>1, <2>3, <2>5, <3>1, <4>1 DEF TagsRight
    <3>4. PolyRight(f)'
      <4>1. poly'[f] = IF ~Opaque(f) THEN {prog.body[f][i].arg : i \in Forwards(f)} ELSE {}
        <5>1. Forwards(f) = {} => {prog.body[f][i].arg : i \in Forwards(f)} = {}
          OBVIOUS
        <5> QED
          BY <1>3, <1>4, <2>5, <3>1, <3>2, <5>1, ZenonT(40) DEF Body
      <4> QED
        BY <1>2, <2>1, <2>3, <2>5, <4>1 DEF PolyRight
    <3> QED
      BY <3>3, <3>4
  <2> QED
    BY <2>4, <2>5
<1>7. ASSUME NEW f \in Funcs
      PROVE  /\ \A k \in Kinds : ChainRight(f, k)'
             /\ HeapRight(f)' /\ HeapChained(f)'
  BY <1>2, <1>3, <1>5, SummaryKept
<1>8. EdgesRight'
  BY <1>2, <1>3, EdgesKept
<1>9. Bounds'
  BY <1>2 DEF Bounds
<1> QED
  BY <1>3, <1>6, <1>7, <1>8, <1>9 DEF ScanInv

\* The scan starts with its invariant.
LEMMA ScanInvInit == Init => ScanInv
<1> SUFFICES ASSUME Init PROVE ScanInv
  OBVIOUS
<1>1. /\ Module(prog) /\ pos = 1 /\ pc = 0
      /\ direct = [f \in Funcs |-> NoSummary]
      /\ callGraph = [f \in Funcs |-> {}] /\ callersOf = [g \in Callables |-> {}]
      /\ witness = [f \in Funcs |-> {}] /\ poly = [f \in Funcs |-> {}]
  BY ProgramsAssumption DEF Init
<1>2. ASSUME NEW f \in Funcs PROVE ~Scanned(f) /\ ~Begun(f) /\ Over(f) = {}
  <2>1. Position(f) \in Nat /\ Position(f) # 0
    <3> DEFINE n == Len(prog.order)
    <3>1. n \in Nat /\ Position(f) \in 1 .. n
      BY <1>1, Positions
    <3> HIDE DEF n
    <3> QED
      BY <3>1
  <2>2. ~Scanned(f) /\ ~Begun(f)
    BY <1>1, <2>1 DEF Scanned, Begun
  <2>3. \A i \in InScope(f) : i \in Nat /\ i > 0
    BY <1>1, Bodies DEF InScope
  <2> QED
    BY <1>1, <2>2, <2>3 DEF Over
<1>3. ASSUME NEW f \in Funcs
      PROVE  /\ \A k \in Kinds : ChainRight(f, k)
             /\ HeapRight(f) /\ HeapChained(f)
             /\ TagsRight(f) /\ PolyRight(f) /\ NotedRight(f)
  <2>1. direct[f] = NoSummary
    BY <1>1
  <2>2. \A k \in Kinds : ChainRight(f, k)
    BY <1>2, <2>1 DEF ChainRight, NoSummary
  <2>3. HeapRight(f)
    <3>1. UNION {HeapOf(prog.body[f][i]) : i \in {}} = {}
      OBVIOUS
    <3> QED
      BY <1>2, <2>1, <3>1 DEF HeapRight, NoSummary
  <2>4. HeapChained(f)
    BY <2>1 DEF HeapChained, NoSummary, SourceChain, NormalHeap
  <2>5. TagsRight(f)
    BY <1>1, <1>2 DEF TagsRight
  <2>6. PolyRight(f)
    BY <1>1, <1>2 DEF PolyRight
  <2>7. NotedRight(f)
    BY <1>1 DEF NotedRight
  <2> QED
    BY <2>2, <2>3, <2>4, <2>5, <2>6, <2>7
<1>4. EdgesRight
  BY <1>1, <1>2 DEF EdgesRight
<1>5. Bounds
  BY <1>1 DEF Bounds
<1> QED
  BY <1>3, <1>4, <1>5 DEF ScanInv

\* Every step keeps the invariant.
LEMMA ScanInvStep == TypeOK /\ ScanInv /\ [Next]_vars => ScanInv'
<1> SUFFICES ASSUME TypeOK, ScanInv, [Next]_vars PROVE ScanInv'
  OBVIOUS
<1>1. CASE Begin
  BY <1>1, ScanInvBegin
<1>2. CASE OutOfScope
  BY <1>2, ScanInvOutOfScope
<1>3. CASE Scan
  BY <1>3, ScanAdvances, ScanInvAdvance DEF Advances
<1>4. CASE EndDeferred \/ EndPlain
  BY <1>4, ScanInvEnd
<1>5. CASE UNCHANGED vars
  <2>1. /\ prog' = prog /\ pos' = pos /\ pc' = pc /\ direct' = direct /\ callGraph' = callGraph
        /\ callersOf' = callersOf /\ sites' = sites /\ unknown' = unknown
        /\ witness' = witness /\ poly' = poly
    BY <1>5 DEF vars
  <2>2. \A f \in Funcs : /\ Position(f)' = Position(f) /\ InScope(f)' = InScope(f)
                         /\ Forwards(f)' = Forwards(f)
                         /\ Sources(f, "Unknown")' = Sources(f, "Unknown")
    BY <2>1, ProgramStays, ScanAssumption
  <2>3. \A f \in Funcs : (Scanned(f)' <=> Scanned(f)) /\ (Begun(f)' <=> Begun(f)) /\ Over(f)' = Over(f)
    BY <2>1, <2>2 DEF Scanned, Begun, Over
  <2>4. ASSUME NEW f \in Funcs
        PROVE  /\ \A k \in Kinds : ChainRight(f, k)'
               /\ HeapRight(f)' /\ HeapChained(f)'
               /\ TagsRight(f)' /\ PolyRight(f)' /\ NotedRight(f)'
    <3>1. SameSummary(direct[f], direct'[f])
      BY <2>1 DEF SameSummary
    <3>2. (\A k \in Kinds : ChainRight(f, k)') /\ HeapRight(f)' /\ HeapChained(f)'
      BY <2>1, <2>3, <3>1, SummaryKept
    <3>3. TagsRight(f)' /\ PolyRight(f)'
      BY <2>1, <2>3, RestKept
    <3>4. NotedRight(f)
      BY DEF ScanInv
    <3>5. NotedRight(f)'
      BY <2>1, <2>2, <2>3, <3>4 DEF NotedRight
    <3> QED
      BY <3>2, <3>3, <3>5
  <2>5. EdgesRight'
    BY <2>1, <2>3, EdgesKept
  <2>6. Bounds'
    BY <2>1 DEF ScanInv, Bounds, Finished, Body, Cur
  <2> QED
    BY <2>4, <2>5, <2>6 DEF ScanInv
<1> QED
  BY <1>1, <1>2, <1>3, <1>4, <1>5 DEF Next, Scan

\* Types and invariant, at any time.
LEMMA ScanInvariant == Spec => [](TypeOK /\ ScanInv)
<1>1. Init => TypeOK /\ ScanInv
  BY TypeInit, ScanInvInit
<1>2. TypeOK /\ ScanInv /\ [Next]_vars => TypeOK' /\ ScanInv'
  BY TypeStep, ScanInvStep
<1> QED
  BY <1>1, <1>2, PTL DEF Spec

(***************************************************************************)
(* Of a function that has been scanned all instructions in scope are over. *)
(***************************************************************************)
LEMMA ScannedOver ==
  ASSUME NEW f \in Funcs, Scanned(f)
  PROVE  Over(f) = InScope(f) /\ \A k \in Kinds : Sources(f, k) \cap Over(f) = Sources(f, k)
BY DEF Over, Sources

\* An effect is there exactly when an instruction in scope has it.
LEMMA CarriesSource ==
  ASSUME TypeOK, ScanInv, NEW f \in Funcs, Scanned(f), NEW k \in Kinds
  PROVE  /\ Carries(direct[f], k) <=> Sources(f, k) # {}
         /\ Sources(f, k) # {} =>
              \E i \in Sources(f, k) : /\ \A j \in Sources(f, k) : i <= j
                                       /\ \E fr \in OwnFrames(f, Blamed(prog.body[f][i], k)) :
                                             direct[f].chain[k] = <<fr>>
         /\ Sources(f, k) \subseteq Nat
<1> DEFINE P == Sources(f, k)
<1>1. /\ P = {} => direct[f].chain[k] = <<>>
      /\ \A i \in P : (\A j \in P : i <= j) =>
            \E fr \in OwnFrames(f, Blamed(prog.body[f][i], k)) : direct[f].chain[k] = <<fr>>
  BY ScannedOver DEF ScanInv, ChainRight
<1>2. P \in SUBSET Nat
  BY Bodies DEF Sources, InScope, TypeOK
<1> HIDE DEF P
<1>3. P # {} => \E i \in P : \A j \in P : i <= j
  BY <1>2, LeastNat
<1>4. P # {} => direct[f].chain[k] # <<>>
  <2> SUFFICES ASSUME P # {} PROVE direct[f].chain[k] # <<>>
    OBVIOUS
  <2>1. PICK i \in P : \A j \in P : i <= j
    BY <1>3
  <2>2. PICK fr \in OwnFrames(f, Blamed(prog.body[f][i], k)) : direct[f].chain[k] = <<fr>>
    BY <1>1, <2>1
  <2> QED
    BY <2>2
<1>5. Carries(direct[f], k) <=> P # {}
  BY <1>1, <1>4 DEF Carries
<1>6. P # {} => \E i \in P : /\ \A j \in P : i <= j
                             /\ \E fr \in OwnFrames(f, Blamed(prog.body[f][i], k)) :
                                   direct[f].chain[k] = <<fr>>
  BY <1>1, <1>3
<1> QED
  BY <1>2, <1>5, <1>6 DEF P

-----------------------------------------------------------------------------
(***************************************************************************)
(* The tags that selective instrumentation relies on are the instructions  *)
(* in scope that have an effect, in every program: all of them, and no     *)
(* others unless a pointer leads to a declaration.                         *)
(***************************************************************************)
THEOREM TagsAreExact == Spec => []TagsExact
<1>1. TypeOK /\ ScanInv => TagsExact
  <2> SUFFICES ASSUME TypeOK, ScanInv, NEW f \in Funcs, Scanned(f)
               PROVE  witness[f] = CertainTags(f)
    BY DEF TagsExact
  <2>1. witness[f] = {t \in (InScope(f) \X Kinds) : t[1] \in Sources(f, t[2]) \cap Over(f)}
                     \cup (IF Opaque(f) THEN Forwards(f) \X {"Unknown"} ELSE {})
    BY DEF ScanInv, TagsRight
  <2>2. \A k \in Kinds : Sources(f, k) \cap Over(f) = Sources(f, k)
    BY ScannedOver
  <2> QED
    BY <2>1, <2>2 DEF CertainTags
<1> QED
  BY <1>1, ScanInvariant, PTL

(***************************************************************************)
(* As the code stands, a direct effect is there exactly when an            *)
(* instruction in scope has it, and the first of them is named in its      *)
(* chain of one frame; the heap kind is the worst of any: whatever order   *)
(* the instructions come in.                                               *)
(***************************************************************************)
LEMMA EffectsRight ==
  ASSUME TypeOK, ScanInv, NEW f \in Funcs, Scanned(f), NEW k \in Kinds
  PROVE  /\ Carries(direct[f], k) <=> Sources(f, k) # {}
         /\ Carries(direct[f], k) =>
              LET first == prog.body[f][CHOOSE i \in Sources(f, k) : \A j \in Sources(f, k) : i <= j]
              IN  /\ Len(direct[f].chain[k]) = 1
                  /\ direct[f].chain[k][1].fn = f
                  /\ direct[f].chain[k][1].callee =
                       IF first.op = "pointer" /\ k = "Unknown" THEN "<indirect call>" ELSE first.callee
<1> DEFINE P == Sources(f, k)
           m == CHOOSE i \in P : \A j \in P : i <= j
<1>1. /\ Carries(direct[f], k) <=> P # {}
      /\ P # {} =>
           \E i \in P : /\ \A j \in P : i <= j
                        /\ \E fr \in OwnFrames(f, Blamed(prog.body[f][i], k)) :
                              direct[f].chain[k] = <<fr>>
      /\ P \subseteq Nat
  BY CarriesSource
<1>2. ASSUME P # {}
      PROVE  \E fr \in OwnFrames(f, Blamed(prog.body[f][m], k)) : direct[f].chain[k] = <<fr>>
  <2> HIDE DEF P
  <2>1. PICK i \in P : /\ \A j \in P : i <= j
                       /\ \E fr \in OwnFrames(f, Blamed(prog.body[f][i], k)) :
                              direct[f].chain[k] = <<fr>>
    BY <1>1, <1>2
  <2>2. m \in P /\ \A j \in P : m <= j
    BY <2>1
  <2>3. i <= m /\ m <= i /\ m \in Nat /\ i \in Nat
    BY <1>1, <2>1, <2>2
  <2>4. i = m
    BY <2>3
  <2> QED
    BY <2>1, <2>4
<1>3. ASSUME P # {}
      PROVE  /\ Len(direct[f].chain[k]) = 1
             /\ direct[f].chain[k][1].fn = f
             /\ direct[f].chain[k][1].callee = Blamed(prog.body[f][m], k)
  <2>1. PICK fr \in OwnFrames(f, Blamed(prog.body[f][m], k)) : direct[f].chain[k] = <<fr>>
    BY <1>2, <1>3
  <2>2. fr.fn = f /\ fr.callee = Blamed(prog.body[f][m], k)
    BY DEF OwnFrames
  <2> HIDE DEF m
  <2> QED
    BY <2>1, <2>2
<1> QED
  BY <1>1, <1>3 DEF Blamed

\* The heap kind is the worst one touched.
LEMMA HeapWorst ==
  ASSUME TypeOK, ScanInv, NEW f \in Funcs, Scanned(f)
  PROVE  /\ direct[f].heap \in Nat
         /\ LET kinds == {0} \cup UNION {HeapOf(prog.body[f][i]) : i \in InScope(f)}
            IN  direct[f].heap = CHOOSE h \in kinds : \A g \in kinds : g <= h
<1> DEFINE H == {0} \cup UNION {HeapOf(prog.body[f][i]) : i \in InScope(f)}
<1>1. H \subseteq Nat
  <2>1. InScope(f) \subseteq DOMAIN prog.body[f] /\ Module(prog)
    BY DEF InScope, TypeOK
  <2> QED
    BY <2>1, HeapsAreNumbers
<1>2. direct[f].heap \in H /\ \A h \in H : h <= direct[f].heap
  BY ScannedOver DEF ScanInv, HeapRight
<1> HIDE DEF H
<1>3. ASSUME NEW h \in H, \A g \in H : g <= h PROVE h = direct[f].heap
  <2>1. h <= direct[f].heap /\ direct[f].heap <= h /\ h \in Nat /\ direct[f].heap \in Nat
    BY <1>1, <1>2, <1>3
  <2> QED
    BY <2>1
<1>4. direct[f].heap = CHOOSE h \in H : \A g \in H : g <= h
  BY <1>2, <1>3
<1>5. direct[f].heap \in Nat
  BY <1>1, <1>2
<1> QED
  BY <1>4, <1>5 DEF H

(***************************************************************************)
(* The direct effects and the heap kind of every function are those of its *)
(* instructions in scope, whatever their order; only what a declaration    *)
(* behind a pointer may do is open.                                        *)
(***************************************************************************)
THEOREM DirectIsExact == Spec => []DirectExact
<1>1. TypeOK /\ ScanInv => DirectExact
  <2> SUFFICES ASSUME TypeOK, ScanInv PROVE DirectExact
    OBVIOUS
  <2>1. EffectsExact
    BY EffectsRight DEF EffectsExact
  <2>2. HeapIsWorst
    <3> SUFFICES ASSUME NEW f \in Funcs, Scanned(f)
                 PROVE  LET kinds == {0} \cup UNION {HeapOf(prog.body[f][i]) : i \in InScope(f)}
                            worst == CHOOSE h \in kinds : \A g \in kinds : g <= h
                        IN  /\ worst <= direct[f].heap
                            /\ "Alloc" \notin MayKinds(f) => direct[f].heap = worst
      BY DEF HeapIsWorst
    <3>1. PICK w : w = direct[f].heap
      OBVIOUS
    <3>2. w <= w
      BY <3>1, HeapWorst
    <3> QED
      BY <3>1, <3>2, HeapWorst
  <2> QED
    BY <2>1, <2>2 DEF DirectExact
<1> QED
  BY <1>1, ScanInvariant, PTL

(***************************************************************************)
(* A function that calls its argument is never silently safe: its callers  *)
(* are told which arguments to resolve, or it is unknown, and not both.    *)
(***************************************************************************)
THEOREM DefersOrUnknown == Spec => []DeferredOrUnknown
<1>1. TypeOK /\ ScanInv => DeferredOrUnknown
  <2> SUFFICES ASSUME TypeOK, ScanInv, NEW f \in Funcs, Scanned(f)
               PROVE  \/ poly[f] = {prog.body[f][i].arg : i \in Forwards(f)} /\ ~Carries(direct[f], "Unknown")
                      \/ poly[f] = {} /\ Carries(direct[f], "Unknown")
    BY DEF DeferredOrUnknown
  <2>1. Carries(direct[f], "Unknown") <=> Opaque(f)
    <3>1. Carries(direct[f], "Unknown") <=> Sources(f, "Unknown") # {}
      BY CarriesSource, ScanAssumption
    <3> QED
      BY <3>1 DEF Sources, Opaque
  <2>2. poly[f] = IF ~Opaque(f) THEN {prog.body[f][i].arg : i \in Forwards(f)} ELSE {}
    BY DEF ScanInv, PolyRight
  <2> QED
    BY <2>1, <2>2
<1> QED
  BY <1>1, ScanInvariant, PTL

(***************************************************************************)
(* A function is a caller on record only of functions it calls, and of     *)
(* every one it calls that was scanned no later, although each scan        *)
(* forgets the callers of its function.                                    *)
(***************************************************************************)
THEOREM CallersKept == Spec => []EarlierCalleesKeep
<1>1. TypeOK /\ ScanInv => EarlierCalleesKeep
  BY DEF ScanInv, EdgesRight, EarlierCalleesKeep, Scanned, Begun
<1> QED
  BY <1>1, ScanInvariant, PTL
-----------------------------------------------------------------------------
\* The number of i among the elements of I.
Rank(I, i) == Cardinality({j \in I : j <= i})

\* k holds the elements of s at the positions in I, and no others.
Picks(k, s, I) == /\ \A j \in DOMAIN k : \E i \in DOMAIN s : i \in I /\ k[j] = s[i]
                  /\ \A i \in DOMAIN s : i \in I => \E j \in DOMAIN k : k[j] = s[i]

\* The elements of s at the positions in I stand in k at their numbers.
InPlace(k, s, I) == \A i \in DOMAIN s : i \in I => /\ Rank(I \cap DOMAIN s, i) \in DOMAIN k
                                                   /\ k[Rank(I \cap DOMAIN s, i)] = s[i]

(***************************************************************************)
(* Kept yields the elements at the positions it is given, and no others.   *)
(***************************************************************************)
LEMMA KeptPlaces ==
  ASSUME NEW X, NEW s \in Seq(X), NEW I
  PROVE  /\ Kept(s, I) \in Seq(X)
         /\ Picks(Kept(s, I), s, I)
         /\ InPlace(Kept(s, I), s, I)
<1> DEFINE K       == I \cap DOMAIN s
           Less(i) == {j \in K : j < i}
           c       == Cardinality(K)
           nth(n)  == CHOOSE i \in K : Cardinality(Less(i)) = n - 1
           rank    == [i \in K |-> Cardinality(Less(i)) + 1]
<1>1. K \subseteq Nat /\ IsFiniteSet(K) /\ \A i \in K : s[i] \in X /\ i \in I /\ i \in DOMAIN s
  <2>1. DOMAIN s = 1 .. Len(s) /\ Len(s) \in Nat
    BY LenProperties
  <2>2. IsFiniteSet(1 .. Len(s))
    BY <2>1, FS_Interval
  <2>3. K \in SUBSET (1 .. Len(s))
    BY <2>1
  <2>4. \A i \in K : s[i] \in X
    BY <2>3, ElementOfSeq
  <2>5. IsFiniteSet(K)
    BY <2>2, <2>3, FS_Subset
  <2> QED
    BY <2>1, <2>3, <2>4, <2>5
<1>2. c \in Nat
  BY <1>1, FS_CardinalityType
<1> HIDE DEF K
<1>3. \A i \in K : Less(i) \in SUBSET K /\ IsFiniteSet(Less(i)) /\ Cardinality(Less(i)) \in Nat
  <2> SUFFICES ASSUME NEW i \in K
               PROVE  Less(i) \in SUBSET K /\ IsFiniteSet(Less(i)) /\ Cardinality(Less(i)) \in Nat
    OBVIOUS
  <2>1. Less(i) \in SUBSET K
    OBVIOUS
  <2> HIDE DEF Less
  <2>2. IsFiniteSet(Less(i))
    BY <1>1, <2>1, FS_Subset
  <2> QED
    BY <2>1, <2>2, FS_CardinalityType
<1>4. ASSUME NEW i \in K PROVE Cardinality(Less(i)) < c
  <2>1. Less(i) # K
    BY <1>1
  <2>2. Cardinality(Less(i)) <= c /\ Cardinality(Less(i)) # c
    <3> HIDE DEF Less
    <3> QED
      BY <1>1, <1>3, <2>1, FS_Subset
  <2> HIDE DEF Less, c
  <2> QED
    BY <1>2, <1>3, <2>2
<1>5. ASSUME NEW i \in K, NEW j \in K, i < j PROVE Cardinality(Less(i)) < Cardinality(Less(j))
  <2>1. Less(i) \in SUBSET Less(j) /\ Less(i) # Less(j)
    <3>1. \A h \in K : h < i => h < j
      BY <1>1, <1>5
    <3>2. i \in Less(j) /\ i \notin Less(i)
      BY <1>1, <1>5
    <3> QED
      BY <3>1, <3>2
  <2>2. Cardinality(Less(i)) <= Cardinality(Less(j)) /\ Cardinality(Less(i)) # Cardinality(Less(j))
    <3> HIDE DEF Less
    <3> QED
      BY <1>3, <2>1, FS_Subset
  <2> HIDE DEF Less
  <2> QED
    BY <1>3, <2>2
<1>6. rank \in Injection(K, 1 .. c)
  <2> HIDE DEF Less, c
  <2>1. rank \in [K -> 1 .. c]
    BY <1>2, <1>3, <1>4
  <2>2. ASSUME NEW i \in K, NEW j \in K, rank[i] = rank[j] PROVE i = j
    <3>1. Cardinality(Less(i)) = Cardinality(Less(j))
      BY <1>3, <2>2
    <3>2. ~(i < j) /\ ~(j < i)
      BY <1>3, <1>5, <3>1
    <3> QED
      BY <1>1, <3>2
  <2> QED
    BY <2>1, <2>2 DEF Injection, IsInjective
<1>7. rank \in Surjection(K, 1 .. c)
  <2>1. IsFiniteSet(1 .. c) /\ Cardinality(1 .. c) = c
    <3> HIDE DEF c
    <3> QED
      BY <1>2, FS_Interval
  <2> HIDE DEF rank
  <2> QED
    BY <1>6, <2>1, FS_Injection
<1>8. \A n \in 1 .. c : \E i \in K : Cardinality(Less(i)) = n - 1
  <2> SUFFICES ASSUME NEW n \in 1 .. c PROVE \E i \in K : Cardinality(Less(i)) = n - 1
    OBVIOUS
  <2> HIDE DEF c
  <2>1. PICK i \in K : rank[i] = n
    BY <1>7 DEF Surjection
  <2> HIDE DEF Less
  <2>2. Cardinality(Less(i)) = n - 1
    BY <1>2, <1>3, <2>1
  <2> QED
    BY <2>2
<1>9. \A n \in 1 .. c : nth(n) \in K /\ Cardinality(Less(nth(n))) = n - 1
  <2> HIDE DEF c, Less
  <2> QED
    BY <1>8
<1>10. Kept(s, I) = [n \in 1 .. c |-> s[nth(n)]]
  BY DEF Kept, K
<1>11. \A i \in K : Cardinality(Less(i)) + 1 \in 1 .. c /\ nth(Cardinality(Less(i)) + 1) = i
  <2> SUFFICES ASSUME NEW i \in K
               PROVE  Cardinality(Less(i)) + 1 \in 1 .. c /\ nth(Cardinality(Less(i)) + 1) = i
    OBVIOUS
  <2> DEFINE n == Cardinality(Less(i)) + 1
             j == nth(n)
  <2>1. n \in 1 .. c
    <3> HIDE DEF c, Less
    <3> QED
      BY <1>2, <1>3, <1>4
  <2>2. j \in K /\ Cardinality(Less(j)) = n - 1
    <3> HIDE DEF c, Less, nth, n
    <3> QED
      BY <1>9, <2>1
  <2>3. n - 1 = Cardinality(Less(i))
    <3> HIDE DEF c, Less
    <3> QED
      BY <1>3
  <2> HIDE DEF j, Less, n
  <2>4. ~(i < j) /\ ~(j < i)
    BY <1>3, <1>5, <2>2, <2>3
  <2>5. i = j
    BY <1>1, <2>2, <2>4
  <2> QED
    BY <2>1, <2>5 DEF j, n
<1> HIDE DEF nth, Less, c
<1>12. Kept(s, I) \in Seq(X) /\ DOMAIN Kept(s, I) = 1 .. c
  <2>1. \A n \in 1 .. c : s[nth(n)] \in X
    BY <1>1, <1>9
  <2> QED
    BY <1>2, <1>10, <2>1
<1>13. \A n \in 1 .. c : nth(n) \in DOMAIN s /\ nth(n) \in I /\ Kept(s, I)[n] = s[nth(n)]
  BY <1>1, <1>9, <1>10
<1>14. \A i \in DOMAIN s : i \in I => \E j \in 1 .. c : Kept(s, I)[j] = s[i]
  <2> SUFFICES ASSUME NEW i \in DOMAIN s, i \in I PROVE \E j \in 1 .. c : Kept(s, I)[j] = s[i]
    OBVIOUS
  <2>1. i \in K
    BY DEF K
  <2> DEFINE j == Cardinality(Less(i)) + 1
  <2>2. j \in 1 .. c /\ nth(j) = i
    BY <1>11, <2>1
  <2> HIDE DEF j
  <2> QED
    BY <1>13, <2>2
<1>15. ASSUME NEW i \in DOMAIN s, i \in I
       PROVE  Rank(K, i) \in 1 .. c /\ nth(Rank(K, i)) = i
  <2>1. i \in K
    BY <1>15 DEF K
  <2>2. {j \in K : j <= i} = Less(i) \cup {i} /\ i \notin Less(i)
    <3>1. i \in Nat /\ \A j \in K : j \in Nat /\ (j <= i <=> j < i \/ j = i)
      BY <1>1, <2>1
    <3> QED
      BY <2>1, <3>1 DEF Less
  <2>3. Cardinality(Less(i) \cup {i}) = Cardinality(Less(i)) + 1
    BY <1>3, <2>1, <2>2, FS_AddElement
  <2>4. Rank(K, i) = Cardinality(Less(i)) + 1
    BY <2>2, <2>3 DEF Rank
  <2> QED
    BY <1>11, <2>1, <2>4
<1>16. \A i \in DOMAIN s : i \in I => /\ Rank(K, i) \in DOMAIN Kept(s, I)
                                     /\ Kept(s, I)[Rank(K, i)] = s[i]
  BY <1>12, <1>13, <1>15
<1> QED
  BY <1>12, <1>13, <1>14, <1>16 DEF K, InPlace, Picks

\* The elements alone.
LEMMA KeptElements ==
  ASSUME NEW X, NEW s \in Seq(X), NEW I
  PROVE  /\ Kept(s, I) \in Seq(X)
         /\ \A j \in DOMAIN Kept(s, I) : \E i \in DOMAIN s : i \in I /\ Kept(s, I)[j] = s[i]
         /\ \A i \in DOMAIN s : i \in I => \E j \in DOMAIN Kept(s, I) : Kept(s, I)[j] = s[i]
  BY KeptPlaces, SMTT(30) DEF Picks

(***************************************************************************)
(* The calls that are handed over: of functions in the call graph only,    *)
(* and of each of them.                                                    *)
(***************************************************************************)
LEMMA DirectHopsRight ==
  ASSUME TypeOK, NEW f \in Funcs
  PROVE  /\ DirectHops(f) \in Seq(Hop)
         /\ \A g \in Funcs : g \in callGraph[f] /\ g \in Seen(f) =>
               \E j \in DOMAIN DirectHops(f) : DirectHops(f)[j].callee = g
<1> DEFINE I == {i \in DOMAIN prog.body[f] :
                   prog.body[f][i].op = "call" /\ prog.body[f][i].callee \in callGraph[f] \cap Funcs}
           calls == Kept(prog.body[f], I)
           n == Len(calls)
<1>1. prog.body[f] \in Seq(Instr)
  BY DEF TypeOK, Module
<1>2. /\ calls \in Seq(Instr)
      /\ \A j \in DOMAIN calls : \E i \in DOMAIN prog.body[f] : i \in I /\ calls[j] = prog.body[f][i]
      /\ \A i \in DOMAIN prog.body[f] : i \in I => \E j \in DOMAIN calls : calls[j] = prog.body[f][i]
  <2> DEFINE b == prog.body[f]
             s == Kept(b, I)
  <2>1. b \in Seq(Instr)
    BY <1>1
  <2> HIDE DEF I, b
  <2>2. s \in Seq(Instr)
    BY <2>1, KeptElements
  <2>3. \A j \in DOMAIN s : \E i \in DOMAIN b : i \in I /\ s[j] = b[i]
    BY <2>1, KeptElements
  <2>4. ASSUME NEW i \in DOMAIN b, i \in I PROVE \E j \in DOMAIN s : s[j] = b[i]
    <3> HIDE DEF calls, n
    <3> QED
      BY <2>1, <2>2, <2>4, KeptElements
  <2> QED
    BY <2>2, <2>3, <2>4 DEF b
<1>3. n \in Nat /\ DOMAIN calls = 1 .. n
  <2> HIDE DEF calls
  <2> QED
    BY <1>2, LenProperties
<1>4. \A j \in DOMAIN calls : calls[j].callee \in Funcs
  <2> HIDE DEF calls
  <2> QED
    BY <1>2
<1>5. DirectHops(f) = [i \in 1 .. n |-> [callee |-> calls[i].callee, kind |-> "call"]]
  <2>1. DirectHops(f) = [i \in DOMAIN calls |-> [callee |-> calls[i].callee, kind |-> "call"]]
    BY DEF DirectHops
  <2> HIDE DEF calls, n
  <2> QED
    BY <1>3, <2>1
<1> HIDE DEF n, calls
<1>6. DirectHops(f) \in Seq(Hop)
  <2>1. \A i \in 1 .. n : [callee |-> calls[i].callee, kind |-> "call"] \in Hop
    BY <1>3, <1>4 DEF Hop, HopKinds
  <2> QED
    BY <1>3, <1>5, <2>1
<1>7. ASSUME NEW g \in Funcs, g \in callGraph[f], g \in Seen(f)
      PROVE  \E j \in DOMAIN DirectHops(f) : DirectHops(f)[j].callee = g
  <2>1. PICK i \in DOMAIN prog.body[f] : prog.body[f][i].op = "call" /\ prog.body[f][i].callee = g
    BY <1>7 DEF Seen
  <2>2. i \in I
    BY <1>7, <2>1
  <2>3. PICK j \in DOMAIN calls : calls[j] = prog.body[f][i]
    BY <1>2, <2>2
  <2>4. DirectHops(f)[j].callee = g /\ j \in DOMAIN DirectHops(f)
    BY <1>3, <1>5, <2>1, <2>3
  <2> QED
    BY <2>4
<1> QED
  BY <1>6, <1>7

\* The hops of resolved targets are hops.
LEMMA ResolvedHopsRight ==
  ASSUME TypeOK, NEW f \in Funcs
  PROVE  /\ ResolvedHops(f) \in Seq(Hop)
         /\ \A g \in Funcs : g \in callGraph[f] /\ g \notin Seen(f) =>
               \E j \in DOMAIN ResolvedHops(f) : ResolvedHops(f)[j].callee = g
<1> DEFINE I == {i \in DOMAIN prog.addr : prog.addr[i] \in callGraph[f] \ Seen(f)}
           only == Kept(prog.addr, I)
           n == Len(only)
<1>1. prog.addr \in Seq(Funcs) /\ \A g \in Funcs : \E i \in DOMAIN prog.addr : prog.addr[i] = g
  BY DEF TypeOK, Module, Listing
<1>2. /\ only \in Seq(Funcs)
      /\ \A i \in DOMAIN prog.addr : i \in I => \E j \in DOMAIN only : only[j] = prog.addr[i]
  <2> HIDE DEF I
  <2> QED
    BY <1>1, KeptElements
<1>3. n \in Nat /\ DOMAIN only = 1 .. n /\ \A i \in 1 .. n : only[i] \in Funcs
  <2> HIDE DEF only
  <2> QED
    BY <1>2, LenProperties, ElementOfSeq
<1>4. ResolvedHops(f) = [i \in 1 .. n |-> [callee |-> only[i], kind |-> "indirect-resolved"]]
  <2>1. ResolvedHops(f) = [i \in DOMAIN only |-> [callee |-> only[i], kind |-> "indirect-resolved"]]
    BY DEF ResolvedHops
  <2> HIDE DEF only, n
  <2> QED
    BY <1>3, <2>1
<1> HIDE DEF n, only
<1>5. ResolvedHops(f) \in Seq(Hop)
  <2>1. \A i \in 1 .. n : [callee |-> only[i], kind |-> "indirect-resolved"] \in Hop
    BY <1>3 DEF Hop, HopKinds
  <2> QED
    BY <1>3, <1>4, <2>1
<1>6. ASSUME NEW g \in Funcs, g \in callGraph[f], g \notin Seen(f)
      PROVE  \E j \in DOMAIN ResolvedHops(f) : ResolvedHops(f)[j].callee = g
  <2>1. PICK i \in DOMAIN prog.addr : prog.addr[i] = g
    BY <1>1
  <2>2. i \in I
    BY <1>6, <2>1
  <2>3. PICK j \in DOMAIN only : only[j] = prog.addr[i]
    BY <1>2, <2>2
  <2>4. ResolvedHops(f)[j].callee = g /\ j \in DOMAIN ResolvedHops(f)
    BY <1>3, <1>4, <2>1, <2>3
  <2> QED
    BY <2>4
<1> QED
  BY <1>5, <1>6

\* All hops handed over are hops.
LEMMA HopsRight ==
  ASSUME TypeOK, NEW f \in Funcs
  PROVE  /\ DirectHops(f) \o ResolvedHops(f) \in Seq(Hop)
         /\ \A g \in Funcs : g \in callGraph[f] =>
               \E j \in DOMAIN (DirectHops(f) \o ResolvedHops(f)) :
                  (DirectHops(f) \o ResolvedHops(f))[j].callee = g
<1> DEFINE d == DirectHops(f)
           r == ResolvedHops(f)
           m == Len(d)
           n == Len(r)
<1>1. d \in Seq(Hop) /\ r \in Seq(Hop)
  BY DirectHopsRight, ResolvedHopsRight
<1>2. \A g \in Funcs : g \in callGraph[f] =>
         (\E j \in DOMAIN d : d[j].callee = g) \/ (\E j \in DOMAIN r : r[j].callee = g)
  BY DirectHopsRight, ResolvedHopsRight
<1> HIDE DEF d, r
<1>3. m \in Nat /\ n \in Nat /\ DOMAIN d = 1 .. m /\ DOMAIN r = 1 .. n
  BY <1>1, LenProperties
<1>4. /\ d \o r \in Seq(Hop) /\ DOMAIN (d \o r) = 1 .. m + n
      /\ \A j \in 1 .. m : (d \o r)[j] = d[j]
      /\ \A j \in 1 .. n : (d \o r)[m + j] = r[j]
  <2>1. /\ d \o r \in Seq(Hop) /\ Len(d \o r) = m + n
        /\ \A i \in 1 .. m + n : (d \o r)[i] = IF i <= m THEN d[i] ELSE r[i - m]
    BY <1>1, ConcatProperties
  <2>2. DOMAIN (d \o r) = 1 .. m + n
    BY <2>1, LenProperties
  <2> HIDE DEF m, n
  <2> DEFINE c == d \o r
  <2>3. \A i \in 1 .. m + n : c[i] = IF i <= m THEN d[i] ELSE r[i - m]
    BY <2>1
  <2> HIDE DEF c
  <2>4. \A j \in 1 .. m : c[j] = d[j]
    BY <1>3, <2>3
  <2>5. \A j \in 1 .. n : c[m + j] = r[j]
    <3> SUFFICES ASSUME NEW j \in 1 .. n PROVE c[m + j] = r[j]
      OBVIOUS
    <3>1. m + j \in 1 .. m + n /\ ~(m + j <= m) /\ (m + j) - m = j
      BY <1>3
    <3> QED
      BY <2>3, <3>1
  <2> QED
    BY <2>1, <2>2, <2>4, <2>5 DEF c
<1> HIDE DEF m, n
<1>5. ASSUME NEW g \in Funcs, g \in callGraph[f]
      PROVE  \E j \in DOMAIN (d \o r) : (d \o r)[j].callee = g
  <2>1. CASE \E j \in DOMAIN d : d[j].callee = g
    <3>1. PICK j \in 1 .. m : d[j].callee = g
      BY <1>3, <2>1
    <3>2. j \in 1 .. m + n /\ (d \o r)[j] = d[j]
      BY <1>3, <1>4
    <3> QED
      BY <1>4, <3>1, <3>2
  <2>2. CASE \E j \in DOMAIN r : r[j].callee = g
    <3>1. PICK j \in 1 .. n : r[j].callee = g
      BY <1>3, <2>2
    <3>2. m + j \in 1 .. m + n /\ (d \o r)[m + j] = r[j]
      BY <1>3, <1>4
    <3> QED
      BY <1>4, <3>1, <3>2
  <2> QED
    BY <1>2, <1>5, <2>1, <2>2
<1> QED
  BY <1>4, <1>5 DEF d, r

\* When the scan has ended, every function has been scanned.
LEMMA AllScanned ==
  ASSUME TypeOK, Finished
  PROVE  \A f \in Funcs : Scanned(f)
<1> SUFFICES ASSUME NEW f \in Funcs PROVE Scanned(f)
  OBVIOUS
<1> DEFINE n == Len(prog.order)
<1>1. n \in Nat /\ Position(f) \in 1 .. n
  BY Positions DEF TypeOK
<1>2. pos \in Nat /\ pos > n
  BY <1>1 DEF TypeOK, Finished
<1> HIDE DEF n
<1> QED
  BY <1>1, <1>2 DEF Scanned

(***************************************************************************)
(* What the scan hands over is what the propagation loop assumes: its      *)
(* chains start at the function itself, normal heap comes with the         *)
(* allocation effect, and every caller on record does call.                *)
(***************************************************************************)
LEMMA HandoverRight ==
  ASSUME TypeOK, ScanInv, Finished
  PROVE  WellFormed(Handover)
<1>1. \A f \in Funcs : Scanned(f)
  BY AllScanned
<1> DEFINE x == Handover
           callers(g) == Kept(prog.addr, {i \in DOMAIN prog.addr : prog.addr[i] \in callersOf[g]})
<1>2. /\ x.hops = [f \in Funcs |-> DirectHops(f) \o ResolvedHops(f)]
      /\ x.direct = direct /\ x.order = prog.addr
      /\ x.callers = [g \in Funcs |-> callers(g)]
  BY DEF Handover
<1>3. /\ prog.addr \in Seq(Funcs)
      /\ \A f \in Funcs : \E i \in DOMAIN prog.addr : prog.addr[i] = f
  BY DEF TypeOK, Module, Listing
<1>4. ASSUME NEW g \in Funcs
      PROVE  /\ callers(g) \in Seq(Funcs)
             /\ \A i \in DOMAIN callers(g) : callers(g)[i] \in Funcs /\ callers(g)[i] \in callersOf[g]
  <2> DEFINE I == {i \in DOMAIN prog.addr : prog.addr[i] \in callersOf[g]}
             s == Kept(prog.addr, I)
  <2>1. /\ s \in Seq(Funcs)
        /\ \A j \in DOMAIN s : \E i \in DOMAIN prog.addr : i \in I /\ s[j] = prog.addr[i]
    <3> HIDE DEF I
    <3> QED
      BY <1>3, KeptElements
  <2>2. \A j \in DOMAIN s : s[j] \in callersOf[g]
    <3> HIDE DEF s
    <3> QED
      BY <2>1
  <2>3. \A j \in DOMAIN s : s[j] \in Funcs
    BY <2>2 DEF TypeOK, Callables
  <2> QED
    BY <2>1, <2>2, <2>3
<1> HIDE DEF callers, x
<1>5. InputType(x)
  <2>1. x.hops \in [Funcs -> Seq(Hop)]
    BY <1>2, HopsRight
  <2>2. x.callers \in [Funcs -> Seq(Funcs)]
    BY <1>2, <1>4
  <2>3. x.direct \in [Funcs -> Summary]
    BY <1>2 DEF TypeOK
  <2>4. x.order \in Seq(Funcs)
    BY <1>2, <1>3
  <2> QED
    BY <2>1, <2>2, <2>3, <2>4 DEF InputType
<1>6. ASSUME NEW f \in Funcs, NEW k \in Kinds PROVE SourceChain(f, direct[f].chain[k])
  <2>1. direct[f].chain[k] = <<>> \/ \E callee : \E fr \in OwnFrames(f, callee) : direct[f].chain[k] = <<fr>>
    BY <1>1, CarriesSource DEF Carries
  <2>2. ASSUME NEW callee, NEW fr \in OwnFrames(f, callee)
        PROVE  SourceChain(f, <<fr>>)
    <3>1. fr.fn = f /\ fr.kind \in OwnSources
      BY DEF OwnFrames
    <3> QED
      BY <3>1 DEF SourceChain, OwnSources
  <2>3. SourceChain(f, <<>>)
    BY DEF SourceChain
  <2> QED
    BY <2>1, <2>2, <2>3
<1>7. \A f \in Funcs : HeapChained(f)
  BY DEF ScanInv
<1>8. ASSUME NEW f \in Funcs, NEW i \in DOMAIN x.callers[f]
      PROVE  \E j \in DOMAIN x.hops[x.callers[f][i]] : x.hops[x.callers[f][i]][j].callee = f
  <2> DEFINE c == callers(f)[i]
  <2>1. x.callers[f] = callers(f)
    BY <1>2
  <2>2. c \in Funcs /\ c \in callersOf[f]
    BY <1>4, <1>8, <2>1
  <2>3. f \in callGraph[c]
    BY <2>2 DEF ScanInv, EdgesRight, Callables
  <2> HIDE DEF c
  <2>4. \E j \in DOMAIN (DirectHops(c) \o ResolvedHops(c)) :
           (DirectHops(c) \o ResolvedHops(c))[j].callee = f
    BY <2>2, <2>3, HopsRight
  <2>5. x.hops[c] = DirectHops(c) \o ResolvedHops(c)
    BY <1>2, <2>2
  <2>6. \E j \in DOMAIN x.hops[c] : x.hops[c][j].callee = f
    BY <2>4, <2>5
  <2> QED
    BY <2>1, <2>6 DEF c
<1>9. WellFormed(x)
  BY <1>2, <1>3, <1>5, <1>6, <1>7, <1>8 DEF WellFormed, HeapChained
<1> QED
  BY <1>9 DEF x

(***************************************************************************)
(* What the scan hands to the propagation loop is what that loop relies    *)
(* on: RTSummaries.WellFormed holds of it when the scan has ended.         *)
(***************************************************************************)
THEOREM HandsOver == Spec => []HandsOverWellFormed
<1>1. TypeOK /\ ScanInv => HandsOverWellFormed
  BY HandoverRight DEF HandsOverWellFormed
<1> QED
  BY <1>1, ScanInvariant, PTL


-----------------------------------------------------------------------------
(***************************************************************************)
(* The call graph is what the instructions in scope call.                  *)
(***************************************************************************)
Called(i) == CASE i.op = "call"    -> {i.callee} \cap (Funcs \ prog.known)
               [] i.op = "pointer" -> Targets(i)
               [] OTHER            -> {}

GraphRight == \A f \in Funcs : callGraph[f] = UNION {Called(prog.body[f][i]) : i \in Over(f)}

\* One instruction adds what it calls.
LEMMA ScanCalls ==
  ASSUME TypeOK, Scan
  PROVE  /\ ~Finished /\ pc \in DOMAIN Body /\ Ins.scope
         /\ prog' = prog /\ pos' = pos /\ pc' = pc + 1
         /\ \A f \in Funcs : callGraph'[f] = IF f = Cur THEN callGraph[f] \cup Called(Ins) ELSE callGraph[f]
<1>1. CASE callGraph' = callGraph /\ Called(Ins) = {} /\ (Alloca \/ PassOver \/ ForwardArgument \/ UnknownPointer
           \/ TableCall \/ ThrowVehicle \/ UnknownExternal)
  BY <1>1 DEF Alloca, PassOver, ForwardArgument, UnknownPointer, TableCall, ThrowVehicle, UnknownExternal, Here, Note
<1>2. CASE Alloca \/ PassOver \/ ForwardArgument
  BY <1>1, <1>2 DEF Alloca, PassOver, ForwardArgument, Here, Called
<1>3. CASE UnknownPointer
  BY <1>1, <1>3 DEF UnknownPointer, Here, Called
<1>4. CASE TableCall
  BY <1>1, <1>4 DEF TableCall, Here, Called
<1>5. CASE ThrowVehicle \/ UnknownExternal
  <2>1. Ins.callee \in Externals /\ Ins.op = "call" /\ callGraph' = callGraph
    BY <1>5, ScanAssumption DEF ThrowVehicle, UnknownExternal, Here
  <2>2. Called(Ins) = {}
    BY <2>1, ScanAssumption DEF Called
  <2> QED
    BY <1>1, <1>5, <2>1, <2>2
<1>6. CASE ResolvedPointer
  <2>1. /\ ~Finished /\ pc \in DOMAIN Body /\ Ins.scope /\ Ins.op = "pointer"
        /\ prog' = prog /\ pos' = pos /\ pc' = pc + 1
        /\ callGraph' = [callGraph EXCEPT ![Cur] = @ \cup Targets(Ins)]
    BY <1>6 DEF ResolvedPointer, Here, Note, CallEdges
  <2>2. Called(Ins) = Targets(Ins)
    BY <2>1 DEF Called
  <2> QED
    BY <2>1, <2>2 DEF TypeOK
<1>7. CASE InternalCall
  <2>1. /\ ~Finished /\ pc \in DOMAIN Body /\ Ins.scope /\ Ins.op = "call"
        /\ Ins.callee \in Funcs \ prog.known
        /\ prog' = prog /\ pos' = pos /\ pc' = pc + 1
        /\ callGraph' = [callGraph EXCEPT ![Cur] = @ \cup {Ins.callee}]
    BY <1>7 DEF InternalCall, Here, Note, CallEdges
  <2>2. Called(Ins) = {Ins.callee}
    BY <2>1 DEF Called
  <2> QED
    BY <2>1, <2>2 DEF TypeOK
<1> QED
  BY <1>2, <1>3, <1>4, <1>5, <1>6, <1>7 DEF Scan

\* What an instruction calls is a matter of the program.
LEMMA CalledStays == prog' = prog => \A i : Called(i)' = Called(i)
BY DEF Called, Targets

\* A function begins or ends without an instruction.
LEMMA OverStays ==
  ASSUME TypeOK, ScanInv, Begin \/ OutOfScope \/ EndDeferred \/ EndPlain \/ UNCHANGED vars
  PROVE  /\ prog' = prog
         /\ \A f \in Funcs : Over(f)' = Over(f)
         /\ \A f \in Funcs : callGraph'[f] = callGraph[f]
<1>1. CASE Begin
  <2>1. /\ prog' = prog /\ pos' = pos /\ pc = 0 /\ pc' = 1 /\ ~Finished
        /\ callGraph' = [callGraph EXCEPT ![Cur] = {}]
    BY <1>1 DEF Begin
  <2>2. Cur \in Funcs /\ pos \in Nat /\ Position(Cur) = pos
    BY <2>1, AtHandTypes
  <2>3. \A f \in Funcs : Position(f)' = Position(f) /\ InScope(f)' = InScope(f)
    BY <2>1, ProgramStays
  <2>4. \A f \in Funcs : Scanned(f)' <=> Scanned(f)
    BY <2>1, <2>3 DEF Scanned
  <2>5. ASSUME NEW f \in Funcs PROVE Over(f)' = Over(f)
    <3>1. \A i \in InScope(f) : i \in Nat /\ i > 0
      BY Bodies DEF InScope, TypeOK
    <3>2. Over(f)' = {i \in InScope(f) : Scanned(f) \/ (Position(f) = pos /\ i < 1)}
      BY <2>1, <2>3, <2>4 DEF Over
    <3>3. Over(f) = {i \in InScope(f) : Scanned(f) \/ (Position(f) = pos /\ i < 0)}
      BY <2>1 DEF Over
    <3>4. \A i \in InScope(f) : ~(i < 1) /\ ~(i < 0)
      BY <3>1
    <3> QED
      BY <3>2, <3>3, <3>4
  <2>6. ~Begun(Cur)
    BY <2>1, <2>2 DEF Begun
  <2>7. callGraph[Cur] = {}
    BY <2>2, <2>6 DEF ScanInv, EdgesRight
  <2> QED
    BY <2>1, <2>2, <2>5, <2>7 DEF TypeOK
<1>2. CASE OutOfScope
  BY <1>2, AfterInstr DEF OutOfScope
<1>3. CASE EndDeferred \/ EndPlain
  <2>1. NextFunction
    BY <1>3 DEF EndDeferred, EndPlain
  <2>2. \A f \in Funcs : Over(f)' = Over(f)
    BY <2>1, AfterEnd
  <2> QED
    BY <2>1, <2>2 DEF NextFunction
<1>4. CASE UNCHANGED vars
  <2>1. prog' = prog /\ pos' = pos /\ pc' = pc /\ callGraph' = callGraph
    BY <1>4 DEF vars
  <2>2. \A f \in Funcs : Position(f)' = Position(f) /\ InScope(f)' = InScope(f)
    BY <2>1, ProgramStays
  <2>3. \A f \in Funcs : Over(f)' = Over(f)
    BY <2>1, <2>2 DEF Scanned, Over
  <2> QED
    BY <2>1, <2>3
<1> QED
  BY <1>1, <1>2, <1>3, <1>4

\* The call graph is right at the start,
LEMMA GraphInit == Init => GraphRight
<1> SUFFICES ASSUME Init, NEW f \in Funcs PROVE Over(f) = {} /\ callGraph[f] = {}
  BY DEF GraphRight
<1>1. TypeOK
  BY TypeInit
<1>2. Position(f) \in Nat /\ Position(f) >= 1
  BY <1>1, Positions DEF TypeOK
<1>3. \A i \in InScope(f) : i \in Nat /\ i > 0
  BY <1>1, Bodies DEF InScope, TypeOK
<1>4. pos = 1 /\ pc = 0 /\ callGraph[f] = {}
  BY DEF Init
<1> QED
  BY <1>2, <1>3, <1>4 DEF Over, Scanned

\* and every step keeps it right.
LEMMA GraphStep == TypeOK /\ ScanInv /\ GraphRight /\ [Next]_vars => GraphRight'
<1> SUFFICES ASSUME TypeOK, ScanInv, GraphRight, [Next]_vars, NEW f \in Funcs
             PROVE  callGraph'[f] = UNION {Called(prog.body[f][i])' : i \in Over(f)'}
  BY DEF GraphRight
<1>0. callGraph[f] = UNION {Called(prog.body[f][i]) : i \in Over(f)}
  BY DEF GraphRight
<1>1. CASE Begin \/ OutOfScope \/ EndDeferred \/ EndPlain \/ UNCHANGED vars
  BY <1>0, <1>1, OverStays, CalledStays
<1>2. CASE Scan
  <2>1. /\ ~Finished /\ pc \in DOMAIN Body /\ Ins.scope
        /\ prog' = prog /\ pos' = pos /\ pc' = pc + 1
        /\ callGraph'[f] = IF f = Cur THEN callGraph[f] \cup Called(Ins) ELSE callGraph[f]
    BY <1>2, ScanCalls
  <2>2. /\ Ins = prog.body[Cur][pc]
        /\ Over(f)' = Over(f) \cup (IF f = Cur /\ Ins.scope THEN {pc} ELSE {})
    BY <2>1, AfterInstr
  <2>3. \A i : Called(i)' = Called(i)
    BY <2>1, CalledStays
  <2> QED
    BY <1>0, <2>1, <2>2, <2>3
<1> QED
  BY <1>1, <1>2 DEF Next, Scan


(***************************************************************************)
(* The calls that are handed over, exactly: of the functions in the call   *)
(* graph; a direct call stands at its number among the direct calls.       *)
(***************************************************************************)
DirectCalls(f) == {i \in DOMAIN prog.body[f] :
                     prog.body[f][i].op = "call" /\ prog.body[f][i].callee \in callGraph[f] \cap Funcs}

HopsOf(f) == DirectHops(f) \o ResolvedHops(f)

\* The direct calls alone.
LEMMA DirectHopsExact ==
  ASSUME TypeOK, NEW f \in Funcs
  PROVE  /\ \A j \in DOMAIN DirectHops(f) : DirectHops(f)[j].callee \in callGraph[f]
         /\ \A i \in DirectCalls(f) : /\ Rank(DirectCalls(f), i) \in DOMAIN DirectHops(f)
                                      /\ DirectHops(f)[Rank(DirectCalls(f), i)] =
                                           [callee |-> prog.body[f][i].callee, kind |-> "call"]
<1> DEFINE I == DirectCalls(f)
           b == prog.body[f]
           calls == Kept(b, I)
<1>1. b \in Seq(Instr)
  BY DEF TypeOK, Module
<1>2. I \subseteq DOMAIN b /\ I \cap DOMAIN b = I
  BY DEF DirectCalls
<1>3. \A i \in I : b[i].callee \in callGraph[f]
  BY DEF DirectCalls
<1>4. DirectHops(f) = [i \in DOMAIN calls |-> [callee |-> calls[i].callee, kind |-> "call"]]
  BY DEF DirectHops, DirectCalls
<1> HIDE DEF I, b
<1>5. /\ calls \in Seq(Instr)
      /\ \A j \in DOMAIN calls : \E i \in DOMAIN b : i \in I /\ calls[j] = b[i]
      /\ \A i \in DOMAIN b : i \in I => \E j \in DOMAIN calls : calls[j] = b[i]
      /\ InPlace(calls, b, I)
  BY <1>1, KeptPlaces DEF Picks
<1>6. \A i \in I : Rank(I, i) \in DOMAIN calls /\ calls[Rank(I, i)] = b[i]
  BY <1>2, <1>5 DEF InPlace
<1> HIDE DEF calls
<1>7. \A j \in DOMAIN DirectHops(f) : DirectHops(f)[j].callee \in callGraph[f]
  BY <1>3, <1>4, <1>5
<1>8. \A i \in I : /\ Rank(I, i) \in DOMAIN DirectHops(f)
                   /\ DirectHops(f)[Rank(I, i)] = [callee |-> b[i].callee, kind |-> "call"]
  BY <1>4, <1>6
<1> QED
  BY <1>7, <1>8 DEF I, b

\* The resolved targets alone.
LEMMA ResolvedHopsExact ==
  ASSUME TypeOK, NEW f \in Funcs
  PROVE  \A j \in DOMAIN ResolvedHops(f) : ResolvedHops(f)[j].callee \in callGraph[f]
<1> DEFINE I == {i \in DOMAIN prog.addr : prog.addr[i] \in callGraph[f] \ Seen(f)}
           only == Kept(prog.addr, I)
<1>1. prog.addr \in Seq(Funcs)
  BY DEF TypeOK, Module, Listing
<1>2. \A i \in I : prog.addr[i] \in callGraph[f]
  OBVIOUS
<1>3. ResolvedHops(f) = [i \in DOMAIN only |-> [callee |-> only[i], kind |-> "indirect-resolved"]]
  BY DEF ResolvedHops
<1> HIDE DEF I
<1>4. only \in Seq(Funcs) /\ \A j \in DOMAIN only : \E i \in DOMAIN prog.addr : i \in I /\ only[j] = prog.addr[i]
  BY <1>1, KeptElements
<1> HIDE DEF only
<1> QED
  BY <1>2, <1>3, <1>4

\* All of them.
LEMMA HopsExact ==
  ASSUME TypeOK, NEW f \in Funcs
  PROVE  /\ \A g \in Funcs : (\E j \in DOMAIN HopsOf(f) : HopsOf(f)[j].callee = g) <=> g \in callGraph[f]
         /\ \A i \in DirectCalls(f) : /\ Rank(DirectCalls(f), i) \in DOMAIN HopsOf(f)
                                      /\ HopsOf(f)[Rank(DirectCalls(f), i)] =
                                           [callee |-> prog.body[f][i].callee, kind |-> "call"]
<1> DEFINE d == DirectHops(f)
           r == ResolvedHops(f)
           h == HopsOf(f)
<1>1. d \in Seq(Hop) /\ r \in Seq(Hop) /\ h = d \o r
  BY DirectHopsRight, ResolvedHopsRight DEF HopsOf
<1>2. \A g \in Funcs : g \in callGraph[f] => \E j \in DOMAIN h : h[j].callee = g
  BY HopsRight DEF HopsOf
<1>3. /\ \A j \in DOMAIN d : d[j].callee \in callGraph[f]
      /\ \A j \in DOMAIN r : r[j].callee \in callGraph[f]
  BY DirectHopsExact, ResolvedHopsExact
<1>4. \A i \in DirectCalls(f) : /\ Rank(DirectCalls(f), i) \in DOMAIN d
                                /\ d[Rank(DirectCalls(f), i)] = [callee |-> prog.body[f][i].callee, kind |-> "call"]
  BY DirectHopsExact
<1> HIDE DEF d, r, h
<1>5. /\ Len(d) \in Nat /\ DOMAIN d = 1 .. Len(d) /\ Len(r) \in Nat /\ DOMAIN r = 1 .. Len(r)
      /\ DOMAIN h = 1 .. Len(d) + Len(r)
      /\ \A i \in 1 .. Len(d) + Len(r) : h[i] = IF i <= Len(d) THEN d[i] ELSE r[i - Len(d)]
  BY <1>1, ConcatProperties, LenProperties
<1>6. ASSUME NEW j \in DOMAIN h PROVE h[j].callee \in callGraph[f]
  <2>1. CASE j <= Len(d)
    BY <1>3, <1>5, <2>1
  <2>2. CASE ~(j <= Len(d))
    <3>1. j - Len(d) \in DOMAIN r /\ h[j] = r[j - Len(d)]
      BY <1>5, <2>2
    <3> QED
      BY <1>3, <3>1
  <2> QED
    BY <2>1, <2>2
<1>7. \A j \in DOMAIN d : j \in DOMAIN h /\ h[j] = d[j]
  BY <1>5
<1> QED
  BY <1>2, <1>4, <1>6, <1>7 DEF h

(***************************************************************************)
(* The callers that are handed over are those on record.                   *)
(***************************************************************************)
LEMMA CallersExact ==
  ASSUME TypeOK, NEW f \in Funcs, NEW g \in Funcs
  PROVE  (\E i \in DOMAIN Handover.callers[g] : Handover.callers[g][i] = f) <=> f \in callersOf[g]
<1> DEFINE I == {i \in DOMAIN prog.addr : prog.addr[i] \in callersOf[g]}
           s == Kept(prog.addr, I)
<1>1. prog.addr \in Seq(Funcs) /\ \E i \in DOMAIN prog.addr : prog.addr[i] = f
  BY DEF TypeOK, Module, Listing
<1>2. Handover.callers[g] = s
  BY DEF Handover
<1>3. \A i \in DOMAIN prog.addr : i \in I <=> prog.addr[i] \in callersOf[g]
  OBVIOUS
<1> HIDE DEF I
<1>4. /\ s \in Seq(Funcs)
      /\ \A j \in DOMAIN s : \E i \in DOMAIN prog.addr : i \in I /\ s[j] = prog.addr[i]
      /\ \A i \in DOMAIN prog.addr : i \in I => \E j \in DOMAIN s : s[j] = prog.addr[i]
  BY <1>1, KeptElements
<1> HIDE DEF s
<1>5. ASSUME NEW j \in DOMAIN s, s[j] = f PROVE f \in callersOf[g]
  BY <1>3, <1>4, <1>5
<1>6. ASSUME f \in callersOf[g] PROVE \E j \in DOMAIN s : s[j] = f
  BY <1>1, <1>3, <1>4, <1>6
<1> QED
  BY <1>2, <1>5, <1>6

\* In the end all instructions in scope count.
LEMMA GraphAtEnd ==
  ASSUME TypeOK, GraphRight, Finished, NEW f \in Funcs
  PROVE  callGraph[f] = UNION {Called(prog.body[f][i]) : i \in InScope(f)}
BY AllScanned, ScannedOver DEF GraphRight
=============================================================================
