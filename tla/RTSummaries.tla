----------------------------- MODULE RTSummaries -----------------------------
(***************************************************************************)
(* The data of effect inference: summaries with their provenance chains,   *)
(* and the record that the scan hands to the propagation loop:             *)
(*   hops     function -> the calls through which it inherits, in the      *)
(*            order the loop visits them: its direct calls in instruction  *)
(*            order, then the targets that only a resolved indirect call   *)
(*            reaches, in address order;                                   *)
(*   direct   function -> its own effects (DirectEffects);                 *)
(*   callers  function -> CallersOf, a std::set of pointers, hence a       *)
(*            sequence in address order without repetitions;               *)
(*   order    the functions in address order (a std::map's).               *)
(*                                                                         *)
(* An effect flag is set exactly when its provenance chain is not empty,   *)
(* so a summary keeps the chains only; the reason string that the code     *)
(* compares is the sequence of the callee names of a chain.                *)
(***************************************************************************)
EXTENDS Naturals, Sequences

CONSTANTS Funcs,      \* the functions that have a summary
          Names,      \* what a frame may name beside them: externals, "<...>"
          Kinds       \* the effect kinds in use

ASSUME KindsAssumption == "Alloc" \in Kinds
ASSUME FuncsAssumption == Funcs # {}
-----------------------------------------------------------------------------
HopKinds    == {"call", "indirect-resolved"}
SourceKinds == {"external", "unknown-external", "invoke", "indirect-call",
                "stack-alloc", "global-access", "cycle"}

Frame == [fn : Funcs, callee : Funcs \cup Names, kind : HopKinds \cup SourceKinds]
Chain == Seq(Frame)
Hop   == [callee : Funcs, kind : HopKinds]

HeapKinds  == 0 .. 4      \* None, Stack, Global, RTHeap, NormalHeap
NormalHeap == 4

Summary == [chain : [Kinds -> Chain], heap : HeapKinds, heapChain : Chain]

Carries(s, k) == s.chain[k] # <<>>
Effects(s)    == {k \in Kinds : Carries(s, k)}
Reason(ch)    == [i \in DOMAIN ch |-> ch[i].callee]

(***************************************************************************)
(* What the scan and the recursion step guarantee about the input: a       *)
(* direct chain is one source frame of the function itself, after the      *)
(* recursion frame if the function is recursive; a function on normal heap *)
(* has the allocation effect; callers on record do call.                   *)
(***************************************************************************)
SourceChain(f, ch) ==
  \A i \in DOMAIN ch : ch[i].fn = f /\ ch[i].kind \in SourceKinds

InputType(x) ==
  /\ x.hops \in [Funcs -> Seq(Hop)]
  /\ x.direct \in [Funcs -> Summary]
  /\ x.callers \in [Funcs -> Seq(Funcs)]
  /\ x.order \in Seq(Funcs)

WellFormed(x) ==
  /\ InputType(x)
  /\ \A f \in Funcs :
        /\ \A k \in Kinds : SourceChain(f, x.direct[f].chain[k])
        /\ SourceChain(f, x.direct[f].heapChain)
        /\ x.direct[f].heap = 0 <=> x.direct[f].heapChain = <<>>
        /\ x.direct[f].heap = NormalHeap => Carries(x.direct[f], "Alloc")
        /\ \E i \in DOMAIN x.order : x.order[i] = f
        /\ \A i \in DOMAIN x.callers[f] :
              \E j \in DOMAIN x.hops[x.callers[f][i]] :
                 x.hops[x.callers[f][i]][j].callee = f
=============================================================================
