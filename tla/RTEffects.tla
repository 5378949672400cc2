------------------------------ MODULE RTEffects ------------------------------
(***************************************************************************)
(* What effect inference promises, without saying how it gets there.       *)
(*                                                                         *)
(* Every function starts with the effects its own instructions have.  The  *)
(* analysis may only ever add, to a function, effects that one of the      *)
(* functions it calls has already; it never takes one back.  When it       *)
(* declares itself done, the effects of a callee are effects of every      *)
(* caller that is notified of the callee's changes.                        *)
(***************************************************************************)
EXTENDS Naturals

CONSTANTS Funcs,   \* the functions of the module that are analysed
          Kinds    \* the effect kinds

HeapKinds == 0 .. 4    \* HK_None .. HK_NormalHeap, larger is worse

VARIABLES calls,       \* the pairs <<caller, callee>> of the call graph
          notified,    \* those whose caller is told of a change of the callee
          eff,         \* function -> the set of its known effects
          heap,        \* function -> the worst memory it is known to touch
          done         \* the analysis has finished

vars == <<calls, notified, eff, heap, done>>

Callees(f) == {g \in Funcs : <<f, g>> \in calls}

Closed == \A p \in notified : /\ eff[p[2]] \subseteq eff[p[1]]
                              /\ heap[p[2]] <= heap[p[1]]

Init == /\ calls \in SUBSET (Funcs \X Funcs)
        /\ notified \in SUBSET calls
        /\ eff \in [Funcs -> SUBSET Kinds]
        /\ heap \in [Funcs -> HeapKinds]
        /\ done = FALSE

(***************************************************************************)
(* One function is looked at: it may learn effects from its callees, and   *)
(* the analysis may end here, but only with all notified callers served.   *)
(***************************************************************************)
Learn(f) ==
  /\ ~done
  /\ \E new \in SUBSET UNION {eff[g] : g \in Callees(f)} :
        eff' = [eff EXCEPT ![f] = @ \cup new]
  /\ \E h \in {heap[f]} \cup {heap[g] : g \in Callees(f)} :
        /\ h >= heap[f]
        /\ heap' = [heap EXCEPT ![f] = h]
  /\ done' \in BOOLEAN
  /\ done' => Closed'
  /\ UNCHANGED <<calls, notified>>

Next == \E f \in Funcs : Learn(f)

Spec == Init /\ [][Next]_vars
=============================================================================
