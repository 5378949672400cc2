-------------------------------- MODULE RTPlace --------------------------------
(***************************************************************************)
(* RTSanPlacementPass::run behind the constraint check: which functions    *)
(* get RTSan hooks, around what.  The check of RTCheck goes first and      *)
(* leaves a status with every function; this pass looks for the markings   *)
(* of a function by itself.  (Where the hooks go in a function, and what   *)
(* they then do, is RTHooks.)                                              *)
(*                                                                         *)
(* A module has, beside what the check looks at, for every function        *)
(*   prefixed  it has an attribute such as "rt_nonblocking";               *)
(*   bounded   it has an attribute rt_stack_bound, whatever its value;     *)
(*   tags      its calls with !rt.witness metadata, each with its kinds;   *)
(*   hook      it is one of the two runtime hooks itself.                  *)
(***************************************************************************)
EXTENDS RTCheck

VARIABLES mode,      \* "sites" (rt-san-place), "whole" (-whole), "all" (-all)
          placed,    \* the number of functions this pass has gone over
          hooks,     \* function -> "none", "whole" or "sites"
          unsanitized    \* the functions with !nosanitize_realtime

vars == <<checkVars, mode, placed, hooks, unsanitized>>
-----------------------------------------------------------------------------
Placeable(x) == /\ x.prefixed \in [Funcs -> BOOLEAN]
                /\ x.bounded \in [Funcs -> BOOLEAN]
                /\ \A f \in Funcs : x.value[f] # {} => x.bounded[f]
                /\ x.tags \in [Funcs -> Seq(SUBSET Kinds)]
                /\ x.hook \in [Funcs -> BOOLEAN]

ASSUME PlaceAssumption == \A x \in Modules : Placeable(x)

TypeOK == /\ CheckTypeOK
          /\ Placeable(in)
          /\ mode \in {"sites", "whole", "all"}
          /\ placed \in 0 .. Len(in.order)
          /\ hooks \in [Funcs -> {"none", "whole", "sites"}]
          /\ unsanitized \subseteq Funcs
-----------------------------------------------------------------------------
\* Mistake: annotations are not looked for.
IsRTAttr(f) == in.attrs[f] # {} \/ in.prefixed[f] \/ in.bounded[f]

\* isRTFunction: a bound counts as an attribute only.
IsRT(f) == in.prefixed[f] \/ in.bounded[f] \/ \E c \in Constraints : HasConstraint(f, c)

Init == /\ CheckInit
        /\ mode \in {"sites", "whole", "all"}
        /\ placed = 0
        /\ hooks = [f \in Funcs |-> "none"]
        /\ unsanitized = {}

Check == CheckNext /\ UNCHANGED <<mode, placed, hooks, unsanitized>>

Here == CheckOver /\ placed < Len(in.order)
This == in.order[placed + 1]

Done == placed' = placed + 1 /\ UNCHANGED <<checkVars, mode>>

SkipUnmarked == /\ Here
                /\ in.hook[This] \/ ~IsRT(This)
                /\ Done
                /\ UNCHANGED <<hooks, unsanitized>>

Skippable(f) == mode # "all" /\ status[f] = "ProvenSafe"

SkipSafe == /\ Here
            /\ ~in.hook[This] /\ IsRT(This)
            /\ Skippable(This)
            /\ unsanitized' = unsanitized \cup {This}
            /\ Done
            /\ UNCHANGED hooks

\* Mistake: without a tag, hooks go around no call at all.
ScopeNoFallback(f) == IF mode = "sites" /\ status[f] = "Violating" THEN "sites" ELSE "whole"

Scope(f) == IF mode = "sites" /\ status[f] = "Violating" /\ in.tags[f] # <<>>
            THEN "sites" ELSE "whole"

Instrument == /\ Here
              /\ ~in.hook[This] /\ IsRT(This)
              /\ ~Skippable(This)
              /\ hooks' = [hooks EXCEPT ![This] = Scope(This)]
              /\ Done
              /\ UNCHANGED unsanitized

Next == Check \/ SkipUnmarked \/ SkipSafe \/ Instrument

Spec == Init /\ [][Next]_vars
-----------------------------------------------------------------------------
Passed(f)   == CheckOver /\ \E i \in 1 .. placed : in.order[i] = f
Opaque(f)   == Read(f).chain["Unknown"] # <<>>

\* Real-time in any of the ways a function can be marked, an annotated bound
\* included, which this pass does not look for.
Marked(f) == \/ in.attrs[f] # {} \/ in.prefixed[f] \/ in.bounded[f]
             \/ \E i \in DOMAIN in.notes[f] : in.notes[f][i].marks # {} \/ in.notes[f][i].bound # {}

(***************************************************************************)
(* Through both passes, no function that carries one of the six effect     *)
(* constraints, as an attribute or an annotation, is left without hooks    *)
(* although it does not meet a constraint or calls something unknown.      *)
(***************************************************************************)
UnsafeIsGuarded ==
  \A f \in Funcs : /\ Passed(f) /\ ~in.hook[f]
                   /\ Constraints \cap Demands(f) # {}
                   /\ Unmet(f) # {} \/ Opaque(f)
                   => hooks[f] # "none"

(***************************************************************************)
(* The mode and the verdict decide: in selective modes a safe function     *)
(* that the check has seen has no hook and is marked so, only a violating  *)
(* function has hooks around its calls, and then around one at least; the  *)
(* baseline, which selective modes are compared with, has hooks around     *)
(* every function that carries a constraint as an attribute; and what is   *)
(* not marked as real-time in any way, and the hooks themselves, are never *)
(* touched.  Whether a function that nothing but an annotated bound marks  *)
(* gets hooks when it exceeds the bound is left open.                      *)
(***************************************************************************)
HooksFollowStatus ==
  \A f \in Funcs : Passed(f) =>
     /\ hooks[f] # "none" \/ f \in unsanitized =>
          ~in.hook[f] /\ Marked(f)
     /\ hooks[f] = "sites" => mode = "sites" /\ Unmet(f) # {} /\ in.tags[f] # <<>>
     /\ mode # "all" /\ Demands(f) # {} /\ Unmet(f) = {} /\ ~Opaque(f) => hooks[f] = "none"
     /\ f \in unsanitized => mode # "all" /\ hooks[f] = "none"
     /\ mode = "all" /\ ~in.hook[f] => (in.attrs[f] = {} /\ in.value[f] = {}) \/ hooks[f] = "whole"
=============================================================================
