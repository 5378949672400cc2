-------------------------------- MODULE RTRuntime --------------------------------
(***************************************************************************)
(* An instrumented program runs: RTHooks puts the hooks into a function    *)
(* and runs it, its hooks are the calls of the counting runtime, RTShim,   *)
(* where other threads in real-time code meet it, and threads that reset.  *)
(* What RTHooks calls the depth is what the runtime has seen of Self.      *)
(***************************************************************************)
EXTENDS Integers

CONSTANTS Scenes,      \* a function, the other threads, and the ones that reset
          Self,        \* the thread that runs the function
          Threads, Resetters, Modulus, MaxNesting      \* as in RTShim

VARIABLES scene, code, mode, pc, blk, at,                     \* RTHooks
          enterCount, exitCount, inside, stores, calm         \* RTShim

hooksVars == <<scene, code, mode, pc, blk, at>>
shimVars  == <<enterCount, exitCount, inside, stores, calm>>
vars      == <<hooksVars, shimVars>>

Hooks == INSTANCE RTHooks WITH MaxDepth <- MaxNesting, depth <- inside[Self]
Shim  == INSTANCE RTShim

Scene(s) == /\ Hooks!Valid(s.code)
            /\ \A b \in DOMAIN s.code : \A i \in DOMAIN s.code[b].ins :
                  s.code[b].ins[i] \in {"phi", "pad", "call", "tagged"}
            /\ s.others \subseteq Threads \ {Self}
            /\ s.resetters \subseteq Resetters

ASSUME RuntimeAssumption ==
  /\ Shim!ShimAssumption
  /\ Self \in Threads
  /\ \A s \in Scenes : Scene(s)

TypeOK == /\ Scene(scene)
          /\ Hooks!TypeOK
          /\ Shim!TypeOK
-----------------------------------------------------------------------------
Init == /\ scene \in Scenes
        /\ code = scene.code
        /\ Shim!Init
        /\ Hooks!Init

\* The pass puts the hooks into the function.
Place == /\ UNCHANGED <<scene, shimVars>>
         /\ Hooks!WrapWhole \/ Hooks!WrapCall \/ Hooks!WrapInvoke \/ Hooks!Placed

\* The function comes to a hook, which counts.
Count == /\ IF Hooks!Now = "enter" THEN Shim!RealtimeEnter(Self) ELSE Shim!RealtimeExit(Self)
         /\ Hooks!Hook
         /\ UNCHANGED scene

\* The function goes on.
Run == /\ UNCHANGED <<scene, shimVars>>
       /\ Hooks!Step \/ Hooks!Throw \/ Hooks!Leave \/ Hooks!Go

\* Other threads leave real-time code as often as they enter it.
Elsewhere == /\ \E t \in scene.others : \/ Shim!RealtimeEnter(t)
                                        \/ inside[t] > 0 /\ Shim!RealtimeExit(t)
             /\ UNCHANGED hooksVars

Resetting == /\ \E r \in scene.resetters : Shim!Reset(r) \/ Shim!ResetEnters(r) \/ Shim!ResetExits(r)
             /\ UNCHANGED hooksVars

Next == Place \/ Count \/ Run \/ Elsewhere \/ Resetting

Spec == Init /\ [][Next]_vars
-----------------------------------------------------------------------------
(***************************************************************************)
(* On every path through the instrumented code, around loops and out of    *)
(* pads, an exit hook comes with each enter hook and after it, before the  *)
(* next one, and before the function is left; a witness, or in a function  *)
(* that is wrapped whole every call, runs between two, and per call site   *)
(* nothing else does.  This holds where no destination of a wrapped invoke *)
(* is shared, and no pad goes on in the function that is wrapped whole.    *)
(***************************************************************************)
Paired == Hooks!Paired /\ Hooks!WitnessInside

(***************************************************************************)
(* A program that reads the two counters between its runs finds as many    *)
(* enters as exits: the function is left, no other thread is inside, and   *)
(* no reset has met a thread inside or in between, however often the       *)
(* counters wrap around.                                                   *)
(***************************************************************************)
Balanced ==
  /\ Shim!BalancedWhenCalm
  /\ /\ Hooks!Fits /\ pc = "left"
     /\ \A t \in Threads \ {Self} : inside[t] = 0
     /\ Shim!Undisturbed
     => enterCount = exitCount
-----------------------------------------------------------------------------
(* What the repository says of the hooks and the code does not do.         *)

(***************************************************************************)
(* Comment on wrapCallSite: "we place the exit hook on both the            *)
(* normal-return edge ... and the unwind edge": per call site, a run       *)
(* passes as many exit hooks as enter hooks.                               *)
(***************************************************************************)
OnTheEdges == Hooks!OnTheEdges
=============================================================================
