--------------------------------- MODULE RTShim ---------------------------------
(***************************************************************************)
(* The counting runtime: threads of an instrumented program enter and      *)
(* leave real-time code, each step one atomic increment of a counter that  *)
(* wraps around, while others reset the counters.  A reset is two relaxed  *)
(* stores, which take effect in either order, and not at once.  The reads  *)
(* of the counters change nothing and are left out.                        *)
(***************************************************************************)
EXTENDS Integers, FiniteSetsExt

CONSTANTS Threads,     \* of the instrumented program
          Resetters,   \* threads that reset
          Modulus,     \* of the counters: 2^64 in the code
          MaxNesting   \* bound: enters minus exits of a thread, either way

VARIABLES enterCount, exitCount,
          inside,      \* thread -> its enters minus its exits
          stores,      \* resetter -> the stores of its reset that are still to come
          calm         \* the last reset met nobody inside, and nothing came between its stores

ShimAssumption == IsFiniteSet(Threads) /\ Modulus \in Nat \ {0} /\ MaxNesting \in Nat

TypeOK == /\ {enterCount, exitCount} \subseteq 0 .. Modulus - 1
          /\ inside \in [Threads -> -MaxNesting .. MaxNesting]
          /\ stores \in [Resetters -> SUBSET {"enters", "exits"}]
          /\ calm \in BOOLEAN
-----------------------------------------------------------------------------
Init == /\ enterCount = 0 /\ exitCount = 0
        /\ inside = [t \in Threads |-> 0]
        /\ stores = [r \in Resetters |-> {}]
        /\ calm = TRUE

Undisturbed == calm /\ \A r \in Resetters : stores[r] = {}

Plus(count) == (count + 1) % Modulus

\* __rtsan_realtime_enter
RealtimeEnter(t) == /\ inside[t] < MaxNesting
                    /\ enterCount' = Plus(enterCount)
                    /\ inside' = [inside EXCEPT ![t] = @ + 1]
                    /\ calm' = Undisturbed
                    /\ UNCHANGED <<exitCount, stores>>

\* __rtsan_realtime_exit
RealtimeExit(t) == /\ inside[t] > -MaxNesting
                   /\ exitCount' = Plus(exitCount)
                   /\ inside' = [inside EXCEPT ![t] = @ - 1]
                   /\ calm' = Undisturbed
                   /\ UNCHANGED <<enterCount, stores>>

Nobody == \A t \in Threads : inside[t] = 0

\* A thread calls __rtsan_realtime_reset_counts.
Reset(r) == /\ stores[r] = {}
            /\ stores' = [stores EXCEPT ![r] = {"enters", "exits"}]
            /\ calm' = (Nobody /\ (calm \/ \A q \in Resetters : stores[q] = {}))
            /\ UNCHANGED <<enterCount, exitCount, inside>>

ResetEnters(r) == /\ "enters" \in stores[r]
                  /\ enterCount' = 0
                  /\ stores' = [stores EXCEPT ![r] = @ \ {"enters"}]
                  /\ UNCHANGED <<exitCount, inside, calm>>

\* Mistake: the second store is forgotten.
ResetExitsNot(r) == /\ "exits" \in stores[r]
                    /\ stores' = [stores EXCEPT ![r] = @ \ {"exits"}]
                    /\ UNCHANGED <<enterCount, exitCount, inside, calm>>

ResetExits(r) == /\ "exits" \in stores[r]
                 /\ exitCount' = 0
                 /\ stores' = [stores EXCEPT ![r] = @ \ {"exits"}]
                 /\ UNCHANGED <<enterCount, inside, calm>>
-----------------------------------------------------------------------------
(***************************************************************************)
(* However often the counters wrap around, and whatever happened before,   *)
(* once the counters have been reset while no thread was in real-time code *)
(* or went there, enters exceed exits by the threads that are inside.      *)
(***************************************************************************)
BalancedWhenCalm ==
  Undisturbed => (enterCount - exitCount) % Modulus = FoldSet(LAMBDA t, n : inside[t] + n, 0, Threads) % Modulus
=============================================================================
