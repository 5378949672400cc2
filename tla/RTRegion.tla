------------------------------- MODULE RTRegion -------------------------------
(***************************************************************************)
(* computeRegionInfo: which instructions of a function that uses region    *)
(* markers are in a region.  A dataflow over the control-flow graph keeps  *)
(* the nesting depth before and after every block, sweeps over the blocks  *)
(* in their order until nothing changes, and then collects the             *)
(* instructions that come at a positive depth.                             *)
(*                                                                         *)
(* A function is a record: body, block -> a sequence of "enter", "exit"    *)
(* and "other"; preds, block -> its predecessors; block 1 is the entry.    *)
(***************************************************************************)
EXTENDS Integers, Sequences

CONSTANTS LastBlock,   \* blocks are 1 .. LastBlock, in the order of the function
          IntMax,      \* the greatest int: 2^31 - 1 in the code
          Functions    \* the functions that are analysed

VARIABLES fn,          \* the function
          depthIn, depthOut,   \* DepthIn, DepthOut
          pos,         \* the block the sweep is at
          changed,     \* Changed
          inRegion,    \* InRegion, pairs of a block and an index
          pc           \* "start", "sweep" or "done"

-----------------------------------------------------------------------------
Blocks == 1 .. LastBlock

RegionFunction(x) == /\ x.body \in [Blocks -> Seq({"enter", "exit", "other"})]
                     /\ x.preds \in [Blocks -> SUBSET Blocks]
                     /\ x.preds[1] = {}

RegionAssumption == /\ IntMax \in Nat
                    /\ LastBlock \in Nat \ {0}
                    /\ \A x \in Functions : RegionFunction(x)

Ints == -IntMax - 1 .. IntMax

TypeOK == /\ RegionFunction(fn)
          /\ depthIn \in [Blocks -> Ints] /\ depthOut \in [Blocks -> Ints]
          /\ pos \in 1 .. LastBlock + 1
          /\ changed \in BOOLEAN
          /\ inRegion \subseteq Blocks \X Nat
          /\ pc \in {"start", "sweep", "done"}
-----------------------------------------------------------------------------
\* An int that is incremented wraps around.
Increment(d) == IF d = IntMax THEN -IntMax - 1 ELSE d + 1

\* What a marker does to the depth; an exit without an enter does nothing.
Marked(d, ins) == CASE ins = "enter"         -> Increment(d)
                    [] ins = "exit" /\ d > 0 -> d - 1
                    [] OTHER                 -> d

\* The depth before the i-th instruction of b, from d at its beginning.
DepthAt(b, d, i) ==
  LET at[n \in 1 .. i] == IF n = 1 THEN d ELSE Marked(at[n-1], fn.body[b][n-1])
  IN  at[i]

After(b, d) == DepthAt(b, d, Len(fn.body[b]) + 1)

\* The depth before a block: the maximum over its predecessors.
Incoming(b) ==
  IF b = 1 \/ fn.preds[b] = {} THEN 0
  ELSE LET outs == {depthOut[p] : p \in fn.preds[b]} IN CHOOSE m \in outs : \A o \in outs : o <= m

UsesRegions == \E b \in Blocks : \E i \in DOMAIN fn.body[b] : fn.body[b][i] # "other"

Init == /\ fn \in Functions
        /\ depthIn = [b \in Blocks |-> 0]
        /\ depthOut = [b \in Blocks |-> 0]
        /\ pos = 1
        /\ changed = FALSE
        /\ inRegion = {}
        /\ pc = "start"

Start == /\ pc = "start"
         /\ pc' = IF UsesRegions THEN "sweep" ELSE "done"
         /\ UNCHANGED <<fn, depthIn, depthOut, pos, changed, inRegion>>

\* Mistakes: a change behind the block alone is no change; every visit is one.
VisitedChangedIn(in, out)     == depthIn[pos] # in
VisitedChangedAlways(in, out) == TRUE

VisitedChanged(in, out) == depthIn[pos] # in \/ depthOut[pos] # out

Visit == /\ pc = "sweep"
         /\ pos \in Blocks
         /\ LET in  == Incoming(pos)
                out == After(pos, in)
            IN  /\ depthIn' = [depthIn EXCEPT ![pos] = in]
                /\ depthOut' = [depthOut EXCEPT ![pos] = out]
                /\ changed' = (changed \/ VisitedChanged(in, out))
         /\ pos' = pos + 1
         /\ UNCHANGED <<fn, inRegion, pc>>

SweepAgain == /\ pc = "sweep"
              /\ pos = LastBlock + 1
              /\ changed
              /\ pos' = 1
              /\ changed' = FALSE
              /\ UNCHANGED <<fn, depthIn, depthOut, inRegion, pc>>

\* Nothing changed: the instructions at a positive depth are in a region.
Collect == /\ pc = "sweep"
           /\ pos = LastBlock + 1
           /\ ~changed
           /\ inRegion' = {x \in UNION {{b} \X DOMAIN fn.body[b] : b \in Blocks} :
                             /\ fn.body[x[1]][x[2]] = "other"
                             /\ DepthAt(x[1], depthIn[x[1]], x[2]) > 0}
           /\ pc' = "done"
           /\ UNCHANGED <<fn, depthIn, depthOut, pos, changed>>

Next == Start \/ Visit \/ SweepAgain \/ Collect
-----------------------------------------------------------------------------
(***************************************************************************)
(* What the markers mean when the function runs: control starts at depth   *)
(* 0, goes from block to block, and every marker it passes changes the     *)
(* depth.  It starts in the entry, or in code that cannot be reached,      *)
(* which the analysis takes to be alive; a start in the middle of live     *)
(* code adds nothing, as the depth there is 0 or more.  Entries: the       *)
(* blocks with the depths control can come to them with.                   *)
(***************************************************************************)
Entries ==
  LET reach[n \in 0 .. LastBlock * (IntMax + 1)] ==
        Blocks \X {0} \cup
          (IF n = 0 THEN {}
           ELSE {<<x[1], After(x[2][1], x[2][2])>> : x \in {x \in Blocks \X reach[n-1] : x[2][1] \in fn.preds[x[1]]}})
  IN  reach[LastBlock * (IntMax + 1)]

\* No depth comes to the greatest int, or beyond, within any block.
Shallow == \A b \in Blocks : \A i \in 1 .. Len(fn.body[b]) + 1 : DepthAt(b, depthIn[b], i) \in 0 .. IntMax - 1

(***************************************************************************)
(* An instruction is in scope exactly when there is a run of the function  *)
(* that comes to it inside a region: no call in a region is missed,        *)
(* through loops and joins alike, and none outside on every path counts.   *)
(***************************************************************************)
ScopeExact ==
  pc = "done" /\ UsesRegions /\ Shallow =>
    inRegion = UNION {{<<e[1], i>> : i \in {i \in DOMAIN fn.body[e[1]] : /\ fn.body[e[1]][i] = "other"
                                                                        /\ DepthAt(e[1], e[2], i) > 0}} : e \in Entries}
=============================================================================
