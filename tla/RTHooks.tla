-------------------------------- MODULE RTHooks --------------------------------
(***************************************************************************)
(* wrapWholeFunction and wrapCallSite: the hooks are put into the code of  *)
(* one function, which is then run along every path.                       *)
(*                                                                         *)
(* A function is a sequence of blocks, the first one its entry.  A block   *)
(* has instructions, "phi", "pad", "call" and, with !rt.witness, "tagged"; *)
(* and a terminator: op, its tag if it is an invoke, and the blocks it may *)
(* lead to (of an invoke the normal and the unwind destination; of         *)
(* cleanupret none when it unwinds to the caller).                         *)
(***************************************************************************)
EXTENDS Integers, Sequences, SequencesExt

CONSTANT MaxDepth      \* bound: runs are followed while the depth is this small

VARIABLES code,        \* the function's blocks
          mode,        \* "whole" or "sites"
          pc,          \* "place", "run", "left" or "unwound"
          blk, at,     \* where the run is; at Len(ins) + 1, the terminator
          depth        \* enter hooks minus exit hooks passed

-----------------------------------------------------------------------------
Ops   == {"ret", "resume", "cleanupret", "catchret", "br", "invoke", "unreachable"}
Ins   == {"phi", "pad", "call", "tagged", "wrapped", "enter", "exit"}
Block == [ins : Seq(Ins), term : [op : Ops, tag : BOOLEAN, to : Seq(Nat \ {0})]]
Calls == {"call", "tagged", "wrapped"}

\* Along a fall-through edge, and where an exception arrives.
Edge(c, b, d)   == \E i \in DOMAIN c[b].term.to : c[b].term.to[i] = d
Unwinds(c, b, d) == \/ c[b].term.op = "invoke" /\ c[b].term.to[2] = d
                    \/ c[b].term.op = "cleanupret" /\ Edge(c, b, d)
HasPad(c, b)    == \E i \in DOMAIN c[b].ins : c[b].ins[i] = "pad"

\* What the verifier of the IR demands.
Valid(c) ==
  /\ c \in Seq(Block) /\ c # <<>>
  /\ \A b \in DOMAIN c :
        /\ \A i \in DOMAIN c[b].term.to : c[b].term.to[i] \in DOMAIN c \ {1}
        /\ c[b].term.op = "invoke" => Len(c[b].term.to) = 2 /\ c[b].term.to[1] # c[b].term.to[2]
        /\ c[b].term.tag => c[b].term.op = "invoke"
        /\ \A d \in DOMAIN c : Edge(c, b, d) => (HasPad(c, d) <=> Unwinds(c, b, d))
        /\ \A i, j \in DOMAIN c[b].ins :
              /\ c[b].ins[j] = "phi" /\ i < j => c[b].ins[i] = "phi"
              /\ c[b].ins[j] = "pad" /\ i < j => c[b].ins[i] = "phi"

TypeOK == /\ Valid(code)
          /\ mode \in {"whole", "sites"}
          /\ pc \in {"place", "run", "left", "unwound"}
          /\ blk \in DOMAIN code
          /\ at \in 1 .. Len(code[blk].ins) + 1
          /\ depth \in -MaxDepth .. MaxDepth
-----------------------------------------------------------------------------
\* The hook goes before the first instruction of b that is not one of these.
InsertPast(c, b, these, hook) ==
  LET ins   == c[b].ins
      first == CHOOSE i \in 1 .. Len(ins) + 1 : /\ i <= Len(ins) => ins[i] \notin these
                                                /\ \A j \in 1 .. i - 1 : ins[j] \in these
  IN  [c EXCEPT ![b].ins = InsertAt(@, first, hook)]

\* The hook goes before the terminator of b.
InsertLast(c, b, hook) == [c EXCEPT ![b].ins = Append(@, hook)]

\* For code that is valid.
Init == /\ mode \in {"whole", "sites"}
        /\ pc = "place"
        /\ blk = 1 /\ at = 1
        /\ depth = 0

\* Mistake: only returns leave a function.
ExitsByReturn(b) == code[b].term.op = "ret"

\* isFunctionExitTerminator
Exits(b) == code[b].term.op \in {"ret", "resume", "cleanupret", "catchret"}

WrapWhole ==
  /\ pc = "place" /\ mode = "whole"
  /\ LET entered == InsertPast(code, 1, {"phi", "pad"}, "enter")
     IN  code' = [b \in DOMAIN code |->
                    IF Exits(b) THEN InsertLast(entered, b, "exit")[b] ELSE entered[b]]
  /\ pc' = "run"
  /\ UNCHANGED <<mode, blk, at, depth>>

\* The tagged calls before the terminator of b, and the first block that has a
\* call still to be wrapped.
Plain(b)  == {i \in DOMAIN code[b].ins : code[b].ins[i] = "tagged"}
Todo      == {b \in DOMAIN code : code[b].term.tag \/ Plain(b) # {}}
Site      == CHOOSE b \in Todo : \A d \in Todo : b <= d
Wrapping  == pc = "place" /\ mode = "sites" /\ Todo # {}

Around(ins, i) == SubSeq(ins, 1, i - 1) \o <<"enter", "wrapped", "exit">> \o SubSeq(ins, i + 1, Len(ins))

WrapCall ==
  /\ Wrapping /\ Plain(Site) # {}
  /\ LET i == CHOOSE i \in Plain(Site) : \A j \in Plain(Site) : i <= j
     IN  code' = [code EXCEPT ![Site].ins = Around(@, i)]
  /\ UNCHANGED <<mode, pc, blk, at, depth>>

\* Mistake: the hook goes before the pad.
WithExitsUnpadded(c, normal, unwind) ==
  InsertPast(InsertPast(c, normal, {"phi"}, "exit"), unwind, {"phi"}, "exit")

\* Exit hooks in both destinations of an invoke, behind phis, and pads in the
\* second.
WithExits(c, normal, unwind) ==
  InsertPast(InsertPast(c, normal, {"phi"}, "exit"), unwind, {"phi", "pad"}, "exit")

WrapInvoke ==
  /\ Wrapping /\ Plain(Site) = {}
  /\ LET to == code[Site].term.to
     IN  code' = [WithExits(InsertLast(code, Site, "enter"), to[1], to[2]) EXCEPT ![Site].term.tag = FALSE]
  /\ UNCHANGED <<mode, pc, blk, at, depth>>

\* All calls are wrapped; a function without any is wrapped as a whole.
Placed == /\ pc = "place" /\ mode = "sites" /\ Todo = {}
          /\ IF \E b \in DOMAIN code : \E i \in DOMAIN code[b].ins : code[b].ins[i] = "enter"
             THEN pc' = "run" /\ UNCHANGED mode
             ELSE mode' = "whole" /\ UNCHANGED pc
          /\ UNCHANGED <<code, blk, at, depth>>
-----------------------------------------------------------------------------
(* The code runs, whatever the pass has made of it.                        *)

Term == code[blk].term
Now  == IF at \in DOMAIN code[blk].ins THEN code[blk].ins[at] ELSE Term.op

Hook == /\ pc = "run" /\ Now \in {"enter", "exit"}
        /\ depth' = depth + (IF Now = "enter" THEN 1 ELSE -1)
        /\ depth' \in -MaxDepth .. MaxDepth
        /\ at' = at + 1
        /\ UNCHANGED <<code, mode, pc, blk>>

Step == /\ pc = "run" /\ Now \in Calls \cup {"phi", "pad"}
        /\ at' = at + 1
        /\ UNCHANGED <<code, mode, pc, blk, depth>>

\* A call, as opposed to an invoke, throws: the exception goes to the caller.
Throw == /\ pc = "run" /\ Now \in Calls
         /\ pc' = "unwound"
         /\ UNCHANGED <<code, mode, blk, at, depth>>

Leave == /\ pc = "run" /\ Now \in {"ret", "resume", "cleanupret"}
         /\ Term.to = <<>>
         /\ pc' = "left"
         /\ UNCHANGED <<code, mode, blk, at, depth>>

Go == /\ pc = "run" /\ Now \in Ops
      /\ blk' \in {Term.to[i] : i \in DOMAIN Term.to}
      /\ at' = 1
      /\ UNCHANGED <<code, mode, pc, depth>>

-----------------------------------------------------------------------------
\* An invoke between hooks; one that alone leads to its two destinations.
Hooked(b)    == code[b].term.op = "invoke" /\ code[b].ins # <<>> /\ Last(code[b].ins) = "enter"
Dedicated(b) == \A a, d \in DOMAIN code : Edge(code, a, d) /\ Edge(code, b, d) => a = b

\* The code is of the shape that the pass has been written for.
Fits == IF mode = "whole"
        THEN \A b \in DOMAIN code : Exits(b) => code[b].term.to = <<>>
        ELSE \A b \in DOMAIN code : Hooked(b) => Dedicated(b)

(***************************************************************************)
(* On every path through the instrumented code, around loops and out of    *)
(* pads, an exit hook comes with each enter hook and after it, before the  *)
(* next one, and before the function is left.                              *)
(***************************************************************************)
Paired == Fits => depth \in {0, 1} /\ (pc = "left" => depth = 0)

(***************************************************************************)
(* The hooks are around what they are meant for: a witness, and in a       *)
(* function that is wrapped whole every call, runs inside; per call site,  *)
(* nothing else does.                                                      *)
(***************************************************************************)
WitnessInside ==
  pc = "run" /\ Fits =>
    LET witness == Now = "wrapped" \/ (Now = "invoke" /\ Hooked(blk))
    IN  Now \in Calls \cup {"invoke"} => (depth = 1 <=> mode = "whole" \/ witness)
-----------------------------------------------------------------------------
(* What the repository says of the hooks and the code does not do.         *)

(***************************************************************************)
(* Comment on wrapCallSite: "we place the exit hook on both the            *)
(* normal-return edge ... and the unwind edge": per call site, a run       *)
(* passes as many exit hooks as enter hooks.                               *)
(***************************************************************************)
OnTheEdges == mode = "sites" => depth \in {0, 1} /\ (pc = "left" => depth = 0)
=============================================================================
