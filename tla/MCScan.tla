-------------------------------- MODULE MCScan --------------------------------
(***************************************************************************)
(* Modules of two functions for RTScan: f1 consists of up to three         *)
(* instructions of every sort, f2 of a few, in both orders of definition;  *)
(* f2 and two declarations have their address taken.                       *)
(***************************************************************************)
EXTENDS RTScan, TLC

CONSTANTS f1, f2

MCFuncs     == {f1, f2}
MCExternals == {"malloc", "mutex", "throw", "library", "declared"}
MCNames     == MCExternals \cup Places

Plain == [op |-> "plain", scope |-> TRUE, global |-> FALSE, invoke |-> FALSE,
          callee |-> "<indirect>", sig |-> "none", arg |-> 0]

Op(op)       == [Plain EXCEPT !.op = op]
Call(g)      == [Plain EXCEPT !.op = "call", !.callee = g]
Pointer(sig) == [Plain EXCEPT !.op = "pointer", !.sig = sig]
Argument(n)  == [Plain EXCEPT !.op = "argument", !.arg = n]
Global(i)    == [i EXCEPT !.global = TRUE]
Invoke(i)    == [i EXCEPT !.invoke = TRUE]
Outside(i)   == [i EXCEPT !.scope = FALSE]

Menu == {Op("alloca"), Global(Plain), Invoke(Op("ignored")),
         Call("malloc"), Global(Call("mutex")), Invoke(Call("malloc")), Outside(Call("malloc")),
         Call("throw"), Call("library"), Invoke(Call("library")),
         Call(f1), Call(f2), Outside(Call(f2)),
         Pointer("void()"), Pointer("int()"), Pointer("none"), Invoke(Pointer("none")),
         Argument(0), Argument(1)}

UpTo(n, S) == UNION {[1 .. i -> S] : i \in 0 .. n}

Second == {<<>>, <<Call(f1)>>, <<Argument(1), Call("library")>>, <<Pointer("void()")>>}

Entry(kinds, heap) == [kinds |-> kinds, heap |-> heap]

MCModule(b1, b2, order, addr) ==
  [body     |-> f1 :> b1 @@ f2 :> b2,
   order    |-> order,
   addr     |-> addr,
   known    |-> {"malloc", "mutex"},
   info     |-> [g \in Callables |-> IF g = "malloc" THEN Entry({"Alloc"}, 4) ELSE Entry({"Lock"}, 4)],
   taken    |-> {f2, "library", "declared"},
   sig      |-> [g \in Callables |-> IF g \in {f2, "library"} THEN "void()" ELSE "int()"],
   nounwind |-> {"malloc", f2}]

MCPrograms == {MCModule(b1, b2, order, <<f1, f2>>) :
                 b1 \in UpTo(3, Menu), b2 \in Second, order \in {<<f1, f2>>, <<f2, f1>>}}
=============================================================================
