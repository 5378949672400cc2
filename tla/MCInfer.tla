-------------------------------- MODULE MCInfer --------------------------------
(***************************************************************************)
(* Modules of three functions for RTInfer, in two orders of definition and *)
(* two of addresses: f1 has up to two instructions, f2 and f3 one or two   *)
(* that lead back to f1 or to each other; f2 and a declaration have their  *)
(* address taken.  Some modules carry tags from an earlier run.            *)
(***************************************************************************)
EXTENDS RTInfer, TLC

CONSTANTS f1, f2, f3

MCFuncs     == {f1, f2, f3}
MCExternals == {"malloc", "library", "declared"}
MCNames     == MCExternals \cup {"<alloca>", "<global>", "<indirect>", "<indirect call>", "<argument-forward call>",
                                 "<recursive-scc>"}

Plain == [op |-> "plain", scope |-> TRUE, global |-> FALSE, invoke |-> FALSE,
          callee |-> "<indirect>", sig |-> "none", arg |-> 0]

Call(g)      == [Plain EXCEPT !.op = "call", !.callee = g]
Pointer(sig) == [Plain EXCEPT !.op = "pointer", !.sig = sig]
Outside(i)   == [i EXCEPT !.scope = FALSE]
Invoke(i)    == [i EXCEPT !.invoke = TRUE]

Menu == {Call("malloc"), Call(f1), Call(f2), Invoke(Call(f3)), Outside(Call(f2)), Pointer("void()"), Pointer("none")}

UpTo(n, S) == UNION {[1 .. i -> S] : i \in 0 .. n}

Second == {<<>>, <<Call("malloc")>>, <<Call(f3)>>, <<Call(f1), Call("malloc")>>, <<Call(f2), Outside(Call("library"))>>}
Third  == {<<>>, <<Call("library")>>, <<Call(f2)>>, <<Call("malloc"), Call(f1)>>}

\* Every instruction carries the tags in old already.
MCModule(b1, b2, b3, order, addr, old) ==
  [body     |-> f1 :> b1 @@ f2 :> b2 @@ f3 :> b3,
   order    |-> order, addr |-> addr,
   known    |-> {"malloc"},
   info     |-> [g \in Callables |-> [kinds |-> {"Alloc"}, heap |-> 4]],
   taken    |-> {f2, "declared"},
   sig      |-> [g \in Callables |-> IF g \in {f2, "declared"} THEN "void()" ELSE "int()"],
   nounwind |-> {"malloc", f2},
   marked   |-> f1 :> [i \in DOMAIN b1 |-> old] @@ f2 :> [i \in DOMAIN b2 |-> old] @@ f3 :> [i \in DOMAIN b3 |-> old]]

MCPrograms ==
  {MCModule(b1, b2, b3, order, addr, {}) :
      b1 \in UpTo(2, Menu), b2 \in Second, b3 \in Third,
      order \in {<<f3, f2, f1>>, <<f1, f2, f3>>}, addr \in {<<f1, f2, f3>>, <<f3, f1, f2>>}}
  \cup {MCModule(b1, <<Call("malloc")>>, <<Call("library")>>, <<f3, f2, f1>>, <<f1, f2, f3>>, {"Throw"}) :
      b1 \in UpTo(2, Menu)}
=============================================================================
