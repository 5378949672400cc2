----------------------------- MODULE MCWorklist -----------------------------
(***************************************************************************)
(* Small programs for RTWorklist: three functions, what each calls and has *)
(* directly, the order the module defines them in and the order of their   *)
(* addresses.  The callers on record are the ones that the scan leaves     *)
(* behind: scanning g forgets the callers scanned before g (RTScan).       *)
(***************************************************************************)
EXTENDS RTWorklist, SequencesExt

CONSTANTS f1, f2, f3

MCFuncs == {f1, f2, f3}
MCNames == {"sleep", "malloc", "pool_alloc", "<alloca>", "<recursive-scc>"}

\* The orders of definition: callees first, callers first, and two mixed ones.
Orders == {<<f3, f2, f1>>, <<f1, f2, f3>>, <<f2, f3, f1>>, <<f1, f3, f2>>}

At(seq, f) == CHOOSE i \in DOMAIN seq : seq[i] = f

\* The calls of a program: its direct calls in order, its resolved targets.
HopsOf(calls, targets, addr) ==
  [f \in MCFuncs |->
     [i \in DOMAIN calls[f] |-> [callee |-> calls[f][i], kind |-> "call"]]
     \o LET only == SelectSeq(addr, LAMBDA g : g \in targets[f] \ Range(calls[f]))
        IN  [i \in DOMAIN only |-> [callee |-> only[i], kind |-> "indirect-resolved"]]]

CallersOf(hops, def, addr) ==
  [g \in MCFuncs |->
     SelectSeq(addr, LAMBDA f : /\ \E i \in DOMAIN hops[f] : hops[f][i].callee = g
                                /\ At(def, f) >= At(def, g))]

OnCycle(hops, f) ==
  LET step[n \in 0 .. 3] ==
        IF n = 0 THEN {hops[f][i].callee : i \in DOMAIN hops[f]}
        ELSE step[n-1] \cup UNION {{hops[g][i].callee : i \in DOMAIN hops[g]} : g \in step[n-1]}
  IN  f \in step[3]

Src(f, name, kind) == [fn |-> f, callee |-> name, kind |-> kind]

\* An effect of an instruction: the effect kinds, the heap kind, the name.
Nothing == [kinds |-> {}, heap |-> 0, name |-> "", kind |-> "external"]
Sleep   == [kinds |-> {"Block"}, heap |-> 0, name |-> "sleep", kind |-> "external"]
Malloc  == [kinds |-> {"Alloc"}, heap |-> 4, name |-> "malloc", kind |-> "external"]
Pool    == [kinds |-> {"Alloc"}, heap |-> 3, name |-> "pool_alloc", kind |-> "external"]
Alloca  == [kinds |-> {}, heap |-> 1, name |-> "<alloca>", kind |-> "stack-alloc"]

Direct(f, own, recursive) ==
  LET src   == <<Src(f, own.name, own.kind)>>
      cycle == IF recursive THEN <<Src(f, "<recursive-scc>", "cycle")>> ELSE <<>>
  IN  [chain |-> [k \in Kinds |-> IF k \in own.kinds THEN cycle \o src
                                  ELSE IF k = "Recurse" THEN cycle ELSE <<>>],
       heap |-> own.heap,
       heapChain |-> IF own.heap = 0 THEN <<>> ELSE src]

Input(calls, targets, own, def, addr) ==
  LET hops == HopsOf(calls, targets, addr)
  IN  [hops    |-> hops,
       direct  |-> [f \in MCFuncs |-> Direct(f, own[f], OnCycle(hops, f))],
       callers |-> CallersOf(hops, def, addr),
       order   |-> addr]

Fn(a, b, c) == f1 :> a @@ f2 :> b @@ f3 :> c

\* No recursion: f1 may call f2 and f3, f2 may call f3.
AcyclicInputs ==
  {Input(Fn(c1, c2, <<>>), Fn(t1, t2, {}), Fn(o1, o2, o3), def, addr) :
      c1 \in {<<>>, <<f3>>, <<f3, f2>>, <<f2, f3>>}, c2 \in {<<>>, <<f3>>},
      t1 \in {{}, {f2}, {f3}}, t2 \in {{}, {f3}},
      o1 \in {Nothing, Alloca}, o2 \in {Nothing, Pool}, o3 \in {Malloc, Sleep},
      def \in Orders, addr \in {<<f1, f2, f3>>, <<f3, f1, f2>>}}

\* Recursion through f1, f2 and f3 in all the ways two calls each allow.
CyclicInputs ==
  {Input(Fn(c1, c2, c3), Fn(t1, {}, {}), Fn(o1, o2, o3), def, addr) :
      c1 \in {<<f2>>, <<f1, f3>>, <<f2, f3>>, <<f3, f2>>}, t1 \in {{}, {f1}, {f3}},
      c2 \in {<<f1>>, <<f2, f3>>, <<f3>>}, c3 \in {<<>>, <<f1>>},
      o1 \in {Nothing, Sleep}, o2 \in {Nothing, Alloca}, o3 \in {Malloc, Sleep},
      def \in Orders, addr \in {<<f1, f2, f3>>, <<f3, f2, f1>>}}

\* Recursion in which a call that brings a function's effects comes before
\* the call that leads back to it.
RecursiveInputs ==
  {Input(Fn(c1, c2, <<>>), Fn({}, t2, {}), Fn(o1, o2, o3), def, addr) :
      c1 \in {<<f1>>, <<f2>>, <<f3, f2>>}, c2 \in {<<f1>>, <<f3, f1>>, <<f3, f1, f2>>},
      t2 \in {{}, {f1}}, o1 \in {Nothing, Sleep}, o2 \in {Nothing, Pool}, o3 \in {Malloc, Sleep},
      def \in Orders, addr \in {<<f1, f2, f3>>, <<f3, f2, f1>>}}

MCInputs == AcyclicInputs \cup RecursiveInputs \cup CyclicInputs
=============================================================================
