-------------------------------- MODULE MCPlace --------------------------------
(***************************************************************************)
(* Modules of two functions for RTPlace.  The tags of f are the ones the   *)
(* inference leaves: a tag for each effect that an instruction or a direct *)
(* call brings, none for what comes through a resolved indirect call.  In  *)
(* further modules the metadata is of any format, with a status that an    *)
(* earlier run of the check has left, and f carries several constraints.   *)
(***************************************************************************)
EXTENDS RTPlace, TLC

CONSTANTS f, g

MCFuncs == {f, g}

Frm(h, c, kind)  == [fn |-> h, callee |-> c, kind |-> kind]
Direct    == <<Frm(f, "source", "external")>>
Called    == <<Frm(f, g, "call"), Frm(g, "source", "external")>>
Resolved  == <<Frm(f, g, "indirect-resolved"), Frm(g, "source", "external")>>

None == [k \in Kinds |-> <<>>]

Of(chain, heap, depth, tags) ==
  [s |-> [chain |-> chain, heap |-> heap, depth |-> depth, status |-> "Unknown"], tags |-> tags]

\* Summaries with their tags.
Inferred ==
  {Of(None, 0, 1, <<>>), Of(None, 1, 4, <<>>),
   Of([None EXCEPT !["Alloc"] = Direct], 4, 1, <<{"Alloc"}>>),
   Of([None EXCEPT !["Alloc"] = Direct], 3, 1, <<{"Alloc"}>>),
   Of([None EXCEPT !["Unknown"] = Called], 0, 2, <<{"Unknown"}>>),
   Of([None EXCEPT !["Block"] = Called, !["Unknown"] = Direct], 0, 2, <<{"Unknown"}, {"Block"}>>),
   Of([None EXCEPT !["Block"] = Resolved], 0, 2, <<>>),
   Of([None EXCEPT !["Block"] = Resolved, !["Alloc"] = Direct], 3, 2, <<{"Alloc"}>>),
   Of([None EXCEPT !["Recurse"] = <<Frm(f, "<recursive-scc>", "cycle")>>], 0, -1, <<>>)}

Note(marks, bound) == [marks |-> marks, bound |-> bound]

\* Attributes, value and presence of rt_stack_bound, prefixed, annotations.
Asked == {<<a, v, b, p, n>> \in
            {{}, {"nonblocking"}, {"nonallocating", "norecurse"}} \X {{}, {3}} \X BOOLEAN \X BOOLEAN
              \X {<<>>, <<Note({"nonallocating"}, {})>>, <<Note({}, {2})>>, <<Note({}, {}), Note({"nonblocking"}, {})>>} :
            v # {} => b}

Pair(x, y) == f :> x @@ g :> y

Made(s, q, form, other, order, tags, h) ==
  [order |-> order, attrs |-> Pair(q[1], {"nonblocking"}), value |-> Pair(q[2], {}),
   bounded |-> Pair(q[3], FALSE), prefixed |-> Pair(q[4], FALSE), notes |-> Pair(q[5], <<>>),
   format |-> Pair(form, "v3"), meta |-> Pair(s, other), tags |-> Pair(tags, <<>>), hook |-> Pair(FALSE, h)]

Orders == {<<f, g>>, <<g, f>>}
Quiet  == Of(None, 0, 1, <<>>).s

\* What is found in the metadata of an earlier run, or of none.
Found == {[Quiet EXCEPT !.status = "ProvenSafe", !.depth = 5],
          [chain |-> [None EXCEPT !["Alloc"] = Direct, !["Unknown"] = Called], heap |-> 4, depth |-> 2, status |-> "ProvenSafe"],
          [chain |-> [None EXCEPT !["Recurse"] = <<Frm(f, "<recursive-scc>", "cycle")>>, !["Lock"] = Direct],
           heap |-> 0, depth |-> -1, status |-> "Violating"]}

\* Several constraints, and several bounds.
AskedMore == {<<a, v, v # {}, FALSE, n>> :
                a \in {{}, {"nonallocating"}, {"norecurse", "nolock"}}, v \in {{}, {-5}},
                n \in {<<>>, <<Note({"nonallocating"}, {})>>, <<Note({}, {}), Note({}, {2}), Note({"nolock"}, {9})>>}}

MCModules ==
  {Made(i.s, q, "v3", Quiet, order, i.tags, h) : i \in Inferred, q \in Asked, order \in Orders, h \in BOOLEAN}
  \cup {Made(s, q, form, [Quiet EXCEPT !.chain["Block"] = <<Frm(g, "source", "external")>>], order, <<>>, FALSE) :
           s \in Found, q \in AskedMore, form \in {"v3", "v2", "older", "none"}, order \in Orders}
=============================================================================
