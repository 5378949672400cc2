-------------------------------- MODULE MCSides --------------------------------
(***************************************************************************)
(* Inputs for RTSides, a section for each of its parts.                    *)
(***************************************************************************)
EXTENDS RTSides, Sequences, TLC

CONSTANTS f1, f2, f3, f4
-----------------------------------------------------------------------------
(* Functions of three blocks for RTRegion: every control-flow graph, with  *)
(* markers in every arrangement of a small menu, among them loops that     *)
(* enter more often than they leave.                                       *)

BlockBodies == {<<"other">>, <<"enter", "other">>, <<"other", "exit">>, <<"exit", "other", "enter">>}

MCFunctions == {[body |-> <<a, b, c>>, preds |-> <<{}, p, q>>] :
                  a \in BlockBodies, b \in BlockBodies, c \in BlockBodies, p \in SUBSET (1 .. 3), q \in SUBSET (1 .. 3)}
-----------------------------------------------------------------------------
(* Modules of four functions for RTPoly: f1 calls its first argument, or   *)
(* both; f2 and f3 pass functions to it, each other included; f4 calls f2, *)
(* whose effects the propagation loop has given it.                        *)

MCFuncs == {f1, f2, f3, f4}

Pass(g, a, b) == [callee |-> g, passes |-> 0 :> a @@ 1 :> b]

Bodies(self, other) ==
  {<<>>, <<Pass(f1, "<value>", other)>>, <<Pass(f1, "<declaration>", "<nothing>")>>}
  \cup {<<Pass(f1, a, b)>> : a \in {other, f4}, b \in {"<nothing>", self}}
  \cup {<<Pass(self, "<value>", "<value>"), Pass(f1, a, "<nothing>")>> : a \in {self, other, f4}}

\* The effect of one instruction: the kinds, the heap kind.
Nothing == <<{}, 0>>
Owns    == {Nothing, <<{"Alloc"}, 4>>, <<{"Block"}, 2>>}

Source(f) == <<[fn |-> f, callee |-> "source", kind |-> "external"]>>

Summ(own, ch) == [chain |-> [k \in Kinds |-> IF k \in own[1] THEN ch ELSE <<>>],
                  heap |-> own[2], heapChain |-> IF own[2] = 0 THEN <<>> ELSE ch]

\* f4 has an effect of its own, or one inherited from its call of f2.
MCInputs ==
  {[base  |-> (f1 :> Summ(Nothing, <<>>) @@ f2 :> Summ(o2, Source(f2)) @@ f3 :> Summ(o3, Source(f3))
               @@ f4 :> IF calls THEN Summ(o2, <<[fn |-> f4, callee |-> f2, kind |-> "call"]>> \o Source(f2))
                        ELSE Summ(<<{"Lock"}, 3>>, Source(f4))),
    calls |-> f1 :> <<>> @@ f2 :> b2 @@ f3 :> b3
              @@ f4 :> (IF calls THEN <<Pass(f2, "<nothing>", "<nothing>")>> ELSE <<>>),
    poly  |-> [f \in MCFuncs |-> IF f = f1 THEN args ELSE {}],
    order |-> order] :
     b2 \in Bodies(f2, f3), b3 \in Bodies(f3, f2), o2 \in Owns, o3 \in {Nothing, <<{"Block"}, 2>>},
     calls \in BOOLEAN, args \in {{0}, {0, 1}}, order \in {<<f1, f2, f3, f4>>, <<f4, f3, f2, f1>>}}
-----------------------------------------------------------------------------
(* Summaries with two effects for RTSummaryCodec.  Two fields of a frame   *)
(* hold all strings of up to two characters, the third one all of one;     *)
(* chains have up to two frames.                                           *)

MCChars == {"bs", "bar", "nl", "cr", "p", "n", "a", "0"}

UpTo(n) == UNION {[1 .. i -> MCChars] : i \in 0 .. n}

Fr(x, y, z) == [function |-> x, callee |-> <<"a">>, kind |-> <<>>, file |-> z, line |-> "7", column |-> "0", text |-> y]

Plain == Fr(<<"a">>, <<>>, <<>>)

Chains == {<<>>} \cup {<<Fr(x, y, <<>>)>> : x \in UpTo(2), y \in UpTo(1)}
                 \cup {<<Fr(<<>>, y, z)>> : z \in UpTo(1), y \in UpTo(2)}
                 \cup {<<Plain, Fr(x, <<>>, x)>> : x \in UpTo(2)} \cup {<<Fr(<<>>, x, <<>>), Plain>> : x \in UpTo(2)}

Sum(ch, heapChain, args) ==
  [status |-> Len(args), depth |-> IF ch = <<>> THEN 1 ELSE -1, poly |-> args # <<>>, args |-> args,
   heap |-> IF heapChain = <<>> THEN 0 ELSE 4, heapChain |-> heapChain,
   flags |-> <<ch # <<>>, heapChain # <<>>>>, reasons |-> <<<<"a">>, <<"bar", "nl">>>>,
   chains |-> <<ch, heapChain>>]

MCSummaries == {Sum(ch, <<>>, <<"0", "7">>) : ch \in Chains} \cup {Sum(<<Plain>>, ch, <<>>) : ch \in Chains}
-----------------------------------------------------------------------------
(* Two libraries of up to two functions for RTExport, one of them perhaps  *)
(* with the name of another one, with a table of one or two known          *)
(* functions before or after.                                              *)

Fun(n, effects, heap) == [name |-> n, defined |-> TRUE, effects |-> effects, heap |-> heap]
Extern(n)             == [name |-> n, defined |-> FALSE, effects |-> {}, heap |-> 0]

Exported(n) == {Fun(n, {}, 1), Fun(n, {"Alloc", "Block"}, 3), Fun(n, {"Recurse", "Block"}, 0),
                Fun(n, {"Unknown", "Alloc"}, 4)}

Libs(n, m) == {<<x>> : x \in Exported(n)}
              \cup {<<x, y>> : x \in Exported(n), y \in Exported(m) \cup {Extern("malloc")}}

Known(n) == {[name |-> n, keys |-> k[1], heap |-> k[2]] : k \in {<<{"Alloc"}, 4>>, <<{"Block"}, 0>>}}

Bases == {<<>>} \cup {<<x, y>> : x \in Known("malloc"), y \in Known("malloc")}

MCScenarios ==
  {[libs |-> <<a, b>>, base |-> base, baseLast |-> last] :
     a \in Libs("f", "g"), b \in Libs("h", "f") \cup {<<>>}, base \in Bases, last \in BOOLEAN}
=============================================================================
