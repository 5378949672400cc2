------------------------------- MODULE MCRuntime -------------------------------
(***************************************************************************)
(* Functions of five blocks for RTRuntime: an entry, a normal destination  *)
(* that may be a loop, two pads, and a last block.  The second invoke may  *)
(* share the pad of the first one, the pads may share the last block with  *)
(* the normal way out.  Blocks that cannot be reached do not vary.  Each   *)
(* function runs alone, and some run beside another thread and a reset.    *)
(***************************************************************************)
EXTENDS RTRuntime, Sequences

CONSTANTS t1, t2, r1

Op(op, to)      == [op |-> op, tag |-> FALSE, to |-> to]
Invoke(tag, to) == [op |-> "invoke", tag |-> tag, to |-> to]
B(ins, term)    == [ins |-> ins, term |-> term]

Entries == {B(ins, t) : ins \in {<<>>, <<"call", "tagged">>},
                        t \in {Op("ret", <<>>), Op("br", <<2, 5>>), Invoke(TRUE, <<2, 3>>), Invoke(FALSE, <<2, 3>>)}}

Middle  == B(<<"phi">>, Op("ret", <<>>))
Middles == {Middle} \cup
           {B(ins, t) : ins \in {<<"call">>, <<"phi", "tagged", "tagged">>},
                        t \in {Op("br", <<2, 5>>), Invoke(TRUE, <<5, 4>>), Invoke(TRUE, <<5, 3>>), Invoke(FALSE, <<2, 4>>)}}

Pad  == B(<<"pad">>, Op("resume", <<>>))
Pads == {Pad} \cup
        {B(ins, t) : ins \in {<<"pad">>, <<"phi", "pad", "call">>},
                     t \in {Op("br", <<5>>), Op("catchret", <<5>>), Op("cleanupret", <<>>), Op("cleanupret", <<4>>)}}

Others == {Pad, B(<<"pad", "tagged">>, Op("br", <<5>>))}

End  == B(<<"phi">>, Op("ret", <<>>))
Ends == {End, B(<<>>, Op("br", <<2>>)), B(<<"call">>, Op("unreachable", <<>>))}

Usual == <<{}, {Middle}, {Pad}, {Pad}, {End}>>

Reached(c) ==
  LET r[n \in 0 .. 4] == IF n = 0 THEN {1}
        ELSE r[n-1] \cup UNION {{c[b].term.to[i] : i \in DOMAIN c[b].term.to} : b \in r[n-1]}
  IN  r[4]

MCCode == {c \in {<<e, m, p, o, x>> : e \in Entries, m \in Middles, p \in Pads, o \in Others, x \in Ends} :
             Hooks!Valid(c) /\ \A b \in 2 .. 5 : b \in Reached(c) \/ c[b] \in Usual[b]}

\* An invoke with its pad, a loop around calls, a shared destination.
Few == {c \in MCCode : /\ c[3] \in {Pad, B(<<"pad">>, Op("br", <<5>>))} /\ c[4] = Pad
                       /\ c[1].ins = <<>> /\ c[2].ins # <<"call">> /\ c[5] = End}

MCScenes == {[code |-> c, others |-> {}, resetters |-> {}] : c \in MCCode}
            \cup {[code |-> c, others |-> {t2}, resetters |-> {r1}] : c \in Few}
=============================================================================
