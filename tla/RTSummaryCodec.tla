----------------------------- MODULE RTSummaryCodec -----------------------------
(***************************************************************************)
(* FunctionEffectSummary::writeToMetadata and readFromMetadata: a summary  *)
(* becomes a list of operands of a metadata node, its chains texts in      *)
(* which frames are lines and fields are separated by bars, and back.      *)
(*                                                                         *)
(* A string is a sequence of characters; "bs", "bar", "nl" and "cr" stand  *)
(* for the backslash, the bar and the two ends of line.  A number in a     *)
(* text is one character, its digits.  An operand is a number or a text.   *)
(***************************************************************************)
EXTENDS Integers, Sequences, FiniteSets, SequencesExt

CONSTANTS Chars,        \* the characters of names, files and instructions
          Digits,       \* the numbers, as characters
          Summaries,    \* the summaries that are written
          KindCount     \* RTE_Count

VARIABLES s,            \* the summary
          version,      \* of the writer: "rt.effect.v3", the present one, or an
                        \* older one, or "none" where no node is attached
          node,         \* the operands
          back,         \* what is read again
          pc            \* "write", "read" or "done"

-----------------------------------------------------------------------------
Versions   == {"rt.effect.v1", "rt.effect.v2", "rt.effect.v3"}
Writers    == Versions \cup {"none"}
Characters == Chars \cup Digits \cup Versions \cup {"bs", "bar", "nl", "cr", "p", "n", "r", "comma"}
String     == Seq(Chars)

Frame == [function : String, callee : String, kind : String, file : String, line : Digits, column : Digits,
          text : String]

Chain == Seq(Frame)

\* Status: 0 is ProvenSafe, 1 Violating.
Unknown == 2

Summary == [status : 0 .. Unknown, depth : Nat \cup {-1}, poly : BOOLEAN, args : Seq(Digits), heap : 0 .. 4,
            heapChain : Chain, flags : [1 .. KindCount -> BOOLEAN], reasons : [1 .. KindCount -> String],
            chains : [1 .. KindCount -> Chain]]

Operand == [number : Int, text : Seq(Characters)]

CodecAssumption == /\ KindCount \in Nat /\ "0" \in Digits
                   /\ {"bar", "bs", "nl", "cr", "comma"} \cap Digits = {}
                   /\ Summaries \subseteq Summary

Number(n) == [number |-> n, text |-> <<>>]
Text(t)   == [number |-> 0, text |-> t]

Default == [status |-> Unknown, depth |-> 1, poly |-> FALSE, args |-> <<>>, heap |-> 0, heapChain |-> <<>>,
            flags |-> [k \in 1 .. KindCount |-> FALSE], reasons |-> [k \in 1 .. KindCount |-> <<>>],
            chains |-> [k \in 1 .. KindCount |-> <<>>]]

TypeOK == /\ s \in Summary /\ back \in Summary
          /\ version \in Writers
          /\ node \in Seq(Operand)
          /\ pc \in {"write", "read", "done"}
-----------------------------------------------------------------------------
(* Texts.                                                                  *)

Escapes == [c \in {"bs", "bar", "nl", "cr"} |->
              CASE c = "bs" -> "bs" [] c = "bar" -> "p" [] c = "nl" -> "n" [] c = "cr" -> "r"]

Escaped(c) == IF c \in DOMAIN Escapes THEN <<"bs", Escapes[c]>> ELSE <<c>>

\* Mistake: the backslash is written as it is.
EscapeSeparators(t) == FlattenSeq([i \in DOMAIN t |-> IF t[i] = "bs" THEN <<"bs">> ELSE Escaped(t[i])])

Escape(t) == FlattenSeq([i \in DOMAIN t |-> Escaped(t[i])])

\* What a character means behind a backslash; any other one itself.
Meant(c) == IF \E e \in DOMAIN Escapes : Escapes[e] = c THEN CHOOSE e \in DOMAIN Escapes : Escapes[e] = c ELSE c

\* What has been read up to a character, and whether a backslash waits for the next one.
Unescape(t) ==
  LET upto[i \in 0 .. Len(t)] ==
        IF i = 0 THEN [out |-> <<>>, open |-> FALSE]
        ELSE IF upto[i-1].open THEN [out |-> Append(upto[i-1].out, Meant(t[i])), open |-> FALSE]
        ELSE IF t[i] = "bs" /\ i < Len(t) THEN [out |-> upto[i-1].out, open |-> TRUE]
        ELSE [out |-> Append(upto[i-1].out, t[i]), open |-> FALSE]
  IN  upto[Len(t)].out

\* ts with the separator c between them.
Join(ts, c) == FlattenSeq([i \in DOMAIN ts |-> IF i = 1 THEN ts[i] ELSE <<c>> \o ts[i]])

\* The j-th of a set of numbers.
Nth(S, j) == CHOOSE i \in S : Cardinality({k \in S : k <= i}) = j

\* The text between separators, empty ones too.
Split(t, c) ==
  LET seps   == {i \in DOMAIN t : t[i] = c}
      pieces == Cardinality(seps) + 1
      end(j) == IF j = pieces THEN Len(t) + 1 ELSE IF j = 0 THEN 0 ELSE Nth(seps, j)
  IN  [j \in 1 .. pieces |-> SubSeq(t, end(j - 1) + 1, end(j) - 1)]

EncodeFrame(fr) ==
  Join(<<Escape(fr.function), Escape(fr.callee), Escape(fr.kind), Escape(fr.file), <<fr.line>>, <<fr.column>>,
         Escape(fr.text)>>, "bar")

EncodeChain(ch) == Join([i \in DOMAIN ch |-> EncodeFrame(ch[i])], "nl")

\* getAsInteger into a field that is 0
NumberIn(t) == IF Len(t) = 1 /\ t[1] \in Digits THEN t[1] ELSE "0"

\* Fields behind the seventh are ignored.
DecodeFrame(l) ==
  LET f == Split(l, "bar")
  IN  [function |-> Unescape(f[1]), callee |-> Unescape(f[2]), kind |-> Unescape(f[3]),
       file |-> Unescape(f[4]), line |-> NumberIn(f[5]), column |-> NumberIn(f[6]), text |-> Unescape(f[7])]

\* Lines with less than seven fields are passed over.
DecodeChain(t) ==
  LET lines == Split(t, "nl")
      used  == {i \in DOMAIN lines : lines[i] # <<>> /\ Len(Split(lines[i], "bar")) >= 7}
  IN  [j \in 1 .. Cardinality(used) |-> DecodeFrame(lines[Nth(used, j)])]

EncodePolyArgs(as) == Join([i \in DOMAIN as |-> <<as[i]>>], "comma")

DecodePolyArgs(t) ==
  LET parts == Split(t, "comma")
      used  == {i \in DOMAIN parts : Len(parts[i]) = 1 /\ parts[i][1] \in Digits}
  IN  [j \in 1 .. Cardinality(used) |-> parts[Nth(used, j)][1]]
-----------------------------------------------------------------------------
(* Nodes.                                                                  *)

Bit(b) == Number(IF b THEN 1 ELSE 0)

\* The operands of the k-th effect.
Effect(x, k) == <<Bit(x.flags[k]), Text(x.reasons[k]), Text(EncodeChain(x.chains[k]))>>

\* Version 2 had no heap kind and chain; before, the layout was another one.
Operands(x) ==
  <<Text(<<version>>), Number(x.status), Number(x.depth), Bit(x.poly), Text(EncodePolyArgs(x.args))>>
    \o (IF version = "rt.effect.v3" THEN <<Number(x.heap), Text(EncodeChain(x.heapChain))>> ELSE <<>>)
    \o [i \in 1 .. 3 * KindCount |-> Effect(x, ((i - 1) \div 3) + 1)[((i - 1) % 3) + 1]]

Written(x) == IF version = "none" THEN <<>> ELSE Operands(x)

\* The first operand of the effects.
First(n) == IF n[1].text # <<"rt.effect.v2">> /\ Len(n) >= 7 THEN 8 ELSE 6

\* All three operands of the k-th effect are there.
Has(n, k)   == First(n) + 3 * (k - 1) + 2 <= Len(n)
At(n, k, j) == n[First(n) + 3 * (k - 1) + j]

ReadNode(n) ==
  IF Len(n) < 5 \/ n[1].text \notin {<<"rt.effect.v3">>, <<"rt.effect.v2">>} THEN Default
  ELSE [status    |-> n[2].number,
        depth     |-> n[3].number,
        poly      |-> n[4].number # 0,
        args      |-> DecodePolyArgs(n[5].text),
        heap      |-> IF First(n) = 8 THEN n[6].number ELSE 0,
        heapChain |-> IF First(n) = 8 THEN DecodeChain(n[7].text) ELSE <<>>,
        flags     |-> [k \in 1 .. KindCount |-> Has(n, k) /\ At(n, k, 0).number # 0],
        reasons   |-> [k \in 1 .. KindCount |-> IF Has(n, k) THEN At(n, k, 1).text ELSE <<>>],
        chains    |-> [k \in 1 .. KindCount |-> IF Has(n, k) THEN DecodeChain(At(n, k, 2).text) ELSE <<>>]]

Init == /\ s \in Summaries
        /\ version \in Writers
        /\ node = <<>>
        /\ back = Default
        /\ pc = "write"

Write == /\ pc = "write"
         /\ node' = Written(s)
         /\ pc' = "read"
         /\ UNCHANGED <<s, version, back>>

Read == /\ pc = "read"
        /\ back' = ReadNode(node)
        /\ pc' = "done"
        /\ UNCHANGED <<s, version, node>>

Next == Write \/ Read
-----------------------------------------------------------------------------
(***************************************************************************)
(* What the constraint check and the placement pass read is what the       *)
(* inference has written, whatever characters names, files and             *)
(* instructions consist of.                                                *)
(***************************************************************************)
RoundTrip == pc = "done" /\ version = "rt.effect.v3" => back = s

(***************************************************************************)
(* A node of version 2 is read without a heap kind but otherwise in full.  *)
(* Of an older one, or where there is none, no effect is believed, and not *)
(* that the function is safe either: its status is unknown.                *)
(***************************************************************************)
OlderVersions ==
  /\ pc = "done" /\ version = "rt.effect.v2" => back = [s EXCEPT !.heap = 0, !.heapChain = <<>>]
  /\ pc = "done" /\ version \in {"rt.effect.v1", "none"} =>
       /\ back.status = 2 /\ back.depth = 1
       /\ ~back.poly /\ back.args = <<>>
       /\ back.heap = 0 /\ back.heapChain = <<>>
       /\ \A k \in 1 .. KindCount : ~back.flags[k] /\ back.reasons[k] = <<>> /\ back.chains[k] = <<>>
=============================================================================
