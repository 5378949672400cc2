------------------------------- MODULE RTMarkings -------------------------------
(***************************************************************************)
(* How a mark on a function of the source becomes a constraint in the IR.  *)
(* In C and C++ the attribute plugin turns it into an annotation.  In Rust *)
(* a macro puts a global next to the function, whose name spells function  *)
(* and constraint; the inference takes these names apart, looks for the    *)
(* functions, and gives them attributes (applyRustAnnotations).            *)
(*                                                                         *)
(* What goes wrong here lies in the names, so they are strings.            *)
(***************************************************************************)
EXTENDS Integers, Sequences, FiniteSets, TLC, SequencesExt

CONSTANT Sources      \* the programs

VARIABLES src,        \* the program
          todo,       \* the marks that the compilers have not seen
          refused,    \* the marks that were a compile error
          notes,      \* annotations: pairs of a symbol and a text
          markers,    \* the names of the globals
          annots,     \* what was found in them and is not applied
          attrs,      \* symbol -> the constraints it has as attributes
          bound,      \* symbol -> the value of the attribute rt_stack_bound
          pc          \* "compile", "apply" or "done"

vars == <<src, todo, refused, notes, markers, annots, attrs, bound, pc>>

-----------------------------------------------------------------------------
(* Strings.                                                                *)

CharsOf(s) == {SubSeq(s, i, i) : i \in 1 .. Len(s)}
Numerals   == CharsOf("0123456789")
IdentChars == CharsOf("_abcdefghijklmnopqrstuvwxyzABCDEFGHIJKLMNOPQRSTUVWXYZ") \cup Numerals

From(s, i) == SubSeq(s, i, Len(s))

\* How many characters precede t, each time that it occurs in s.
Finds(s, t)    == {i \in 0 .. Len(s) - Len(t) : SubSeq(s, i + 1, i + Len(t)) = t}
Has(s, t) == Finds(s, t) # {}
Least(S)       == CHOOSE i \in S : \A j \in S : i <= j
Greatest(S)    == CHOOSE i \in S : \A j \in S : j <= i

\* sanitize_ident
Sanitize(s) == FoldLeft(LAMBDA t, i : t \o (IF SubSeq(s, i, i) \in IdentChars THEN SubSeq(s, i, i) ELSE "_"),
                        "", [i \in 1 .. Len(s) |-> i])

\* The digits that a literal begins with.
Digits(s) == SubSeq(s, 1, Least({i \in 0 .. Len(s) : i = Len(s) \/ SubSeq(s, i + 1, i + 1) \notin Numerals}))
-----------------------------------------------------------------------------
(* Programs.  A function has a name in the source and a symbol in the IR;  *)
(* they differ if the source says so.  A stack bound comes as the literal  *)
(* of the source and as the number that it is: in Rust a natural, in C an  *)
(* expression of some width, its bits read as a natural.                   *)

\* RustAnnotConstraints
Keywords == <<"async_signal_safe", "nonallocating", "nonblocking", "norecurse", "stack_bound", "nothrow", "nolock">>

Mark(x, m) == /\ m.fn \in x.funs
              /\ m.c \in Range(Keywords)
              /\ m.literal \in STRING /\ m.bits \in Nat /\ m.width \in Nat /\ m.unsigned \in BOOLEAN

ASSUME MarkingsAssumption ==
  \A x \in Sources : /\ \A f \in x.funs : f.name \in STRING /\ f.symbol \in STRING /\ f.lang \in {"rust", "c"}
                     /\ \A m \in x.marks : Mark(x, m)

Symbols  == {f.symbol : f \in src.funs}
None     == "none"        \* no value, no keyword

TypeOK == /\ todo \subseteq src.marks /\ refused \subseteq src.marks \ todo
          /\ notes \in SUBSET (Symbols \X STRING)
          /\ markers \subseteq STRING
          /\ \A a \in annots : a.fn \in STRING /\ a.c \in Range(Keywords) /\ a.arg \in STRING
          /\ attrs \in [Symbols -> SUBSET (Range(Keywords) \ {"stack_bound"})]
          /\ bound \in [Symbols -> STRING]
          /\ pc \in {"compile", "apply", "done"}
-----------------------------------------------------------------------------
(* The compilers.                                                          *)

Init == /\ src \in Sources
        /\ todo = src.marks
        /\ refused = {} /\ notes = {} /\ markers = {} /\ annots = {}
        /\ attrs = [s \in Symbols |-> {}]
        /\ bound = [s \in Symbols |-> None]
        /\ pc = "compile"

\* expand: the name of the global for m.
SymbolName(m) == "__rt_annot_" \o Sanitize(m.fn.name) \o "_" \o m.c
                   \o (IF m.c = "stack_bound" THEN "_" \o Digits(m.literal) ELSE "")

Expand(m) == /\ pc = "compile" /\ m.fn.lang = "rust"
             /\ todo' = todo \ {m}
             /\ IF m.c = "stack_bound" /\ Digits(m.literal) = ""
                THEN refused' = refused \cup {m} /\ UNCHANGED markers
                ELSE markers' = markers \cup {SymbolName(m)} /\ UNCHANGED refused
             /\ UNCHANGED <<src, notes, annots, attrs, bound, pc>>

\* getSExtValue
SExtValue(m) == IF m.bits >= 2 ^ (m.width - 1) THEN m.bits - 2 ^ m.width ELSE m.bits

\* handleDeclAttribute of the simple attributes, and of the stack bound.
HandleDeclAttribute(m) ==
  /\ pc = "compile" /\ m.fn.lang = "c"
  /\ todo' = todo \ {m}
  /\ IF m.c = "stack_bound" /\ SExtValue(m) < 0
     THEN refused' = refused \cup {m} /\ UNCHANGED notes
     ELSE /\ notes' = notes \cup {<<m.fn.symbol, "rt_" \o m.c
                                      \o (IF m.c = "stack_bound" THEN "=" \o ToString(SExtValue(m)) ELSE "")>>}
          /\ UNCHANGED refused
  /\ UNCHANGED <<src, markers, annots, attrs, bound, pc>>
-----------------------------------------------------------------------------
(* The inference.                                                          *)

\* What may follow the keyword c: nothing, or the number of a bound.
Acceptable(after, c) ==
  \/ after = ""
  \/ c = "stack_bound" /\ Len(after) > 1 /\ SubSeq(after, 1, 1) = "_" /\ CharsOf(From(after, 2)) \subseteq Numerals

After(rest, c, i) == From(rest, i + Len(c) + 2)

Ends(rest, c) == {i \in Finds(rest, "_" \o c) : Acceptable(After(rest, c, i), c)}

\* Each find is counted from behind the start of the one before it, but the
\* name of the function is cut off with that count at the front.
Parse(rest, c) ==
  LET i      == Least(Ends(rest, c))
      before == {j \in Finds(rest, "_" \o c) : j < i}
      pos    == IF before = {} THEN i ELSE i - (Greatest(before) + 1)
      after  == After(rest, c, i)
  IN  [fn |-> SubSeq(rest, 1, pos), c |-> c, arg |-> From(after, 2)]

\* collectRustAnnotations: the first keyword with a find that is acceptable.
Collected(names) ==
  {LET rest == From(n, Len("__rt_annot_") + 1)
       k    == Least({k \in DOMAIN Keywords : Ends(rest, Keywords[k]) # {}})
   IN  Parse(rest, Keywords[k]) : n \in names}

Collect == /\ pc = "compile" /\ todo = {} /\ refused = {}
           /\ annots' = Collected(markers)
           /\ pc' = "apply"
           /\ UNCHANGED <<src, todo, refused, notes, markers, attrs, bound>>

\* Mistake: some function is taken where several may be meant.
TargetsSome(name) == IF name \in Symbols THEN {name}
                     ELSE {s \in Symbols : Has(s, name) /\ s = CHOOSE r \in Symbols : Has(r, name)}

\* The functions that an annotation for this name may mean.
Targets(name) == IF name \in Symbols THEN {name} ELSE {s \in Symbols : Has(s, name)}

\* Mistake: a bound is installed as any other constraint.
InstallFlat(s, a) == attrs' = [attrs EXCEPT ![s] = @ \cup {a.c}] /\ UNCHANGED bound

Install(s, a) == IF a.c = "stack_bound" THEN bound' = [bound EXCEPT ![s] = a.arg] /\ UNCHANGED attrs
                 ELSE attrs' = [attrs EXCEPT ![s] = @ \cup {a.c}] /\ UNCHANGED bound

\* It is passed over unless there is one, and so is a bound without a number.
Apply(a) == /\ pc = "apply"
            /\ annots' = annots \ {a}
            /\ IF Cardinality(Targets(a.fn)) # 1 \/ (a.c = "stack_bound" /\ a.arg = "")
               THEN UNCHANGED <<attrs, bound>>
               ELSE \E s \in Targets(a.fn) : Install(s, a)
            /\ UNCHANGED <<src, todo, refused, notes, markers, pc>>

Finish == /\ pc = "apply" /\ annots = {}
          /\ pc' = "done"
          /\ UNCHANGED <<src, todo, refused, notes, markers, annots, attrs, bound>>

Next == \/ \E m \in todo : Expand(m) \/ HandleDeclAttribute(m)
        \/ Collect
        \/ \E a \in annots : Apply(a)
        \/ Finish

Spec == Init /\ [][Next]_vars
-----------------------------------------------------------------------------
RustMarks == {m \in src.marks : m.fn.lang = "rust"}

\* The function has the mark in the IR, with its number if it is a bound.
Carries(s, m) == IF m.c = "stack_bound" THEN bound[s] = ToString(m.bits) ELSE m.c \in attrs[s]

Bounds(f) == {m \in RustMarks : m.c = "stack_bound" /\ m.fn = f}

Bare(m) == ~Has(m.fn.name, "_" \o m.c) /\ Digits(m.literal) = m.literal

(***************************************************************************)
(* If the functions are linked under their names, no name contains a       *)
(* constraint that its function is marked with, and the bounds are digits, *)
(* every function has what it is marked with: nothing is lost, and nothing *)
(* comes from a function with a longer or a shorter name.  Of several      *)
(* bounds one remains.                                                     *)
(***************************************************************************)
ExactWhenPlain ==
  pc = "done" /\ (\A m \in RustMarks : Bare(m) /\ m.fn.name = m.fn.symbol) =>
    \A f \in src.funs :
      /\ attrs[f.symbol] = {m.c : m \in {m \in RustMarks : m.fn = f}} \ {"stack_bound"}
      /\ IF Bounds(f) = {} THEN bound[f.symbol] = None ELSE \E m \in Bounds(f) : Carries(f.symbol, m)

(***************************************************************************)
(* A marked function that is linked under a longer symbol has its mark if  *)
(* no other symbol contains the name.  If another one does, none of the    *)
(* two takes it from there.                                                *)
(***************************************************************************)
FoundWhenMangled ==
  pc = "done" =>
    \A m \in RustMarks :
      Bare(m) /\ m.fn.name \notin Symbols /\ Has(m.fn.symbol, m.fn.name) /\ m.c # "stack_bound" =>
        LET like == {s \in Symbols : Has(s, m.fn.name)}
        IN  IF like = {m.fn.symbol} THEN m.c \in attrs[m.fn.symbol]
            ELSE \A s \in like : m.c \in attrs[s] =>
                   \E n \in RustMarks \ {m} : n.c = m.c /\ Has(s, n.fn.name)

\* The number that a bound in C is.
Meant(m) == IF m.unsigned \/ m.bits < 2 ^ (m.width - 1) THEN m.bits ELSE m.bits - 2 ^ m.width

(***************************************************************************)
(* A stack bound in C is taken over as the number that it is, or refused;  *)
(* it is refused if it is negative, or uses the highest bit of its type.   *)
(***************************************************************************)
BoundInCKept ==
  \A m \in src.marks \ todo : m.fn.lang = "c" /\ m.c = "stack_bound" =>
    IF Meant(m) \in 0 .. 2 ^ (m.width - 1) - 1
    THEN m \notin refused /\ <<m.fn.symbol, "rt_stack_bound=" \o ToString(Meant(m))>> \in notes
    ELSE m \in refused

(***************************************************************************)
(* A mark in the source is a constraint of its function in the IR, and of  *)
(* no other function: exactly if Rust functions are linked under names     *)
(* that do not contain the constraint; under a longer symbol if it is the  *)
(* only one with the name in it; and a bound in C keeps its number, or is  *)
(* refused.                                                                *)
(***************************************************************************)
MarksArrive == ExactWhenPlain /\ FoundWhenMangled /\ BoundInCKept
=============================================================================
