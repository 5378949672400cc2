------------------------------- MODULE MCMarkings -------------------------------
(***************************************************************************)
(* Programs for RTMarkings, of three functions: names one of which is part *)
(* of another, names with a constraint in them, mangled symbols, and a     *)
(* function in C; each program with one to three marks.                    *)
(***************************************************************************)
EXTENDS RTMarkings
-----------------------------------------------------------------------------

Constraints == {"async_signal_safe", "nonallocating", "nonblocking", "norecurse", "nothrow", "nolock"}

Fn(lang, name, symbol) == [lang |-> lang, name |-> name, symbol |-> symbol]
Rust(name) == Fn("rust", name, name)
CFn(name)  == Fn("c", name, name)

M(f, c)            == [fn |-> f, c |-> c, literal |-> "", bits |-> 0, width |-> 1, unsigned |-> FALSE]
RustBound(f, l, n) == [M(f, "stack_bound") EXCEPT !.literal = l, !.bits = n]
CBound(f, n, w, u) == [M(f, "stack_bound") EXCEPT !.bits = n, !.width = w, !.unsigned = u]

Up3(S) == {T \in SUBSET S : Cardinality(T) \in 1 .. 3}

Programs(funs, possible) == {[funs |-> funs, marks |-> T] : T \in Up3(possible)}

\* Rust functions with all kinds of marks on them.
OfRust(names) ==
  LET funs == {Rust(n) : n \in names}
  IN  Programs(funs, {M(f, c) : f \in funs, c \in {"nolock", "nonblocking"}}
                     \cup {RustBound(f, "8", 8) : f \in funs} \cup {RustBound(f, "16", 16) : f \in funs})

Plain   == OfRust({"mix", "mixer", "remix"})
Named   == OfRust({"f", "f_nolock", "f_nolock_x"})
Bounded == OfRust({"mix", "mix_stack_bound", "mix_stack_bound_4"})
All7    == LET f == Rust("tick") IN Programs({f, Rust("tick_nothrow")},
             {M(f, c) : c \in Constraints} \cup {RustBound(f, "64", 64)})

Mangled(s1, s2) == LET f == Fn("rust", "mix", s1)
                       g == Fn("rust", "gain", s2)
                   IN  Programs({f, g, CFn("run_mix"), CFn("tune")},
                                {M(f, "nolock"), M(f, "nothrow"), M(g, "nolock"), M(g, "nothrow")})
                       \cup Programs({f, g, CFn("tune")}, {M(f, "nolock"), M(g, "nolock"), M(g, "nothrow")})

InC == LET f == CFn("cb")
       IN  Programs({f, Rust("cb2")},
                    {M(f, "nolock"), M(Rust("cb2"), "nolock")} \cup
                    {CBound(f, n, w, u) : n \in {0, 1, 6, 7}, w \in {3, 4}, u \in BOOLEAN})

MCSources == Plain \cup Named \cup Bounded \cup All7 \cup InC
             \cup Mangled("_ZN3dsp3mixE", "_ZN3dsp4gainE") \cup Mangled("mix", "_ZN4gainE")
             \cup Mangled("_ZN3mixE", "_ZN8gain_mixE")
=============================================================================
