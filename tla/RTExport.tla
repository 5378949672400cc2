------------------------------- MODULE RTExport -------------------------------
(***************************************************************************)
(* Cross-module analysis: libraries are analysed one after another, the    *)
(* inference exports a summary of every function they define, the exports  *)
(* are put together with a table of known functions, and the inference of  *)
(* a further module loads that file and looks its callees up.              *)
(*                                                                         *)
(* A library is a sequence of its functions: name, whether it is a         *)
(* declaration or a region marker, and the summary that the inference has  *)
(* written for it: its effects and its heap kind.  A file is a sequence of *)
(* entries: name, the keys set to true, heap kind.                         *)
(***************************************************************************)
EXTENDS Naturals, Sequences

CONSTANTS Kinds,       \* the effect kinds in use, of AllKinds
          Symbols,     \* the names of functions
          Scenarios    \* what is put together: [libs, base, baseLast]

AllKinds   == {"Block", "Alloc", "Throw", "Lock", "Recurse", "SignalUnsafe", "Unknown"}
HeapKinds  == 0 .. 4      \* None, Stack, Global, RTHeap, NormalHeap
NormalHeap == 4

VARIABLES scenario,    \* the one at hand
          lib, at,     \* the function to be exported next, and its library
          file,        \* the entries so far
          loading,     \* "unread", "failed" or "read"
          table        \* name -> entry; nothing in it unless it is read

-----------------------------------------------------------------------------
Function == {x \in [name : Symbols, defined : BOOLEAN, effects : SUBSET Kinds, heap : HeapKinds] :
               x.heap = NormalHeap => "Alloc" \in x.effects}

Entry == [name : Symbols, keys : SUBSET Kinds, heap : HeapKinds]

\* The keys that the loader of the table maps; any other one is an error.
Mapped == {"Block", "Alloc", "Throw", "Lock", "SignalUnsafe"}

\* One library or more; and known functions, a table that can be loaded.
Scenario(x) == /\ x.libs \in Seq(Seq(Function)) \ {<<>>}
               /\ x.base \in Seq(Entry)
               /\ \A i \in DOMAIN x.base : x.base[i].keys \subseteq Mapped
               /\ x.baseLast \in BOOLEAN

ExportAssumption == /\ Kinds \subseteq AllKinds /\ "Alloc" \in Kinds
                    /\ \A x \in Scenarios : Scenario(x)

TypeOK == /\ Scenario(scenario)
          /\ lib \in 1 .. Len(scenario.libs) + 1
          /\ at \in Nat \ {0}
          /\ file \in Seq(Entry)
          /\ loading \in {"unread", "failed", "read"}
          /\ \A n \in DOMAIN table : table[n] \in Entry /\ table[n].keys \subseteq Mapped
-----------------------------------------------------------------------------
\* Mistake: the heap kind goes without the key for allocation.
WrittenAlloc(x) == [name |-> x.name, keys |-> x.effects \ {"Unknown", "Alloc"}, heap |-> x.heap]

\* The entry of a function: all effects but Unknown, each under its own key.
Written(x) == [name |-> x.name, keys |-> x.effects \ {"Unknown"}, heap |-> x.heap]

\* The last entry of a name stands.
Latest(es, n) == CHOOSE i \in DOMAIN es : /\ es[i].name = n
                                          /\ \A j \in DOMAIN es : es[j].name = n => j <= i

Entries(es) == [n \in {es[i].name : i \in DOMAIN es} |-> es[Latest(es, n)]]

\* Mistake: an entry with a key that is not known is taken.
LoadableAll(es) == TRUE

Loadable(es) == \A i \in DOMAIN es : es[i].keys \subseteq Mapped

Init == /\ scenario \in Scenarios
        /\ lib = 1 /\ at = 1
        /\ file = IF scenario.baseLast THEN <<>> ELSE scenario.base
        /\ loading = "unread"
        /\ table = <<>>

Exporting == lib <= Len(scenario.libs)
Lib       == scenario.libs[lib]

Export == /\ Exporting /\ at <= Len(Lib)
          /\ file' = IF Lib[at].defined THEN Append(file, Written(Lib[at])) ELSE file
          /\ at' = at + 1
          /\ UNCHANGED <<scenario, lib, loading, table>>

\* The files are put together by hand.
Join == /\ Exporting /\ at > Len(Lib)
        /\ lib' = lib + 1 /\ at' = 1
        /\ file' = IF lib = Len(scenario.libs) /\ scenario.baseLast THEN file \o scenario.base ELSE file
        /\ UNCHANGED <<scenario, loading, table>>

Load == /\ ~Exporting /\ loading = "unread"
        /\ IF Loadable(file) THEN loading' = "read" /\ table' = Entries(file)
                            ELSE loading' = "failed" /\ UNCHANGED table
        /\ UNCHANGED <<scenario, lib, at, file>>

Next == Export \/ Join \/ Load
-----------------------------------------------------------------------------
\* The effects and the heap kind that a call to n brings to its caller there.
Seen(n)     == IF n \in DOMAIN table THEN table[n].keys ELSE {"Unknown"}

HeapSeen(n) == IF n \in DOMAIN table /\ "Alloc" \in table[n].keys THEN table[n].heap ELSE 0

Defined  == UNION {{<<i, j>> : j \in {j \in DOMAIN scenario.libs[i] : scenario.libs[i][j].defined}} :
                     i \in DOMAIN scenario.libs}
Fn(d)    == scenario.libs[d[1]][d[2]]
IsLoaded == loading # "unread"
OneName  == /\ \A d, e \in Defined : Fn(d).name = Fn(e).name => d = e
            /\ \A d \in Defined, i \in DOMAIN scenario.base : Fn(d).name # scenario.base[i].name

(***************************************************************************)
(* Analysis through the export agrees with analysis of the linked modules  *)
(* on every function that is not recursive and reaches nothing unknown: a  *)
(* call brings its effects, no others, and its normal heap; provided that  *)
(* none of the functions put together is recursive and no two of them have *)
(* one name.                                                               *)
(***************************************************************************)
AsIfLinked ==
  IsLoaded /\ OneName /\ (\A d \in Defined : "Recurse" \notin Fn(d).effects) =>
    \A d \in Defined : "Unknown" \notin Fn(d).effects =>
       /\ Seen(Fn(d).name) = Fn(d).effects
       /\ HeapSeen(Fn(d).name) = NormalHeap <=> Fn(d).heap = NormalHeap

(***************************************************************************)
(* Whatever is put together, a function does not lose an effect in silence *)
(* because of another one, unless both have one name: either all of its    *)
(* effects but recursion and the unknown are seen, or Unknown.             *)
(***************************************************************************)
SilentOnlyOnUnknown ==
  IsLoaded /\ OneName =>
    \A d \in Defined : \/ Fn(d).effects \ {"Recurse", "Unknown"} \subseteq Seen(Fn(d).name)
                       \/ "Unknown" \in Seen(Fn(d).name)

(***************************************************************************)
(* A library that is put in front of others or of the known functions does *)
(* not change what is seen of these.                                       *)
(***************************************************************************)
KnownStaysKnown ==
  loading = "read" /\ (\A d \in Defined, i \in DOMAIN scenario.base : Fn(d).name # scenario.base[i].name) =>
    \A i \in DOMAIN scenario.base :
       (\A j \in DOMAIN scenario.base : j > i => scenario.base[j].name # scenario.base[i].name)
       => Seen(scenario.base[i].name) = scenario.base[i].keys
-----------------------------------------------------------------------------
(* What the repository says of the export and the code does not do.        *)

(***************************************************************************)
(* README and the comment in the file: the export is "a table compatible   *)
(* with external_funcs.yaml for cross-module analysis": it can be loaded.  *)
(***************************************************************************)
ExportLoads == loading # "failed"
=============================================================================
