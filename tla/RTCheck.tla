-------------------------------- MODULE RTCheck --------------------------------
(***************************************************************************)
(* RTConstraintCheckPass::run: the functions of a module one by one, each  *)
(* against the constraints it carries; a diagnostic for each one that is   *)
(* not met, and a status that the placement pass reads.                    *)
(*                                                                         *)
(* A function carries constraints as attributes or in annotation strings,  *)
(* a string being what can be found in it: constraints, and the number     *)
(* after "rt_stack_bound=", if there is one that fits into an int.  What   *)
(* the metadata says is a summary in some format, or nothing.              *)
(***************************************************************************)
EXTENDS Integers, Sequences

CONSTANTS Funcs,      \* the functions with a body
          Names,      \* what frames name beside them
          Modules     \* the modules that are checked

VARIABLES in,         \* the module
          pos,        \* the function at hand: a position in in.order
          at,         \* the entry of Map at hand; then the bound, then the verdict
          hasAny,     \* HasAnyConstraint
          violated,   \* AnyViolation
          status,     \* function -> the status in its metadata
          diags,      \* the diagnostics, in order
          violations, unknowns    \* the totals of the last line

checkVars == <<in, pos, at, hasAny, violated, status, diags, violations, unknowns>>
-----------------------------------------------------------------------------
Map == << <<"nonblocking", "Block">>, <<"nonallocating", "Alloc">>, <<"nothrow", "Throw">>,
          <<"nolock", "Lock">>, <<"norecurse", "Recurse">>, <<"async_signal_safe", "SignalUnsafe">> >>

Constraints == {Map[i][1] : i \in DOMAIN Map}
Kinds       == {Map[i][2] : i \in DOMAIN Map} \cup {"Unknown"}
Statuses    == {"ProvenSafe", "Violating", "Unknown"}
Frame       == [fn : Funcs, callee : Funcs \cup Names, kind : STRING]

NormalHeap == 4

Annotation == [marks : SUBSET Constraints, bound : SUBSET Nat]

Summary == [chain : [Kinds -> Seq(Frame)], heap : 0 .. NormalHeap,
            depth : Nat \cup {-1}, status : Statuses]

\* attrs: its attributes; value: the number in the attribute rt_stack_bound,
\* if it has the attribute and the value is a number.
Checked(x) == /\ x.order \in Seq(Funcs)
              /\ \A f \in Funcs : \E i \in DOMAIN x.order : x.order[i] = f
              /\ \A i, j \in DOMAIN x.order : x.order[i] = x.order[j] => i = j
              /\ x.attrs \in [Funcs -> SUBSET Constraints]
              /\ x.value \in [Funcs -> SUBSET Int]
              /\ x.notes \in [Funcs -> Seq(Annotation)]
              /\ x.format \in [Funcs -> {"none", "v2", "v3", "older"}]
              /\ x.meta \in [Funcs -> Summary]

ASSUME ModulesAssumption == \A x \in Modules : Checked(x)

Diag == [fn : Funcs, sort : {"direct", "transitive", "Unknown"},
         constraint : Constraints \cup {"stackbound", "rt"}]

CheckTypeOK == /\ Checked(in)
               /\ pos \in 1 .. Len(in.order) + 1
               /\ at \in 1 .. Len(Map) + 2
               /\ hasAny \in BOOLEAN /\ violated \in BOOLEAN
               /\ status \in [Funcs -> Statuses]
               /\ diags \in Seq(Diag)
               /\ violations \in Nat /\ unknowns \in Nat
-----------------------------------------------------------------------------
Default == [chain |-> [k \in Kinds |-> <<>>], heap |-> 0, depth |-> 1, status |-> "Unknown"]

\* readFromMetadata: version 2 has no heap kind, other versions are not read.
Read(f) == CASE in.format[f] = "v3" -> in.meta[f]
             [] in.format[f] = "v2" -> [in.meta[f] EXCEPT !.heap = 0]
             [] OTHER               -> Default

HasConstraint(f, c) == c \in in.attrs[f] \/ \E i \in DOMAIN in.notes[f] : c \in in.notes[f][i].marks

First(S) == CHOOSE i \in S : \A j \in S : i <= j

\* parseStackBound: the attribute, or else the first annotation with a number.
StackBound(f) ==
  LET noted == {i \in DOMAIN in.notes[f] : in.notes[f][i].bound # {}}
  IN  IF in.value[f] # {} THEN CHOOSE n \in in.value[f] : TRUE
      ELSE IF noted # {} THEN CHOOSE n \in in.notes[f][First(noted)].bound : TRUE
      ELSE -1

Violates(s, k) == s.chain[k] # <<>> /\ (k = "Alloc" => s.heap = NormalHeap)

TooDeep(s, n) == s.depth = -1 \/ s.depth > n

\* classifyChain
Classify(f, ch) == IF ch # <<>> /\ ch[1].fn = f /\ Len(ch) = 1 THEN "direct" ELSE "transitive"

CheckInit == /\ in \in Modules
             /\ pos = 1
             /\ at = 1
             /\ hasAny = FALSE /\ violated = FALSE
             /\ status = [f \in Funcs |-> Read(f).status]
             /\ diags = <<>>
             /\ violations = 0 /\ unknowns = 0

CheckOver == pos > Len(in.order)
Cur       == in.order[pos]

Report(sort, c) == diags' = Append(diags, [fn |-> Cur, sort |-> sort, constraint |-> c])

\* Entry number `at` of the map is not asked for, is met, or is violated.
CheckEffect ==
  /\ ~CheckOver
  /\ at <= Len(Map)
  /\ at' = at + 1
  /\ LET c   == Map[at][1]
         k   == Map[at][2]
         bad == HasConstraint(Cur, c) /\ Violates(Read(Cur), k)
     IN  /\ hasAny' = (hasAny \/ HasConstraint(Cur, c))
         /\ violated' = (violated \/ bad)
         /\ violations' = violations + (IF bad THEN 1 ELSE 0)
         /\ IF bad THEN Report(Classify(Cur, Read(Cur).chain[k]), c) ELSE UNCHANGED diags
  /\ UNCHANGED <<in, pos, status, unknowns>>

CheckBound ==
  /\ ~CheckOver
  /\ at = Len(Map) + 1
  /\ at' = at + 1
  /\ LET n   == StackBound(Cur)
         bad == n >= 0 /\ TooDeep(Read(Cur), n)
     IN  /\ hasAny' = (hasAny \/ n >= 0)
         /\ violated' = (violated \/ bad)
         /\ violations' = violations + (IF bad THEN 1 ELSE 0)
         /\ IF bad THEN Report(IF Read(Cur).depth = -1 THEN "Unknown" ELSE "direct", "stackbound")
            ELSE UNCHANGED diags
  /\ UNCHANGED <<in, pos, status, unknowns>>

\* Mistakes: always the first of the map; the effect in the constraint's place.
PickedFirst(f)   == Map[1][1]
PickedSwapped(f) == "unknown-call"

\* The constraint that an unknown call is attributed to.
Picked(f) == LET asked == {i \in DOMAIN Map : HasConstraint(f, Map[i][1])}
             IN  IF asked = {} THEN "rt" ELSE Map[First(asked)][1]

\* Mistake: the status found in the metadata is left.
VerdictStale(f) == IF ~hasAny THEN status[f]
                   ELSE IF violated THEN "Violating"
                   ELSE IF Read(f).chain["Unknown"] # <<>> THEN "Unknown"
                   ELSE "ProvenSafe"

Verdict(f) == IF ~hasAny THEN "Unknown"
              ELSE IF violated THEN "Violating"
              ELSE IF Read(f).chain["Unknown"] # <<>> THEN "Unknown"
              ELSE "ProvenSafe"

\* The status is written, and the next function begins from the start.
Conclude ==
  /\ ~CheckOver
  /\ at = Len(Map) + 2
  /\ status' = [status EXCEPT ![Cur] = Verdict(Cur)]
  /\ IF hasAny /\ Verdict(Cur) = "Unknown"
     THEN unknowns' = unknowns + 1 /\ Report("Unknown", Picked(Cur))
     ELSE UNCHANGED <<unknowns, diags>>
  /\ pos' = pos + 1
  /\ at' = 1
  /\ hasAny' = FALSE
  /\ violated' = FALSE
  /\ UNCHANGED <<in, violations>>

CheckNext == CheckEffect \/ CheckBound \/ Conclude
-----------------------------------------------------------------------------
Judged(f) == \E i \in 1 .. pos - 1 : in.order[i] = f

Demands(f) == {c \in Constraints : HasConstraint(f, c)}
                \cup (IF StackBound(f) >= 0 THEN {"stackbound"} ELSE {})

Unmet(f) ==
  {c \in Demands(f) :
     LET s == Read(f)
     IN  IF c = "stackbound" THEN s.depth = -1 \/ s.depth > StackBound(f)
         ELSE \E i \in DOMAIN Map : /\ Map[i][1] = c
                                    /\ s.chain[Map[i][2]] # <<>>
                                    /\ c = "nonallocating" => s.heap = NormalHeap}

Reports(f) == {i \in DOMAIN diags : diags[i].fn = f}

(***************************************************************************)
(* A function is proven safe exactly when it carries a constraint, meets   *)
(* every one, attribute or annotation, and calls nothing unknown; whatever *)
(* status an earlier run left and whatever the function before it was.     *)
(***************************************************************************)
SafeExactly ==
  \A f \in Funcs : Judged(f) =>
     /\ status[f] = "ProvenSafe" <=> /\ Demands(f) # {}
                                     /\ Unmet(f) = {}
                                     /\ Read(f).chain["Unknown"] = <<>>
     /\ status[f] = "Violating" <=> Unmet(f) # {}

Accounted(f) ==
  LET R == Reports(f)
      named == {diags[i].constraint : i \in R}
  IN  CASE status[f] = "Violating" ->
              /\ named = Unmet(f)
              /\ \A i, j \in R : diags[i].constraint = diags[j].constraint => i = j
        [] status[f] = "Unknown" /\ Demands(f) # {} ->
              /\ \E i \in R : R = {i}
              /\ named \subseteq IF Demands(f) = {"stackbound"} THEN {"rt"}
                                 ELSE Demands(f) \ {"stackbound"}
        [] OTHER -> R = {}

(***************************************************************************)
(* A verdict is explained: there is one diagnostic for each constraint     *)
(* that is not met; an unknown function that carries constraints has one,  *)
(* attributed to a constraint it carries; a safe one has none; and the     *)
(* totals agree with the diagnostics.                                      *)
(***************************************************************************)
Explained ==
  /\ Len(diags) = violations + unknowns
  /\ \A f \in Funcs : Judged(f) => Accounted(f)
=============================================================================
