---------------------------- MODULE RTPlaceProofs ----------------------------
(***************************************************************************)
(* Theorems about RTCheck and RTPlace, for every set of modules: verdicts  *)
(* are exact and explained, and the placement follows them.                *)
(***************************************************************************)
EXTENDS RTPlace, RTInduction, SequenceTheorems

(***************************************************************************)
(* The seven steps of a judgement: the entries of the map, then the bound. *)
(***************************************************************************)
Steps == 1 .. 7
Entry(a) == IF a = 7 THEN "stackbound" ELSE Map[a][1]

Asks(f, a) == IF a = 7 THEN StackBound(f) >= 0 ELSE HasConstraint(f, Map[a][1])

Fails(f, a) == /\ Asks(f, a)
               /\ IF a = 7 THEN TooDeep(Read(f), StackBound(f))
                  ELSE Violates(Read(f), Map[a][2])

\* What the steps before n have found out.
AskedBefore(f, n)  == {Entry(a) : a \in {b \in Steps : b < n /\ Asks(f, b)}}
FailedBefore(f, n) == {Entry(a) : a \in {b \in Steps : b < n /\ Fails(f, b)}}

Named(f) == {diags[i].constraint : i \in Reports(f)}

\* The function at hand: the flags and the diagnostics are those of the
\* steps done so far.
AtHand == \A f \in Funcs, n \in 1 .. 8 : ~CheckOver /\ f = Cur /\ n = at =>
             /\ hasAny <=> AskedBefore(f, n) # {}
             /\ violated <=> FailedBefore(f, n) # {}
             /\ Named(f) = FailedBefore(f, n)
             /\ \A i, j \in Reports(f) : diags[i].constraint = diags[j].constraint => i = j

Ahead == \A f \in Funcs : ~Judged(f) /\ (~CheckOver => f # Cur) => Reports(f) = {}

CheckInv == /\ AtHand
            /\ CheckOver => at = 1
            /\ Ahead
            /\ SafeExactly
            /\ Explained

\* What the placement decides on a function it has gone over.
Placed(f) ==
  LET left == in.hook[f] \/ ~IsRT(f)
      safe == ~left /\ Skippable(f)
  IN  /\ hooks[f] = IF left \/ safe THEN "none" ELSE Scope(f)
      /\ f \in unsanitized <=> safe

GoneOver(f) == \E i \in 1 .. placed : in.order[i] = f

PlaceInv == /\ ~CheckOver => placed = 0
            /\ \A f \in Funcs : IF GoneOver(f) THEN Placed(f)
                               ELSE hooks[f] = "none" /\ f \notin unsanitized
-----------------------------------------------------------------------------
\* The table of constraints and the effects that break them.
LEMMA MapFacts ==
  /\ Len(Map) = 6 /\ DOMAIN Map = 1 .. 6
  /\ \A a \in 1 .. 6 : Map[a][1] \in Constraints /\ Map[a][2] \in Kinds
  /\ \A c \in Constraints : \E a \in 1 .. 6 : Map[a][1] = c
  /\ \A a, b \in 1 .. 6 : Map[a][1] = Map[b][1] => a = b
  /\ \A a \in 1 .. 6 : Map[a][1] = "nonallocating" <=> Map[a][2] = "Alloc"
  /\ "stackbound" \notin Constraints /\ "rt" \notin Constraints
  /\ "Unknown" \in Kinds
<1>1. Len(Map) = 6 /\ DOMAIN Map = 1 .. 6
  BY DEF Map
<1>2. \A a \in 1 .. 6 : Map[a][1] \in Constraints /\ Map[a][2] \in Kinds
  BY <1>1 DEF Constraints, Kinds
<1>3. \A c \in Constraints : \E a \in 1 .. 6 : Map[a][1] = c
  BY <1>1 DEF Constraints
<1>4. /\ Map[1] = <<"nonblocking", "Block">> /\ Map[2] = <<"nonallocating", "Alloc">>
      /\ Map[3] = <<"nothrow", "Throw">> /\ Map[4] = <<"nolock", "Lock">>
      /\ Map[5] = <<"norecurse", "Recurse">> /\ Map[6] = <<"async_signal_safe", "SignalUnsafe">>
  BY DEF Map
<1>5. \A a \in 1 .. 6 : a = 1 \/ a = 2 \/ a = 3 \/ a = 4 \/ a = 5 \/ a = 6
  OBVIOUS
<1>6. \A a, b \in 1 .. 6 : Map[a][1] = Map[b][1] => a = b
  BY <1>4, <1>5
<1>7. \A a \in 1 .. 6 : Map[a][1] = "nonallocating" <=> Map[a][2] = "Alloc"
  BY <1>4, <1>5
<1>8. "stackbound" \notin Constraints /\ "rt" \notin Constraints
  BY <1>1, <1>4, <1>5 DEF Constraints
<1> QED
  BY <1>1, <1>2, <1>3, <1>6, <1>7, <1>8 DEF Kinds

\* Every step of the check is about one constraint of its own.
LEMMA EntryFacts ==
  /\ \A a \in Steps : Entry(a) \in Constraints \cup {"stackbound"}
  /\ \A a, b \in Steps : Entry(a) = Entry(b) => a = b
  /\ \A a \in Steps : Entry(a) = "stackbound" <=> a = 7
<1>1. \A a \in Steps : a # 7 => a \in 1 .. 6
  BY DEF Steps
<1> QED
  BY <1>1, MapFacts DEF Entry

\* First picks a least element.
LEMMA FirstIsFirst ==
  ASSUME NEW n \in Nat, NEW S \in SUBSET (1 .. n), S # {}
  PROVE  First(S) \in S /\ \A j \in S : First(S) <= j
  BY LeastNat, S \in SUBSET Nat DEF First

(***************************************************************************)
(* What is read is a summary, whatever the metadata's format, and a bound  *)
(* is a number.                                                            *)
(***************************************************************************)
LEMMA ReadTypes ==
  ASSUME Checked(in), NEW f \in Funcs
  PROVE  /\ Read(f) \in Summary
         /\ StackBound(f) \in Int
<1>1. in.meta[f] \in Summary
  BY DEF Checked
<1>2. [in.meta[f] EXCEPT !.heap = 0] \in Summary
  BY <1>1 DEF Summary, NormalHeap
<1>3. Default \in Summary
  BY EmptySeq DEF Default, Summary, Statuses, NormalHeap
<1>4. in.format[f] \in {"none", "v2", "v3", "older"}
  BY DEF Checked
<1>5. Read(f) \in Summary
  BY <1>1, <1>2, <1>3, <1>4 DEF Read
<1>6. StackBound(f) \in Int
  <2> DEFINE noted == {i \in DOMAIN in.notes[f] : in.notes[f][i].bound # {}}
  <2>1. CASE in.value[f] # {}
    <3>1. in.value[f] \subseteq Int
      BY DEF Checked
    <3> QED
      BY <2>1, <3>1 DEF StackBound
  <2>2. CASE in.value[f] = {} /\ noted # {}
    <3>1. in.notes[f] \in Seq(Annotation)
      BY DEF Checked
    <3>2. Len(in.notes[f]) \in Nat /\ noted \in SUBSET (1 .. Len(in.notes[f]))
      BY <3>1, LenProperties
    <3>3. First(noted) \in noted
      BY <2>2, <3>2, FirstIsFirst
    <3>4. in.notes[f][First(noted)] \in Annotation
      BY <3>1, <3>2, <3>3, ElementOfSeq
    <3>5. \A a \in Annotation : a.bound \subseteq Int
      BY DEF Annotation
    <3>6. in.notes[f][First(noted)].bound \subseteq Int
      BY <3>4, <3>5
    <3> QED
      BY <2>2, <3>3, <3>6 DEF StackBound
  <2>3. CASE in.value[f] = {} /\ noted = {}
    BY <2>3 DEF StackBound
  <2> QED
    BY <2>1, <2>2, <2>3
<1> QED
  BY <1>5, <1>6

\* The types of what a step of the checker reads.
LEMMA TypesHold ==
  ASSUME CheckTypeOK
  PROVE  /\ Checked(in) /\ in.order \in Seq(Funcs) /\ Len(in.order) \in Nat
         /\ DOMAIN in.order = 1 .. Len(in.order)
         /\ pos \in Nat \ {0} /\ pos <= Len(in.order) + 1
         /\ at \in 1 .. 8
         /\ ~CheckOver => Cur \in Funcs /\ pos \in DOMAIN in.order
         /\ diags \in Seq(Diag) /\ Len(diags) \in Nat /\ DOMAIN diags = 1 .. Len(diags)
<1>1. Checked(in) /\ in.order \in Seq(Funcs) /\ diags \in Seq(Diag)
  BY DEF CheckTypeOK, Checked
<1>2. /\ Len(in.order) \in Nat /\ DOMAIN in.order = 1 .. Len(in.order)
      /\ Len(diags) \in Nat /\ DOMAIN diags = 1 .. Len(diags)
  BY <1>1, LenProperties
<1>3. pos \in 1 .. Len(in.order) + 1 /\ at \in 1 .. 8
  BY MapFacts DEF CheckTypeOK
<1>4. ~CheckOver => pos \in DOMAIN in.order
  BY <1>2, <1>3 DEF CheckOver
<1>5. ~CheckOver => Cur \in Funcs
  BY <1>1, <1>2, <1>4, ElementOfSeq DEF Cur
<1> QED
  BY <1>1, <1>2, <1>3, <1>4, <1>5

(***************************************************************************)
(* A diagnostic goes behind the others.                                    *)
(***************************************************************************)
LEMMA ReportAppends ==
  ASSUME CheckTypeOK, ~CheckOver, NEW sort \in {"direct", "transitive", "Unknown"},
         NEW c \in Constraints \cup {"stackbound", "rt"}, Report(sort, c)
  PROVE  /\ diags' \in Seq(Diag)
         /\ Len(diags') = Len(diags) + 1
         /\ DOMAIN diags' = DOMAIN diags \cup {Len(diags) + 1}
         /\ \A i \in DOMAIN diags : diags'[i] = diags[i]
         /\ diags'[Len(diags) + 1].fn = Cur
         /\ diags'[Len(diags) + 1].constraint = c
<1> DEFINE d == [fn |-> Cur, sort |-> sort, constraint |-> c]
<1>1. d \in Diag
  BY TypesHold DEF Diag
<1>2. diags' = Append(diags, d)
  BY DEF Report
<1>3. d.fn = Cur /\ d.constraint = c
  OBVIOUS
<1> HIDE DEF d
<1>4. diags \in Seq(Diag) /\ Len(diags) \in Nat /\ DOMAIN diags = 1 .. Len(diags)
  BY TypesHold
<1>5. /\ Append(diags, d) \in Seq(Diag)
      /\ Len(Append(diags, d)) = Len(diags) + 1
      /\ \A i \in 1 .. Len(diags) : Append(diags, d)[i] = diags[i]
      /\ Append(diags, d)[Len(diags) + 1] = d
  BY <1>1, <1>4, AppendProperties
<1>6. DOMAIN diags' = 1 .. Len(diags) + 1
  BY <1>2, <1>5, LenProperties
<1>7. diags'[Len(diags) + 1] = d
  BY <1>2, <1>5
<1> QED
  BY <1>2, <1>3, <1>4, <1>5, <1>6, <1>7

(***************************************************************************)
(* The constraints and the failures of a function, step by step.           *)
(***************************************************************************)
LEMMA StepByStep ==
  ASSUME NEW f, NEW a \in Steps
  PROVE  /\ AskedBefore(f, 1) = {} /\ FailedBefore(f, 1) = {}
         /\ AskedBefore(f, a + 1) = AskedBefore(f, a) \cup (IF Asks(f, a) THEN {Entry(a)} ELSE {})
         /\ FailedBefore(f, a + 1) = FailedBefore(f, a) \cup (IF Fails(f, a) THEN {Entry(a)} ELSE {})
         /\ Entry(a) \notin FailedBefore(f, a)
<1>1. \A b \in Steps : b < a + 1 <=> b < a \/ b = a
  BY DEF Steps
<1>2. \A b \in Steps : ~(b < 1)
  BY DEF Steps
<1>3. ~(a < a)
  BY DEF Steps
<1> QED
  BY <1>1, <1>2, <1>3, EntryFacts DEF AskedBefore, FailedBefore

\* After all steps, what was asked and what failed is all that can be.
LEMMA AllSteps ==
  ASSUME Checked(in), NEW f \in Funcs
  PROVE  AskedBefore(f, 8) = Demands(f) /\ FailedBefore(f, 8) = Unmet(f)
<1>1. \A b \in Steps : b < 8 /\ (b = 7 \/ b \in 1 .. 6)
  BY DEF Steps
<1>2. 7 \in Steps /\ 1 .. 6 \subseteq Steps /\ 7 \notin 1 .. 6
  BY DEF Steps
<1>3. AskedBefore(f, 8) = {Map[a][1] : a \in {b \in 1 .. 6 : HasConstraint(f, Map[b][1])}}
                          \cup (IF StackBound(f) >= 0 THEN {"stackbound"} ELSE {})
  BY <1>1, <1>2 DEF AskedBefore, Asks, Entry
<1>4. AskedBefore(f, 8) = Demands(f)
  BY <1>3, MapFacts DEF Demands
<1>5. ASSUME NEW c \in FailedBefore(f, 8) PROVE c \in Unmet(f)
  <2>1. PICK b \in Steps : c = Entry(b) /\ Fails(f, b)
    BY <1>5 DEF FailedBefore
  <2>2. c \in Demands(f)
    BY <2>1, <1>1, <1>4 DEF AskedBefore, Fails
  <2>3. CASE b = 7
    BY <2>1, <2>2, <2>3 DEF Fails, Entry, TooDeep, Unmet
  <2>4. CASE b \in 1 .. 6
    <3>1. c = Map[b][1] /\ Violates(Read(f), Map[b][2]) /\ c # "stackbound"
      BY <2>1, <2>4, <1>2, MapFacts DEF Fails, Entry
    <3> QED
      BY <3>1, <2>2, <2>4, MapFacts DEF Unmet, Violates
  <2> QED
    BY <1>1, <2>3, <2>4
<1>6. ASSUME NEW c \in Unmet(f) PROVE c \in FailedBefore(f, 8)
  <2>1. c \in Demands(f)
    BY <1>6 DEF Unmet
  <2>2. CASE c = "stackbound"
    <3>1. StackBound(f) >= 0
      BY <2>1, <2>2, MapFacts DEF Demands
    <3>2. TooDeep(Read(f), StackBound(f))
      BY <1>6, <2>2 DEF Unmet, TooDeep
    <3>3. Fails(f, 7) /\ Entry(7) = c
      BY <3>1, <3>2, <2>2 DEF Fails, Asks, Entry
    <3> QED
      BY <3>3, <1>1, <1>2 DEF FailedBefore
  <2>3. CASE c # "stackbound"
    <3>1. PICK b \in 1 .. 6 : /\ Map[b][1] = c
                              /\ Read(f).chain[Map[b][2]] # <<>>
                              /\ c = "nonallocating" => Read(f).heap = NormalHeap
      BY <1>6, <2>3, MapFacts DEF Unmet
    <3>2. Violates(Read(f), Map[b][2])
      BY <3>1, MapFacts DEF Violates
    <3>3. HasConstraint(f, Map[b][1])
      BY <2>1, <2>3, <3>1 DEF Demands
    <3>4. Fails(f, b) /\ Entry(b) = c /\ b \in Steps
      BY <3>1, <3>2, <3>3, <1>2 DEF Fails, Asks, Entry
    <3> QED
      BY <3>4, <1>1 DEF FailedBefore
  <2> QED
    BY <2>2, <2>3
<1> QED
  BY <1>4, <1>5, <1>6

(***************************************************************************)
(* The constraint an unknown call is attributed to is one the function     *)
(* carries, or "rt" when all it carries is a bound.                        *)
(***************************************************************************)
LEMMA PickedIsAsked ==
  ASSUME Checked(in), NEW f \in Funcs
  PROVE  /\ Picked(f) \in Constraints \cup {"rt"}
         /\ Demands(f) = {"stackbound"} => Picked(f) = "rt"
         /\ Demands(f) \notin {{}, {"stackbound"}} => Picked(f) \in Demands(f) \ {"stackbound"}
<1> DEFINE asked == {i \in DOMAIN Map : HasConstraint(f, Map[i][1])}
<1>1. CASE asked = {}
  <2>1. \A c \in Constraints : ~HasConstraint(f, c)
    BY <1>1, MapFacts
  <2>2. Demands(f) \subseteq {"stackbound"}
    BY <2>1 DEF Demands
  <2>3. Picked(f) = "rt"
    BY <1>1 DEF Picked
  <2> QED
    BY <2>2, <2>3
<1>2. CASE asked # {}
  <2>1. asked \in SUBSET (1 .. 6)
    BY MapFacts
  <2>2. First(asked) \in asked
    BY <1>2, <2>1, FirstIsFirst
  <2>3. Picked(f) = Map[First(asked)][1]
    BY <1>2 DEF Picked
  <2>4. Picked(f) \in Constraints /\ HasConstraint(f, Picked(f))
    BY <2>1, <2>2, <2>3, MapFacts
  <2>5. Picked(f) \in Demands(f) \ {"stackbound"}
    BY <2>4, MapFacts DEF Demands
  <2> QED
    BY <2>4, <2>5
<1> QED
  BY <1>1, <1>2

(***************************************************************************)
(* The check never changes its input, and with it nothing that is read     *)
(* from it.                                                                *)
(***************************************************************************)
LEMMA InputStays ==
  ASSUME in' = in
  PROVE  /\ Checked(in)' = Checked(in)
         /\ \A f : /\ Read(f)' = Read(f) /\ StackBound(f)' = StackBound(f)
                  /\ Demands(f)' = Demands(f) /\ Unmet(f)' = Unmet(f)
         /\ \A f, n : AskedBefore(f, n)' = AskedBefore(f, n)
         /\ \A f, n : FailedBefore(f, n)' = FailedBefore(f, n)
<1>1. \A f : Read(f)' = Read(f) /\ StackBound(f)' = StackBound(f)
  BY DEF Read, StackBound
<1>2. \A f, c : HasConstraint(f, c)' = HasConstraint(f, c)
  BY DEF HasConstraint
<1>3. \A f : Demands(f)' = Demands(f)
  BY <1>1, <1>2 DEF Demands
<1>4. \A f : Unmet(f)' = Unmet(f)
  BY <1>1, <1>3 DEF Unmet
<1>5. \A f, a : Asks(f, a)' = Asks(f, a)
  BY <1>1, <1>2 DEF Asks
<1>6. \A f, a : Fails(f, a)' = Fails(f, a)
  BY <1>1, <1>5 DEF Fails
<1> QED
  BY <1>1, <1>3, <1>4, <1>5, <1>6 DEF AskedBefore, FailedBefore

(***************************************************************************)
(* Both steps of a judgement are of one form.                              *)
(***************************************************************************)
LEMMA EffectOrBound ==
  ASSUME CheckTypeOK, CheckEffect \/ CheckBound
  PROVE  /\ ~CheckOver /\ at \in Steps /\ at' = at + 1
         /\ UNCHANGED <<in, pos, status, unknowns>>
         /\ hasAny' = (hasAny \/ Asks(Cur, at))
         /\ violated' = (violated \/ Fails(Cur, at))
         /\ violations' = violations + (IF Fails(Cur, at) THEN 1 ELSE 0)
         /\ IF Fails(Cur, at)
            THEN \E sort \in {"direct", "transitive", "Unknown"} : Report(sort, Entry(at))
            ELSE UNCHANGED diags
<1>1. CASE CheckEffect
  <2>1. at \in 1 .. 6 /\ at # 7 /\ at \in Steps
    BY <1>1, TypesHold, MapFacts DEF CheckEffect, Steps
  <2>2. Asks(Cur, at) = HasConstraint(Cur, Map[at][1])
    BY <2>1 DEF Asks
  <2>3. Fails(Cur, at) = (HasConstraint(Cur, Map[at][1]) /\ Violates(Read(Cur), Map[at][2]))
    BY <2>1 DEF Asks, Fails
  <2>4. Entry(at) = Map[at][1]
    BY <2>1 DEF Entry
  <2>5. \A f, ch : Classify(f, ch) \in {"direct", "transitive", "Unknown"}
    BY DEF Classify
  <2> QED
    BY <1>1, <2>1, <2>2, <2>3, <2>4, <2>5 DEF CheckEffect
<1>2. CASE CheckBound
  <2>1. at = 7 /\ at \in Steps
    BY <1>2, MapFacts DEF CheckBound, Steps
  <2>2. Asks(Cur, at) = (StackBound(Cur) >= 0)
    BY <2>1 DEF Asks
  <2>3. Fails(Cur, at) = (StackBound(Cur) >= 0 /\ TooDeep(Read(Cur), StackBound(Cur)))
    BY <2>1 DEF Asks, Fails
  <2>4. Entry(at) = "stackbound"
    BY <2>1 DEF Entry
  <2> QED
    BY <1>2, <2>1, <2>2, <2>3, <2>4 DEF CheckBound
<1> QED
  BY <1>1, <1>2

\* The checker starts well typed.
LEMMA CheckTypeInit == CheckInit => CheckTypeOK
<1> SUFFICES ASSUME CheckInit PROVE CheckTypeOK
  OBVIOUS
<1>1. Checked(in)
  BY ModulesAssumption DEF CheckInit
<1>2. pos \in 1 .. Len(in.order) + 1 /\ at \in 1 .. Len(Map) + 2
  <2>1. Len(in.order) \in Nat
    BY <1>1, LenProperties DEF Checked
  <2> QED
    BY <2>1, MapFacts DEF CheckInit
<1>3. status \in [Funcs -> Statuses]
  <2>1. \A f \in Funcs : Read(f).status \in Statuses
    BY <1>1, ReadTypes DEF Summary
  <2> QED
    BY <2>1 DEF CheckInit
<1>4. diags \in Seq(Diag)
  BY EmptySeq DEF CheckInit
<1> QED
  BY <1>1, <1>2, <1>3, <1>4 DEF CheckInit, CheckTypeOK

\* A verdict is one of the three.
LEMMA VerdictIsStatus == \A f : Verdict(f) \in Statuses
  BY DEF Verdict, Statuses

\* Every step of the checker keeps its types.
LEMMA CheckTypeStep ==
  ASSUME CheckTypeOK, [CheckNext]_checkVars
  PROVE  CheckTypeOK'
<1>1. CASE CheckEffect \/ CheckBound
  <2>1. Checked(in)' /\ pos' \in 1 .. Len(in'.order) + 1 /\ status' \in [Funcs -> Statuses] /\ unknowns' \in Nat
    BY <1>1, EffectOrBound, InputStays DEF CheckTypeOK
  <2>2. at' \in 1 .. Len(Map) + 2
    BY <1>1, EffectOrBound, MapFacts DEF Steps
  <2>3. hasAny' \in BOOLEAN /\ violated' \in BOOLEAN /\ violations' \in Nat
    <3>1. hasAny' = (hasAny \/ Asks(Cur, at)) /\ violated' = (violated \/ Fails(Cur, at))
      BY <1>1, EffectOrBound
    <3>2. hasAny' \in BOOLEAN /\ violated' \in BOOLEAN
      BY <3>1
    <3>3. violations' \in Nat
      <4>1. violations' = violations + (IF Fails(Cur, at) THEN 1 ELSE 0) /\ violations \in Nat
        BY <1>1, EffectOrBound DEF CheckTypeOK
      <4> QED
        BY <4>1
    <3> QED
      BY <3>2, <3>3
  <2>4. diags' \in Seq(Diag)
    <3>1. CASE Fails(Cur, at)
      <4>1. PICK sort \in {"direct", "transitive", "Unknown"} : Report(sort, Entry(at))
        BY <1>1, <3>1, EffectOrBound
      <4>2. Entry(at) \in Constraints \cup {"stackbound", "rt"} /\ ~CheckOver
        BY <1>1, EffectOrBound, EntryFacts
      <4> QED
        BY <4>1, <4>2, ReportAppends
    <3>2. CASE ~Fails(Cur, at)
      BY <1>1, <3>2, EffectOrBound DEF CheckTypeOK
    <3> QED
      BY <3>1, <3>2
  <2> QED
    BY <2>1, <2>2, <2>3, <2>4 DEF CheckTypeOK
<1>2. CASE Conclude
  <2>1. Checked(in)' /\ in' = in
    BY <1>2, InputStays DEF CheckTypeOK, Conclude
  <2>2. pos' \in 1 .. Len(in'.order) + 1
    BY <1>2, <2>1, TypesHold DEF Conclude, CheckOver
  <2>3. at' \in 1 .. Len(Map) + 2
    BY <1>2, MapFacts DEF Conclude
  <2>4. status' \in [Funcs -> Statuses]
    BY <1>2, VerdictIsStatus DEF Conclude, CheckTypeOK
  <2>5. diags' \in Seq(Diag)
    <3>1. CASE Report("Unknown", Picked(Cur))
      <4>1. Picked(Cur) \in Constraints \cup {"stackbound", "rt"} /\ ~CheckOver
        BY <1>2, TypesHold, PickedIsAsked DEF Conclude
      <4> QED
        BY <3>1, <4>1, ReportAppends
    <3>2. CASE UNCHANGED diags
      BY <3>2 DEF CheckTypeOK
    <3> QED
      BY <1>2, <3>1, <3>2 DEF Conclude
  <2>6. hasAny' = FALSE /\ violated' = FALSE
    BY <1>2 DEF Conclude
  <2>7. violations' \in Nat /\ unknowns' \in Nat
    <3>1. violations' = violations /\ (unknowns' = unknowns \/ unknowns' = unknowns + 1)
      BY <1>2 DEF Conclude
    <3> QED
      BY <3>1 DEF CheckTypeOK
  <2> QED
    BY <2>1, <2>2, <2>3, <2>4, <2>5, <2>6, <2>7 DEF CheckTypeOK
<1>3. CASE UNCHANGED checkVars
  BY <1>3, InputStays DEF checkVars, CheckTypeOK
<1> QED
  BY <1>1, <1>2, <1>3 DEF CheckNext
-----------------------------------------------------------------------------
\* Before the first function nothing is reported.
LEMMA CheckInvInit ==
  ASSUME CheckTypeOK, CheckInit
  PROVE  CheckInv
<1>1. \A f : Reports(f) = {} /\ ~Judged(f)
  <2>1. DOMAIN diags = {} /\ 1 .. pos - 1 = {}
    BY DEF CheckInit
  <2> QED
    BY <2>1 DEF Reports, Judged
<1>2. AtHand
  BY <1>1, StepByStep DEF CheckInit, AtHand, Named, Steps
<1>3. Explained
  <2>1. Len(diags) = 0
    BY DEF CheckInit
  <2> QED
    BY <1>1, <2>1 DEF CheckInit, Explained
<1> QED
  BY <1>1, <1>2, <1>3 DEF CheckInit, CheckInv, Ahead, SafeExactly

(***************************************************************************)
(* A judgement goes on: the function at hand is not judged yet, so nothing *)
(* that was said of others changes.                                        *)
(***************************************************************************)
LEMMA CurNotJudged ==
  ASSUME CheckTypeOK, ~CheckOver
  PROVE  ~Judged(Cur) /\ Cur \in Funcs
<1>1. \A i, j \in DOMAIN in.order : in.order[i] = in.order[j] => i = j
  BY TypesHold DEF Checked
<1>2. \A i \in 1 .. pos - 1 : i \in DOMAIN in.order /\ i # pos
  BY TypesHold DEF CheckOver
<1> QED
  BY <1>1, <1>2, TypesHold DEF Judged, Cur

\* A report added for one function is no report of another.
LEMMA ReportsOfOthers ==
  ASSUME CheckTypeOK, ~CheckOver, NEW sort \in {"direct", "transitive", "Unknown"},
         NEW c \in Constraints \cup {"stackbound", "rt"}, Report(sort, c)
  PROVE  /\ \A f : Reports(f)' = IF f = Cur THEN Reports(f) \cup {Len(diags) + 1} ELSE Reports(f)
         /\ \A f : \A i \in Reports(f) : i \in DOMAIN diags /\ diags'[i] = diags[i]
         /\ \A f : Named(f)' = IF f = Cur THEN Named(f) \cup {c} ELSE Named(f)
<1> DEFINE l == Len(diags) + 1
<1>1. /\ DOMAIN diags' = DOMAIN diags \cup {l} /\ l \notin DOMAIN diags
      /\ \A i \in DOMAIN diags : diags'[i] = diags[i]
      /\ diags'[l].fn = Cur /\ diags'[l].constraint = c
  <2>1. Len(diags) \in Nat /\ DOMAIN diags = 1 .. Len(diags)
    BY TypesHold
  <2>2. l \notin DOMAIN diags
    BY <2>1
  <2> QED
    BY <2>2, ReportAppends
<1> HIDE DEF l
<1>2. \A f : Reports(f)' = IF f = Cur THEN Reports(f) \cup {l} ELSE Reports(f)
  BY <1>1 DEF Reports
<1>3. \A f : \A i \in Reports(f) : i \in DOMAIN diags /\ diags'[i] = diags[i]
  BY <1>1 DEF Reports
<1>4. \A f : Named(f)' = {diags'[i].constraint : i \in Reports(f)'}
  BY DEF Named
<1>5. \A f : Named(f)' = IF f = Cur THEN Named(f) \cup {c} ELSE Named(f)
  <2> TAKE f
  <2>1. {diags'[i].constraint : i \in Reports(f)} = Named(f)
    BY <1>3 DEF Named
  <2> QED
    BY <1>1, <1>2, <1>4, <2>1
<1> QED
  BY <1>2, <1>3, <1>5 DEF l

\* Reports are a matter of the diagnostics alone.
LEMMA ReportsStay ==
  ASSUME UNCHANGED diags
  PROVE  \A f : Reports(f)' = Reports(f) /\ Named(f)' = Named(f)
  BY DEF Reports, Named

\* Checking one more constraint of the function at hand keeps the invariant.
LEMMA CheckInvStep ==
  ASSUME CheckTypeOK, CheckTypeOK', CheckInv, CheckEffect \/ CheckBound
  PROVE  CheckInv'
<1> DEFINE a   == at
           bad == Fails(Cur, at)
<1>1. /\ ~CheckOver /\ at \in Steps /\ at' = at + 1
      /\ UNCHANGED <<in, pos, status, unknowns>>
      /\ CheckOver' = CheckOver /\ Cur' = Cur
      /\ \A f : Judged(f)' = Judged(f)
  <2>1. /\ ~CheckOver /\ at \in Steps /\ at' = at + 1
        /\ UNCHANGED <<in, pos, status, unknowns>>
    BY EffectOrBound
  <2> QED
    BY <2>1 DEF CheckOver, Cur, Judged
<1>2. ~Judged(Cur) /\ Cur \in Funcs
  BY <1>1, CurNotJudged
<1>3. /\ \A f : Named(f)' = IF bad /\ f = Cur THEN Named(f) \cup {Entry(at)} ELSE Named(f)
      /\ \A f : f # Cur => Reports(f)' = Reports(f)
      /\ \A f : \A i \in Reports(f) : diags'[i] = diags[i]
      /\ \A f : ~bad => Reports(f)' = Reports(f)
      /\ \A f : bad /\ f = Cur => \E l : /\ Reports(f)' = Reports(f) \cup {l}
                                        /\ diags'[l].constraint = Entry(at)
      /\ Len(diags') = Len(diags) + (IF bad THEN 1 ELSE 0)
  <2>1. CASE bad
    <3>1. PICK sort \in {"direct", "transitive", "Unknown"} : Report(sort, Entry(at))
      BY <2>1, EffectOrBound
    <3>2. Entry(at) \in Constraints \cup {"stackbound", "rt"}
      BY <1>1, EntryFacts
    <3> HIDE DEF bad
    <3>3. /\ \A f : Reports(f)' = IF f = Cur THEN Reports(f) \cup {Len(diags) + 1} ELSE Reports(f)
          /\ \A f : \A i \in Reports(f) : i \in DOMAIN diags /\ diags'[i] = diags[i]
          /\ \A f : Named(f)' = IF f = Cur THEN Named(f) \cup {Entry(at)} ELSE Named(f)
          /\ Len(diags') = Len(diags) + 1 /\ diags'[Len(diags) + 1].constraint = Entry(at)
      BY <1>1, <3>1, <3>2, ReportsOfOthers, ReportAppends
    <3> QED
      BY <2>1, <3>3
  <2>2. CASE ~bad
    <3>1. diags' = diags
      BY <2>2, EffectOrBound
    <3>2. Len(diags') = Len(diags) + 0 /\ \A f : \A i \in Reports(f) : diags'[i] = diags[i]
      BY <3>1, TypesHold
    <3>3. \A f : Reports(f)' = Reports(f) /\ Named(f)' = Named(f)
      BY <3>1, ReportsStay
    <3> HIDE DEF bad
    <3> QED
      BY <2>2, <3>2, <3>3
  <2> QED
    BY <2>1, <2>2
<1>4. AtHand'
  <2> SUFFICES ASSUME NEW f \in Funcs, NEW n \in 1 .. 8, f = Cur, n = at + 1
               PROVE  /\ hasAny' <=> AskedBefore(f, n)' # {}
                      /\ violated' <=> FailedBefore(f, n)' # {}
                      /\ Named(f)' = FailedBefore(f, n)'
                      /\ \A i, j \in Reports(f)' : diags'[i].constraint = diags'[j].constraint => i = j
    BY <1>1 DEF AtHand
  <2>1. /\ hasAny <=> AskedBefore(f, a) # {}
        /\ violated <=> FailedBefore(f, a) # {}
        /\ Named(f) = FailedBefore(f, a)
        /\ \A i, j \in Reports(f) : diags[i].constraint = diags[j].constraint => i = j
    <3>1. a \in 1 .. 8
      BY <1>1 DEF Steps
    <3> QED
      BY <1>1, <3>1 DEF CheckInv, AtHand
  <2>2. /\ AskedBefore(f, n)' = AskedBefore(f, a) \cup (IF Asks(f, a) THEN {Entry(a)} ELSE {})
        /\ FailedBefore(f, n)' = FailedBefore(f, a) \cup (IF Fails(f, a) THEN {Entry(a)} ELSE {})
        /\ Entry(a) \notin FailedBefore(f, a)
    BY <1>1, StepByStep, InputStays
  <2>3. hasAny' = (hasAny \/ Asks(f, a)) /\ violated' = (violated \/ Fails(f, a))
    BY EffectOrBound
  <2>4. hasAny' <=> AskedBefore(f, n)' # {}
    BY <2>1, <2>2, <2>3
  <2>5. violated' <=> FailedBefore(f, n)' # {}
    BY <2>1, <2>2, <2>3
  <2>6. Named(f)' = FailedBefore(f, n)'
    BY <1>3, <2>1, <2>2
  <2>7. ASSUME NEW i \in Reports(f)', NEW j \in Reports(f)',
               diags'[i].constraint = diags'[j].constraint
        PROVE  i = j
    <3>1. CASE ~bad
      BY <1>3, <2>1, <2>7, <3>1
    <3>2. CASE bad
      <4>1. PICK l : Reports(f)' = Reports(f) \cup {l} /\ diags'[l].constraint = Entry(at)
        BY <1>3, <3>2
      <4>2. \A m \in Reports(f) : diags'[m].constraint # Entry(at)
        BY <1>3, <2>1, <2>2 DEF Named
      <4> QED
        BY <1>3, <2>1, <2>7, <4>1, <4>2
    <3> QED
      BY <3>1, <3>2
  <2> QED
    BY <2>4, <2>5, <2>6, <2>7
<1>5. (CheckOver => at = 1)' /\ Ahead'
  BY <1>1, <1>2, <1>3 DEF CheckInv, Ahead
<1>6. SafeExactly'
  BY <1>1, InputStays DEF CheckInv, SafeExactly
<1>7. Explained'
  <2>1. Len(diags') = violations' + unknowns'
    <3>1. Len(diags) = violations + unknowns /\ unknowns' = unknowns
      BY <1>1 DEF CheckInv, Explained
    <3>2. violations' = violations + (IF bad THEN 1 ELSE 0)
      BY EffectOrBound
    <3>3. violations \in Nat /\ unknowns \in Nat
      BY DEF CheckTypeOK
    <3> QED
      BY <1>3, <3>1, <3>2, <3>3
  <2>2. ASSUME NEW f \in Funcs, Judged(f)' PROVE Accounted(f)'
    <3>1. f # Cur /\ Accounted(f)
      BY <1>1, <1>2, <2>2 DEF CheckInv, Explained
    <3>2. Reports(f)' = Reports(f) /\ \A i \in Reports(f) : diags'[i] = diags[i]
      BY <1>3, <3>1
    <3>3. status' = status /\ Demands(f)' = Demands(f) /\ Unmet(f)' = Unmet(f)
      BY <1>1, InputStays
    <3> QED
      BY <3>1, <3>2, <3>3 DEF Accounted
  <2> QED
    BY <2>1, <2>2 DEF Explained
<1> QED
  BY <1>4, <1>5, <1>6, <1>7 DEF CheckInv

\* The verdict written for a function accounts for all its reports.
LEMMA ConcludeStep ==
  ASSUME CheckTypeOK, CheckTypeOK', CheckInv, Conclude
  PROVE  CheckInv'
<1>1. /\ ~CheckOver /\ at = 8 /\ at' = 1 /\ pos' = pos + 1 /\ in' = in
      /\ ~hasAny' /\ ~violated'
      /\ status' = [status EXCEPT ![Cur] = Verdict(Cur)]
      /\ violations' = violations
  BY MapFacts DEF Conclude
<1>2. ~Judged(Cur) /\ Cur \in Funcs
  BY <1>1, CurNotJudged
<1>3. \A f : Judged(f)' <=> Judged(f) \/ f = Cur
  <2>1. \A i : i \in 1 .. pos' - 1 <=> i \in 1 .. pos - 1 \/ i = pos
    BY <1>1, TypesHold
  <2> QED
    BY <1>1, <2>1 DEF Judged, Cur
<1>4. /\ hasAny <=> Demands(Cur) # {}
      /\ violated <=> Unmet(Cur) # {}
      /\ Named(Cur) = Unmet(Cur)
      /\ \A i, j \in Reports(Cur) : diags[i].constraint = diags[j].constraint => i = j
  <2>1. 8 \in 1 .. 8
    OBVIOUS
  <2> QED
    BY <1>1, <1>2, <2>1, TypesHold, AllSteps DEF CheckInv, AtHand
<1>5. Reports(Cur) = {} <=> Unmet(Cur) = {}
  BY <1>4 DEF Named
<1>6. /\ Verdict(Cur) = "ProvenSafe" <=> Demands(Cur) # {} /\ Unmet(Cur) = {} /\ Read(Cur).chain["Unknown"] = <<>>
      /\ Verdict(Cur) = "Violating" <=> Demands(Cur) # {} /\ Unmet(Cur) # {}
      /\ Verdict(Cur) \in Statuses
  BY <1>4, VerdictIsStatus DEF Verdict
<1>7. Unmet(Cur) \subseteq Demands(Cur)
  BY DEF Unmet
<1>8. /\ status'[Cur] = Verdict(Cur)
      /\ \A f \in Funcs : f # Cur => status'[f] = status[f]
  BY <1>1, <1>2 DEF CheckTypeOK
<1>9. SafeExactly'
  <2> SUFFICES ASSUME NEW f \in Funcs, Judged(f)'
               PROVE  /\ status'[f] = "ProvenSafe" <=> /\ Demands(f)' # {}
                                                      /\ Unmet(f)' = {}
                                                      /\ Read(f)'.chain["Unknown"] = <<>>
                      /\ status'[f] = "Violating" <=> Unmet(f)' # {}
    BY DEF SafeExactly
  <2>1. Demands(f)' = Demands(f) /\ Unmet(f)' = Unmet(f) /\ Read(f)' = Read(f)
    BY <1>1, InputStays
  <2>2. CASE f = Cur
    BY <1>6, <1>7, <1>8, <2>1, <2>2
  <2>3. CASE f # Cur
    <3>1. Judged(f)
      BY <1>3, <2>3
    <3> QED
      BY <1>8, <2>1, <2>3, <3>1 DEF CheckInv, SafeExactly
  <2> QED
    BY <2>2, <2>3
<1>10. ASSUME NEW f \in Funcs, ~Judged(f)' PROVE f # Cur /\ Reports(f) = {}
  BY <1>1, <1>3, <1>10 DEF CheckInv, Ahead
<1>11. ASSUME NEW f \in Funcs, ~CheckOver', f = Cur' PROVE ~Judged(f)'
  <2>1. pos + 1 \in DOMAIN in.order /\ f = in.order[pos + 1]
    BY <1>1, <1>11, TypesHold DEF CheckOver, Cur
  <2>2. \A i \in 1 .. pos : i \in DOMAIN in.order /\ i # pos + 1
    BY <1>1, TypesHold DEF CheckOver
  <2>3. \A i \in 1 .. pos : in.order[i] # f
    BY <2>1, <2>2, TypesHold DEF Checked
  <2>4. pos' - 1 = pos
    BY <1>1, TypesHold
  <2> QED
    BY <1>1, <2>3, <2>4 DEF Judged
<1>12. \A f \in Funcs : f # Cur => Reports(f)' = Reports(f) /\ \A i \in Reports(f) : diags'[i] = diags[i]
  <2>1. CASE UNCHANGED diags
    BY <2>1, ReportsStay
  <2>2. CASE Report("Unknown", Picked(Cur))
    BY <1>1, <1>2, <2>2, TypesHold, PickedIsAsked, ReportsOfOthers
  <2> QED
    BY <2>1, <2>2 DEF Conclude
<1>13. AtHand' /\ Ahead' /\ (CheckOver => at = 1)'
  <2>1. Ahead'
    BY <1>10, <1>12 DEF Ahead
  <2>2. ASSUME NEW f \in Funcs, NEW n \in 1 .. 8, ~CheckOver', f = Cur', n = 1
        PROVE  /\ hasAny' <=> AskedBefore(f, n)' # {}
               /\ violated' <=> FailedBefore(f, n)' # {}
               /\ Named(f)' = FailedBefore(f, n)'
               /\ \A i, j \in Reports(f)' : diags'[i].constraint = diags'[j].constraint => i = j
    <3>1. AskedBefore(f, n)' = {} /\ FailedBefore(f, n)' = {}
      <4>1. 1 \in Steps
        BY DEF Steps
      <4> QED
        BY <1>1, <2>2, <4>1, StepByStep, InputStays
    <3>2. Reports(f)' = {}
      BY <2>2, <1>10, <1>11, <1>12
    <3>3. Named(f)' = {}
      BY <3>2 DEF Named
    <3> QED
      BY <1>1, <3>1, <3>2, <3>3
  <2>3. AtHand'
    BY <1>1, <2>2 DEF AtHand
  <2> QED
    BY <1>1, <2>1, <2>3
<1>14. ASSUME NEW f \in Funcs, Judged(f)', f # Cur PROVE Accounted(f)'
  <2>1. Accounted(f)
    BY <1>3, <1>14 DEF CheckInv, Explained
  <2>2. Demands(f)' = Demands(f) /\ Unmet(f)' = Unmet(f)
    BY <1>1, InputStays
  <2>3. /\ Reports(f)' = Reports(f) /\ \A i \in Reports(f) : diags'[i] = diags[i]
        /\ status'[f] = status[f]
    BY <1>8, <1>12, <1>14
  <2> QED
    BY <2>1, <2>2, <2>3 DEF Accounted
<1>15. /\ Len(diags) = violations + unknowns
       /\ violations \in Nat /\ unknowns \in Nat
  BY DEF CheckInv, Explained, CheckTypeOK
<1>16. ASSUME NEW f \in Funcs, f = Cur
       PROVE  /\ Accounted(f)'
              /\ Len(diags') = violations' + unknowns'
  <2>1. Demands(f)' = Demands(f) /\ Unmet(f)' = Unmet(f) /\ status'[f] = Verdict(Cur)
    BY <1>1, <1>8, <1>16, InputStays
  <2>2. CASE hasAny /\ Verdict(Cur) = "Unknown"
    <3>1. Report("Unknown", Picked(Cur)) /\ unknowns' = unknowns + 1
      BY <2>2 DEF Conclude
    <3>2. Picked(Cur) \in Constraints \cup {"rt"}
      BY <1>2, TypesHold, PickedIsAsked
    <3>3. /\ Reports(f)' = Reports(f) \cup {Len(diags) + 1}
          /\ Len(diags') = Len(diags) + 1
          /\ diags'[Len(diags) + 1].constraint = Picked(Cur)
      BY <1>1, <1>16, <3>1, <3>2, ReportsOfOthers, ReportAppends
    <3>4. Unmet(f) = {} /\ Demands(f) # {}
      BY <1>4, <1>6, <1>7, <1>16, <2>2
    <3>5. Reports(f) = {}
      BY <1>5, <1>16, <3>4
    <3>6. Picked(f) \in IF Demands(f) = {"stackbound"} THEN {"rt"} ELSE Demands(f) \ {"stackbound"}
      BY <3>4, TypesHold, PickedIsAsked
    <3>7. /\ \E i \in Reports(f)' : Reports(f)' = {i}
          /\ {diags'[i].constraint : i \in Reports(f)'} = {Picked(f)}
      BY <1>16, <3>3, <3>5
    <3>8. Accounted(f)'
      BY <2>1, <2>2, <3>4, <3>6, <3>7 DEF Accounted
    <3> QED
      BY <1>1, <1>15, <3>1, <3>3, <3>8
  <2>3. CASE ~(hasAny /\ Verdict(Cur) = "Unknown")
    <3>1. diags' = diags /\ unknowns' = unknowns
      BY <2>3 DEF Conclude
    <3>2. Reports(f)' = Reports(f)
      BY <3>1, ReportsStay
    <3>3. ~(status'[f] = "Unknown" /\ Demands(f) # {})
      BY <1>4, <1>16, <2>1, <2>3
    <3>4. Verdict(Cur) = "Violating" => Accounted(f)'
      BY <1>4, <1>16, <2>1, <3>1, <3>2 DEF Accounted, Named
    <3>5. Verdict(Cur) # "Violating" => Accounted(f)'
      <4>1. Verdict(Cur) # "Violating" => Reports(f) = {}
        BY <1>5, <1>6, <1>7, <1>16
      <4> QED
        BY <2>1, <3>1, <3>2, <3>3, <4>1 DEF Accounted
    <3> QED
      BY <1>1, <1>15, <3>1, <3>4, <3>5
  <2> QED
    BY <2>2, <2>3
<1>17. Explained'
  <2>1. \A f \in Funcs : Judged(f)' => Accounted(f)'
    BY <1>14, <1>16
  <2> QED
    BY <1>2, <1>16, <2>1 DEF Explained
<1> QED
  BY <1>9, <1>13, <1>17 DEF CheckInv

\* Every step of the checker keeps the invariant.
LEMMA CheckInvKept ==
  ASSUME CheckTypeOK, CheckTypeOK', CheckInv, [CheckNext]_checkVars
  PROVE  CheckInv'
<1>1. CASE UNCHANGED checkVars
  <2>1. /\ UNCHANGED <<in, pos, at, hasAny, violated, status, diags, violations, unknowns>>
        /\ in' = in
    BY <1>1 DEF checkVars
  <2>2. /\ CheckOver' = CheckOver /\ Cur' = Cur /\ \A f : Judged(f)' = Judged(f)
        /\ \A f : Reports(f)' = Reports(f) /\ Named(f)' = Named(f)
    BY <2>1, ReportsStay DEF CheckOver, Cur, Judged
  <2>3. AtHand' /\ Ahead' /\ (CheckOver => at = 1)'
    BY <2>1, <2>2, InputStays DEF CheckInv, AtHand, Ahead
  <2>4. SafeExactly'
    BY <2>1, <2>2, InputStays DEF CheckInv, SafeExactly
  <2>5. Explained'
    <3>1. ASSUME NEW f, Accounted(f) PROVE Accounted(f)'
      <4>1. /\ Demands(f)' = Demands(f) /\ Unmet(f)' = Unmet(f) /\ Reports(f)' = Reports(f)
            /\ diags' = diags /\ status' = status
        BY <2>1, <2>2, InputStays
      <4> QED
        BY <3>1, <4>1 DEF Accounted
    <3> QED
      BY <2>1, <2>2, <3>1 DEF CheckInv, Explained
  <2> QED
    BY <2>3, <2>4, <2>5 DEF CheckInv
<1> QED
  BY <1>1, CheckInvStep, ConcludeStep DEF CheckNext
-----------------------------------------------------------------------------
(***************************************************************************)
(* The placement follows the check.                                        *)
(***************************************************************************)
LEMMA NextOfCheck ==
  [Next]_vars => [CheckNext]_checkVars
  BY DEF Next, vars, Check, SkipUnmarked, SkipSafe, Instrument, Done, checkVars

(***************************************************************************)
(* Every variable keeps its type, for any set of modules.                  *)
(***************************************************************************)
THEOREM TypeCorrect == Spec => []TypeOK
<1>1. Init => TypeOK
  <2> SUFFICES ASSUME Init PROVE TypeOK
    OBVIOUS
  <2>1. CheckTypeOK
    BY CheckTypeInit DEF Init
  <2>2. Placeable(in)
    BY PlaceAssumption DEF Init, CheckInit
  <2> QED
    BY <2>1, <2>2, TypesHold DEF Init, TypeOK
<1>2. TypeOK /\ [Next]_vars => TypeOK'
  <2> SUFFICES ASSUME TypeOK, [Next]_vars PROVE TypeOK'
    OBVIOUS
  <2>1. CheckTypeOK'
    BY NextOfCheck, CheckTypeStep DEF TypeOK
  <2>2. in' = in
    BY DEF Next, Check, CheckNext, CheckEffect, CheckBound, Conclude, SkipUnmarked, SkipSafe,
           Instrument, Done, vars, checkVars
  <2>3. Placeable(in)'
    BY <2>2 DEF TypeOK, Placeable
  <2>4. \A f : Scope(f) \in {"whole", "sites"}
    BY DEF Scope
  <2>5. Here => This \in Funcs /\ placed + 1 \in 0 .. Len(in.order)
    <3> SUFFICES ASSUME Here PROVE This \in Funcs /\ placed + 1 \in 0 .. Len(in.order)
      OBVIOUS
    <3>1. Len(in.order) \in Nat /\ in.order \in Seq(Funcs)
      BY TypesHold DEF TypeOK
    <3>2. placed + 1 \in 1 .. Len(in.order)
      BY <3>1 DEF TypeOK, Here
    <3> QED
      BY <3>1, <3>2, ElementOfSeq DEF This
  <2>6. /\ mode' \in {"sites", "whole", "all"}
        /\ placed' \in 0 .. Len(in.order)
        /\ hooks' \in [Funcs -> {"none", "whole", "sites"}]
        /\ unsanitized' \subseteq Funcs
    <3>1. CASE Check \/ UNCHANGED vars
      BY <3>1 DEF Check, vars, TypeOK
    <3>2. CASE SkipUnmarked
      BY <3>2, <2>5 DEF SkipUnmarked, Done, TypeOK
    <3>3. CASE SkipSafe
      BY <3>3, <2>5 DEF SkipSafe, Done, TypeOK
    <3>4. CASE Instrument
      BY <3>4, <2>4, <2>5 DEF Instrument, Done, TypeOK
    <3> QED
      BY <3>1, <3>2, <3>3, <3>4 DEF Next
  <2> QED
    BY <2>1, <2>2, <2>3, <2>6 DEF TypeOK
<1> QED
  BY <1>1, <1>2, PTL DEF Spec

\* The invariant of the checker, at any time.
LEMMA CheckInvariant == Spec => []CheckInv
<1>1. TypeOK /\ Init => CheckInv
  BY CheckInvInit DEF Init, TypeOK
<1>2. TypeOK /\ TypeOK' /\ CheckInv /\ [Next]_vars => CheckInv'
  BY NextOfCheck, CheckInvKept DEF TypeOK
<1> QED
  BY <1>1, <1>2, TypeCorrect, PTL DEF Spec

(***************************************************************************)
(* A function is proven safe exactly when it carries a constraint, meets   *)
(* them all and calls nothing unknown; violating exactly when one is not   *)
(* met: whatever the metadata said and whichever function came before.     *)
(***************************************************************************)
THEOREM VerdictsExact == Spec => []SafeExactly
  BY CheckInvariant, PTL DEF CheckInv

(***************************************************************************)
(* Every verdict is explained by its diagnostics, and the totals agree.    *)
(***************************************************************************)
THEOREM VerdictsExplained == Spec => []Explained
  BY CheckInvariant, PTL DEF CheckInv
-----------------------------------------------------------------------------
\* When the check is over every function is judged.
LEMMA CheckedFunctions ==
  ASSUME TypeOK, CheckOver, NEW f \in Funcs
  PROVE  Judged(f)
<1>1. PICK i \in DOMAIN in.order : in.order[i] = f
  BY DEF TypeOK, CheckTypeOK, Checked
<1>2. i \in 1 .. pos - 1
  BY TypesHold DEF TypeOK, CheckOver
<1> QED
  BY <1>1, <1>2 DEF Judged

\* Before placement begins no call is inserted.
LEMMA PlaceInvInit == Init => PlaceInv
<1>1. Init => \A f : ~GoneOver(f)
  <2>1. Init => 1 .. placed = {}
    BY DEF Init
  <2> QED
    BY <2>1 DEF GoneOver
<1> QED
  BY <1>1 DEF Init, PlaceInv

(***************************************************************************)
(* A function that is gone over once is not met again, and until then no   *)
(* one has touched it.                                                     *)
(***************************************************************************)
LEMMA PlaceInvStep ==
  ASSUME TypeOK, TypeOK', PlaceInv, [Next]_vars
  PROVE  PlaceInv'
<1>1. in' = in /\ mode' = mode
  BY DEF Next, Check, CheckNext, CheckEffect, CheckBound, Conclude, SkipUnmarked, SkipSafe,
         Instrument, Done, vars, checkVars
<1>2. placed \in Nat /\ Len(in.order) \in Nat /\ in.order \in Seq(Funcs)
  BY TypesHold DEF TypeOK
<1>3. \A f, c : HasConstraint(f, c)' = HasConstraint(f, c)
  BY <1>1 DEF HasConstraint
<1>4. \A f : IsRT(f)' = IsRT(f)
  BY <1>1, <1>3 DEF IsRT
<1>5. CASE UNCHANGED vars
  <2>1. /\ UNCHANGED <<pos, placed, hooks, unsanitized, status>>
    BY <1>5 DEF vars, checkVars
  <2>2. \A f : Placed(f)' = Placed(f) /\ GoneOver(f)' = GoneOver(f)
    BY <1>1, <1>4, <2>1 DEF Placed, Skippable, Scope, GoneOver
  <2>3. CheckOver' = CheckOver
    BY <1>1, <2>1 DEF CheckOver
  <2> QED
    BY <2>1, <2>2, <2>3 DEF PlaceInv
<1>6. CASE Check
  <2>1. ~CheckOver /\ UNCHANGED <<placed, hooks, unsanitized>>
    BY <1>6 DEF Check, CheckNext, CheckEffect, CheckBound, Conclude
  <2>2. placed = 0 /\ 1 .. placed = {}
    BY <2>1 DEF PlaceInv
  <2>3. \A f : ~GoneOver(f) /\ ~GoneOver(f)'
    BY <2>1, <2>2 DEF GoneOver
  <2> QED
    BY <2>1, <2>2, <2>3 DEF PlaceInv
<1>7. CASE SkipUnmarked \/ SkipSafe \/ Instrument
  <2>1. /\ Here /\ placed' = placed + 1 /\ UNCHANGED checkVars
    BY <1>7 DEF SkipUnmarked, SkipSafe, Instrument, Done
  <2>2. /\ status' = status /\ pos' = pos /\ CheckOver' /\ CheckOver
    BY <2>1 DEF checkVars, Here, CheckOver
  <2>3. placed + 1 \in DOMAIN in.order /\ This \in Funcs /\ This = in.order[placed + 1]
    BY <1>2, <2>1, ElementOfSeq, LenProperties DEF Here, This
  <2>4. ~GoneOver(This)
    <3>1. \A i \in 1 .. placed : i \in DOMAIN in.order /\ i # placed + 1
      BY <1>2, <2>1, LenProperties DEF Here
    <3> QED
      BY <2>3, <3>1 DEF GoneOver, TypeOK, CheckTypeOK, Checked
  <2>5. hooks[This] = "none" /\ This \notin unsanitized
    BY <2>3, <2>4 DEF PlaceInv
  <2>6. \A f \in Funcs : f # This => hooks'[f] = hooks[f] /\ (f \in unsanitized' <=> f \in unsanitized)
    BY <1>7 DEF SkipUnmarked, SkipSafe, Instrument, TypeOK
  <2>7. \A f : GoneOver(f)' <=> GoneOver(f) \/ f = This
    <3>1. \A i : i \in 1 .. placed + 1 <=> i \in 1 .. placed \/ i = placed + 1
      BY <1>2
    <3> QED
      BY <1>1, <2>1, <2>3, <3>1 DEF GoneOver
  <2>8. ASSUME NEW f \in Funcs, f # This, Placed(f) PROVE Placed(f)'
    <3>1. /\ in' = in /\ IsRT(f)' = IsRT(f) /\ Skippable(f)' = Skippable(f)
          /\ Scope(f)' = Scope(f)
      BY <1>1, <1>4, <2>2 DEF Skippable, Scope
    <3> QED
      BY <2>6, <2>8, <3>1 DEF Placed
  <2>9. ASSUME NEW f \in Funcs, f = This PROVE Placed(f)'
    <3>1. /\ in' = in /\ IsRT(f)' = IsRT(f) /\ Skippable(f)' = Skippable(f)
          /\ Scope(f)' = Scope(f)
      BY <1>1, <1>4, <2>2 DEF Skippable, Scope
    <3>2. CASE SkipUnmarked
      BY <2>5, <2>9, <3>1, <3>2 DEF SkipUnmarked, Placed
    <3>3. CASE SkipSafe
      BY <2>5, <2>9, <3>1, <3>3 DEF SkipSafe, Placed
    <3>4. CASE Instrument
      <4>1. hooks'[f] = Scope(f)
        BY <2>9, <3>4 DEF Instrument, TypeOK
      <4> QED
        BY <2>5, <2>9, <3>1, <3>4, <4>1 DEF Instrument, Placed
    <3> QED
      BY <1>7, <3>2, <3>3, <3>4
  <2> QED
    BY <2>2, <2>6, <2>7, <2>8, <2>9 DEF PlaceInv
<1> QED
  BY <1>5, <1>6, <1>7 DEF Next

\* The invariant of the placement, at any time.
LEMMA PlaceInvariant == Spec => []PlaceInv
<1>1. TypeOK /\ TypeOK' /\ PlaceInv /\ [Next]_vars => PlaceInv'
  BY PlaceInvStep
<1> QED
  BY <1>1, PlaceInvInit, TypeCorrect, PTL DEF Spec

(***************************************************************************)
(* What both invariants say of a function the placement has gone over.     *)
(***************************************************************************)
LEMMA PassedFacts ==
  ASSUME TypeOK, CheckInv, PlaceInv, NEW f \in Funcs, Passed(f)
  PROVE  /\ Placed(f)
         /\ status[f] = "ProvenSafe" <=> Demands(f) # {} /\ Unmet(f) = {} /\ ~Opaque(f)
         /\ status[f] = "Violating" <=> Unmet(f) # {}
         /\ Constraints \cap Demands(f) # {} <=> \E c \in Constraints : HasConstraint(f, c)
<1>1. Placed(f)
  BY DEF Passed, PlaceInv, GoneOver
<1>2. Judged(f)
  BY CheckedFunctions DEF Passed
<1>3. Constraints \cap Demands(f) = {c \in Constraints : HasConstraint(f, c)}
  BY MapFacts DEF Demands
<1> QED
  BY <1>1, <1>2, <1>3 DEF CheckInv, SafeExactly, Opaque

(***************************************************************************)
(* Through both passes no function with an effect constraint goes without  *)
(* hooks although it violates one or calls something unknown.              *)
(***************************************************************************)
THEOREM UnsafeGuarded == Spec => []UnsafeIsGuarded
<1>1. TypeOK /\ CheckInv /\ PlaceInv => UnsafeIsGuarded
  <2> SUFFICES ASSUME TypeOK, CheckInv, PlaceInv, NEW f \in Funcs,
                      Passed(f), ~in.hook[f], Constraints \cap Demands(f) # {},
                      Unmet(f) # {} \/ Opaque(f)
               PROVE  hooks[f] # "none"
    BY DEF UnsafeIsGuarded
  <2>1. IsRT(f) /\ ~Skippable(f)
    BY PassedFacts DEF IsRT, Skippable
  <2> QED
    BY <2>1, PassedFacts DEF Placed, Scope
<1> QED
  BY <1>1, TypeCorrect, CheckInvariant, PlaceInvariant, PTL

(***************************************************************************)
(* The mode and the verdict alone decide which hooks there are.            *)
(***************************************************************************)
THEOREM HooksFollow == Spec => []HooksFollowStatus
<1>1. TypeOK /\ CheckInv /\ PlaceInv => HooksFollowStatus
  <2> SUFFICES ASSUME TypeOK, CheckInv, PlaceInv, NEW f \in Funcs, Passed(f)
               PROVE  /\ hooks[f] # "none" \/ f \in unsanitized =>
                           ~in.hook[f] /\ Marked(f)
                      /\ hooks[f] = "sites" => mode = "sites" /\ Unmet(f) # {} /\ in.tags[f] # <<>>
                      /\ mode # "all" /\ Demands(f) # {} /\ Unmet(f) = {} /\ ~Opaque(f) => hooks[f] = "none"
                      /\ f \in unsanitized => mode # "all" /\ hooks[f] = "none"
                      /\ mode = "all" /\ ~in.hook[f] => (in.attrs[f] = {} /\ in.value[f] = {}) \/ hooks[f] = "whole"
    BY DEF HooksFollowStatus
  <2>1. IsRT(f) => Marked(f)
    BY DEF IsRT, HasConstraint, Marked
  <2>2. in.attrs[f] # {} \/ in.value[f] # {} => IsRT(f)
    BY DEF IsRT, HasConstraint, TypeOK, CheckTypeOK, Checked, Placeable
  <2> QED
    BY <2>1, <2>2, PassedFacts DEF Placed, Scope, Skippable
<1> QED
  BY <1>1, TypeCorrect, CheckInvariant, PlaceInvariant, PTL
=============================================================================
