-------------------------------- MODULE RTPoly --------------------------------
(***************************************************************************)
(* The polymorphism pass of RTEffectInferPass::run.  A polymorphic         *)
(* function calls some of its arguments; this pass looks at every direct   *)
(* call of one and adds the effects of the functions that are passed for   *)
(* these arguments to the caller.  It goes over the functions once, in     *)
(* address order, and changes the summaries in place.  Its input is        *)
(*   base    the summaries that the propagation loop has left;             *)
(*   calls   function -> its direct calls, in instruction order, with      *)
(*           what each passes: a function that has a summary,              *)
(*           "<declaration>" for one that has none, "<value>" for anything *)
(*           that is no function (an argument of the caller, say), or      *)
(*           "<nothing>" if there are fewer arguments;                     *)
(*   poly    function -> PolyArgs;      order   the functions by address.  *)
(***************************************************************************)
EXTENDS RTSummaries

CONSTANTS MaxArg,    \* arguments are numbered 0 .. MaxArg
          Inputs     \* the inputs of the pass

VARIABLES in,        \* the input
          summ,      \* FuncSummaries
          pos,       \* the function that is visited: a position in in.order
          call       \* the call that is looked at: a position in its calls

-----------------------------------------------------------------------------
Args      == 0 .. MaxArg
NoFunc    == {"<declaration>", "<value>", "<nothing>"}
Callbacks == "poly-resolved"

PolyFrame   == [fn : Funcs, callee : Funcs, kind : {Callbacks}]
PolyChain   == Seq(Frame \cup PolyFrame)
PolySummary == [chain : [Kinds -> PolyChain], heap : HeapKinds, heapChain : PolyChain]

PolyCall == [callee : Funcs, passes : [Args -> Funcs \cup NoFunc]]

Given(x) == /\ x.base \in [Funcs -> Summary]
            /\ x.calls \in [Funcs -> Seq(PolyCall)]
            /\ x.poly \in [Funcs -> SUBSET Args]
            /\ x.order \in Seq(Funcs)
            /\ \A f \in Funcs : x.base[f].heap = NormalHeap => Carries(x.base[f], "Alloc")
            /\ \A f \in Funcs : \E i \in DOMAIN x.order : x.order[i] = f
            /\ \A i, j \in DOMAIN x.order : x.order[i] = x.order[j] => i = j

PolyAssumption == MaxArg \in Nat /\ "Alloc" \in Kinds /\ \A x \in Inputs : Given(x)

TypeOK == /\ Given(in)
          /\ summ \in [Funcs -> PolySummary]
          /\ pos \in 1 .. Len(in.order) + 1
          /\ call \in Nat \ {0}
-----------------------------------------------------------------------------
Init == /\ in \in Inputs
        /\ summ = in.base
        /\ pos = 1
        /\ call = 1

Finished == pos > Len(in.order)
Cur      == in.order[pos]
Call     == in.calls[Cur][call]

PassedOn(f, a, ch) == <<[fn |-> f, callee |-> a, kind |-> Callbacks]>> \o ch

\* As for the flags; on its own a mistake, which forgets the heap kind.
TakeFlags(s, f, a) ==
  [s EXCEPT !.chain = [k \in Kinds |->
     IF Carries(summ[a], k) /\ @[k] = <<>> THEN PassedOn(f, a, summ[a].chain[k]) ELSE @[k]]]

\* What f learns when a is passed: effects it lacks, and a worse heap kind.
Take(s, f, a) ==
  LET t == TakeFlags(s, f, a)
  IN  IF summ[a].heap > s.heap
      THEN [t EXCEPT !.heap = summ[a].heap, !.heapChain = PassedOn(f, a, summ[a].heapChain)]
      ELSE t

\* The functions passed for the arguments that the callee calls, one after
\* the other; anything else is left alone.
Resolved ==
  LET after[n \in 0 .. MaxArg + 1] ==
        IF n = 0 THEN summ[Cur]
        ELSE IF n - 1 \in in.poly[Call.callee] /\ Call.passes[n-1] \in Funcs
             THEN Take(after[n-1], Cur, Call.passes[n-1])
             ELSE after[n-1]
  IN  after[MaxArg + 1]

Here == ~Finished /\ call \in DOMAIN in.calls[Cur]

Resolve == /\ Here
           /\ in.poly[Call.callee] # {}
           /\ summ' = [summ EXCEPT ![Cur] = Resolved]
           /\ call' = call + 1
           /\ UNCHANGED <<in, pos>>

PassBy == /\ Here
          /\ in.poly[Call.callee] = {}
          /\ call' = call + 1
          /\ UNCHANGED <<in, summ, pos>>

NextFunction == /\ ~Finished
                /\ call > Len(in.calls[Cur])
                /\ pos' = pos + 1
                /\ call' = 1
                /\ UNCHANGED <<in, summ>>

Next == Resolve \/ PassBy \/ NextFunction
-----------------------------------------------------------------------------
Position(f) == CHOOSE i \in DOMAIN in.order : in.order[i] = f
Visited(f)  == Position(f) < pos

\* The functions that f passes for an argument that is called.
Passed(f) == {a \in Funcs : \E i \in DOMAIN in.calls[f], n \in Args :
                 n \in in.poly[in.calls[f][i].callee] /\ in.calls[f][i].passes[n] = a}

\* What f leads to by passing: no set with f and without g holds all that
\* its members pass.
Closure(f) ==
  {g \in Funcs : \A S \in SUBSET (Funcs \ {g}) : f \in S => \E h \in S : ~(Passed(h) \subseteq S)}

\* Whoever is passed by f, or by a function f depends on, is done by then.
Timely(f) == \A g \in Closure(f) : \A a \in Passed(g) :
                Passed(a) = {} \/ a = g \/ Position(a) < Position(g)

Worst(S) == CHOOSE h \in S : \A g \in S : g <= h

(***************************************************************************)
(* A caller has exactly its own effects and those of the functions it      *)
(* passes, with theirs, provided address order puts a function that is     *)
(* passed and itself passes functions before the one that passes it; and   *)
(* its heap kind is the worst of these.                                    *)
(***************************************************************************)
ExactWhenTimely ==
  \A f \in Funcs : Visited(f) /\ Timely(f) =>
     /\ Effects(summ[f]) = UNION {Effects(in.base[g]) : g \in Closure(f)}
     /\ summ[f].heap = Worst({in.base[g].heap : g \in Closure(f)})

(***************************************************************************)
(* In any order of addresses, the result lies between two bounds: the      *)
(* effects that the functions passed had before the pass, and what is      *)
(* reachable by passing; a function that is polymorphic itself gains       *)
(* nothing from being called.                                              *)
(***************************************************************************)
Bounded ==
  \A f \in Funcs :
     /\ Effects(summ[f]) \subseteq UNION {Effects(in.base[g]) : g \in Closure(f)}
     /\ summ[f].heap <= Worst({in.base[g].heap : g \in Closure(f)})
     /\ Visited(f) => \A a \in Passed(f) : /\ Effects(in.base[a]) \subseteq Effects(summ[f])
                                           /\ in.base[a].heap <= summ[f].heap

(***************************************************************************)
(* A chain remains a path when a summary is extended in place: it goes     *)
(* through frames of functions that are really passed, each starting where *)
(* the one before leads, and then on with a chain of the propagation loop. *)
(***************************************************************************)
Reached(f, ch, i) == IF i = 0 THEN f ELSE ch[i].callee

RealPath(f, ch, base) ==
  \E n \in 0 .. Len(ch) :
     /\ \A i \in 1 .. n : /\ ch[i].kind = Callbacks
                          /\ ch[i].fn = Reached(f, ch, i - 1)
                          /\ ch[i].callee \in Passed(ch[i].fn)
     /\ base[Reached(f, ch, n)] = SubSeq(ch, n + 1, Len(ch))

PathsGenuine ==
  \A f \in Funcs :
     /\ \A k \in Kinds : RealPath(f, summ[f].chain[k], [g \in Funcs |-> in.base[g].chain[k]])
     /\ RealPath(f, summ[f].heapChain, [g \in Funcs |-> in.base[g].heapChain])
     /\ summ[f].heap = NormalHeap => Carries(summ[f], "Alloc")
=============================================================================
