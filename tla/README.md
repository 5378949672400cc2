# RTEffect in TLA+

A TLA+ model of the RTEffect LLVM plugin: inference of real-time effects
(`rt-effect-infer`), the constraint check (`rt-constraint-check`) and the
placement of RTSan hooks (`rtsan-placement`). It states what makes the analysis
correct, checks it with TLC on small programs, and proves the core of the
inference, the verdicts and the hooks with TLAPS for programs of any size.

The plugin is a sequential compiler pass. What is hard in it is not concurrency
but order: functions are scanned in definition order, containers of pointers
iterate in address order, a worklist recomputes summaries from summaries that
are still changing, recursion feeds a summary back into itself, and later passes
trust what earlier ones left behind.

## Inventory

`infer` is `src/lib/RTEffectInferPass.cpp`.

| Component | State | Operations | Correct means |
|---|---|---|---|
| Effect summaries, `EffectSummary.{h,cpp}` | per function: 7 flags with provenance chain and reason, heap kind, stack depth, `poly` arguments, status | set, merge, write to and read from metadata | a written summary is read back unchanged |
| External table, `ExternalFuncTable.cpp` | name -> effects, heap kind | `load`, `lookup` | a bad table is rejected as a whole; unknown names stay unknown |
| Scan, infer 513-667 | direct effects, call graph, callers, sites, witnesses | one step per instruction, decision at a function's end | no source of an effect is missed; callers are kept |
| Recursion and depth, infer 669-778 and 1003-1062 | Tarjan's numbers and stack, components, depths | visit, pass by, return, depth of a component | components are the classes of mutual recursion; depth is the longest chain |
| Propagation, infer 780-917 | summaries, queue, witnesses | one visit | real effects only; all callers served; ends |
| Effect polymorphism, infer 919-1001 | summaries | one pass in address order | a caller has the effects of the function it passes |
| Regions, infer 310-400 | depth per block | dataflow to a fixpoint | ends; an instruction counts iff it may run in a region |
| Witness tags, output, infer 1064-1109 | metadata | append | tags survive |
| YAML export, infer 1111-1151 | a file | write | the loader reads it back |
| Rust annotations, infer 70-208 | function attributes | parse and attach | the constraint meant is the one attached |
| Constraint check, `RTConstraintCheckPass.cpp` | status, diagnostics | one verdict per function | safe only without violation and unknown |
| Placement, `RTSanPlacementPass.cpp` | instrumented code | skip, wrap function, wrap call | hooks balance on every path; no violating site is missed |
| Shim, `rtsan_runtime/rtsan_shim.c` | two atomic counters | enter, exit, read, reset | counts are meaningful under threads |

Interaction: the scan hands direct effects, call graph and callers to the
recursion step, which puts a recursion frame in front of direct chains; the
propagation loop, the polymorphism pass and the depth pass then complete the
summaries, which are written as metadata (`!rt.effect`) with tagged calls
(`!rt.witness`). The check reads summaries and attributes and writes a status;
the placement reads status, attributes and tags. The export feeds the external
table of another module's run.

Behaviour that is hard to test, each listed with its line in `PROJECT.json`
(`hazards`): callers forgotten during the scan; chains copied from summaries
that still change; comparison by reasons that may grow for ever; effects that
depend on addresses; tags left from earlier visits; components in an order that
the depth pass takes for granted; calls resolved to functions nobody looks at;
the callback pass that tells no caller; region depth that a loop raises; a
status read from metadata that nobody wrote; hooks in blocks that other edges
lead to; an export that the loader does not accept; names taken apart by the
words they contain.

## Modules

| Module | Models |
|---|---|
| `RTSummaries` | summaries, chains, and the record the scan hands to the propagation |
| `RTEffects` | abstract: effects are only learnt from callees, and reach notified callers by the end |
| `RTMarkings`, `MCMarkings` | marks of the source as attributes and annotations |
| `RTScan`, `MCScan` | instruction scan |
| `RTSCC`, `MCSCC` | cycles of calls and stack depth |
| `RTWorklist`, `MCWorklist` | propagation loop; proofs in `RTWorklistProofs` |
| `RTInfer`, `MCInfer` | scan, search, propagation, depth and tags in one run, from instances of `RTScan`, `RTSCC` and `RTWorklist` |
| `RTSides`, `MCSides` | what the inference does beside its main line, an instance of each of the next four |
| `RTRegion` | region dataflow, before the scan, which takes its result as scope |
| `RTPoly` | callbacks, after the loop |
| `RTSummaryCodec` | summaries as metadata |
| `RTExport` | export, loading, and what another module sees |
| `RTCheck` | constraint check |
| `RTPlace`, `MCPlace` | which functions get hooks; extends `RTCheck`, so that the check's status is what it reads |
| `RTRuntime`, `MCRuntime` | an instrumented function runs on the counting runtime, composed of the next two |
| `RTHooks` | where the hooks go in a control-flow graph, and runs of the instrumented code |
| `RTShim` | counters of the counting runtime |
| `RTWorklistProofs`, `RTScanProofs`, `RTSCCProofs`, `RTPlaceProofs`, `RTRuntimeProofs`, `RTSidesProofs` | theorems about the module of that name; `RTPlaceProofs` also about `RTCheck`, `RTRuntimeProofs` also about `RTHooks` and `RTShim`, `RTSidesProofs` about `RTRegion`, `RTPoly`, `RTSummaryCodec` and `RTExport` |
| `RTInferProofs` | theorems about `RTInfer`, put together from the first three |
| `RTInduction` | facts about natural numbers that all proofs use |

The composition is real where one component's step is another's: in `RTInfer`
(the call graph, the summaries and the tags go from phase to phase), in
`RTPlace` (the placement reads the status that the check has written) and in
`RTRuntime` (a hook that the function passes is the increment of the shim, and
the hook depth of `RTHooks` is what the shim's counters have seen of the thread).
`RTSides` puts components side by side that only share a place in the pipeline:
a behavior is one of one component, the others' variables keep a dummy value.

Not done: `RTInfer` could further take its scope from `RTRegion` and hand its summaries to
`RTPoly` (both have inputs of their own now).

### RTWorklist

A state is the input, `summ` (`FuncSummaries`), `worklist` and the tags the loop
adds. `Process` is one iteration: it takes the head of the queue, computes
`NewSummary` from the direct effects and the callees' present summaries
(`MergedChain`: a direct effect keeps its chain, otherwise the first call with
the effect provides it; `MergedHeap`: the worst kind; `MergedHeapChain`: the
first call with it), adds the tags, and when reasons or heap kind differ stores
the summary and queues the callers on record.

A chain is a sequence of frames [fn, callee, kind]; source locations and
instruction text are left out. An effect flag is set exactly when its chain is
not empty, so flags are not kept apart; the reason that the code compares as a
string is the sequence of callee names. The functions called through are given
as `hops`, direct calls in instruction order and then targets of resolved
indirect calls in address order, as the code visits them.

The bound `MaxChain` stops following the loop where a chain exceeds six frames.
It is needed because chains can grow for ever (see Findings). With three
functions a chain without repetition has at most three hops, a recursion frame
and a source, so six frames include every chain that does not repeat, and the
first repetitions. `WithinBound` is part of `Process`, so a state at the bound
has no successor; no property is stated of such a state as if the loop had
ended (`Quiescent` is the empty queue); `Terminates` allows it only to a program
in which a function makes a call that leads back to it before another call.

### RTScan

A program is a record: the body of each function as a sequence of instruction
records, definition order, address order, the external table, address-taken
functions with types, `nounwind` functions. One action per branch of the loop:
`OutOfScope`, `Alloca`, `PassOver` (no call, or one that is skipped),
`ForwardArgument`, `ResolvedPointer`, `UnknownPointer`, `TableCall`,
`ThrowVehicle`, `UnknownExternal`, `InternalCall`; `Begin` sets up a function,
`EndDeferred` and `EndPlain` decide about calls of arguments. Every action
includes what the code does before branching (`Touched`, `Note`): a global
operand, an invoke of a function that may unwind. Whether an instruction is in
scope is part of the program (how it comes about is `RTRegion`).
`Handover` is the record that `RTWorklist` starts on; `HandsOverWellFormed`
says that it meets the assumption made there. A pointer may lead to a
declaration; what that does (`MayHave`) is an effect the code takes no notice of
and the documentation asks for, and the properties leave it open (`TagsExact` and
`DirectExact` bound tags and effects from both sides).

### RTSCC

`calls` is the stack of activations of `StrongConnect`, an activation being a
function and the callee its loop is at. `StartRoot`, `Descend`, `PassBy` and
`Return` are the steps of the search, `SetDepth` treats one component in the
order of emission. Depths start as 1 in the code; the model keeps that default
for components not treated yet, so that a wrong order would show.
`MeasuresExact` compares recursion and depth with reachability and the longest
chain of calls. `Stopped` stands for the end, the only state in which nothing is
left to do: TLC checks deadlock, and so that nothing else stops the search.
`LeftFor(n)` is what there is left to do for a function; `NothingTwice` says that
every step takes something off it and none puts anything back, so the search ends
after as many steps. Its type invariant is checked by TLC as a part of that of
`RTInfer`, as is that of `RTScan`; both are also proved on their own.

### RTInfer

`Scan`, `Search` and `Spread` are instances of the three modules over the
variables of `RTInfer`; `phase` says which runs. Each step of a phase is a step
of its module; the steps between are those of `run` itself: `StartSearch` hands
over the call graph (in address order, declarations as leaves), `StartSpread`
puts the cycle frame in front of direct chains of functions in a cycle
(`Shown`), `StartMeasure` begins with the depths, `Finish` sets depths and tags.
The witness set of the code is two variables here, `witness` by instruction and
`tags` by position among the direct calls; `Marks` puts them together, and adds
them to the tags that the program has from an earlier run. The properties compare the end with the instructions of the program: `Flow` is what
a function may call from its region, `Closure` what it may reach, `Certain` the effects that
it thus has and `Possible` those of declarations behind pointers besides.
`MarksExact` says which tags there must be (`MustMark`); those of a call outside
the region and of a call through a pointer, where code and comments differ, it
leaves open within what the callees have (`MayMark`). The programs
of the instance have no polymorphic functions and no lost tags of callbacks;
those are `RTPoly`.

### RTPoly

`pos` is the function at hand in address order, `call` its call at hand.
`Resolved` goes over the arguments that the callee calls and takes effects and
heap kind of what is passed (`Take`). Calls without a polymorphic callee are
`PassBy`. What is passed is a function with a body, a declaration, another
value, or nothing (fewer arguments). `Given` is what the loop leaves: each
function is listed once by address, and a normal heap goes with the effect
`Alloc` (`NormalHeapIsAlloc` of `RTWorklistProofs`). The reference is `Closure`,
what a function leads to by passing: no set that contains the function and all
that its members pass is without it.

### RTRegion

`Visit` treats one block in layout order, `SweepAgain` is another round of the
while loop, `Collect` its end. Every loop is allowed, also one that enters more
often than it leaves: its depth grows on every sweep, and `Shallow` (no depth,
before a block or inside one, is the greatest int) is what termination and
exactness depend on. Depths wrap around behind `IntMax` (signed overflow in the
code is undefined; wrapping is what the built code does). `Entries` is the meaning of the markers: depths with which a run may
come to a block.

### RTSummaryCodec

A string is a sequence of characters, of which those that the encoding treats
differ: backslash, bar, the two line ends, letters that are escapes, a digit.
Operands are numbers or texts. `Unescape` goes over a text with one bit of
state, `Split` cuts at the positions of a separator, as the code does. `Write` and
`Read` are whole functions of the code; a node of version 2 or 1 is one that an
older writer left, and `none` stands for a function without a node. What is then
read is `Default`, whose status is unknown.

### RTMarkings

Names are strings, since what goes wrong lies in them. `Expand` is the Rust
macro for one mark, `HandleDeclAttribute` the Clang plugin for one, `Collect`
takes all marker names apart, `Apply` attaches one. `Parse` counts a later find
from behind the start of the one before it and cuts with that number, as the
code does. A function's symbol is part of the program: its name, a mangled
form, or an exported one. C bounds have a width and are read as signed.

### RTCheck and RTPlace

`CheckEffect` is one entry of the constraint map for the function `Cur`,
`CheckBound` the stack bound, `Conclude` verdict, status and totals. An
annotation is what can be found in it. A function's metadata is in a format:
version 3, version 2, older, or none.

`RTPlace` runs the check to its end and then goes through the functions again:
`SkipUnmarked`, `SkipSafe` or `Instrument`, in the mode `sites` (default),
`whole` or `all`. `hooks` says what a function got. `Marked` is what makes a
function real-time by the documentation, an annotated bound included, and `IsRT`
what this pass looks for; `HooksFollowStatus` leaves open whether a function
between the two has hooks.

### RTHooks, RTShim and RTRuntime

A function is a control-flow graph of blocks with instructions (`phi`, `pad`,
`call`, `tagged`; `wrapped` once treated) and a terminator. `WrapWhole`, `WrapCall` and `WrapInvoke`
insert `enter` and `exit` as the pass does, one tagged call after the other;
`Placed` ends that. Then the code runs: `Hook`, `Step`, `Throw` (a call throws),
`Leave` and `Go` are its steps, `depth` counts hooks entered and not left. The
run of instrumented code is modelled from what the inserted calls mean, and is
marked external.

In `RTShim` an increment is one step. A reset is a call that leaves two stores
to come, which take effect one at a time and in either order, since they are
relaxed. `calm` records whether the last reset met nobody inside and nothing
came between its stores. The counters wrap at `Modulus`.

`RTRuntime` joins them: `Place` and `Run` are the steps of `RTHooks` that count
nothing, `Count` is a hook of the function and at the same time an increment by
thread `Self`, `Elsewhere` is another thread, `Resetting` a reset at any time.
`Balanced` is about what a program sees that reads the counters between runs.

### RTExport

Libraries are exported function by function into one file, as when the files
are put together by hand (`Join`) with a base table before or behind; then one
`Load`. An entry is its name, keys and heap kind. A scenario has one library or
more, and its known functions are a table that could be loaded by itself, as
`external_funcs.yaml` is: a bad entry there loses the libraries' entries too.

## Runs

| Run | Instance | Shows |
|---|---|---|
| `worklist` | three functions: acyclic programs, all the ways two calls each recurse, recursion before and behind other calls, resolved targets, four definition orders, three address orders | chains are real paths, callers on record are served, tags are exact, nothing is retracted, the result is the least fixpoint when no caller is lost, the loop implements `RTEffects`, and it ends unless a chain grows |
| `worklist_transitive` | acyclic programs | violation, finding 1 |
| `worklist_simple` | recursive programs | violation, finding 2 |
| `scan` | two functions, one of up to three instructions from nineteen sorts, both definition orders | effects, tags, heap kind, deferral, callers are what the instructions say, whatever is said of declarations behind pointers |
| `scc` | all graphs of four functions with one a declaration, or all with bodies and no self-call | components, recursion, depth; nothing is done twice, and the search stops at its end only |
| `infer` | three functions, one of up to two instructions, calls, sources, a call outside its region, tags of an earlier run, two orders each | the summaries, depths and tags of a whole run are what the program says, and depth survives what is lost |
| `place` | two functions with any constraints, effects, bounds, annotations and formats, three modes, with tags | safe exactly when all is met; every diagnostic has its reason; unsafe functions have hooks, safe ones none, the baseline all |
| `markings` | names inside names, with keywords, mangled symbols, C bounds of three and four bits | marks arrive exactly, within what the names allow |
| `sides` | all graphs of three blocks with markers; four functions with callbacks of two arguments, two address orders; frames over all short strings of eight characters; two libraries of up to two functions and a base table | the region's scope is exact and the dataflow ends; callbacks are exact when what is passed is done, bounded otherwise; what is written is read; importing agrees with linking |
| `export_load` | the same | violation, finding 3 |
| `runtime` | five blocks: entry, a loop or destination, two pads that may be shared, a last block; some of them beside a second thread and a reset, nesting up to two, counters modulo 3 | hooks pair up, and tagged calls lie inside, where destinations are not shared and nothing throws past; the counters balance through wrap-around and after a calm reset |
| `hooks_shared` | the same | violation, finding 4 |

Three functions are enough for what the loop can get wrong: a caller that is
visited before, between and after changes of a callee, two callees that compete
to provide a chain, a cycle of two and of three, and a lost caller. Four are
the smallest graph in which Tarjan's search meets an emitted component beside
an open one with a cycle on either side. Three instructions give a first and a
later source with something between, or an argument call on either side of an
unknown one.

The later modules are small machines over one function or one file at a time;
their instances have what their branches distinguish: for the callback pass a
function that is passed and itself passes one, before and behind in address
order; for regions a join, a loop, and layout against control flow; for the
check two functions, so that what is kept from the first shows in the second;
for hooks a shared and a dedicated destination, a cycle, a pad; for texts every
pair of characters, and a separator at the end of a field; for names a keyword
once and twice. A greatest int of 3 and counters modulo 3 make overflow happen.

Every run but `scc` sets `CHECK_DEADLOCK FALSE` since the pass or the
instrumented function ends; in `scc` the end is a step that changes nothing, and
deadlock is checked. Where a run states liveness (`worklist`, `sides`) its
specification has weak fairness of the loop's next step: one thread executes the
pass and nothing can block it. In `sides` that is `WF_vars(RegionStep)`, in
`worklist` weak fairness of the only action.

## Proofs

What TLC checks on a small instance, TLAPS proves for every value of the
constants: all programs, functions, effect kinds, orders, threads and widths.
Eight modules hold theorems. Each assumes of its constants what the module it is
about assumes (named ASSUMEs, which TLC evaluates on every run), and proves an
inductive invariant of which the properties are consequences. Every theorem
named `TypeCorrect` is that the module's type invariant always holds.

### RTInduction

The provers cannot instantiate an induction theorem that takes a predicate, so
induction is stated here once for sets of numbers: a set that contains 0 and the
successor of each of its elements contains all numbers (`SetInduction`,
`SegmentInduction`); a non-empty set has a least element, and a greatest one if
it has a bound; a step function has its iterates (`RecursionExists`); a set that
grows inside a finite one stops growing (`GrowthStops`). Recursive functions of
the model are reasoned about by their defining equation, shown to have a
solution, and by induction over a number (a count of steps, a size, a length).

### RTWorklistProofs

Assumed: inputs are well-formed, that is each direct chain consists of source
frames of its own function, normal heap comes with the allocation effect, and a
caller on record does call. `RTScanProofs` proves this of what the scan hands
over. The bound `MaxChain` is arbitrary. The invariant is `LoopInv`:

- `Rising`: for every function, whatever its place in the queue, visiting it now
  would keep its effects and its heap kind or add to them. Without it nothing
  prevents a visit, which starts again from the direct effects, from dropping
  what an earlier visit inherited. It is inductive because a visit can only add
  to what other visits will read. `NothingIsRetracted` follows from it.
- `NotifiedCallersServed`, `Settled`: a caller on record is queued, or was
  visited since the callee's last change and has its effects; a change queues it.
- `ChainsGenuine`: a chain extended by a frame of a real call stays a real path;
  sequence lemmas on a frame put in front.
- `TagsGenuine`, `TagsComplete`: tags are only made for effects a callee has,
  which it keeps; a caller not queued has seen its callees as they are.
- `OwnKept`, `Justified`: direct effects are never lost, and each effect is one
  of a function that can be reached. With `NotifiedCallersServed` the loop then
  ends with exactly what is reached (`ExactInTheEnd`): an effect travels the path
  backwards, by induction over its length. What the recursive `Reach` of the
  reference definition computes is shown to be the least set that is closed under
  calls (`ReachIsLeast`).

`KeepsThePromise` is the refinement: `RTWorklist` implements `RTEffects`, for a
visit learns from callees only, and the loop ends with all callers on record
served.

### RTScanProofs

`ScanInv` says of every function what its instructions scanned so far have left:
the first source of each kind as its chain, the worst heap kind with the first
allocation of it, the tags, the arguments called, and of the edges that a callee
forgets its callers exactly when its own scan begins. `Over(f)` are the
instructions gone over; each of the ten actions that look at an instruction adds it to `Over`.
`HandsOver` proves the assumption of `RTWorklist` from it; for this, the position
of a direct call among the direct calls is shown to count them. Assumed of a
program is what the IR guarantees: each function is listed once in definition
order and in address order, operands are functions or externals, and so on
(`Module`).

### RTSCCProofs

The invariant of Tarjan's search, `SearchInv`: indices rise along the stack;
activations lead from one to the next; a lowlink is the index of something on
the stack that can be reached (`LowInv`); on the stack one gets upwards by calls
(`PathInv`) and from everywhere down to an activation (`BackInv`); an
activation's lowlink knows every treated callee of its part of the stack
(`OwnInv`). An activation that returns with its own index thus has a class of
mutual reachability above it: reachable from each other by the path invariants,
and complete since nothing leads further down, and what was emitted is closed
(`CalleesFirst`). `ComponentsAreClasses` is a part of the invariant, `DepthInv`
says that the depths measured so far are lengths of longest chains, and that a
depth of -1 stands for a cycle. `MeasuresExact` compares with the recursive
reference definition, whose values are shown to be attained and greatest.

`NothingIsDoneTwice` needs the invariant as well: that `Descend` visits its
callee for the first time follows from the indices, and that a function has one
activation at most from their order. Each action is shown to take its part of
what is left (`EnterIsLess`, `FurtherIsLess`, `SetDepthIsLess`) and to leave the
other functions what they had.

### RTPlaceProofs

Both modules for any set of modules, which list each function once. `CheckInv`
describes a judgement half done, entry by entry: the flags are what the entries
so far ask for, the diagnostics are theirs, in order, and the totals count them
(`AtHand`, `Ahead`). `PlaceInv` says what a function gone over has got, as a
function of status, attributes, tags and mode. `VerdictsExact` and
`VerdictsExplained` are parts of the first; `UnsafeGuarded` and `HooksFollow`
follow from both, since the placement begins when the check is over.

### RTInferProofs

The composition. `InferInv` gives each phase the invariants of the phases up to
it: `ScanInv` of the scan (`ScanPart`), `Inv` of the search on the scan's call
graph (`SearchPart`), `LoopInv` on what the recursion step hands over
(`SpreadPart`), and at the end the depths and tags (`Results`). The theorems
of the three modules are used through instances over all graphs and all
well-formed inputs (`AllGraphs`, `AllInputs`), so that their assumptions are
proved, not repeated: what is handed on is shown to be one of them, with the
cycle frame in front. The reachability of the three modules, each defined for
its own data, is shown to be one relation. From this the four properties of a
whole run, whose reference is the text of the program:
`SummariesAlwaysExact`, `DepthAlwaysSurvives`, `CycleAlwaysVisible`,
`MarksAlwaysExact`. Assumed beyond `RTScan`: finitely many functions, no
instruction that calls an argument (those go on to `RTPoly`), and the name of the
cycle frame is no external function's.

### RTRuntimeProofs

Assumed: finitely many threads, a modulus above 0, a nesting bound (of any
size), and code that the IR verifier accepts and that has no hooks yet. The
invariant has two parts.

`ShimInv`: after a calm reset that is over, enters exceed exits by the sum of
what the threads are inside plus a multiple of the modulus (`Exceeds`); while the
reset is under way, nobody is inside and each counter is zero or about to be
(`Stored`). The sum is the fold of the model, shown to change by one when one
term does, whatever the order of summation.

`HooksInv`: the code stays valid, has a shape, and the thread is inside exactly
as far as the place of the run says (`OwedAt`). Wrapped whole, the one enter is
behind the pads of the entry block, and exits stand before the terminators that
leave (`WholeShape`). Per call site, an exit that belongs to no call of its block
is there for an invoke that leads to the block, and behind its pads if no other
way leads there; a block that ends in an enter ends in an invoke (`SitesShape`).
That holds in shared destinations too, and is inductive there; only what is
owed needs the condition `Fits`. `HooksPair` and `CountersBalance` follow.

### RTSidesProofs

Region scoping. Assumed of `RTRegion`: at least one block, any greatest int, nothing leads to the
entry. The depth along a block (`DepthAt`, a recursion) is shown to be what each
instruction makes of the depth before it, and to be monotone in the depth at the
beginning as long as nothing wraps around. The reference `Entries`, the depths
control can come to a block with, is shown to be the least set closed under
control flow where a closed set within the range of an int exists
(`EntriesLeast`): it is built in as many steps as there are pairs of a block and
a depth, so that it has stopped growing. The invariant `RegionInv` says that no
depth of the analysis is more than control can come with (`Attained`: it lies in
every closed set), that a sweep which has changed nothing so far leaves its
blocks with what their predecessors give (`SweepInv`), and that this holds of all
blocks in the end. Then everything up to the depths found is closed
(`KnownIsClosed`), the deepest entry of each block is among what control can do,
and `ScopeAlwaysExact` follows by monotony: no call in a region is missed, none
outside counts. A block whose own markers overflow an int in its middle was found
this way; `Shallow` looks at every place of a block, not only at its ends.

Callbacks. Assumed of `RTPoly`: `Alloc` is one of the effect kinds, and `Given`. The invariant `PolyInv`
says that a summary keeps what it had before the pass (`Keeps`), that effects and
heap kind of a function come from what it leads to (`Sourced`), that functions
which pass nothing are as they were (`LeftAlone`), and that a call gone over
has brought what was passed in it (`TakenUp`): what a passed function had at
first, and all it has if it had been visited, or passes nothing, and so does not
change any more. Chains stay paths (`PathsGenuine`), also when a function
passes itself. The lower bound of `Bounded` is `TakenUp`, the upper one `Sourced`. For
`ExactWhenTimely`, the functions that a timely one leads to are shown to be a set
closed under passing whose summaries the function covers: each that is passed was
final when it was taken. `Resolved`, a recursion over the arguments, and `Worst`
are shown to have the value meant.

Metadata. Assumed of `RTSummaryCodec`: the digits contain no separator and no
backslash, but the zero. Names, files and instructions are texts over any characters, the separators
among them. A text that is put together of pieces has these one behind the other
(`FlattenIs`), where a recursion gives the places. So escaped text contains no
separator (`EscapeIs`), and the automaton that reads it is where it was after
each character's escape (`UnescapeEscape`): a backslash never waits between two
of them. What is split at a separator that is in no piece are the pieces
(`SplitJoin`): the separators' positions are counted. From these, frames, chains,
arguments and whole operand lists are read as they were written (`FrameAgain`,
`ChainAgain`, `ArgsAgain`, `NodeReadIs`), an empty chain and a list without
arguments included, and `AlwaysRoundTrip` follows for any number of kinds, length
of chains and text.

Export. Assumed of `RTExport`: `Alloc` is in use, a normal heap goes with the
effect `Alloc`, there is a library, and the known functions can be loaded. The
invariant `ExportInv` says that every function gone over has its entry in the
file (`AllWritten`), that the known functions stand in it together and in their
order, all other entries being of libraries (`BaseInv`; with the known functions
to come last there are none of them yet), and that what is loaded is the table of
this file (`LoadInv`). The last entry of a name stands (`LatestIs`); where names
are told apart that is the function's own (`OwnEntry`), and `AlwaysAsIfLinked`
follows. Proving showed what a scenario has to be: without a library a base table
that comes last is never joined, and a base table that cannot be loaded by itself
takes the libraries' entries with it.

`TypeCorrect` joins the four: the invariant of the component at hand, and the
others' variables at their dummy value.

### Not proved

Termination of loop and dataflow is liveness and stays with TLC. Of the search
what is proved is that every step makes less of what is left; that a step can be
taken until the end is what the deadlock check of the run `scc` shows.
`RTMarkings` takes names apart, which are strings, whose characters the provers
know nothing of. The violations (see Findings) are TLC's. `NormalHeapIsAlloc` is
proved and has no run of its own.

## Findings

Checked, each by a run that ends in a counterexample:

1. `worklist_transitive`: `CallersOf[&F] = {}` (infer 522) runs when the scan
   reaches `F`, after callers defined earlier have been recorded. In a chain of
   helpers that call functions defined further down, whether an effect arrives
   depends on addresses.
2. `worklist_simple`: with recursion before the call that brings an effect, the
   chain passes through the same function again, its reason differs at every
   visit, and the loop does not end.
3. `export_load`: the key `may_recurse` makes the loader reject the table.
4. `hooks_shared`: exit hooks sit in blocks, not on edges, so that another edge
   to the same block runs an exit without an enter.

Seen while modelling, and part of the model: the actions do what the code does,
and the properties exclude these cases or leave open what happens in them, with
two exceptions: the check is judged by the metadata it reads (`SafeExactly`,
`Explained`), a default included, and `PolyExact` counts what the code counts of
the arguments, functions with a body. No run of its own states these cases.

- Tags: an effect through a resolved indirect call, or a callback, leaves no tag
  (infer 866, 979), though the comment at infer 506 speaks of every contributing
  site; a call outside a region is tagged when the same callee is called inside
  one (infer 798).
- An indirect call resolved to a declaration counts for nothing (infer 578),
  while a direct call of the same declaration makes the caller unknown.
- Callbacks: what the pass adds reaches no caller (infer 999), and a declaration
  or value passed as a callback counts for nothing (infer 960).
- A loop with more enters than exits keeps the region dataflow going until the
  depth overflows (infer 340).
- Check: a bound missed through recursion is diagnosed as Unknown (472), direct
  effects of recursive functions count as transitive (135), and without metadata,
  or with older metadata, a constrained function is ProvenSafe (411).
- Placement: a bound given as annotation is checked but never guarded (66); tags
  for one effect keep the call of another unwrapped (205); the hook before a
  `catchret`, which does not leave the function, makes a second exit (83); an
  exception through a plain call passes no exit hook (95).
- The export drops the unknown (infer 1140).
- Marks: a Rust name that contains its constraint is cut short (infer 137), the
  fallback by substring may take another function (infer 168), and the literal
  `1_000` becomes the bound 1 (`rt_attr/src/lib.rs` 146).

## Not modelled

Registration of passes, scripts and benchmarks; the text of log lines,
diagnostics, JSON and SARIF, and failures to open their files; `merge()` and
`hasAnyEffect()`, which nothing calls; what the Rust macro changes of the
function it marks, and Clang's parsing of attributes. Hooks at a `catchswitch`
or before the return of a `musttail` call make IR that the verifier rejects:
there is no run to state a property of. The reads of the shim's counters are
relaxed and may be reordered; no property is stated of a pair of them.
