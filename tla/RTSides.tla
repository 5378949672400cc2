-------------------------------- MODULE RTSides --------------------------------
(***************************************************************************)
(* The parts of the inference beside its main line: before the scan, the   *)
(* instructions that lie in regions are found (RTRegion); of the summaries *)
(* that the propagation loop has left, those of the callers of polymorphic *)
(* functions are changed (RTPoly); all are written to metadata for the     *)
(* passes behind (RTSummaryCodec), and exported for other modules          *)
(* (RTExport).  The four stand side by side, each with its own inputs; a   *)
(* behavior is one of one of them.                                         *)
(***************************************************************************)
EXTENDS Integers

CONSTANTS LastBlock, IntMax, Functions,                  \* RTRegion
          Funcs, Names, Kinds, MaxArg, Inputs,          \* RTPoly
          Chars, Digits, Summaries, KindCount,          \* RTSummaryCodec
          ExportKinds, Symbols, Scenarios               \* RTExport

VARIABLES part,        \* "region", "poly", "codec" or "export"
          fn, depthIn, depthOut, regionPos, changed, inRegion, regionPc,      \* RTRegion
          in, summ, pos, call,                          \* RTPoly
          s, version, node, back, pc,                   \* RTSummaryCodec
          scenario, lib, at, file, loading, table       \* RTExport

regionVars == <<fn, depthIn, depthOut, regionPos, changed, inRegion, regionPc>>
polyVars   == <<in, summ, pos, call>>
codecVars  == <<s, version, node, back, pc>>
exportVars == <<scenario, lib, at, file, loading, table>>
vars       == <<part, regionVars, polyVars, codecVars, exportVars>>

Region == INSTANCE RTRegion WITH pos <- regionPos, pc <- regionPc
Poly   == INSTANCE RTPoly
Codec  == INSTANCE RTSummaryCodec
Export == INSTANCE RTExport WITH Kinds <- ExportKinds

ASSUME SidesAssumption == /\ Region!RegionAssumption /\ Poly!PolyAssumption
                          /\ Codec!CodecAssumption /\ Export!ExportAssumption
-----------------------------------------------------------------------------
NoRegion == /\ fn = "-" /\ depthIn = "-" /\ depthOut = "-" /\ regionPos = "-"
            /\ changed = "-" /\ inRegion = "-" /\ regionPc = "-"
NoPoly   == in = "-" /\ summ = "-" /\ pos = "-" /\ call = "-"
NoCodec  == s = "-" /\ version = "-" /\ node = "-" /\ back = "-" /\ pc = "-"
NoExport == scenario = "-" /\ lib = "-" /\ at = "-" /\ file = "-" /\ loading = "-" /\ table = "-"

TypeOK == CASE part = "region" -> Region!TypeOK /\ NoPoly /\ NoCodec /\ NoExport
            [] part = "poly"   -> Poly!TypeOK /\ NoRegion /\ NoCodec /\ NoExport
            [] part = "codec"  -> Codec!TypeOK /\ NoRegion /\ NoPoly /\ NoExport
            [] part = "export" -> Export!TypeOK /\ NoRegion /\ NoPoly /\ NoCodec

Init == \/ part = "region" /\ Region!Init /\ NoPoly /\ NoCodec /\ NoExport
        \/ part = "poly" /\ Poly!Init /\ NoRegion /\ NoCodec /\ NoExport
        \/ part = "codec" /\ Codec!Init /\ NoRegion /\ NoPoly /\ NoExport
        \/ part = "export" /\ Export!Init /\ NoRegion /\ NoPoly /\ NoCodec

RegionStep == /\ part = "region"
              /\ Region!Next
              /\ UNCHANGED <<part, polyVars, codecVars, exportVars>>

PolyStep == /\ part = "poly"
            /\ Poly!Next
            /\ UNCHANGED <<part, regionVars, codecVars, exportVars>>

CodecStep == /\ part = "codec"
             /\ Codec!Next
             /\ UNCHANGED <<part, regionVars, polyVars, exportVars>>

ExportStep == /\ part = "export"
              /\ Export!Next
              /\ UNCHANGED <<part, regionVars, polyVars, codecVars>>

Next == RegionStep \/ PolyStep \/ CodecStep \/ ExportStep

Spec == /\ Init /\ [][Next]_vars
        /\ WF_vars(RegionStep)         \* one thread, which keeps running
-----------------------------------------------------------------------------
(***************************************************************************)
(* Once the dataflow over regions has ended, the instructions in scope are *)
(* exactly those that some run of the function comes to inside a region,   *)
(* unless a depth has come to the greatest value of an int.                *)
(***************************************************************************)
ScopeExact == part = "region" => Region!ScopeExact

(***************************************************************************)
(* The dataflow over the blocks ends, with loops of any shape, unless a    *)
(* depth grows to the greatest value of an int.                            *)
(***************************************************************************)
ScopeEnds == [](part = "region" => Region!Shallow) => <>(part # "region" \/ regionPc = "done")

(***************************************************************************)
(* The pass over the callers of polymorphic functions is exact where what  *)
(* it reads is final; in any other order of addresses its result lies      *)
(* between the direct effects of the functions passed and everything that  *)
(* is reachable by passing; and every chain it builds is a path of calls   *)
(* and passed functions, though it extends summaries in place.             *)
(***************************************************************************)
PolyExact == part = "poly" => Poly!ExactWhenTimely /\ Poly!Bounded /\ Poly!PathsGenuine

(***************************************************************************)
(* What the later passes read in the metadata is what the inference has    *)
(* written, whatever characters names, files and instructions consist of;  *)
(* of an older version, what that version had, and of a still older one,   *)
(* or where there is no node, status unknown and no effect.                *)
(***************************************************************************)
RoundTrip == part = "codec" => Codec!RoundTrip /\ Codec!OlderVersions

(***************************************************************************)
(* A module that is analysed with the exports of others sees of their      *)
(* functions what linking would show: exactly where nothing is recursive   *)
(* or unknown, and without a silent loss of a known effect in any case;    *)
(* and the exports change nothing of the functions known before.           *)
(***************************************************************************)
AsIfLinked == part = "export" => Export!AsIfLinked /\ Export!SilentOnlyOnUnknown /\ Export!KnownStaysKnown
-----------------------------------------------------------------------------
(* What the repository says of the export and the code does not do.        *)

(***************************************************************************)
(* README and the comment in the file: the export is "a table compatible   *)
(* with external_funcs.yaml for cross-module analysis": it can be loaded.  *)
(***************************************************************************)
ExportLoads == part = "export" => Export!ExportLoads
=============================================================================
