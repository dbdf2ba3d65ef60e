------------------------- MODULE MCFaultPointRecord -------------------------
(***************************************************************************)
(* Model-checking instance of FaultPointRecord: one source file of up to  *)
(* three lines, with or without a final newline, or missing; vectors of   *)
(* one or two fault-site records or of one nullable-member record, whose  *)
(* location is a line of the file, a line past its end, line 0, or        *)
(* inlined into a line of it.                                              *)
(***************************************************************************)
EXTENDS FaultPointRecord

CONSTANTS fa, fn, open, close, sk

Files ==
  { [exists |-> TRUE, lines |-> ls, eol |-> e] :
      ls \in UNION {[1..n -> {"blank", "text", "stmt"}] : n \in 1..3}, e \in BOOLEAN }
  \cup {[exists |-> FALSE, lines |-> <<>>, eol |-> TRUE]}

MCSourceTrees == {fa :> f : f \in Files}

Locations == {<<0>>, <<1>>, <<2>>, <<4>>, <<3, 1>>}

Base(loc) == [fileName |-> fa, functionName |-> fn, serialNumber |-> 1,
              lineNumber |-> 0, sourceCode |-> <<DEFAULT_SOURCECODE>>, loc |-> loc]

FaultRecord(loc, st) ==
  Base(loc) @@ [calleeName |-> open, returnValue |-> -1,
                faultSiteNum |-> st[1], checkedNum |-> st[2], directNum |-> st[3]]

NullableRecord(loc) == Base(loc) @@ [parentTypeName |-> sk, offset |-> 8]

\* counters as main() attaches them: checked >= 1, direct <= checked <= total
Counts == {<<2, 1, 0>>, <<2, 2, 1>>}

\* a .faultsite vector of one or two records, a .nullable vector of one
MCBatches ==
  [t \in Types |->
     IF t = "faultSiteInfo"
     THEN {<<FaultRecord(l, st)>> : l \in Locations, st \in Counts}
          \cup {<<FaultRecord(l1, st), FaultRecord(l2, st)>> :
                  l1, l2 \in Locations, st \in Counts}
     ELSE {<<NullableRecord(l)>> : l \in Locations}]

=============================================================================
