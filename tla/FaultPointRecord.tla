-------------------------- MODULE FaultPointRecord --------------------------
(***************************************************************************)
(* The records of src/error_finder/include/fault_point_info.h: how        *)
(* setLocationInfo fills a record's line and source text, how             *)
(* output_vector writes a vector of records as a ptree document (the      *)
(* "info" list, one fill_ptree per record) and how input_vector reads one *)
(* back (extract_ptree per record).                                        *)
(*                                                                         *)
(* A source file is its lines, each "blank" (only white space), "text"    *)
(* (no ';') or "stmt" (holds a ';'), whether it ends in a newline, and    *)
(* whether it can be opened at all.  The text setLocationInfo builds is    *)
(* the sequence of the pieces it joins with " ": the default NA, a     *)
(* line of the file (its number), or EMPTY from a getline past the end.  A   *)
(* document record is a function from the keys put into it; a key missing *)
(* from it is one an older or hand-edited catalog does not carry.  An int *)
(* written by put and read by get<int> is its decimal text and back, the  *)
(* same value in range, so values are kept as they are.                   *)
(***************************************************************************)
EXTENDS Integers, SequencesExt

CONSTANTS Batches,     \* Batches[T]: the vectors of records of type T a run may write
          SourceTrees, \* the source trees (file name -> file) a run may read
          MaxLines,    \* max_lines of setLocationInfo (10 in the code)
          NA,          \* the text "N/A", DEFAULT_SOURCECODE (model value)
          EMPTY        \* the text "" (model value)

VARIABLES T,      \* the record type, by its TEXT_NAMESPACE
          phase,  \* "locate", "write", "written", "done" or "aborted"
          tree,   \* the source tree under --srcPath (modulePath)
          enrich, \* outputSourceCode: a source path was given
          k,      \* the record setLocationInfo runs for next
          recs,   \* the vector of records in memory
          doc,    \* the "info" list of the document, one ptree per record
          read    \* the vector input_vector builds

vars == <<T, phase, tree, enrich, k, recs, doc, read>>

DEFAULT_SOURCECODE == NA

Types == {"faultSiteInfo", "setNullPointInfo"}
Stats == {"faultSiteNum", "checkedNum", "directNum"}
BaseKeys == {"fileName", "functionName", "serialNumber", "lineNumber", "sourceCode"}
ChildKeys(kind) ==
    IF kind = "faultSiteInfo" THEN {"calleeName", "returnValue"} \cup Stats
    ELSE {"parentTypeName", "offset"}

-----------------------------------------------------------------------------
(* setLocationInfo, lines 61-109 *)

\* std::getline on a stream at line pos of f: the line and the stream after
\* it.  Reading the last line without a newline sets eof; a read past the
\* end gives "" and fails.
GetLine(f, pos) ==
    IF pos <= Len(f.lines)
    THEN [text |-> pos, pos |-> pos + 1, good |-> pos < Len(f.lines) \/ f.eol]
    ELSE [text |-> EMPTY, pos |-> pos, good |-> FALSE]

IsLine(piece) == piece \notin {NA, EMPTY}
HasSemicolon(f, piece) == IsLine(piece) /\ f.lines[piece] = "stmt"
IsSpace(f, piece) == piece = EMPTY \/ (IsLine(piece) /\ f.lines[piece] = "blank")

\* Lines 86-88: getline until line L, each read replacing sourceCode.
RECURSIVE SkipTo(_, _, _)
SkipTo(f, L, s) ==
    IF s.good /\ s.i < L
    THEN LET g == GetLine(f, s.pos)
         IN  SkipTo(f, L, [i |-> s.i + 1, pos |-> g.pos, good |-> g.good,
                          code |-> <<g.text>>, last |-> g.text, count |-> 0])
    ELSE s

\* Lines 93-102: append further lines while the last has no ';', at most
\* max_lines + 1 of them.
RECURSIVE Continue(_, _)
Continue(f, s) ==
    IF s.good /\ ~HasSemicolon(f, s.last)
    THEN LET g == GetLine(f, s.pos)
             t == [i |-> s.i + 1, pos |-> g.pos, good |-> g.good,
                   code |-> Append(s.code, g.text), last |-> g.text,
                   count |-> s.count + 1]
         IN  IF t.count > MaxLines THEN t ELSE Continue(f, t)
    ELSE s

\* trim (commonutils.hpp 96-99) of the joined text: the white space pieces
\* at either end go.
RECURSIVE TrimFront(_, _)
TrimFront(f, c) == IF c # <<>> /\ IsSpace(f, Head(c)) THEN TrimFront(f, Tail(c)) ELSE c
trim(f, c) == Reverse(TrimFront(f, Reverse(TrimFront(f, c))))

\* The sourceCode setLocationInfo leaves for line L of f; an ifstream that
\* cannot be opened is not good from the start.
SourceCodeOf(f, L) ==
    LET s0 == [i |-> 0, pos |-> 1, good |-> f.exists, code |-> <<DEFAULT_SOURCECODE>>,
               last |-> DEFAULT_SOURCECODE, count |-> 0]
        s1 == SkipTo(f, L, s0)
        s2 == Continue(f, [s1 EXCEPT !.last = s1.code[Len(s1.code)]])
    IN  IF s2.i < L THEN <<DEFAULT_SOURCECODE>> ELSE trim(f, s2.code)

\* Lines 68-78: the line of the outermost location of the inlined-at chain.
LineOf(loc) == loc[Len(loc)]

Init ==
    /\ T \in Types
    /\ recs \in Batches[T]
    /\ tree \in SourceTrees
    /\ enrich \in BOOLEAN
    /\ phase = "locate"
    /\ k = 1
    /\ doc = <<>>
    /\ read = <<>>

\* setLocationInfo on the instruction of record k.
SetLocation ==
    /\ phase = "locate"
    /\ k <= Len(recs)
    /\ LET r == recs[k]
           L == LineOf(r.loc)
       IN  recs' = [recs EXCEPT ![k].lineNumber = L,
                                ![k].sourceCode = IF enrich
                                                  THEN SourceCodeOf(tree[r.fileName], L)
                                                  ELSE @]
    /\ k' = k + 1
    /\ UNCHANGED <<T, phase, tree, enrich, doc, read>>

LocationsDone ==
    /\ phase = "locate"
    /\ k > Len(recs)
    /\ phase' = "write"
    /\ UNCHANGED <<T, tree, enrich, k, recs, doc, read>>

-----------------------------------------------------------------------------
(* The ptree round trip, lines 111-157, 202-231 and 274-289 *)

\* InstructionLocationInfo::fill_ptree: the five base fields.
FillBase(r) == [x \in BaseKeys |-> r[x]]

\* FaultPointInfo / NullableMemberInfo::fill_ptree: the base fields, then the
\* record's fields under its TEXT_NAMESPACE child.
fill_ptree(r) == FillBase(r) @@ (T :> [y \in ChildKeys(T) |-> r[y]])

\* Lines 143-157: every record in vector order under "info".
output_vector ==
    /\ phase = "write"
    /\ doc' = [i \in DOMAIN recs |-> fill_ptree(recs[i])]
    /\ phase' = "written"
    /\ UNCHANGED <<T, tree, enrich, k, recs, read>>

\* The catalog input_vector is handed was written by another tool or
\* edited by hand: one field of a record's child (an optional statistic,
\* or a required field) is missing.  The reader's environment, not a step of
\* the code.
ExternalCatalog ==
    /\ phase = "written"
    /\ \E i \in DOMAIN doc : \E y \in DOMAIN doc[i][T] :
           doc' = [doc EXCEPT ![i][T] = [z \in DOMAIN @ \ {y} |-> @[z]]]
    /\ UNCHANGED <<T, phase, tree, enrich, k, recs, read>>

\* extract_ptree is defined: every key it gets without a try is present.
Extractable(d) ==
    /\ BaseKeys \subseteq DOMAIN d
    /\ T \in DOMAIN d
    /\ ChildKeys(T) \ Stats \subseteq DOMAIN d[T]

\* InstructionLocationInfo::extract_ptree: the five base fields.
ExtractBase(d) == [x \in BaseKeys |-> d[x]]

\* Lines 220-228: the three statistics in one try block; the catch zeroes
\* all three when any get throws.
ExtractStats(sub) == [y \in Stats |-> IF Stats \subseteq DOMAIN sub THEN sub[y] ELSE 0]

\* FaultPointInfo / NullableMemberInfo::extract_ptree: the child's fields,
\* then the base fields.
extract_ptree(d) ==
    LET sub == d[T]
        own == IF T = "faultSiteInfo"
               THEN [y \in {"calleeName", "returnValue"} |-> sub[y]] @@ ExtractStats(sub)
               ELSE [y \in ChildKeys(T) |-> sub[y]]
    IN  ExtractBase(d) @@ own

\* Lines 127-141: every record of the list in order; a get of a missing
\* required key throws out of input_vector and the document is lost.
input_vector ==
    /\ phase = "written"
    /\ IF \A i \in DOMAIN doc : Extractable(doc[i])
       THEN /\ read' = [i \in DOMAIN doc |-> extract_ptree(doc[i])]
            /\ phase' = "done"
       ELSE /\ phase' = "aborted"
            /\ UNCHANGED read
    /\ UNCHANGED <<T, tree, enrich, k, recs, doc>>

Next == SetLocation \/ LocationsDone \/ output_vector \/ ExternalCatalog \/ input_vector

Spec == Init /\ [][Next]_vars

(***************************************************************************)
(* Spec section 6: reading a catalog back reproduces the field values it  *)
(* holds, and a statistics field the catalog lacks reads as zero.  It is  *)
(* about output_vector / input_vector and the try block of               *)
(* FaultPointInfo::extract_ptree (lines 220-228), whose catch zeroes all   *)
(* three statistics when any one of them is missing, so a catalog lacking *)
(* only directNum loses faultSiteNum and checkedNum too.                   *)
(***************************************************************************)
ReadBackAsWritten ==
    phase = "done" =>
        /\ DOMAIN read = DOMAIN doc
        /\ \A i \in DOMAIN doc :
             LET d == doc[i] IN
             /\ \A x \in BaseKeys : read[i][x] = d[x]
             /\ \A y \in ChildKeys(T) :
                  read[i][y] = IF y \in DOMAIN d[T] THEN d[T][y] ELSE 0

=============================================================================
