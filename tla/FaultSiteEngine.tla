-------------------------- MODULE FaultSiteEngine --------------------------
(***************************************************************************)
(* The checked-return-value engine of ErrorFinder: AliasRecursiveAnalysis *)
(* in src/error_finder/FaultSiteAnalysis.hpp, driven by main() in         *)
(* src/error_finder/ErrorFinder.cc.                                        *)
(*                                                                         *)
(* analyze() makes three passes over the modules, in the iteration order  *)
(* of an unordered_map (the same order for every pass):                   *)
(*   1. classification of defined functions (funcDefined, funcExternal);  *)
(*   2. analyzeFunctionAndGetUncheckedAliasSet for every function, a      *)
(*      recursive, memoised descent into candidate callees that fills the *)
(*      per-callee counters funcExternalCheckedTimes;                      *)
(*   3. analyzeModuleForContext, which emits a FaultPointInfo per call    *)
(*      site of a boundary callee that was checked at least once.         *)
(* main() then sorts the records, drops never-checked callees and attaches *)
(* the final counters.                                                     *)
(*                                                                         *)
(* The IR is abstracted to what the engine reads of it: for each defined  *)
(* function the sequence of its qualifying call sites (direct callee with *)
(* int/pointer return type and a debug location).  A call site carries    *)
(* the three answers the engine obtains from isValueUsedBy /               *)
(* isValueDirectlyUsedBy (alias resolver + usage test): checked, direct,  *)
(* returned.  The recursion of the C++ code is an explicit call stack.    *)
(***************************************************************************)
EXTENDS Integers, Sequences, FiniteSets, SequencesExt

LOCAL Rel == INSTANCE Relation

CONSTANTS
  Modules,     \* the .bc modules of the input directory
  Defined,     \* names of functions that have a body in some module
  Boundary,    \* names of functions only ever declared (libc, syscalls)
  MmapFns,     \* names that always inject -1 (mmap, mmap64)
  NoName,      \* "", the name getDefinedFuncName gives a declaration
  Programs,    \* the programs (IR abstractions) the run may analyse
  NameRank,    \* the string order of names, as a ranking
  MaxDepth     \* bound on the call stack (never reached by correct code)

Names == Defined \cup Boundary

ASSUME NoName \notin Names
ASSUME NameRank \in [Names -> Nat]
ASSUME MaxDepth \in Nat \ {0}

(***************************************************************************)
(* A call site, as the engine sees it (utils.hpp isValueUsedBy,           *)
(* isValueDirectlyUsedBy).  direct implies checked: the alias list of a   *)
(* value always starts with the value itself.                              *)
(***************************************************************************)
CallSite == {s \in [callee : Names, checked : BOOLEAN, direct : BOOLEAN,
                    returned : BOOLEAN] : s.direct => s.checked}

(***************************************************************************)
(* A program: order[m] is the sequence of functions with a body in module *)
(* m, in IR order; body[f] the qualifying call sites of f; header the     *)
(* functions whose file is an include/*.h header; void the defined        *)
(* functions whose return type is neither integer nor pointer; ptr the   *)
(* names whose declared return type is a pointer.  kernel is the          *)
(* --kernelMode flag of the run; main() also sets deepMode to it.         *)
(***************************************************************************)
IsProgram(p) ==
  /\ p.order \in [Modules -> Seq(Defined)]
  /\ p.body \in [Defined -> Seq(CallSite)]
  /\ p.header \subseteq Defined
  /\ p.void \subseteq Defined
  /\ p.ptr \subseteq Names
  /\ p.kernel \in BOOLEAN

ASSUME \A p \in Programs : IsProgram(p)

Zero == [total |-> 0, checked |-> 0, direct |-> 0]

VARIABLES
  prog,          \* the program under analysis
  modSeq,        \* iteration order of filenameModuleMap
  phase,         \* which pass of analyze()/main() is running
  mi, fi, ci,    \* module, function and call-site cursors of the passes
  funcDefined,   \* candidate functions
  funcExternal,  \* header-defined functions counted as boundary
  memo,          \* uncheckedAliasMap: key -> unchecked alias set
  stack,         \* frames of analyzeFunctionAndGetUncheckedAliasSet
  counters,      \* funcExternalCheckedTimes: name -> (total, checked, direct)
  serial,        \* functionSerialMap of the current function
  records,       \* faultSiteInfoVec
  output         \* finalVec written to <output>.faultsite

vars == <<prog, modSeq, phase, mi, fi, ci, funcDefined, funcExternal, memo,
          stack, counters, serial, records, output>>

-----------------------------------------------------------------------------
(* Helpers translated from the code *)

CurMod == modSeq[mi]
Funcs(m) == prog.order[m]
KernelMode == prog.kernel
PtrFns == prog.ptr


\* getDefinedFuncName of the callee Function seen from module m: its name
\* when m holds its body, "" when m only declares it.
CalleeKey(c, m) == IF c \in ToSet(prog.order[m]) THEN c ELSE NoName

\* the body a key stands for; a declaration has no basic blocks
Body(k) == IF k = NoName THEN <<>> ELSE prog.body[k]

\* the injected failure value (analyzeModuleForContext, recordFaultSiteInfo)
FailureValue(c) ==
  IF c \in MmapFns THEN -1
  ELSE IF c \in PtrFns THEN 0
  ELSE IF KernelMode THEN -12 ELSE -1

Top == stack[Len(stack)]
TopSite == Body(Top.key)[Top.pc]
PcDone == Top.pc > Len(Body(Top.key))

\* one more boundary call site seen (lines 339-347)
CountSite(cnt, s) ==
  [cnt EXCEPT ![s.callee] = [total   |-> @.total + 1,
                             checked |-> @.checked + IF s.checked THEN 1 ELSE 0,
                             direct  |-> @.direct + IF s.direct THEN 1 ELSE 0]]

\* mutant: the validation forgets to count the call site in total
ValidateNoTotal(cnt, set) ==
  [n \in Names |-> IF n \in set
                   THEN [cnt[n] EXCEPT !.checked = @ + 1]
                   ELSE cnt[n]]

\* a checked call of a candidate validates its callee's set (lines 326-331)
Validate(cnt, set) ==
  [n \in Names |-> IF n \in set
                   THEN [cnt[n] EXCEPT !.total = @ + 1, !.checked = @ + 1]
                   ELSE cnt[n]]

AdvancePc == stack' = [stack EXCEPT ![Len(stack)].pc = @ + 1]

-----------------------------------------------------------------------------
Init ==
  /\ prog \in Programs
  /\ modSeq \in {s \in [1..Cardinality(Modules) -> Modules] : Range(s) = Modules}
  /\ phase = "classify"
  /\ mi = 1 /\ fi = 1 /\ ci = 1
  /\ funcDefined = {} /\ funcExternal = {}
  /\ memo = [k \in {} |-> {}]
  /\ stack = <<>>
  /\ counters = [n \in Names |-> Zero]
  /\ serial = [n \in Names |-> 0]
  /\ records = <<>>
  /\ output = <<>>

(***************************************************************************)
(* Pass 1: analyzeModuleForFunctionClassification of one module.  In      *)
(* kernel mode a function defined in an include/ header is external; else *)
(* it is a candidate when it returns an integer or a pointer.             *)
(***************************************************************************)
ClassifyModule ==
  /\ phase = "classify"
  /\ LET fs  == ToSet(Funcs(CurMod))
         ext == IF KernelMode THEN fs \cap prog.header ELSE {}
     IN  /\ funcExternal' = funcExternal \cup ext
         /\ funcDefined' = funcDefined \cup ((fs \ ext) \ prog.void)
  /\ IF mi < Len(modSeq)
       THEN mi' = mi + 1 /\ UNCHANGED phase
       ELSE mi' = 1 /\ phase' = "analyze"
  /\ UNCHANGED <<prog, modSeq, fi, ci, memo, stack, counters, serial,
                 records, output>>

(***************************************************************************)
(* Pass 2, analyzeModule: start analyzeFunctionAndGetUncheckedAliasSet on *)
(* the next function of the module unless it is external.  A function     *)
(* already in uncheckedAliasMap returns at once; otherwise its empty      *)
(* placeholder is installed before any call site is looked at.            *)
(***************************************************************************)
AnalyzeRoot ==
  /\ phase = "analyze" /\ stack = <<>>
  /\ fi <= Len(Funcs(CurMod))
  /\ LET fun == Funcs(CurMod)[fi] IN
       IF fun \in funcExternal \/ fun \in DOMAIN memo
         THEN UNCHANGED <<memo, stack>>
         ELSE /\ memo' = memo @@ (fun :> {})
              /\ stack' = <<[key |-> fun, pc |-> 1]>>
  /\ fi' = fi + 1
  /\ UNCHANGED <<prog, modSeq, phase, mi, ci, funcDefined, funcExternal,
                 counters, serial, records, output>>

\* the module's functions are done: next module, or pass 3
NextModule ==
  /\ phase = "analyze" /\ stack = <<>>
  /\ fi > Len(Funcs(CurMod))
  /\ fi' = 1
  /\ IF mi < Len(modSeq)
       THEN mi' = mi + 1 /\ UNCHANGED phase
       ELSE mi' = 1 /\ phase' = "context"
  /\ UNCHANGED <<prog, modSeq, ci, funcDefined, funcExternal, memo, stack,
                 counters, serial, records, output>>

\* mutant: a checked call that is also returned still hands the name up
CallBoundaryReturnedChecked ==
  /\ phase = "analyze" /\ stack # <<>> /\ ~PcDone
  /\ TopSite.callee \notin funcDefined
  /\ counters' = CountSite(counters, TopSite)
  /\ memo' = IF TopSite.returned
               THEN [memo EXCEPT ![Top.key] = @ \cup {TopSite.callee}]
               ELSE memo
  /\ AdvancePc
  /\ UNCHANGED <<prog, modSeq, phase, mi, fi, ci, funcDefined, funcExternal,
                 serial, records, output>>

(***************************************************************************)
(* A call site of a boundary callee (not in funcDefined): count it, and   *)
(* when it is neither checked nor used unchecked, but returned, the       *)
(* callee's name joins the current function's unchecked alias set.        *)
(***************************************************************************)
CallBoundary ==
  /\ phase = "analyze" /\ stack # <<>> /\ ~PcDone
  /\ TopSite.callee \notin funcDefined
  /\ counters' = CountSite(counters, TopSite)
  /\ memo' = IF ~TopSite.checked /\ TopSite.returned
               THEN [memo EXCEPT ![Top.key] = @ \cup {TopSite.callee}]
               ELSE memo
  /\ AdvancePc
  /\ UNCHANGED <<prog, modSeq, phase, mi, fi, ci, funcDefined, funcExternal,
                 serial, records, output>>

\* a candidate callee outside deep mode is skipped (lines 317-320)
CallCandidateShallow ==
  /\ phase = "analyze" /\ stack # <<>> /\ ~PcDone
  /\ TopSite.callee \in funcDefined
  /\ ~KernelMode
  /\ AdvancePc
  /\ UNCHANGED <<prog, modSeq, phase, mi, fi, ci, funcDefined, funcExternal,
                 memo, counters, serial, records, output>>

\* mutant: the callee's entry is only created when its analysis returns
DescendNoPlaceholder ==
  /\ phase = "analyze" /\ stack # <<>> /\ ~PcDone
  /\ TopSite.callee \in funcDefined
  /\ KernelMode
  /\ LET k == CalleeKey(TopSite.callee, CurMod) IN
       /\ k \notin DOMAIN memo
       /\ Len(stack) < MaxDepth
       /\ stack' = Append(stack, [key |-> k, pc |-> 1])
  /\ UNCHANGED <<prog, modSeq, phase, mi, fi, ci, funcDefined, funcExternal,
                 memo, counters, serial, records, output>>

(***************************************************************************)
(* Deep mode, the callee's key not yet in uncheckedAliasMap: recurse.  The *)
(* placeholder for the callee is installed as the frame is pushed.        *)
(***************************************************************************)
Descend ==
  /\ phase = "analyze" /\ stack # <<>> /\ ~PcDone
  /\ TopSite.callee \in funcDefined
  /\ KernelMode
  /\ LET k == CalleeKey(TopSite.callee, CurMod) IN
       /\ k \notin DOMAIN memo
       /\ Len(stack) < MaxDepth
       /\ memo' = memo @@ (k :> {})
       /\ stack' = Append(stack, [key |-> k, pc |-> 1])
  /\ UNCHANGED <<prog, modSeq, phase, mi, fi, ci, funcDefined, funcExternal,
                 counters, serial, records, output>>

(***************************************************************************)
(* Deep mode, the callee's set is available (finished, or the in-progress *)
(* placeholder of a frame below): a checked call validates every name in  *)
(* it; an unchecked call whose result is returned moves the set up.       *)
(***************************************************************************)
CallCandidateDeep ==
  /\ phase = "analyze" /\ stack # <<>> /\ ~PcDone
  /\ TopSite.callee \in funcDefined
  /\ KernelMode
  /\ LET k == CalleeKey(TopSite.callee, CurMod) IN
       /\ k \in DOMAIN memo
       /\ IF TopSite.checked
            THEN counters' = Validate(counters, memo[k]) /\ UNCHANGED memo
            ELSE /\ memo' = IF TopSite.returned
                              THEN [memo EXCEPT ![Top.key] = @ \cup memo[k]]
                              ELSE memo
                 /\ UNCHANGED counters
  /\ AdvancePc
  /\ UNCHANGED <<prog, modSeq, phase, mi, fi, ci, funcDefined, funcExternal,
                 serial, records, output>>

\* mutant: the finished frame is never popped
ReturnNoPop ==
  /\ phase = "analyze" /\ stack # <<>> /\ PcDone
  /\ UNCHANGED vars

\* the frame has walked all its call sites: return to the caller
Return ==
  /\ phase = "analyze" /\ stack # <<>> /\ PcDone
  /\ stack' = Front(stack)
  /\ UNCHANGED <<prog, modSeq, phase, mi, fi, ci, funcDefined, funcExternal,
                 memo, counters, serial, records, output>>

\* mutant: the record takes the serial before it is incremented
CatalogSiteZeroBased ==
  /\ phase = "context"
  /\ fi <= Len(Funcs(CurMod))
  /\ LET fun == Funcs(CurMod)[fi] IN
       /\ fun \notin funcExternal
       /\ ci <= Len(prog.body[fun])
       /\ LET c == prog.body[fun][ci].callee IN
            IF counters[c].checked > 0
              THEN /\ serial' = [serial EXCEPT ![c] = @ + 1]
                   /\ records' = Append(records,
                        [callee |-> c, fn |-> fun, serial |-> serial[c],
                         ret |-> FailureValue(c)])
              ELSE UNCHANGED <<serial, records>>
  /\ ci' = ci + 1
  /\ UNCHANGED <<prog, modSeq, phase, mi, fi, funcDefined, funcExternal,
                 memo, stack, counters, output>>

(***************************************************************************)
(* Pass 3, analyzeModuleForContext: one call site of the current function. *)
(* A callee whose counters say it was checked gets the next serial number *)
(* of this function and a FaultPointInfo with its failure value.          *)
(***************************************************************************)
CatalogSite ==
  /\ phase = "context"
  /\ fi <= Len(Funcs(CurMod))
  /\ LET fun == Funcs(CurMod)[fi] IN
       /\ fun \notin funcExternal
       /\ ci <= Len(prog.body[fun])
       /\ LET c == prog.body[fun][ci].callee IN
            IF counters[c].checked > 0
              THEN /\ serial' = [serial EXCEPT ![c] = @ + 1]
                   /\ records' = Append(records,
                        [callee |-> c, fn |-> fun, serial |-> serial[c] + 1,
                         ret |-> FailureValue(c)])
              ELSE UNCHANGED <<serial, records>>
  /\ ci' = ci + 1
  /\ UNCHANGED <<prog, modSeq, phase, mi, fi, funcDefined, funcExternal,
                 memo, stack, counters, output>>

\* mutant: functionSerialMap is shared by all functions
CatalogNextFunctionNoReset ==
  /\ phase = "context"
  /\ \/ /\ fi <= Len(Funcs(CurMod))
        /\ LET fun == Funcs(CurMod)[fi] IN
             fun \in funcExternal \/ ci > Len(prog.body[fun])
        /\ fi' = fi + 1 /\ UNCHANGED <<mi, phase>>
     \/ /\ fi > Len(Funcs(CurMod))
        /\ fi' = 1
        /\ IF mi < Len(modSeq)
             THEN mi' = mi + 1 /\ UNCHANGED phase
             ELSE mi' = mi /\ phase' = "sort"
  /\ ci' = 1
  /\ UNCHANGED <<prog, modSeq, funcDefined, funcExternal, memo, stack,
                 counters, serial, records, output>>

\* the function is done (or skipped as external): the next one starts with
\* a fresh functionSerialMap; after the last module main() takes over
CatalogNextFunction ==
  /\ phase = "context"
  /\ \/ /\ fi <= Len(Funcs(CurMod))
        /\ LET fun == Funcs(CurMod)[fi] IN
             fun \in funcExternal \/ ci > Len(prog.body[fun])
        /\ fi' = fi + 1 /\ UNCHANGED <<mi, phase>>
     \/ /\ fi > Len(Funcs(CurMod))
        /\ fi' = 1
        /\ IF mi < Len(modSeq)
             THEN mi' = mi + 1 /\ UNCHANGED phase
             ELSE mi' = mi /\ phase' = "sort"
  /\ ci' = 1
  /\ serial' = [n \in Names |-> 0]
  /\ UNCHANGED <<prog, modSeq, funcDefined, funcExternal, memo, stack,
                 counters, records, output>>

\* the comparator of main(): (calleeName, functionName, serialNumber)
RecordLess(r1, r2) ==
  \/ NameRank[r1.callee] < NameRank[r2.callee]
  \/ r1.callee = r2.callee /\ NameRank[r1.fn] < NameRank[r2.fn]
  \/ r1.callee = r2.callee /\ r1.fn = r2.fn /\ r1.serial < r2.serial

\* the record with the final counters attached, as main() writes it
Finalize(r) ==
  [callee |-> r.callee, fn |-> r.fn, serial |-> r.serial, ret |-> r.ret,
   total |-> counters[r.callee].total, checked |-> counters[r.callee].checked,
   direct |-> counters[r.callee].direct]

(***************************************************************************)
(* main(): std::sort the records, keep those whose callee was checked and *)
(* attach the final counters.                                              *)
(***************************************************************************)
Emit ==
  /\ phase = "sort"
  /\ LET sorted == SortSeq(records, RecordLess)
         kept   == SelectSeq(sorted, LAMBDA r : counters[r.callee].checked > 0)
     IN  output' = [i \in 1..Len(kept) |-> Finalize(kept[i])]
  /\ phase' = "done"
  /\ UNCHANGED <<prog, modSeq, mi, fi, ci, funcDefined, funcExternal, memo,
                 stack, counters, serial, records>>

Next ==
  \/ ClassifyModule
  \/ AnalyzeRoot
  \/ NextModule
  \/ CallBoundary
  \/ CallCandidateShallow
  \/ Descend
  \/ CallCandidateDeep
  \/ Return
  \/ CatalogSite
  \/ CatalogNextFunction
  \/ Emit

\* one thread runs the analysis to completion: every enabled step is taken
Spec == Init /\ [][Next]_vars /\ WF_vars(Next)

-----------------------------------------------------------------------------
(***************************************************************************)
(* Reference semantics: what the counters and the catalog should be,      *)
(* stated over the whole program instead of by the engine's walk.         *)
(***************************************************************************)

\* the classification's verdicts, per program
Candidates == (Defined \ prog.void) \ (IF KernelMode THEN prog.header ELSE {})
Analysed == Defined \ (IF KernelMode THEN prog.header ELSE {})

SiteIds == UNION {{<<fn, i>> : i \in 1..Len(prog.body[fn])} : fn \in Analysed}
SiteOf(x) == prog.body[x[1]][x[2]]

\* the boundary names whose failure f hands to its caller unchecked: those
\* it returns unchecked itself, and those of the candidates whose result
\* it returns unchecked (least fixpoint over the call graph)
ObligationStep(O) ==
  [fn \in Defined |->
     UNION {IF s.callee \in Candidates THEN O[s.callee] ELSE {s.callee} :
              s \in {t \in ToSet(prog.body[fn]) : ~t.checked /\ t.returned}}]
RECURSIVE ObligationsAfter(_)
ObligationsAfter(n) ==
  IF n = 0 THEN [fn \in Defined |-> {}] ELSE ObligationStep(ObligationsAfter(n - 1))
Obligations == ObligationsAfter(Cardinality(Defined))

\* the counters of boundary name b when checked calls of candidates
\* validate their obligations (deep) or not
RefCounters(b, deep) ==
  LET own    == {x \in SiteIds : SiteOf(x).callee = b}
      lifted == IF deep
                THEN {x \in SiteIds : /\ SiteOf(x).callee \in Candidates
                                      /\ SiteOf(x).checked
                                      /\ b \in Obligations[SiteOf(x).callee]}
                ELSE {}
  IN  [total   |-> Cardinality(own) + Cardinality(lifted),
       checked |-> Cardinality({x \in own : SiteOf(x).checked}) + Cardinality(lifted),
       direct  |-> Cardinality({x \in own : SiteOf(x).direct})]

\* the records main() should write, given the final counters
SerialOf(x) == Cardinality({j \in 1..x[2] :
                              prog.body[x[1]][j].callee = SiteOf(x).callee})
ExpectedOutput ==
  {[callee |-> SiteOf(x).callee, fn |-> x[1], serial |-> SerialOf(x),
    ret |-> FailureValue(SiteOf(x).callee),
    total |-> counters[SiteOf(x).callee].total,
    checked |-> counters[SiteOf(x).callee].checked,
    direct |-> counters[SiteOf(x).callee].direct] :
      x \in {y \in SiteIds : counters[SiteOf(y).callee].checked > 0}}

\* the calls between defined functions, and the two conditions under which
\* deep mode's recursion sees complete memo entries
CallEdges ==
  UNION {{<<x, prog.body[x][i].callee>> : i \in 1..Len(prog.body[x])} : x \in Defined}
    \cap (Defined \X Defined)
AcyclicCalls ==
  Rel!IsIrreflexive(Rel!TransitiveClosure([x, y \in Defined |-> <<x, y>> \in CallEdges],
                                          Defined), Defined)
IntraModuleCalls ==
  \A e \in CallEdges : \E m \in Modules : {e[1], e[2]} \subseteq ToSet(prog.order[m])

Done == phase = "done"

-----------------------------------------------------------------------------
(* Properties *)

Phases == {"classify", "analyze", "context", "sort", "done"}
Counter == [total : Nat, checked : Nat, direct : Nat]

TypeOK ==
  /\ IsProgram(prog)
  /\ phase \in Phases
  /\ funcDefined \subseteq Defined /\ funcExternal \subseteq Defined
  /\ DOMAIN memo \subseteq Defined \cup {NoName}
  /\ \A k \in DOMAIN memo : memo[k] \subseteq Names
  /\ stack \in Seq([key : Defined \cup {NoName}, pc : Nat])
  /\ counters \in [Names -> Counter]
  /\ serial \in [Names -> Nat]
  \* serialNumber starts with 1; 0 means ANY to the fuzzer
  /\ records \in Seq([callee : Names, fn : Defined, serial : Nat \ {0},
                     ret : {-12, -1, 0}])

(***************************************************************************)
(* The placeholder installed before recursing keeps the recursion of      *)
(* analyzeFunctionAndGetUncheckedAliasSet from entering a function that   *)
(* is already on the call stack, however the call graph cycles.           *)
(***************************************************************************)
NoReentry ==
  \A i, j \in 1..Len(stack) : i # j => stack[i].key # stack[j].key

(***************************************************************************)
(* In default mode, and in deep mode when the call graph has no cycle    *)
(* and every candidate is called from its own module, the final           *)
(* funcExternalCheckedTimes of every boundary name is exactly the count   *)
(* the reference semantics gives: its own call sites, plus, in deep mode, *)
(* one checked count per checked call of a candidate that hands the name *)
(* up unchecked.                                                          *)
(***************************************************************************)
CountersMatchReference ==
  Done /\ (KernelMode => AcyclicCalls /\ IntraModuleCalls) => counters = [b \in Names |-> IF b \in Candidates THEN Zero
                                      ELSE RefCounters(b, KernelMode)]

(***************************************************************************)
(* On any call graph (cycles, calls across modules) the engine never      *)
(* validates more than the reference does: direct counts and unchecked    *)
(* counts are exact, the checked count is at most the reference's.        *)
(***************************************************************************)
CountersUnderApproximate ==
  Done => \A b \in Names \ Candidates :
            LET ref == RefCounters(b, KernelMode) IN
              /\ counters[b].direct = ref.direct
              /\ counters[b].total - counters[b].checked = ref.total - ref.checked
              /\ counters[b].checked <= ref.checked

(***************************************************************************)
(* The .faultsite output holds one record per call site of every boundary *)
(* callee that was checked somewhere, numbered 1, 2, ... per (function,   *)
(* callee) in IR order, carrying the final counters, sorted by (callee,   *)
(* function, serial) with no duplicates.                                   *)
(***************************************************************************)
CatalogMatchesCounters ==
  Done => /\ ToSet(output) = ExpectedOutput
          /\ Len(output) = Cardinality(ExpectedOutput)
          /\ IsSorted(output, RecordLess)

(***************************************************************************)
(* The analysis of any program terminates: the recursion over a cyclic    *)
(* call graph and the three passes all end.                                *)
(***************************************************************************)
Termination == <>Done

(***************************************************************************)
(* Spec section 8 (cross-function validation): a boundary name whose      *)
(* failure is handed up unchecked to a caller that checks it is counted   *)
(* as checked, in every mode and whichever module the caller is in.       *)
(***************************************************************************)
CrossFunctionValidation ==
  Done => \A b \in Names \ Candidates :
            RefCounters(b, TRUE).checked > 0 => counters[b].checked > 0
=============================================================================
