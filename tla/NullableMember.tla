--------------------------- MODULE NullableMember ---------------------------
(***************************************************************************)
(* The nullable member detector of ErrorFinder,                            *)
(* src/error_finder/NullableMemberAnalysis.hpp, and the sort main() applies *)
(* to its records (src/error_finder/ErrorFinder.cc).                       *)
(*                                                                         *)
(* Pass 1 (analyzeModuleForNullCheckedMembers) records "Type:offset" for   *)
(* every null compare of a loaded member that a conditional branch uses;   *)
(* pass 2 (analyzeModuleForNullableMembers) emits one record for every     *)
(* null store to a member pass 1 recorded.  Each pass walks the modules in *)
(* the unordered_map order; the IR is abstracted to the operands the       *)
(* handlers inspect.                                                       *)
(***************************************************************************)
EXTENDS Integers, Sequences, FiniteSets, SequencesExt

CONSTANTS
    Modules,    \* the loaded modules
    Funcs,      \* the defined functions (model values)
    Bases,      \* struct names as written in C (model values)
    BaseRank,   \* Bases -> Nat: the string order of the names
    FuncRank,   \* Funcs -> Nat: the string order of the function names
    Layout,     \* Bases -> Seq(Nat): the byte offset of every member
    Programs    \* the module sets a run may analyse

(***************************************************************************)
(* A member access (the pointer operand of a load or store): struct base, *)
(* member index (0-based), the !tbaa tag the compiler attached and the     *)
(* pointer operand.  tag: "path" is a struct-path tag (Base, any pointer,  *)
(* offset), "scalar" a tag (any pointer, any pointer, 0), "none" no tag,   *)
(* "malformed" a tag whose operands are not MDNode/MDString/ConstantInt.   *)
(* gep: "field" is gep %struct.Base, p, 0, member; "none" another pointer. *)
(* Every member is a pointer.                                              *)
(***************************************************************************)
Tags == {"path", "scalar", "none", "malformed"}
IsAccess(a) ==
    /\ a.base \in Bases
    /\ a.member \in 0..(Len(Layout[a.base]) - 1)
    /\ a.tag \in Tags
    /\ a.gep \in {"field", "none"}

\* ConstantData operands of a compare or a store.
Consts == {"null", "zero", "nonzero"}

\* An icmp: its predicate, its two operands ("load" a load of the access
\* acc, "arg" any other non-constant value), whether the block's
\* conditional branch uses it, whether it has a debug location.
Operands == Consts \cup {"load", "arg"}
IsCheck(c) ==
    /\ c.kind = "icmp"
    /\ c.pred \in {"eq", "ne", "slt"}
    /\ {c.op0, c.op1} \subseteq Operands
    /\ IsAccess(c.acc)
    /\ c.branched \in BOOLEAN
    /\ c.dbg \in BOOLEAN

\* A store of val through the pointer acc.
IsStore(s) ==
    /\ s.kind = "store"
    /\ IsAccess(s.acc)
    /\ s.val \in Consts \cup {"arg"}
    /\ s.dbg \in BOOLEAN

\* order[m]: the defined functions of module m in IR order; body[f]: the
\* compares and stores of f in IR order.
IsProgram(p) ==
    /\ DOMAIN p.order = Modules
    /\ \A m \in Modules : p.order[m] \in Seq(Funcs)
    /\ \A f \in Funcs : \A i \in DOMAIN p.body[f] :
           IsCheck(p.body[f][i]) \/ IsStore(p.body[f][i])

ASSUME \A p \in Programs : IsProgram(p)

VARIABLES
    prog,                 \* the modules
    modSeq,               \* the unordered_map iteration order
    phase,                \* "check", "store", "emit", "done", "crashed"
    mi,                   \* the module the current pass is at
    checkNullMemberSet,   \* pass 1's keys
    nullableMemberVector, \* pass 2's records
    output                \* the sorted vector written to .nullable

vars == <<prog, modSeq, phase, mi, checkNullMemberSet, nullableMemberVector,
          output>>

-----------------------------------------------------------------------------
(* getNullableMemberInfo.  A result is [name, offset]; a name is           *)
(* [prefix, base] with the prefix of the LLVM struct name ("struct.") or   *)
(* "" for a TBAA type name.  NoInfo is the default-constructed result     *)
(* (an empty parentTypeName).                                              *)

NoInfo == [name |-> [prefix |-> "", base |-> ""], offset |-> 0]
AnyPointer == [prefix |-> "", base |-> "any pointer"]

\* The MDNode overload: the tag's base type and offset, if its access type
\* is "any pointer".
TbaaInfo(a) ==
    CASE a.tag \in {"none", "malformed"} -> NoInfo
      [] a.tag = "path" ->
             [name |-> [prefix |-> "", base |-> a.base],
              offset |-> Layout[a.base][a.member + 1]]
      [] a.tag = "scalar" -> [name |-> AnyPointer, offset |-> 0]

\* getStructName() with a leading "struct." removed.
StripStruct(n) == IF n.prefix = "struct." THEN [n EXCEPT !.prefix = ""] ELSE n

\* The GetElementPtrInst overload.  The member index is read from operand
\* numOperands - 2; the GEP "gep %struct.B, p, 0, k" has operands
\* <<p, 0, k>>.
GepInfo(a) ==
    LET operands == <<"pointer", 0, a.member>>
        idx      == operands[Len(operands) - 1]
    IN  [name |-> StripStruct([prefix |-> "struct.", base |-> a.base]),
         offset |-> Layout[a.base][idx + 1]]

\* The Instruction overload: the tag, and the GEP fallback when the tag's
\* parent is "any pointer".
Info(a) ==
    CASE a.tag = "none" -> NoInfo
      [] TbaaInfo(a).name = NoInfo.name -> NoInfo
      [] TbaaInfo(a).name = AnyPointer ->
             IF a.gep = "field" THEN GepInfo(a) ELSE NoInfo
      [] OTHER -> TbaaInfo(a)

Key(info) == <<info.name, info.offset>>

IsNull(o) == o \in {"null", "zero"}

\* CheckedKey without the swap of a constant first operand.
CheckedKeyNoSwap(c) ==
    IF /\ c.kind = "icmp"
       /\ c.dbg
       /\ c.pred \in {"eq", "ne"}
       /\ c.op1 \in Consts /\ IsNull(c.op1)
       /\ c.branched
       /\ c.op0 = "load"
       /\ Info(c.acc) # NoInfo
    THEN {Key(Info(c.acc))}
    ELSE {}

\* Pass 1 on one icmp: the key it records, if any.  The operand that is not
\* ConstantData is the variable (operand 1 is swapped in when it is).
CheckedKey(c) ==
    LET swap == c.op1 \notin Consts
        var  == IF swap THEN c.op1 ELSE c.op0
        imm  == IF swap THEN c.op0 ELSE c.op1
    IN  IF /\ c.kind = "icmp"
           /\ c.dbg
           /\ c.pred \in {"eq", "ne"}
           /\ imm \in Consts /\ IsNull(imm)
           /\ c.branched
           /\ var = "load"
           /\ Info(c.acc) # NoInfo
        THEN {Key(Info(c.acc))}
        ELSE {}

\* analyzeModuleForNullCheckedMembers.
ModuleCheckedKeys(m) ==
    UNION {UNION {CheckedKey(prog.body[f][i]) : i \in DOMAIN prog.body[f]} :
              f \in ToSet(prog.order[m])}

\* Pass 2's filter on one store, given the keys of pass 1.
Reported(s, keys) ==
    /\ s.kind = "store"
    /\ IsNull(s.val)
    /\ Info(s.acc) # NoInfo
    /\ Key(Info(s.acc)) \in keys

\* StoreRecord with setLocationInfo left out:
\* the function name keeps its default.
StoreRecordNoLocation(f, i) ==
    [name |-> Info(prog.body[f][i].acc).name,
     offset |-> Info(prog.body[f][i].acc).offset,
     functionName |-> "", serialNumber |-> 0, site |-> <<f, i>>]

\* The record pass 2 pushes for store i of f: setLocationInfo fills the
\* function name and the location; serialNumber keeps its default 0.
StoreRecord(f, i) ==
    [name |-> Info(prog.body[f][i].acc).name,
     offset |-> Info(prog.body[f][i].acc).offset,
     functionName |-> f, serialNumber |-> 0, site |-> <<f, i>>]

\* The records of module m in IR order.
ModuleRecords(m) ==
    LET FunRecords(f) ==
            LET js == SelectSeq([i \in DOMAIN prog.body[f] |-> i],
                                LAMBDA i : Reported(prog.body[f][i],
                                                    checkNullMemberSet))
            IN  [k \in DOMAIN js |-> StoreRecord(f, js[k])]
    IN  FoldLeft(LAMBDA acc, f : acc \o FunRecords(f), <<>>, prog.order[m])

\* A reported store without a debug location: setLocationInfo dereferences
\* the null DILocation.
ModuleCrashes(m) ==
    \E f \in ToSet(prog.order[m]) : \E i \in DOMAIN prog.body[f] :
        Reported(prog.body[f][i], checkNullMemberSet) /\ ~prog.body[f][i].dbg

\* main()'s comparator: parentTypeName, offset, functionName, serialNumber.
NameKey(n) == <<IF n.prefix = "" THEN 0 ELSE 1, BaseRank[n.base]>>
SortKey(r) == <<NameKey(r.name), r.offset, FuncRank[r.functionName], r.serialNumber>>
LexLess(a, b) ==
    \E i \in DOMAIN a : a[i] # b[i] /\ a[i] < b[i] /\ \A j \in 1..(i - 1) : a[j] = b[j]
RecordLess(r1, r2) == LexLess(SortKey(r1), SortKey(r2))

-----------------------------------------------------------------------------

Init ==
    /\ prog \in Programs
    /\ modSeq \in {s \in [1..Cardinality(Modules) -> Modules] : ToSet(s) = Modules}
    /\ phase = "check"
    /\ mi = 1
    /\ checkNullMemberSet = {}
    /\ nullableMemberVector = <<>>
    /\ output = <<>>

\* Pass 1 on the next module; after the last one pass 2 starts.
CheckModule ==
    /\ phase = "check"
    /\ checkNullMemberSet' = checkNullMemberSet \cup ModuleCheckedKeys(modSeq[mi])
    /\ IF mi = Len(modSeq) THEN phase' = "store" /\ mi' = 1
                           ELSE mi' = mi + 1 /\ UNCHANGED phase
    /\ UNCHANGED <<prog, modSeq, nullableMemberVector, output>>

\* Pass 2 on the next module.
StoreModule ==
    /\ phase = "store"
    /\ ~ModuleCrashes(modSeq[mi])
    /\ nullableMemberVector' = nullableMemberVector \o ModuleRecords(modSeq[mi])
    /\ IF mi = Len(modSeq) THEN phase' = "emit" /\ mi' = mi
                           ELSE mi' = mi + 1 /\ UNCHANGED phase
    /\ UNCHANGED <<prog, modSeq, checkNullMemberSet, output>>

\* Pass 2 reaches a reported store that has no debug location.
StoreModuleCrash ==
    /\ phase = "store"
    /\ ModuleCrashes(modSeq[mi])
    /\ phase' = "crashed"
    /\ UNCHANGED <<prog, modSeq, mi, checkNullMemberSet, nullableMemberVector,
                   output>>

\* std::sort is not stable: records with equal keys may end in any order.
Emit ==
    /\ phase = "emit"
    /\ \E o \in SetToSeqs(ToSet(nullableMemberVector)) :
           /\ \A i \in 1..(Len(o) - 1) : ~RecordLess(o[i + 1], o[i])
           /\ output' = o
    /\ phase' = "done"
    /\ UNCHANGED <<prog, modSeq, mi, checkNullMemberSet, nullableMemberVector>>

Next == CheckModule \/ StoreModule \/ StoreModuleCrash \/ Emit

Spec == Init /\ [][Next]_vars /\ WF_vars(Next)

Done == phase = "done"

-----------------------------------------------------------------------------
(* Reference: the join law of the spec (4.5, 8), stated over the members   *)
(* the program really accesses.  A member's key is its struct and byte     *)
(* offset; it resolves when the access carries a struct-path tag, or a     *)
(* generic pointer tag and a constant field GEP.                           *)

TrueKey(a) == [name |-> [prefix |-> "", base |-> a.base],
               offset |-> Layout[a.base][a.member + 1]]
Resolves(a) == a.tag = "path" \/ (a.tag = "scalar" /\ a.gep = "field")

Analysed == UNION {ToSet(prog.order[m]) : m \in Modules}
Sites == UNION {{<<f, i>> : i \in DOMAIN prog.body[f]} : f \in Analysed}
Item(s) == prog.body[s[1]][s[2]]

\* A null test of a loaded member that a conditional branch uses.
NullTest(c) ==
    /\ c.kind = "icmp" /\ c.dbg /\ c.branched /\ c.pred \in {"eq", "ne"}
    /\ \E z \in {"null", "zero"} : {c.op0, c.op1} = {"load", z}

TrueChecked == {TrueKey(Item(s).acc) :
                   s \in {s \in Sites : NullTest(Item(s)) /\ Resolves(Item(s).acc)}}

\* The null stores that must be reported.
TrueReported == {s \in Sites : /\ Item(s).kind = "store" /\ IsNull(Item(s).val)
                               /\ Resolves(Item(s).acc)
                               /\ TrueKey(Item(s).acc) \in TrueChecked}

-----------------------------------------------------------------------------
(* Properties                                                              *)

Offsets == UNION {ToSet(Layout[b]) : b \in Bases}
Name == [prefix : {""}, base : Bases]
Record == [name : Name, offset : Offsets, functionName : Funcs, serialNumber : {0},
           site : Funcs \X Nat]

\* Type invariant: the passes hold keys and records of the analysed
\* functions, and main() writes a permutation of the records.
TypeOK ==
    /\ phase \in {"check", "store", "emit", "done", "crashed"}
    /\ mi \in 1..Cardinality(Modules)
    /\ checkNullMemberSet \subseteq Name \X Offsets
    /\ nullableMemberVector \in Seq(Record)
    /\ output \in Seq(Record)

\* The join law (spec 4.5 and 8) of the two passes of
\* NullableMemberAnalysis::analyze: once the analysis is done, the output
\* holds exactly one record for each null store to a member that some
\* function of some module null-tests before a branch, and that record
\* names the struct and byte offset of the member the store writes.
TrueJoinLaw ==
    Done =>
      /\ Len(output) = Cardinality(TrueReported)
      /\ \A k \in DOMAIN output :
            /\ output[k].site \in TrueReported
            /\ output[k].name = TrueKey(Item(output[k].site).acc).name
            /\ output[k].offset = TrueKey(Item(output[k].site).acc).offset
      /\ \A s \in TrueReported : \E k \in DOMAIN output : output[k].site = s

\* A store without a source location is silently excluded (spec 7): pass 2
\* never crashes on such a store in setLocationInfo.
MissingLocationExcluded == phase # "crashed"

=============================================================================
