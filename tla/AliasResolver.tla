--------------------------- MODULE AliasResolver ---------------------------
(***************************************************************************)
(* The intraprocedural alias resolver of ErrorFinder,                      *)
(* src/error_finder/alias_flow_insensitive.cpp: GetAliasValueInsensitive   *)
(* walks the instructions of one function (or of a window of it) in IR     *)
(* order and builds a graph of ValueNodes.  A node owns a set of aliased   *)
(* Values; its succ map links an access discriminator (LOAD_ID, a constant *)
(* GEP index, GEP_ID) to another node.  The query returns the queried      *)
(* value followed by the other members of its node.                       *)
(*                                                                         *)
(* A function is abstracted to a straight-line sequence of instructions.   *)
(* Instruction i defines the Value i; the function's arguments are the     *)
(* model values Args.  Only the operands the handlers read are kept.       *)
(***************************************************************************)
EXTENDS Integers, Sequences, FiniteSets, SequencesExt

CONSTANTS
    Args,       \* arguments and globals the function uses (model values)
    LOAD_ID,    \* 99990 in the code
    GEP_ID,     \* 99991 in the code
    Programs,   \* per overload, the instruction sequences a run may analyse
    Scopes      \* the overloads a run may call: "function", "range"

\* The opcodes the switch distinguishes, and the ones that fall to its
\* default branch: "other" (a call, or any opcode the query and the usage
\* classifier ignore), "icmp", "switch" and "ret", which isValueUsedBy looks
\* for among the users.  "cast" stands for the twelve conversion opcodes
\* that share HandleValueBitCast.
DefaultOps == {"other", "icmp", "switch", "ret"}
Ops == {"alloca", "load", "store", "gep", "cast"} \cup DefaultOps

\* Instructions that define no Value.
NoValueOps == {"store", "switch", "ret"}

\* An instruction: a is operand 0 (the pointer of a load/gep/cast, the
\* stored value of a store), b is operand 1 of a store (the pointer), and
\* const/hi/k describe the last GEP index: whether it is a ConstantInt and,
\* if so, its getSExtValue() split into the high 32 bits hi and the low 32
\* bits k read as a signed int.
IsInstr(ins, vals) ==
    /\ ins.op \in Ops
    /\ ins.a \in vals \cup {0}
    /\ ins.b \in vals \cup {0}
    /\ ins.const \in BOOLEAN
    /\ ins.hi \in Int
    /\ ins.k \in Int

\* A program: the instruction sequence and the positions that end a basic
\* block (getNextNode() of such an instruction is null).
IsProgram(p) ==
    /\ p.ins \in Seq([op: Ops, a: Args \cup Nat, b: Args \cup Nat,
                      const: BOOLEAN, hi: Int, k: Int])
    /\ \A i \in DOMAIN p.ins : IsInstr(p.ins[i], Args \cup 1..(i - 1))
    /\ p.lastInBlock \subseteq DOMAIN p.ins
    /\ Len(p.ins) \in p.lastInBlock

ASSUME LOAD_ID \in Int /\ GEP_ID \in Int /\ LOAD_ID # GEP_ID
ASSUME \A sc \in Scopes : \A s \in Programs[sc] : IsProgram([ins |-> s, lastInBlock |-> {Len(s)}])

VARIABLES
    prog,       \* the function being analysed
    scope,      \* "function": the (Value*, Function*) overload; "range": the
                \* (Value*, begin_inst, end_inst) overload
    val,        \* the queried Value
    begin,      \* position of begin_inst (range overload)
    end,        \* position of end_inst, 0 if it is not in the function
    pc,         \* the instruction the loop is at
    flag,       \* the range overload's "window entered" flag
    graph,      \* [vn_index, succ, aliases]: the ValueNode graph
    phase,      \* "scan", "collect", "done"
    found,      \* the return value
    alias_val_vec \* the output vector

vars == <<prog, scope, val, begin, end, pc, flag, graph, phase, found,
          alias_val_vec>>

Ins == prog.ins
Values == Args \cup {i \in DOMAIN Ins : Ins[i].op \notin NoValueOps}

\* isValueUsedBy, the only caller, queries the result of a call instruction.
CallResults == {i \in DOMAIN Ins : Ins[i].op = "other"}

-----------------------------------------------------------------------------
(* The handlers, as operators on the graph so that the actions and the     *)
(* reference runs below share them.  Nodes are numbered in creation order: *)
(* succ[n] and aliases[n] belong to node n.                                *)

EmptyGraph == [vn_index |-> <<>>, succ |-> <<>>, aliases |-> <<>>]

\* Mutant: numbers the new node as if node indices were 0-based.
CreateValueVNZeroBased(g, v) ==
    LET n == Len(g.aliases)
    IN  [vn_index |-> (v :> n) @@ g.vn_index,
         succ     |-> Append(g.succ, <<>>),
         aliases  |-> Append(g.aliases, {v})]

\* CreateValueVN: a fresh node holding v, and vn_index[v] points to it.
CreateValueVN(g, v) ==
    LET n == Len(g.aliases) + 1
    IN  [vn_index |-> (v :> n) @@ g.vn_index,
         succ     |-> Append(g.succ, <<>>),
         aliases  |-> Append(g.aliases, {v})]

\* The "if (vn_index.find(v) == end) CreateValueVN(v)" every handler opens with.
EnsureVN(g, v) ==
    IF v \in DOMAIN g.vn_index THEN g ELSE CreateValueVN(g, v)

HandleValueAlloca(g, i) == CreateValueVN(g, i)

\* The body shared by HandleValueLoad and HandleValueGEP: the result i joins
\* the node behind x's edge l if there is one, else gets a fresh node that
\* becomes the target of that edge.
FollowEdge(g, i, x, l) ==
    LET g1 == EnsureVN(g, x)
        n  == g1.vn_index[x]
    IN  IF l \in DOMAIN g1.succ[n]
        THEN LET r == g1.succ[n][l]
             IN  [g1 EXCEPT !.vn_index = (i :> r) @@ @,
                            !.aliases[r] = @ \cup {i}]
        ELSE LET g2 == CreateValueVN(g1, i)
             IN  [g2 EXCEPT !.succ[n] = (l :> g2.vn_index[i]) @@ @]

HandleValueLoad(g, i, ins) == FollowEdge(g, i, ins.a, LOAD_ID)

\* Mutant: operands 0 and 1 of the store swapped.
HandleValueStoreSwapped(g, i, ins) ==
    LET g1 == EnsureVN(EnsureVN(g, ins.a), ins.b)
    IN  [g1 EXCEPT !.succ[g1.vn_index[ins.a]] =
                       (LOAD_ID :> g1.vn_index[ins.b]) @@ @]

\* store a into b: b's LOAD edge is redirected to a's node.
HandleValueStore(g, i, ins) ==
    LET g1 == EnsureVN(EnsureVN(g, ins.b), ins.a)
    IN  [g1 EXCEPT !.succ[g1.vn_index[ins.b]] =
                       (LOAD_ID :> g1.vn_index[ins.a]) @@ @]

\* The edge of a GEP is its last index if that is a ConstantInt, else
\* GEP_ID; it lives in the same key space as LOAD_ID.  The code keeps
\* getSExtValue() in an int, so the key is the low 32 bits k and hi is lost.
GepIndex(ins) == IF ins.const THEN ins.k ELSE GEP_ID

HandleValueGEP(g, i, ins) == FollowEdge(g, i, ins.a, GepIndex(ins))

\* Mutant: a conversion opcode missing from the case list falls to default.
HandleValueBitCastDefault(g, i, ins) == g

\* A conversion joins the result to its operand's node.
HandleValueBitCast(g, i, ins) ==
    LET g1 == EnsureVN(g, ins.a)
        n  == g1.vn_index[ins.a]
    IN  [g1 EXCEPT !.vn_index = (i :> n) @@ @,
                   !.aliases[n] = @ \cup {i}]

\* The switch on the opcode.
Step(g, i, ins) ==
    CASE ins.op = "alloca" -> HandleValueAlloca(g, i)
      [] ins.op = "load"   -> HandleValueLoad(g, i, ins)
      [] ins.op = "store"  -> HandleValueStore(g, i, ins)
      [] ins.op = "gep"    -> HandleValueGEP(g, i, ins)
      [] ins.op = "cast"   -> HandleValueBitCast(g, i, ins)
      [] OTHER             -> g

\* The Values the query reports for v: v and the other members of its node.
QueryAliases(g, v) ==
    {v} \cup (IF v \in DOMAIN g.vn_index THEN g.aliases[g.vn_index[v]] ELSE {})

-----------------------------------------------------------------------------
(* The loop.                                                               *)

\* begin_inst->getNextNode(): null (0) when begin ends its block.
Start == IF begin \in prog.lastInBlock THEN 0 ELSE begin + 1

\* The instruction at pc is handled: always in the whole-function overload;
\* in the range overload once the window is entered and before end_inst.
Handled ==
    /\ phase = "scan"
    /\ pc \in DOMAIN Ins
    /\ scope = "range" => (flag \/ pc = Start) /\ pc # end

\* One iteration of the loop body on an instruction of opcode op whose
\* handler leaves the graph g.
Handle(op, g) ==
    /\ Handled
    /\ Ins[pc].op = op
    /\ graph' = g
    /\ pc' = pc + 1
    /\ flag' = TRUE
    /\ UNCHANGED <<prog, scope, val, begin, end, phase, found, alias_val_vec>>

\* Any split of the function into basic blocks; only the range overload
\* looks at it.
Init ==
    /\ scope \in Scopes
    /\ \E s \in Programs[scope] :
       \E B \in IF scope = "range" THEN SUBSET DOMAIN s ELSE {{}} :
           prog = [ins |-> s, lastInBlock |-> B \cup {Len(s)}]
    /\ val \in CallResults
    /\ begin \in IF scope = "range" THEN DOMAIN Ins ELSE {0}
    /\ end \in IF scope = "range" THEN DOMAIN Ins \cup {0} ELSE {0}
    /\ pc = 1
    /\ flag = FALSE
    /\ graph = EmptyGraph
    /\ phase = "scan"
    /\ found = FALSE
    /\ alias_val_vec = <<>>

AllocaInst == Handle("alloca", HandleValueAlloca(graph, pc))
LoadInst   == Handle("load", HandleValueLoad(graph, pc, Ins[pc]))
StoreInst  == Handle("store", HandleValueStore(graph, pc, Ins[pc]))
GEPInst    == Handle("gep", HandleValueGEP(graph, pc, Ins[pc]))
CastInst   == Handle("cast", HandleValueBitCast(graph, pc, Ins[pc]))
OtherInst  == \E op \in DefaultOps : Handle(op, graph)

\* Range overload: an instruction before the window is skipped.
SkipBeforeWindow ==
    /\ phase = "scan"
    /\ scope = "range"
    /\ pc \in DOMAIN Ins
    /\ ~flag /\ pc # Start
    /\ pc' = pc + 1
    /\ UNCHANGED <<prog, scope, val, begin, end, flag, graph, phase, found,
                   alias_val_vec>>

\* Range overload: reaching end_inst inside the window stops both loops.
ReachEnd ==
    /\ phase = "scan"
    /\ scope = "range"
    /\ pc \in DOMAIN Ins
    /\ (flag \/ pc = Start) /\ pc = end
    /\ flag' = TRUE
    /\ phase' = "collect"
    /\ UNCHANGED <<prog, scope, val, begin, end, pc, graph, found,
                   alias_val_vec>>

\* The loops run off the end of the function.
EndOfFunction ==
    /\ phase = "scan"
    /\ pc = Len(Ins) + 1
    /\ phase' = "collect"
    /\ UNCHANGED <<prog, scope, val, begin, end, pc, flag, graph, found,
                   alias_val_vec>>

\* val first, then the other members of its node in set order (the order of
\* Value pointers, which the model leaves unspecified); then the nodes are
\* freed.
Collect ==
    /\ phase = "collect"
    /\ found' = (val \in DOMAIN graph.vn_index)
    /\ alias_val_vec' = <<val>> \o SetToSeq(QueryAliases(graph, val) \ {val})
    /\ phase' = "done"
    /\ UNCHANGED <<prog, scope, val, begin, end, pc, flag, graph>>

Next ==
    \/ AllocaInst \/ LoadInst \/ StoreInst \/ GEPInst \/ CastInst \/ OtherInst
    \/ SkipBeforeWindow \/ ReachEnd \/ EndOfFunction \/ Collect

Spec == Init /\ [][Next]_vars /\ WF_vars(Next)

Done == phase = "done"

-----------------------------------------------------------------------------
(* Reference semantics.                                                    *)
(*                                                                         *)
(* Symbolic execution of the straight-line function.  A pointer or value   *)
(* is an access path: a root (an argument, or the result of an alloca or of *)
(* an opaque instruction) followed by steps, -1 for "the contents loaded   *)
(* from here" and k >= 0 for "element k".  Distinct paths denote distinct  *)
(* objects: arguments, and memory the function did not write, do not alias *)
(* each other.  A step is a tuple: <<-1>> loads, <<hi, k>> is the element  *)
(* of 64-bit index hi * 2^32 + k, and <<-2 - i>> is the element instruction *)
(* i selects by a non-constant index.  Element 0 is the object itself.     *)

LoadStep == <<-1>>

\* The element a GEP selects, by the full 64-bit index.
ElementStep(ins, i) == IF ins.const THEN <<ins.hi, ins.k>> ELSE <<-2 - i>>

ExecStep(st, i) ==
    LET ins == Ins[i]
        p   == st.env[ins.a]
    IN  CASE ins.op \in {"alloca"} \cup DefaultOps ->
                 [st EXCEPT !.env = (i :> <<i>>) @@ @]
          [] ins.op = "load" ->
                 [st EXCEPT !.env = (i :> IF p \in DOMAIN st.mem
                                          THEN st.mem[p]
                                          ELSE Append(p, LoadStep)) @@ @]
          [] ins.op = "store" ->
                 [st EXCEPT !.mem = (st.env[ins.b] :> p) @@ @]
          [] ins.op = "gep" ->
                 [st EXCEPT !.env = (i :> IF ElementStep(ins, i) = <<0, 0>>
                                          THEN p
                                          ELSE Append(p, ElementStep(ins, i))) @@ @]
          [] ins.op = "cast" ->
                 [st EXCEPT !.env = (i :> p) @@ @]

\* What every Value holds once the function has run.
Exec == FoldLeft(ExecStep, [env |-> [x \in Args |-> <<x>>], mem |-> <<>>],
                 [i \in DOMAIN Ins |-> i]).env

\* The orders of the instructions in which every operand is defined before
\* it is used: the orders "flow-insensitive" says the result may not see.
ValidOrders ==
    {o \in SetToSeqs(DOMAIN Ins) :
        \A j \in DOMAIN o :
            \A x \in {Ins[o[j]].a, Ins[o[j]].b} \ (Args \cup {0}) :
                \E j2 \in 1..(j - 1) : o[j2] = x}

\* The graph the whole-function overload builds when it meets the
\* instructions in order o.
RunInOrder(o) == FoldLeft(LAMBDA g, i : Step(g, i, Ins[i]), EmptyGraph, o)

-----------------------------------------------------------------------------
(* The usage classifier, src/error_finder/utils.hpp, on the query result:  *)
(* FaultSiteAnalysis.hpp 297 and 314 ask whether the call result val is   *)
(* used by a compare or a switch (checked) and by a return (returned).     *)

CheckOps  == {"icmp", "switch"}
ReturnOps == {"ret"}

\* Some user of x (an instruction with x among its operands) has an opcode
\* of UserClasses.
UsedBy(x, UserClasses) ==
    \E j \in DOMAIN Ins : Ins[j].op \in UserClasses /\ x \in {Ins[j].a, Ins[j].b}

\* isValueUsedBy<UserClasses...>(val, caller): a user of any Value of the
\* alias vector GetAliasValueInsensitive(val, caller) returns.
isValueUsedBy(UserClasses) == \E x \in ToSet(alias_val_vec) : UsedBy(x, UserClasses)

\* isValueDirectlyUsedBy<UserClasses...>(val): a user of val itself.
isValueDirectlyUsedBy(UserClasses) == UsedBy(val, UserClasses)

-----------------------------------------------------------------------------
(* Properties.                                                             *)

TypeOK ==
    /\ IsProgram(prog)
    /\ scope \in Scopes
    /\ val \in Values
    /\ pc \in 1..(Len(Ins) + 1)
    /\ flag \in BOOLEAN
    /\ DOMAIN graph.succ = DOMAIN graph.aliases
    /\ \A n \in DOMAIN graph.aliases : graph.aliases[n] \subseteq Values
    /\ \A x \in DOMAIN graph.vn_index : graph.vn_index[x] \in DOMAIN graph.aliases
    /\ \A n \in DOMAIN graph.succ :
           \A l \in DOMAIN graph.succ[n] : graph.succ[n][l] \in DOMAIN graph.aliases
    /\ phase \in {"scan", "collect", "done"}
    /\ found \in BOOLEAN
    /\ alias_val_vec \in Seq(Values)

\* Soundness of the ValueNode classes: once the scan is over, every Value
\* the query would report for any v (v's node, which alias_val_vec lists
\* for val) holds, once the function has run, what v holds.
\* isValueUsedBy counts a compare of any alias as a check of the call
\* result, so an unsound alias turns an unchecked call into a checked one.
AliasSound ==
    Done => \A v \in Values : \A w \in QueryAliases(graph, v) : Exec[w] = Exec[v]

\* spec.md 4.1: within the window the rules are "order-independent": the
\* whole-function query gives the same aliases for every order of the same
\* instructions that defines each operand before its use.
OrderIndependent ==
    Done /\ scope = "function" =>
        \A o \in ValidOrders :
            QueryAliases(RunInOrder(o), val) = ToSet(alias_val_vec)

\* The checked and returned flags of a call site are exact: once the query
\* is done, isValueUsedBy reports a compare (switch, return) user exactly
\* when some compare (switch, return) of the function takes an operand
\* that, once the function has run, holds the call's result.  A false
\* "checked" hides an unchecked fault site from the fault engine; a missed
\* one drops a site whose result is tested through memory or a cast.
UsageExact ==
    Done /\ scope = "function" =>
        \A C \in {CheckOps, ReturnOps} :
            isValueUsedBy(C) <=>
                \E j \in DOMAIN Ins : Ins[j].op \in C /\ Exec[Ins[j].a] = Exec[val]

=============================================================================
