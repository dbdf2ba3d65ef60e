---------------------------- MODULE ErrorCluster ----------------------------
(***************************************************************************)
(* The ErrorPointCluster function pass of src/utils/ErrorCluster.cpp.  For *)
(* each function, runOnFunction collects as error points the instructions  *)
(* of the requested lines (-lines), in the order of the list, then blocks, *)
(* then instructions; gives each the predecessors of its block found in k  *)
(* levels of a backward breadth-first walk (getFatherList); opens          *)
(* err_cluster.txt, truncating it; groups the points with the S / CEI      *)
(* loop; and writes the clusters.                                          *)
(*                                                                         *)
(* A program is its functions in module order, the function owning each   *)
(* block, the blocks in IR order, the successors of each block and the     *)
(* number of instructions of each line in each block.  An error point is   *)
(* <<function, line, block, n>>: the n-th instruction of that line in that *)
(* block.  The pass is sequential; one action per step of runOnFunction.   *)
(*                                                                         *)
(* S has one bit per requested line but is indexed by error point.  In     *)
(* libstdc++ a vector<bool> of L <= 64 bits lives in one zero-filled word, *)
(* so S[i] with L <= i < 64 reads and writes bits of that word that        *)
(* any_of (line 93) and the CEI search (line 96) never look at: the model  *)
(* keeps them as the indices L.. of S.  bbkSetList[CEI] with CEI beyond    *)
(* the points (line 113) is a read past the vector: the copy hasCommon     *)
(* takes either faults or, from zeroed memory, is empty.                   *)
(***************************************************************************)
EXTENDS Integers, SequencesExt

CONSTANTS Funcs,     \* functions (model values)
          Blocks,    \* basic blocks (model values)
          Lines,     \* source lines
          Programs   \* the programs, with -lines and -k, a run may analyse

IsProgram(p) ==
    /\ p.funcs \in SetToSeqs(Funcs)
    /\ p.owner \in [Blocks -> Funcs]
    /\ p.layout \in SetToSeqs(Blocks)
    /\ p.succ \in [Blocks -> SUBSET Blocks]
    /\ \A b \in Blocks : \A s \in p.succ[b] : p.owner[s] = p.owner[b]
    /\ p.count \in [Blocks -> [Lines -> Nat]]
    /\ p.lines \in Seq(Lines)
    /\ p.k \in Nat

ASSUME \A p \in Programs : IsProgram(p)

VARIABLES prog,      \* the module, the -lines list and -k
          fi,        \* position of the current function in prog.funcs
          phase,     \* "collect", "open", "loop" or "done"
          points,    \* errorPoints
          fathers,   \* bbkSetList, as sets of blocks
          S,         \* S, indices 0.. as in the code
          EPC,       \* the clusters, sequences of indices into points
          file,      \* err_cluster.txt: a sequence of clusters of points
          openError  \* "Error opening file" has been printed

vars == <<prog, fi, phase, points, fathers, S, EPC, file, openError>>

F == prog.funcs[fi]
L == Len(prog.lines)
N == Len(points)

\* Lines 72-81: the requested lines in list order, then the blocks of F in
\* IR order, then the instructions of each block.
PointsOf(p, f) ==
    LET blocks == SelectSeq(p.layout, LAMBDA b : p.owner[b] = f)
        InBlock(l, b) == [n \in 1..p.count[b][l] |-> <<f, l, b, n>>]
        InLine(l) == FoldLeft(LAMBDA acc, b : acc \o InBlock(l, b), <<>>, blocks)
    IN  FoldLeft(LAMBDA acc, l : acc \o InLine(l), <<>>, p.lines)

Preds(p, bs) == {b \in Blocks : p.succ[b] \cap bs # {}}

\* Lines 25-47: predecessors level by level for k levels; the start block is
\* not marked visited, so it is its own father when it lies on a cycle.
RECURSIVE Fathers(_, _, _, _)
Fathers(p, level, visited, depth) ==
    IF depth >= p.k \/ level = {} THEN visited
    ELSE LET next == Preds(p, level) \ visited
         IN  Fathers(p, next, visited \cup next, depth + 1)

getFatherList(p, b) == Fathers(p, {b}, {}, 0)

Init ==
    /\ prog \in Programs
    /\ fi = 1
    /\ phase = "collect"
    /\ points = <<>>
    /\ fathers = <<>>
    /\ S = <<>>
    /\ EPC = <<>>
    /\ file = <<>>
    /\ openError = FALSE

\* Lines 66-81: the points, their father lists, and S(L, false).
Collect ==
    /\ phase = "collect"
    /\ points' = PointsOf(prog, F)
    /\ fathers' = [i \in DOMAIN points' |-> getFatherList(prog, points'[i][3])]
    /\ S' = [x \in 0..Max({L, Len(points')}) - 1 |-> FALSE]
    /\ EPC' = <<>>
    /\ phase' = "open"
    /\ UNCHANGED <<prog, fi, file, openError>>

\* Line 85: OF_Text without OF_Append truncates the file.
Open ==
    /\ phase = "open"
    /\ file' = <<>>
    /\ phase' = "loop"
    /\ UNCHANGED <<prog, fi, points, fathers, S, EPC, openError>>

NextFunction ==
    IF fi < Len(prog.funcs)
    THEN fi' = fi + 1 /\ phase' = "collect"
    ELSE fi' = fi /\ phase' = "done"

\* Lines 87-90: the file cannot be opened; runOnFunction returns.
OpenFails ==
    /\ phase = "open"
    /\ openError' = TRUE
    /\ NextFunction
    /\ UNCHANGED <<prog, points, fathers, S, EPC, file>>

Unvisited == {c \in 0..L - 1 : ~S[c]}

\* Lines 93-119: CEI is the first false bit among the L of S; it is set, and
\* every point i whose bit is set now (isSamePath(true, S[i])) or whose
\* fathers meet those of point CEI joins the cluster, setting its bit.
FormCluster ==
    /\ phase = "loop"
    /\ Unvisited # {}
    /\ LET cei  == Min(Unvisited)
           S1   == [S EXCEPT ![cei] = TRUE]
           idx  == 0..N - 1
           Near(i) == fathers[cei + 1] \cap fathers[i + 1] # {}
           \* hasCommon is reached only for an unvisited i; i < N <= cei
           \* cannot be unvisited, cei being the first, so bbkSetList[CEI]
           \* is never read past its end.
           Joins(i) == S1[i] \/ Near(i)
       IN  /\ S' = [x \in DOMAIN S1 |-> S1[x] \/ (x \in idx /\ Joins(x))]
           /\ EPC' = Append(EPC, SelectSeq([x \in 1..N |-> x - 1],
                                           LAMBDA x : Joins(x)))
           /\ UNCHANGED phase
    /\ UNCHANGED <<prog, fi, points, fathers, file, openError>>

\* Lines 124-131: the clusters are written and the next function runs.
Write ==
    /\ phase = "loop"
    /\ Unvisited = {}
    /\ file' = [c \in DOMAIN EPC |-> [x \in DOMAIN EPC[c] |-> points[EPC[c][x] + 1]]]
    /\ NextFunction
    /\ UNCHANGED <<prog, points, fathers, S, EPC, openError>>

Next == Collect \/ Open \/ OpenFails \/ FormCluster \/ Write

Spec == Init /\ [][Next]_vars

\* Every error point of the module, over all its functions.
AllPoints == UNION {ToSet(PointsOf(prog, f)) : f \in Funcs}

(***************************************************************************)
(* The pass clusters the error points (spec, section 1): when it has run   *)
(* over every function without reporting an error opening the file,       *)
(* err_cluster.txt lists each error point of the                          *)
(* module in exactly one cluster, once.  It is about the truncating open   *)
(* of line 85 in every runOnFunction, isSamePath at line 110 being true    *)
(* for every point already clustered, S sized by the requested lines but   *)
(* indexed by the points (lines 68 and 93).                                *)
(***************************************************************************)
ClustersPartition ==
    phase = "done" /\ ~openError =>
        /\ ToSet(FlattenSeq(file)) = AllPoints
        /\ Len(FlattenSeq(file)) = Cardinality(AllPoints)

=============================================================================
