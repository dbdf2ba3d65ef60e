---------------------------- MODULE CFGDistance ----------------------------
(***************************************************************************)
(* The GlobalCFGDistancePass of src/utils/CFGDistancePass.cpp.  run()      *)
(* maps every debug line of the module to the last basic block, in IR      *)
(* order, holding an instruction of that line (LineToBB), then walks the   *)
(* unordered pairs of the map in its iteration order and, for each, calls  *)
(* the breadth-first search computeDistance(BB1, BB2) once and writes the  *)
(* rows "Line1 Line2 d" and "Line2 Line1 d".                               *)
(*                                                                         *)
(* A program is the module's blocks in IR order (layout), the set of debug *)
(* lines of each block's instructions (lines) and each block's set of      *)
(* successors (succ).  The search is kept step by step: one action per     *)
(* block taken from the queue.  The order in which a block's successors    *)
(* are pushed is a choice among all orders, as successors() gives one the  *)
(* model does not fix; the unordered_map iteration order is a choice of    *)
(* permutation of its keys.                                                *)
(***************************************************************************)
EXTENDS Integers, SequencesExt

CONSTANTS Blocks,    \* basic blocks of the module (model values)
          Lines,     \* debug line numbers
          Programs   \* the programs a run may analyse

IsProgram(p) ==
    /\ p.layout \in SetToSeqs(Blocks)
    /\ p.lines \in [Blocks -> SUBSET Lines]
    /\ p.succ \in [Blocks -> SUBSET Blocks]

ASSUME \A p \in Programs : IsProgram(p)

VARIABLES prog,    \* the module being analysed
          phase,   \* "build", "open", "pairs", "bfs", "done" or "failed"
          lineToBB,\* LineToBB
          order,   \* the iteration order of LineToBB, a sequence of lines
          i, j,    \* positions of It1 and It2 in order
          queue,   \* Queue of computeDistance
          dist,    \* Distances of computeDistance
          out      \* the rows written to cfg_distances.txt

vars == <<prog, phase, lineToBB, order, i, j, queue, dist, out>>

\* Lines 23-34: every instruction with a dbg location overwrites the entry of
\* its line, so a line shared by several blocks ends at the last in IR order.
LineToBBOf(p) ==
    LET Holders(l) == {k \in DOMAIN p.layout : l \in p.lines[p.layout[k]]}
    IN  [l \in UNION {p.lines[b] : b \in Blocks} |-> p.layout[Max(Holders(l))]]

BB1 == lineToBB[order[i]]
BB2 == lineToBB[order[j]]

Init ==
    /\ prog \in Programs
    /\ phase = "build"
    /\ lineToBB = <<>>
    /\ order = <<>>
    /\ i = 1
    /\ j = 2
    /\ queue = <<>>
    /\ dist = <<>>
    /\ out = <<>>

Build ==
    /\ phase = "build"
    /\ lineToBB' = LineToBBOf(prog)
    /\ phase' = "open"
    /\ UNCHANGED <<prog, order, i, j, queue, dist, out>>

\* Lines 37 and 43-44: the output file opens and the pair loop starts.
OpenFile ==
    /\ phase = "open"
    /\ order' \in SetToSeqs(DOMAIN lineToBB)
    /\ phase' = "pairs"
    /\ UNCHANGED <<prog, lineToBB, i, j, queue, dist, out>>

\* Lines 38-41: the file cannot be opened; nothing is written.
OpenFails ==
    /\ phase = "open"
    /\ phase' = "failed"
    /\ UNCHANGED <<prog, lineToBB, order, i, j, queue, dist, out>>

\* Lines 45-48 and 62-66: computeDistance(BB1, BB2) starts its search.
StartPair ==
    /\ phase = "pairs"
    /\ j <= Len(order)
    /\ queue' = <<BB1>>
    /\ dist' = (BB1 :> 0)
    /\ phase' = "bfs"
    /\ UNCHANGED <<prog, lineToBB, order, i, j, out>>

\* Mutant: the inner loop restarts at It1 instead of after it.
NextIt1SameStart ==
    /\ phase = "pairs"
    /\ j > Len(order)
    /\ i < Len(order)
    /\ i' = i + 1
    /\ j' = i + 1
    /\ UNCHANGED <<prog, phase, lineToBB, order, queue, dist, out>>

\* Line 43: ++It1, and the inner loop restarts after it.
NextIt1 ==
    /\ phase = "pairs"
    /\ j > Len(order)
    /\ i < Len(order)
    /\ i' = i + 1
    /\ j' = i + 2
    /\ UNCHANGED <<prog, phase, lineToBB, order, queue, dist, out>>

\* Lines 43 and 54-55: the outer loop ends and the file is closed.
Close ==
    /\ phase = "pairs"
    /\ j > Len(order)
    /\ i >= Len(order)
    /\ phase' = "done"
    /\ UNCHANGED <<prog, lineToBB, order, i, j, queue, dist, out>>

\* Lines 48-50 and the return of computeDistance: both rows carry the same
\* distance, and the inner loop moves on (++It2).
Emit(d) ==
    /\ out' = out \o <<<<order[i], order[j], d>>, <<order[j], order[i], d>>>>
    /\ j' = j + 1
    /\ phase' = "pairs"
    /\ queue' = <<>>
    /\ dist' = <<>>
    /\ UNCHANGED <<prog, lineToBB, order, i>>

\* Lines 69-76: the successors of Current not yet labelled.
Fresh(cur) == prog.succ[cur] \ DOMAIN dist

\* Lines 69-80: Current is popped, its fresh successors are labelled and
\* pushed in successor order.  None of them is BB2.
BfsExpand ==
    /\ phase = "bfs"
    /\ queue # <<>>
    /\ LET cur == Head(queue) IN
       /\ BB2 \notin Fresh(cur)
       /\ dist' = dist @@ [b \in Fresh(cur) |-> dist[cur] + 1]
       /\ \E pushed \in SetToSeqs(Fresh(cur)) : queue' = Tail(queue) \o pushed
    /\ UNCHANGED <<prog, phase, lineToBB, order, i, j, out>>

\* Mutant: the label of Current is returned instead of BB2's.
BfsFoundCurrentDistance ==
    /\ phase = "bfs"
    /\ queue # <<>>
    /\ BB2 \in Fresh(Head(queue))
    /\ Emit(dist[Head(queue)])

\* Lines 78-79: BB2 is a fresh successor of Current; its label is returned.
BfsFound ==
    /\ phase = "bfs"
    /\ queue # <<>>
    /\ BB2 \in Fresh(Head(queue))
    /\ Emit(dist[Head(queue)] + 1)

\* Line 84: the queue is empty without BB2 labelled.  BB1 is labelled before
\* the loop and never tested, so BB1 = BB2 always lands here.
BfsExhausted ==
    /\ phase = "bfs"
    /\ queue = <<>>
    /\ Emit(-1)

Next ==
    \/ Build \/ OpenFile \/ OpenFails \/ StartPair \/ NextIt1 \/ Close
    \/ BfsExpand \/ BfsFound \/ BfsExhausted

\* The pass is one sequential loop: a step that is enabled is taken.
Spec == Init /\ [][Next]_vars /\ WF_vars(Next)

\* The file as the abstract table sees it: the graph, the line map (before
\* lines 23-34 have run, the one they will build), the rows, and whether the
\* pass has ended or failed to open the file.
Table == INSTANCE DistanceTable
           WITH succ <- prog.succ,
                lineToBB <- IF phase = "build" THEN LineToBBOf(prog) ELSE lineToBB,
                rows <- out,
                status <- CASE phase = "done" -> "done"
                            [] phase = "failed" -> "failed"
                            [] OTHER -> "running"

(***************************************************************************)
(* The pass implements the distance table: the rows it writes for a pair   *)
(* carry the length of a shortest path (at least one edge) between the     *)
(* blocks LineToBB keeps for the two lines, every pair of LineToBB gets    *)
(* its rows exactly once, and unless OutFile fails to open the file is     *)
(* eventually complete.  It is about the label arithmetic, the visited    *)
(* test and the early return of computeDistance, the pair loop of lines    *)
(* 43-52 and the termination of both loops.                                *)
(***************************************************************************)
TableRefined == Table!Spec

(***************************************************************************)
(* Spec (section 1) names the utility a shortest-path distance between     *)
(* blocks: every row "l1 l2 d" gives the length of a shortest path from    *)
(* the block of l1 to the block of l2, 0 when they are the same block and  *)
(* -1 when there is none.  computeDistance searches from BB1 only and      *)
(* writes its answer for both orientations (lines 49-50), and never tests  *)
(* BB1 against BB2.                                                        *)
(***************************************************************************)
ShortestDistanceRows ==
    \A r \in Range(out) :
        LET b1 == LineToBBOf(prog)[r[1]]
            b2 == LineToBBOf(prog)[r[2]]
        IN  r[3] = IF b1 = b2 THEN 0 ELSE Table!Distance(b1, b2)

\* Every queued and labelled value has its type; a row's distance is -1 or
\* a path length of at least one edge, never 0.
TypeOK ==
    /\ phase \in {"build", "open", "pairs", "bfs", "done", "failed"}
    /\ lineToBB \in [DOMAIN lineToBB -> Blocks]
    /\ DOMAIN lineToBB \subseteq Lines
    /\ order \in Seq(Lines)
    /\ queue \in Seq(Blocks)
    /\ dist \in [DOMAIN dist -> 0..Cardinality(Blocks) - 1]
    /\ out \in Seq(Lines \X Lines \X ({-1} \cup 1..Cardinality(Blocks) - 1))

=============================================================================
