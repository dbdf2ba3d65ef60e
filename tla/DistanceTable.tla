---------------------------- MODULE DistanceTable ----------------------------
(***************************************************************************)
(* What the CFG distance pass promises of cfg_distances.txt, without its   *)
(* search: for every unordered pair of lines of lineToBB, in some order    *)
(* and either orientation, two rows giving both orientations the number of *)
(* edges of a shortest path of at least one edge from the first line's    *)
(* block to the second's, or -1 when there is none or the blocks are the   *)
(* same.  Unless the file fails to open, the table is eventually complete. *)
(***************************************************************************)
EXTENDS Integers, SequencesExt

CONSTANTS Blocks     \* basic blocks

VARIABLES succ,      \* the successors of each block, fixed
          lineToBB,  \* the block of each line, fixed
          rows,      \* the rows written so far
          status     \* "running", "done" or "failed"

vars == <<succ, lineToBB, rows, status>>

\* The blocks reachable from S in exactly k edges.
RECURSIVE Reach(_, _)
Reach(S, k) == IF k = 0 THEN S ELSE Reach(UNION {succ[b] : b \in S}, k - 1)

Distance(b1, b2) ==
    LET ks == {k \in 1..Cardinality(Blocks) : b2 \in Reach({b1}, k)}
    IN  IF b1 = b2 \/ ks = {} THEN -1 ELSE Min(ks)

Pairs == {{l1, l2} : l1, l2 \in DOMAIN lineToBB} \ {{l} : l \in DOMAIN lineToBB}

Written == {{r[1], r[2]} : r \in Range(rows)}

Init ==
    /\ succ \in [Blocks -> SUBSET Blocks]
    /\ lineToBB \in [DOMAIN lineToBB -> Blocks]
    /\ rows = <<>>
    /\ status = "running"

Write ==
    /\ status = "running"
    /\ \E l1, l2 \in DOMAIN lineToBB :
         /\ {l1, l2} \in Pairs \ Written
         /\ LET d == Distance(lineToBB[l1], lineToBB[l2])
            IN  rows' = rows \o <<<<l1, l2, d>>, <<l2, l1, d>>>>
    /\ UNCHANGED <<succ, lineToBB, status>>

Finish ==
    /\ status = "running"
    /\ Written = Pairs
    /\ status' = "done"
    /\ UNCHANGED <<succ, lineToBB, rows>>

Fail ==
    /\ status = "running"
    /\ rows = <<>>
    /\ status' = "failed"
    /\ UNCHANGED <<succ, lineToBB, rows>>

Next == Write \/ Finish \/ Fail

Spec == Init /\ [][Next]_vars /\ WF_vars(Next)

=============================================================================
