--------------------------- MODULE MCCFGDistance ---------------------------
(***************************************************************************)
(* Instantiates CFGDistance: three blocks b1, b2, b3 in that IR order, each *)
(* with at most two successors (a conditional branch), self-loops and back  *)
(* edges included; lines 1, 2 and 3, where line 2 may be absent and line 3  *)
(* may be held by two blocks (as a loop header's line is).                  *)
(***************************************************************************)
EXTENDS CFGDistance

CONSTANTS b1, b2, b3

MCBlocks == {b1, b2, b3}
MCLines == {1, 2, 3}

Singletons == {{b} : b \in MCBlocks}

\* Which blocks hold an instruction of each line.
Placements ==
    [l \in MCLines |-> CASE l = 1 -> Singletons
                         [] l = 2 -> Singletons \cup {{}}
                         [] l = 3 -> Singletons \cup {{b1, b3}, {b2, b3}}]

Successors == {s \in SUBSET MCBlocks : Cardinality(s) <= 2}

MCPrograms ==
    {[layout |-> <<b1, b2, b3>>,
      lines  |-> [b \in MCBlocks |-> {l \in MCLines : b \in place[l]}],
      succ   |-> s] :
        place \in {f \in [MCLines -> SUBSET MCBlocks] : \A l \in MCLines : f[l] \in Placements[l]},
        s \in [MCBlocks -> Successors]}

=============================================================================
