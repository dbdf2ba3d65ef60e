--------------------------- MODULE MCErrorCluster ---------------------------
(***************************************************************************)
(* Instantiates ErrorCluster: function f with blocks fa and fb, function g *)
(* with block ga, in that order; every edge inside a function (loops       *)
(* included); up to one instruction of each of lines 1 and 2 per block;    *)
(* -lines 1, "1,2" or "2,1"; -k 1 or 2.                                    *)
(***************************************************************************)
EXTENDS ErrorCluster

CONSTANTS f, g, fa, fb, ga

MCFuncs == {f, g}
MCBlocks == {fa, fb, ga}
MCLines == {1, 2}

Owner == (fa :> f) @@ (fb :> f) @@ (ga :> g)

MCPrograms ==
    {[funcs |-> <<f, g>>, owner |-> Owner, layout |-> <<fa, fb, ga>>,
      succ |-> s, count |-> c, lines |-> ls, k |-> k] :
        s \in {s \in [MCBlocks -> SUBSET MCBlocks] :
                 \A b \in MCBlocks : \A t \in s[b] : Owner[t] = Owner[b]},
        c \in [MCBlocks -> [MCLines -> 0..1]],
        ls \in {<<1>>, <<1, 2>>, <<2, 1>>},
        k \in {1, 2}}

=============================================================================
