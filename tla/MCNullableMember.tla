-------------------------- MODULE MCNullableMember --------------------------
(***************************************************************************)
(* Instantiates NullableMember: two modules, functions f (up to 2 items)   *)
(* and g (up to 1 item), struct Foo with two pointer members at offsets 0  *)
(* and 8.  Each run picks the compares and stores the bodies draw from.    *)
(***************************************************************************)
EXTENDS NullableMember

CONSTANTS m1, m2, f, g, Foo

MCModules == {m1, m2}
MCFuncs == {f, g}
MCBases == {Foo}
MCBaseRank == [b \in MCBases |-> 1]
MCFuncRank == [x \in MCFuncs |-> IF x = f THEN 1 ELSE 2]
MCLayout == [b \in MCBases |-> <<0, 8>>]

Acc(mem, tag, gep) == [base |-> Foo, member |-> mem, tag |-> tag, gep |-> gep]

\* if (p->m == NULL) with a branch on it, and its variants.
Chk(a) == [kind |-> "icmp", pred |-> "eq", op0 |-> "load", op1 |-> "null", acc |-> a,
           branched |-> TRUE, dbg |-> TRUE]
\* p->m = NULL, and its variants.
Sto(a) == [kind |-> "store", acc |-> a, val |-> "null", dbg |-> TRUE]

Path(mem) == Acc(mem, "path", "field")

\* Compares varying one operand the pass inspects at a time.
CheckVariants ==
    {Chk(Path(0)), Chk(Path(1)),
     [Chk(Path(0)) EXCEPT !.op0 = "null", !.op1 = "load"],
     [Chk(Path(1)) EXCEPT !.pred = "ne", !.op1 = "zero"],
     [Chk(Path(0)) EXCEPT !.pred = "slt"],
     [Chk(Path(0)) EXCEPT !.op1 = "nonzero"],
     [Chk(Path(0)) EXCEPT !.branched = FALSE],
     [Chk(Path(0)) EXCEPT !.dbg = FALSE],
     [Chk(Path(0)) EXCEPT !.op0 = "arg"],
     [Chk(Path(1)) EXCEPT !.op1 = "arg"],
     [Chk(Path(1)) EXCEPT !.op1 = "load"],
     Chk(Acc(1, "none", "field")), Chk(Acc(1, "malformed", "field")),
     Chk(Acc(0, "scalar", "none"))}

StoreVariants ==
    {Sto(Path(0)), Sto(Path(1)),
     [Sto(Path(1)) EXCEPT !.val = "zero"],
     [Sto(Path(0)) EXCEPT !.val = "nonzero"],
     [Sto(Path(0)) EXCEPT !.val = "arg"],
     [Sto(Path(1)) EXCEPT !.dbg = FALSE],
     Sto(Acc(1, "none", "field")), Sto(Acc(1, "scalar", "none"))}

\* Generic pointer tags with a field GEP: the fallback resolution.
FallbackItems ==
    {Chk(Path(0)), Sto(Path(0)), Sto(Acc(1, "scalar", "field")),
     Chk(Acc(0, "scalar", "field"))}

\* Stores of functions built without debug information.
NoLocationItems ==
    {Chk(Path(0)), Sto(Path(0)), [Sto(Path(0)) EXCEPT !.dbg = FALSE]}

Layouts == {[m \in MCModules |-> IF m = m1 THEN <<f, g>> ELSE <<>>],
            [m \in MCModules |-> IF m = m1 THEN <<f>> ELSE <<g>>]}

Bodies(U, n) == UNION {[1..k -> U] : k \in 0..n}

ProgramsOver(U) ==
    {[order |-> o, body |-> [x \in MCFuncs |-> IF x = f THEN bf ELSE bg]] :
        o \in Layouts, bf \in Bodies(U, 2), bg \in Bodies(U, 1)}

PassPrograms == ProgramsOver(CheckVariants \cup StoreVariants)
FallbackPrograms == ProgramsOver(FallbackItems)
NoLocationPrograms == ProgramsOver(NoLocationItems)

=============================================================================
