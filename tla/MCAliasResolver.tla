-------------------------- MODULE MCAliasResolver --------------------------
(***************************************************************************)
(* Instantiates AliasResolver for TLC: every straight-line function of up  *)
(* to MaxLen instructions (RangeMaxLen for the ranged overload) over the   *)
(* arguments MCArgs (negative integers, so that they compare with          *)
(* instruction numbers), each operand drawn from                           *)
(* the arguments and the earlier value-producing instructions.            *)
(***************************************************************************)
EXTENDS AliasResolver

CONSTANTS
    MaxLen,       \* instructions of a function the whole-function overload scans
    RangeMaxLen,  \* instructions of a function the ranged overload scans
    GepChoices    \* <<const, hi, k>> triples

MCArgs == {-1, -2}
MCFunctionScope == {"function"}
MCRangeScope == {"range"}
MCAllScopes == {"function", "range"}
\* Nonzero constant indices: the paths a must-alias may equate.
MCGepSound == {<<TRUE, 0, 1>>, <<TRUE, 0, 2>>}
\* Constant indices whose key collides with another: 99990 (= LOAD_ID) and
\* 2^32 + 1, which the int keeps as 1.
MCGepCollide == {<<TRUE, 0, 1>>, <<TRUE, 0, 99990>>, <<TRUE, 1, 1>>}

NoOperand(op) == [op |-> op, a |-> 0, b |-> 0, const |-> FALSE, hi |-> 0, k |-> 0]

\* Every instruction whose operands are among the Values V.
InstrsOver(V) ==
    {NoOperand("alloca"), NoOperand("other")}
    \cup {[NoOperand(o) EXCEPT !.a = v] : o \in {"load", "cast"}, v \in V}
    \cup {[NoOperand("gep") EXCEPT !.a = v, !.const = c[1], !.hi = c[2], !.k = c[3]] :
              v \in V, c \in GepChoices}
    \cup {[NoOperand("store") EXCEPT !.a = v, !.b = w] : v, w \in V}

\* A compare of a Value with a constant, or its return.  A switch is
\* classified as a compare is; an argument holds no call's result.
UserInstrsOver(V) ==
    {[NoOperand(o) EXCEPT !.a = v] : o \in {"icmp", "ret"}, v \in V \ Args}

\* Operands name an argument or an earlier instruction that is not a store.
DefinedBeforeUse(s) ==
    \A i \in DOMAIN s :
        {s[i].a, s[i].b} \ {0} \subseteq
            Args \cup {j \in 1..(i - 1) : s[j].op \notin NoValueOps}

\* The last instruction may be a user the classifier looks for; one earlier
\* would be handled as "other" is.
Bodies(len) ==
    UNION {{s \in [1..n -> InstrsOver(Args \cup 1..(n - 1)) \cup
                           UserInstrsOver(Args \cup 1..(n - 1))] :
               /\ \A i \in 1..(n - 1) : s[i].op \notin DefaultOps \ {"other"}
               /\ DefinedBeforeUse(s)} :
               n \in 1..len}

MCPrograms == [sc \in Scopes |-> Bodies(IF sc = "range" THEN RangeMaxLen ELSE MaxLen)]


=============================================================================
