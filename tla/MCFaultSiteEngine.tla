------------------------- MODULE MCFaultSiteEngine -------------------------
(***************************************************************************)
(* Model-checking instance of FaultSiteEngine: two defined functions f, g *)
(* (f with up to two call sites, g with up to one), one boundary function *)
(* a, two modules.  Programs enumerates every such program; the runs      *)
(* restrict it to the call graphs each question is about.                 *)
(***************************************************************************)
EXTENDS FaultSiteEngine

CONSTANTS f, g, a, m1, m2

\* where the bodies live and in which IR order
Layouts ==
  { (m1 :> <<f, g>>) @@ (m2 :> <<>>),
    (m1 :> <<g, f>>) @@ (m2 :> <<>>),
    (m1 :> <<f>>) @@ (m2 :> <<g>>) }

\* Headers are only told apart in kernel mode.  The pointer return value (0)
\* is told apart from -12 in kernel mode by a, from -1 in default mode.
AllPrograms ==
  { p \in
     { [order |-> o, body |-> (f :> bf) @@ (g :> bg), header |-> h, void |-> v,
        ptr |-> IF k THEN {} ELSE {a}, kernel |-> k] :
         o \in Layouts, bf \in BoundedSeq(CallSite, 2), bg \in BoundedSeq(CallSite, 1),
         k \in BOOLEAN, h \in SUBSET {g}, v \in SUBSET {f} } :
    ~p.kernel => p.header = {} }

\* calls are only made to functions with an int/pointer return type
WellTyped(p) ==
  \A x \in Defined : \A i \in 1..Len(p.body[x]) : p.body[x][i].callee \notin p.void

ProgCallEdges(p) ==
  UNION {{<<x, p.body[x][i].callee>> : i \in 1..Len(p.body[x])} : x \in Defined}
    \cap (Defined \X Defined)

Acyclic(p) ==
  /\ \A x \in Defined : <<x, x>> \notin ProgCallEdges(p)
  /\ ~(<<f, g>> \in ProgCallEdges(p) /\ <<g, f>> \in ProgCallEdges(p))

\* every call of a defined function is made from the module holding its body
IntraModule(p) ==
  \A e \in ProgCallEdges(p) : \E m \in Modules :
    e[1] \in ToSet(p.order[m]) /\ e[2] \in ToSet(p.order[m])

AcyclicIntraPrograms == {p \in AllPrograms : WellTyped(p) /\ Acyclic(p) /\ IntraModule(p)}
AcyclicPrograms == {p \in AllPrograms : WellTyped(p) /\ Acyclic(p)}
TypedPrograms == {p \in AllPrograms : WellTyped(p)}
\* kernel mode, no pointer-returning boundary function
KernelAcyclicPrograms == {p \in AcyclicPrograms : p.kernel}
CyclicPrograms == {p \in AllPrograms : WellTyped(p) /\ ~Acyclic(p)}

MCNameRank == (a :> 1) @@ (f :> 2) @@ (g :> 3)
=============================================================================
