\* Kernel (deep) mode on every well-typed program: the recursion never
\* re-enters a frame and terminates; counters are exact on acyclic
\* intra-module call graphs and under-approximate elsewhere.
CONSTANTS
  f = f
  g = g
  a = a
  m1 = m1
  m2 = m2
  NoName = NoName
  Modules = {m1, m2}
  Defined = {f, g}
  Boundary = {a}
  MmapFns = {}
  MaxDepth = 3
  NameRank <- MCNameRank
  Programs <- TypedPrograms
SPECIFICATION Spec
INVARIANT TypeOK
INVARIANT NoReentry
INVARIANT CountersMatchReference
INVARIANT CountersUnderApproximate
INVARIANT CatalogMatchesCounters
PROPERTY Termination
CHECK_DEADLOCK FALSE
