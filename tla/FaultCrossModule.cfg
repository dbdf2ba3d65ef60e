\* Kernel mode, acyclic programs, candidates may be called from another
\* module: a checked call of a candidate declared (not defined) in the
\* caller's module validates nothing.
CONSTANTS
  f = f
  g = g
  a = a
  m1 = m1
  m2 = m2
  NoName = NoName
  Modules = {m1, m2}
  Defined = {f, g}
  Boundary = {a}
  MmapFns = {}
  MaxDepth = 3
  NameRank <- MCNameRank
  Programs <- KernelAcyclicPrograms
SPECIFICATION Spec
INVARIANT CrossFunctionValidation
CHECK_DEADLOCK FALSE
