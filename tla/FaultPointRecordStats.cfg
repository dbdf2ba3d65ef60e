\* A catalog lacking one statistics field is read back: the fields it does
\* hold must read as written and the missing one as zero.
CONSTANTS
  fa = fa
  fn = fn
  open = open
  close = close
  sk = sk
  MaxLines = 1
  NA = NA
  EMPTY = EMPTY
  Batches <- MCBatches
  SourceTrees <- MCSourceTrees
SPECIFICATION Spec
INVARIANT ReadBackAsWritten
CHECK_DEADLOCK FALSE
