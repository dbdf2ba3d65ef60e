\* The rows against the spec's shortest-path distance between blocks.
SPECIFICATION Spec
CONSTANTS
    b1 = b1
    b2 = b2
    b3 = b3
    Blocks <- MCBlocks
    Lines <- MCLines
    Programs <- MCPrograms
INVARIANT ShortestDistanceRows
CHECK_DEADLOCK FALSE
