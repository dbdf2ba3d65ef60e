\* The pass on every three-block module: it implements the distance table.
SPECIFICATION Spec
CONSTANTS
    b1 = b1
    b2 = b2
    b3 = b3
    Blocks <- MCBlocks
    Lines <- MCLines
    Programs <- MCPrograms
INVARIANT TypeOK
PROPERTY TableRefined
CHECK_DEADLOCK FALSE
