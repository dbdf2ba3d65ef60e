\* The file after the pass against a partition of the module's error points.
SPECIFICATION Spec
CONSTANTS
    f = f
    g = g
    fa = fa
    fb = fb
    ga = ga
    Funcs <- MCFuncs
    Blocks <- MCBlocks
    Lines <- MCLines
    Programs <- MCPrograms
INVARIANT ClustersPartition
CHECK_DEADLOCK FALSE
