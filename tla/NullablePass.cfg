SPECIFICATION Spec
CONSTANTS
    m1 = m1
    m2 = m2
    f = f
    g = g
    Foo = Foo
    Modules <- MCModules
    Funcs <- MCFuncs
    Bases <- MCBases
    BaseRank <- MCBaseRank
    FuncRank <- MCFuncRank
    Layout <- MCLayout
    Programs <- PassPrograms
INVARIANT
    TypeOK
    TrueJoinLaw
CHECK_DEADLOCK FALSE
