SPECIFICATION Spec
CONSTANTS
    Args <- MCArgs
    LOAD_ID = 99990
    GEP_ID = 99991
    MaxLen = 3
    GepChoices <- MCGepSound
    Programs <- MCPrograms
    RangeMaxLen = 3
    Scopes <- MCFunctionScope
INVARIANT OrderIndependent
CHECK_DEADLOCK FALSE
