SPECIFICATION Spec
CONSTANTS
    Args <- MCArgs
    LOAD_ID = 99990
    GEP_ID = 99991
    MaxLen = 3
    GepChoices <- MCGepCollide
    Programs <- MCPrograms
    RangeMaxLen = 3
    Scopes <- MCFunctionScope
INVARIANT AliasSound
CHECK_DEADLOCK FALSE
