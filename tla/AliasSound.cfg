SPECIFICATION Spec
CONSTANTS
    Args <- MCArgs
    LOAD_ID = 99990
    GEP_ID = 99991
    MaxLen = 4
    GepChoices <- MCGepSound
    Programs <- MCPrograms
    RangeMaxLen = 3
    Scopes <- MCAllScopes
INVARIANT TypeOK
INVARIANT AliasSound
INVARIANT UsageExact
CHECK_DEADLOCK FALSE
