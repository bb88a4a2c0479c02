SPECIFICATION Spec
CONSTANTS
    Return = Return
    None = None
    Null = Null
    MaxNodes = 7
INVARIANT NullUnused
CHECK_DEADLOCK FALSE
