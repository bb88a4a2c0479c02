SPECIFICATION Spec
CONSTANTS
    Return = Return
    None = None
    Null = Null
    MaxNodes = 7
INVARIANT SharedValuesCreated
CHECK_DEADLOCK FALSE
