SPECIFICATION Spec
CONSTANTS
    Return = Return
    None = None
    Null = Null
    MaxNodes = 9
INVARIANTS OperandsDominate UsesScheduledFirst GoodScheduleSuffices PhisComplete
PROPERTIES ConvertsFlow
CHECK_DEADLOCK FALSE
