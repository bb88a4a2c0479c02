SPECIFICATION Spec
CONSTANTS
    Letter = {"i", "f"}
    Digit = {"6"}
    Mark = {"("}
    MaxText = 4
    Keywords <- MCKeywords
INVARIANTS PositionsCount
PROPERTIES ReadsTokens Returns
CHECK_DEADLOCK FALSE
