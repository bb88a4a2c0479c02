SPECIFICATION Spec
CONSTANTS
    MaxTokens = 14
INVARIANTS GrammaticalAccepted OnlyGrammaticalAccepted
CHECK_DEADLOCK FALSE
