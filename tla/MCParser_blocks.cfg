SPECIFICATION Spec
CONSTANTS
    MaxTokens = 14
INVARIANTS BlocksAsCommented
CHECK_DEADLOCK FALSE
