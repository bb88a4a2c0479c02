SPECIFICATION Spec
CONSTANTS
    f = f  g = g  x = x
    Spelling = {f, g, x}
    None = None
    MaxNames = 4
SYMMETRY SpellingSymmetry
INVARIANTS TypeOK LinksLexically FailuresJustified
\* The compiler stops, with a module or without.
CHECK_DEADLOCK FALSE
