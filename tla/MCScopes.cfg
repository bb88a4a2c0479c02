SPECIFICATION Spec
CONSTANTS
    x = x  y = y  e1 = e1  e2 = e2  e3 = e3  e4 = e4  e5 = e5
    Chars = {x, y}
    Addr = {e1, e2, e3, e4, e5}
    None = None
    MaxNames = 12
    MaxDefs = 2
SYMMETRY EnvSymmetry
INVARIANTS TypeOK NoDangling UniqueBinders
PROPERTY ResolvesLexically
\* The walk ends with the program, or with an exception.
CHECK_DEADLOCK FALSE
