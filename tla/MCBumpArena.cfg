SPECIFICATION Spec
CONSTANTS
    a1 = a1  a2 = a2  a3 = a3
    c1 = c1  c2 = c2  c3 = c3
    Arena = {a1, a2, a3}
    Chunk = {c1, c2, c3}
    Start <- Starts
    SIZE = 32
    Request = {0, 8, 32, 40, 400}
    Null = Null
SYMMETRY ArenaSymmetry
INVARIANTS TypeOK OwnedOnce NoOverlap ObjectsInOwnedChunks FailsOnlyIfHuge
\* Every arena may be dead.
CHECK_DEADLOCK FALSE
