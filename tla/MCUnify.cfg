\* Every question asked of unify, on up to five type objects and three goals.
SPECIFICATION MCSpec
CONSTANTS
    u1 = u1  u2 = u2  u3 = u3  f1 = f1  f2 = f2
    Uv = {u1, u2, u3}
    Fn = {f1, f2}
    Bool = Bool  I64 = I64  None = None
    MaxArity = 1
    MaxGoals = 3
    t1 = t1  t2 = t2
    Term = {t1, t2}
INVARIANTS TypeOK Acyclic RankBounded Sound MostGeneral ErrorsJustified
PROPERTIES BindingsPermanent Terminates KeepsPromise
\* A thrown exception ends the compilation, and so does the last goal.
CHECK_DEADLOCK FALSE
