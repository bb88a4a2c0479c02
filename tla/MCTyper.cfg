SPECIFICATION TyperSpec
CONSTANTS
    u1 = u1  u2 = u2  u3 = u3  u4 = u4  f1 = f1  f2 = f2
    Uv = {u1, u2, u3, u4}
    Fn = {f1, f2}
    Bool = Bool  I64 = I64  None = None
    MaxArity = 1
    MaxGoals = 6
    MaxExprs = 1
INVARIANTS TypesResolved
CHECK_DEADLOCK FALSE
