------------------------------ MODULE MCUnify ------------------------------
(* Small instances of Unify for TLC.                                        *)
EXTENDS UnifyCorrect

CONSTANTS u1, u2, u3, f1, f2,
          t1, t2    \* two terms besides the base types

MaxSize == 6        \* bound: objects and goals together

\* Objects of a kind are interchangeable until allocated: they are taken in order.
InOrder ==
    /\ uvs' \in {{}, {u1}, {u1, u2}, {u1, u2, u3}}
    /\ fns' \in {{}, {f1}, {f1, f2}}

\* bound: no type is unified with itself, which demands nothing and takes a goal.
Small ==
    /\ Cardinality(uvs') + Cardinality(fns') + Cardinality(goals') <= MaxSize
    /\ \A goal \in goals' : goal[1] # goal[2]

MCSpec == Init /\ [][Next /\ InOrder /\ Small]_vars /\ WF_vars(Step)
=============================================================================
