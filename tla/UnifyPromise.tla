---------------------------- MODULE UnifyPromise ----------------------------
(***************************************************************************)
(* What the typer relies on: it poses pairs of types and is told, pair by  *)
(* pair, whether all the pairs so far have a common solution.  A solution  *)
(* gives every type a term, here named by a type, such that function types *)
(* are equal terms exactly if their parts are, no two kinds of type are,   *)
(* and no term is a part of itself.  There are no links, ranks or paths.   *)
(***************************************************************************)
CONSTANTS Uv, Fn, Bool, I64, None

VARIABLES fns, domain, codomain, goals, answer

vars == <<fns, domain, codomain, goals, answer>>

Base == {Bool, I64}
Type == Uv \cup Fn \cup Base
Parts(f) == {domain[f][i] : i \in DOMAIN domain[f]} \cup {codomain[f]}

-----------------------------------------------------------------------------
\* The base types are named by themselves.
TermsOf(uvNames, fnNames) ==
    [t \in Type |-> IF t \in Uv THEN uvNames[t] ELSE IF t \in Fn THEN fnNames[t] ELSE t]

EqualParts(m, f, g) ==
    /\ DOMAIN domain[f] = DOMAIN domain[g]
    /\ \A i \in DOMAIN domain[f] : m[domain[f][i]] = m[domain[g][i]]
    /\ m[codomain[f]] = m[codomain[g]]

Finite(m) ==
    \A T \in (SUBSET {m[x] : x \in Type}) \ {{}} :
        \E t \in T : \A f \in fns : m[f] = t => \A c \in Parts(f) : m[c] \notin T

Solution(m) ==
    /\ \A goal \in goals : m[goal[1]] = m[goal[2]]
    /\ \A f \in fns : m[f] \notin Base
    /\ \A f, g \in fns : m[f] = m[g] <=> EqualParts(m, f, g)
    /\ Finite(m)

\* A function term is named by a function type that stands for it.
Solvable ==
    \E uvNames \in [Uv -> Type], fnNames \in [Fn -> Fn] : Solution(TermsOf(uvNames, fnNames))

-----------------------------------------------------------------------------
Init ==
    /\ fns = {} /\ goals = {} /\ answer = "ok"
    /\ domain = [f \in Fn |-> <<>>]
    /\ codomain = [f \in Fn |-> None]

\* New function types may appear between two goals; none ever changes.
Grow ==
    /\ answer = "ok"
    /\ fns \subseteq fns'
    /\ \A f \in fns : domain'[f] = domain[f] /\ codomain'[f] = codomain[f]
    /\ UNCHANGED <<goals, answer>>

Pose ==
    /\ answer = "ok" /\ answer' = "solving"
    /\ \E a, b \in Type : goals' = goals \cup {<<a, b>>}
    /\ UNCHANGED <<fns, domain, codomain>>

Answer ==
    /\ answer = "solving" /\ answer' \in {"ok", "error"}
    /\ (answer' = "ok") <=> Solvable
    /\ UNCHANGED <<fns, domain, codomain, goals>>

Next == Grow \/ Pose \/ Answer

Spec == Init /\ [][Next]_vars
=============================================================================
