---------------------------- MODULE UnifyCorrect ----------------------------
(***************************************************************************)
(* What makes unification correct, stated over assignments of terms to the *)
(* type objects.  An assignment m gives every type object a term; the      *)
(* object's own structure constrains m (Free), the links recorded so far   *)
(* constrain it (Linked), and so do the activations still to run (Pending) *)
(* and the goals the typer has posed (Solves).                             *)
(***************************************************************************)
EXTENDS Unify

CONSTANT Term   \* names of terms besides the base types; only equality of terms matters

\* The base types are named by themselves, and no function type is one of them.
Assignments ==
    {[t \in Type |-> IF t \in Uv THEN v[t] ELSE IF t \in Fn THEN f[t] ELSE t] :
        v \in [Uv -> Term \cup Base], f \in [Fn -> Term]}

SameFn(m, f, g) ==
    /\ DOMAIN domain[f] = DOMAIN domain[g]
    /\ \A i \in DOMAIN domain[f] : m[domain[f][i]] = m[domain[g][i]]
    /\ m[codomain[f]] = m[codomain[g]]

\* Terms are finite: going from a function term to its parts terminates.
Finite(m) ==
    \A T \in (SUBSET {m[x] : x \in Type}) \ {{}} :
        \E t \in T : \A f \in fns : m[f] = t => \A c \in Parts(f) : m[c] \notin T

\* m reads function types as freely generated, finite terms.
Free(m) ==
    /\ \A f \in fns : m[f] \notin {m[Bool], m[I64]}
    /\ \A f, g \in fns : m[f] = m[g] <=> SameFn(m, f, g)
    /\ Finite(m)

Linked(m) == \A u \in Uv : parent[u] # None => m[u] = m[parent[u]]

Holds(m, activation) ==
    LET f == activation.this  g == activation.other  i == activation.at IN
    IF i = 0
    THEN m[f] = m[g]
    ELSE /\ DOMAIN domain[f] = DOMAIN domain[g]
         /\ \A j \in DOMAIN domain[f] :
                j >= i => m[domain[f][j]] = m[domain[g][j]]
         /\ m[codomain[f]] = m[codomain[g]]

Pending(m) == \A k \in DOMAIN todo : Holds(m, todo[k])

Solves(m) == \A goal \in goals : m[goal[1]] = m[goal[2]]

-----------------------------------------------------------------------------
HeapOK ==
    /\ uvs \subseteq Uv /\ fns \subseteq Fn
    /\ domain \in [Fn -> Seq(Uv)]
    /\ codomain \in [Fn -> Type \cup {None}]
    /\ \A f \in fns : Parts(f) \subseteq uvs \cup Base
    /\ parent \in [Uv -> Live \cup {None}]
    /\ \A u \in Uv \ uvs : parent[u] = None
    /\ rank \in [Uv -> Nat]

\* The loop of unifyFoundFns only passes parameters that both sides have.
LoopOK(activation) ==
    LET f == activation.this  g == activation.other  i == activation.at IN
    i > 0 => /\ f \in fns /\ g \in fns
             /\ 1..(i - 1) \subseteq DOMAIN domain[f] \cap DOMAIN domain[g]

StackOK ==
    /\ goals \subseteq Live \X Live
    /\ todo \in Seq([this : Live, other : Live, at : Nat])
    /\ \A k \in DOMAIN todo : LoopOK(todo[k])
    /\ outcome \in {"ok", "UnificationError", "OccursError"}

CursorOK ==
    /\ path \subseteq uvs
    /\ \A u \in path : parent[u] \in path \cup {cur} /\ parent[u] # None
    /\ pc \in {"call", "find_this", "find_other", "found"}
    /\ pc # "call" => cur \in Live /\ todo # <<>> /\ Head(todo).at = 0
    /\ pc \in {"find_other", "found"} => found \in Live /\ Root(found)
    /\ pc = "found" => Root(cur)
    /\ pc \in {"call", "found"} => path = {}

\* Types of the state, and what each control point knows about the cursor.
TypeOK == HeapOK /\ StackOK /\ CursorOK

\* The links never form a cycle, so find, occurs_check, print and to_llvm
\* terminate: every nonempty set of types has a member none of whose children
\* is in the set.  (The only thing between the program and an endless find is
\* the occurs check and the two roots that union_ asserts.)
Acyclic ==
    \A S \in (SUBSET Live) \ {{}} : \E t \in S : Children(t) \cap S = {}

\* Whatever satisfies the recorded links and the activations still on the
\* stack satisfies every pair the typer asked to unify: no path compression,
\* union or early return drops a constraint.
Sound ==
    \A m \in Assignments : Linked(m) /\ Pending(m) => Solves(m) \/ ~Free(m)

\* The links say nothing that the goals do not imply: unification is most
\* general, it never guesses.
MostGeneral ==
    \A m \in Assignments : Solves(m) => (Linked(m) /\ Pending(m)) \/ ~Free(m)

\* An exception is only thrown for goals that no assignment satisfies.
ErrorsJustified ==
    outcome # "ok" => \A m \in Assignments : ~(Solves(m) /\ Free(m))

\* union_ and set only ever extend the links: a representative that is not a
\* variable is final, and a linked variable stays linked.
BindingsPermanent ==
    [][\A u \in Uv : parent[u] # None =>
            parent'[u] # None /\ (parent[u] \notin Uv => parent'[u] = parent[u])]_vars

\* The variables whose links lead to u.
Below(u) == {v \in uvs : \A S \in SUBSET uvs :
                 v \in S /\ (\A w \in S : parent[w] \in uvs => parent[w] \in S) => u \in S}

\* Ranks grow along the links between variables, and a class that reached rank
\* r has at least 2^r members, so the recursion of find is at most
\* logarithmically deep.
RankBounded ==
    \A u \in uvs :
        /\ parent[u] \in uvs => rank[u] < rank[parent[u]]
        /\ parent[u] = None => Cardinality(Below(u)) >= 2 ^ rank[u]

Promise == INSTANCE UnifyPromise WITH
    answer <- IF outcome # "ok" THEN "error"
              ELSE IF todo = <<>> THEN "ok" ELSE "solving"

\* The stepwise unify, links and all, answers exactly as the goals demand: it
\* succeeds when they have a solution and throws when not.
KeepsPromise == Promise!Spec

\* Every call of unify comes back to the typer or throws.
Terminates == Busy ~> ~Busy
=============================================================================
