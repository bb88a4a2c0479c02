------------------------------- MODULE Unify -------------------------------
(***************************************************************************)
(* The type objects of the compiler and their unification                  *)
(* (src/cpp/type.hpp, src/cpp/typer.cpp "# Unification").                  *)
(*                                                                         *)
(* The typer allocates unification variables (Uv) and function types (Fn)  *)
(* and calls `a->unify(b)`.  The call finds the representative of both     *)
(* sides, compressing the paths it walks, and then dispatches on the kinds *)
(* of the two representatives.  FnType::unifyFoundFns calls unify again on *)
(* the children, so the activations in progress form a stack, `todo`, with *)
(* the innermost at the head.                                              *)
(***************************************************************************)
EXTENDS Integers, Sequences, FiniteSets

CONSTANTS
    Uv,         \* the unification variables that can be allocated
    Fn,         \* the FnType objects that can be allocated
    Bool, I64,  \* the two singletons owned by class Types
    None,       \* opt_ptr::none, and the codomain of an unallocated FnType
    MaxArity,   \* bound: parameters of a function type
    MaxGoals    \* bound: different pairs the typer unifies

Base == {Bool, I64}
Type == Uv \cup Fn \cup Base

ASSUME TypesAssumption ==
    /\ Uv \cap Fn = {} /\ Base \cap (Uv \cup Fn) = {} /\ None \notin Type
    /\ Bool # I64
    /\ MaxArity \in Nat /\ MaxGoals \in Nat

VARIABLES
    uvs,        \* allocated unification variables
    fns,        \* allocated function types
    domain,     \* FnType::domain
    codomain,   \* FnType::codomain
    parent,     \* Uv::parent_
    rank,       \* Uv::rank_
    goals,      \* history: the pairs the typer has asked to unify
    todo,       \* activations of unify and unifyFoundFns, innermost first
    pc,         \* where the innermost activation of Type::unify stands
    cur,        \* the object Uv::find is looking at
    path,       \* the variables the running find recursed through
    found,      \* found_this
    outcome     \* "ok", or the exception that left unify

typeVars == <<uvs, fns, domain, codomain, rank>>
vars == <<uvs, fns, domain, codomain, parent, rank, goals, todo, pc, cur, path,
          found, outcome>>

Live == uvs \cup fns \cup Base

-----------------------------------------------------------------------------
(* The type graph                                                          *)

Parts(f) == {domain[f][i] : i \in DOMAIN domain[f]} \cup {codomain[f]}

\* What occurs_check_children recurses into.
Children(t) ==
    CASE t \in uvs -> {parent[t]} \ {None}
      [] t \in fns -> Parts(t)
      [] OTHER     -> {}

Closed(S) == \A t \in S : Children(t) \subseteq S

\* Mutant of Occurs: the check does not descend into t.
OccursShallow(uv, t) == uv \in Children(t) /\ t \notin fns

\* Type::occurs_check(uv) called on t throws: no set of types closed under
\* children separates t from uv.
Occurs(uv, t) == \A S \in SUBSET Live : t \in S /\ Closed(S) => uv \in S

Root(t) == t \in Uv => parent[t] = None

-----------------------------------------------------------------------------
(* Activations.  at = 0 is a call this->unify(other); at = i > 0 is the    *)
(* loop of unifyFoundFns on two function types, about to look at           *)
(* parameter i.                                                            *)

Call(a, b)     == [this |-> a, other |-> b, at |-> 0]
Fns(f, g, i)   == [this |-> f, other |-> g, at |-> i]

Idle == todo = <<>> /\ outcome = "ok"
Busy == todo # <<>> /\ outcome = "ok"

Replace(activations) == todo' = activations \o Tail(todo)
Throw(exception)     == outcome' = exception

-----------------------------------------------------------------------------
Init ==
    /\ uvs = {} /\ fns = {}
    /\ domain = [f \in Fn |-> <<>>]
    /\ codomain = [f \in Fn |-> None]
    /\ parent = [u \in Uv |-> None]
    /\ rank = [u \in Uv |-> 0]
    /\ goals = {} /\ todo = <<>>
    /\ pc = "call" /\ cur = None /\ path = {} /\ found = None
    /\ outcome = "ok"

(* What the typer does between two calls of unify.                         *)

\* TypeEnv::uv: the variable of a definition or of a pattern.
NewUv(u) ==
    /\ Idle /\ u \in Uv \ uvs
    /\ uvs' = uvs \cup {u}
    /\ UNCHANGED <<fns, domain, codomain, parent, rank, goals, todo, pc, cur,
                   path, found, outcome>>

Distinct(s) == \A i, j \in DOMAIN s : s[i] = s[j] => i = j
Params(S) == {s \in UNION {[1..n -> S] : n \in 0..MaxArity} : Distinct(s)}

\* Call::type_of: one fresh variable per argument and one for the result.
CallType(f, dom, cod) ==
    /\ Idle /\ f \in Fn \ fns
    /\ dom \in Params(Uv \ uvs)
    /\ cod \in Uv \ uvs
    /\ \A i \in DOMAIN dom : dom[i] # cod
    /\ uvs' = uvs \cup {cod} \cup {dom[i] : i \in DOMAIN dom}
    /\ fns' = fns \cup {f}
    /\ domain' = [domain EXCEPT ![f] = dom]
    /\ codomain' = [codomain EXCEPT ![f] = cod]
    /\ UNCHANGED <<parent, rank, goals, todo, pc, cur, path, found, outcome>>

\* FunDef::check: the variables of the parameters and the annotated codomain.
DefType(f, dom, cod) ==
    /\ Idle /\ f \in Fn \ fns
    /\ dom \in Params(uvs)
    /\ cod \in Base
    /\ fns' = fns \cup {f}
    /\ domain' = [domain EXCEPT ![f] = dom]
    /\ codomain' = [codomain EXCEPT ![f] = cod]
    /\ UNCHANGED <<uvs, parent, rank, goals, todo, pc, cur, path, found,
                   outcome>>

\* Expr::check, Pat::check and FunDef::check: the receiver is the type of an
\* expression, a pattern or a binding, which is never a bare FnType.
Unify(a, b) ==
    /\ Idle /\ Cardinality(goals) < MaxGoals
    /\ a \in uvs \cup Base
    /\ b \in Live
    /\ goals' = goals \cup {<<a, b>>}
    /\ todo' = <<Call(a, b)>>
    /\ UNCHANGED <<typeVars, parent, pc, cur, path, found, outcome>>

-----------------------------------------------------------------------------
(* Type::unify                                                             *)

Find(state, t) ==
    /\ pc' = state /\ cur' = t /\ path' = {}

\* find() is called on the receiver.
FindThis ==
    /\ pc = "call" /\ Head(todo).at = 0
    /\ Find("find_this", Head(todo).this)
    /\ UNCHANGED <<typeVars, parent, goals, todo, found, outcome>>

\* Uv::find recurses into the parent.
FindParent ==
    /\ pc \in {"find_this", "find_other"} /\ ~Root(cur)
    /\ path' = path \cup {cur}
    /\ cur' = parent[cur]
    /\ UNCHANGED <<typeVars, parent, goals, todo, pc, found, outcome>>

\* The recursion of Uv::find unwinds: every variable on the path is pointed
\* at the representative.
Compress == parent' = [u \in Uv |-> IF u \in path THEN cur ELSE parent[u]]

FoundThis ==
    /\ pc = "find_this" /\ Root(cur)
    /\ Compress
    /\ found' = cur
    /\ Find("find_other", Head(todo).other)
    /\ UNCHANGED <<typeVars, goals, todo, outcome>>

FoundOther ==
    /\ pc = "find_other" /\ Root(cur)
    /\ Compress
    /\ pc' = "found" /\ path' = {}
    /\ UNCHANGED <<typeVars, goals, todo, cur, found, outcome>>

\* unify returns to its caller.
Return ==
    /\ Replace(<<>>)
    /\ pc' = "call" /\ cur' = None /\ found' = None /\ UNCHANGED path

\* Mutant of Same: the call does not return.
SameLoops ==
    /\ pc = "found" /\ found = cur
    /\ pc' = "call" /\ cur' = None /\ found' = None
    /\ UNCHANGED <<typeVars, parent, goals, todo, path, outcome>>

Same ==
    /\ pc = "found" /\ found = cur
    /\ Return
    /\ UNCHANGED <<typeVars, parent, goals, outcome>>

\* Mutant of Union: always under the other side, whatever the ranks.
UnionUnranked(this, other) ==
    /\ parent' = [parent EXCEPT ![this] = other]
    /\ rank' = [rank EXCEPT ![other] = rank[other] + 1]

\* Uv::union_, called on found_this with found_other.
Union(this, other) ==
    IF rank[this] > rank[other]
    THEN /\ parent' = [parent EXCEPT ![other] = this]
         /\ UNCHANGED rank
    ELSE /\ parent' = [parent EXCEPT ![this] = other]
         /\ rank' = IF rank[this] = rank[other]
                    THEN [rank EXCEPT ![other] = rank[other] + 1]
                    ELSE rank

UnifyUvs ==
    /\ pc = "found" /\ found # cur
    /\ found \in Uv /\ cur \in Uv
    /\ Union(found, cur)
    /\ Return
    /\ UNCHANGED <<uvs, fns, domain, codomain, goals, outcome>>

\* Type::unifyFoundUvs: occurs_check, then Uv::set.
Bind(uv, t) ==
    /\ pc = "found" /\ uv \in Uv /\ t \notin Uv
    /\ IF Occurs(uv, t)
       THEN /\ Throw("OccursError")
            /\ UNCHANGED <<parent, todo, pc, cur, path, found>>
       ELSE /\ parent' = [parent EXCEPT ![uv] = t]
            /\ Return
            /\ UNCHANGED outcome
    /\ UNCHANGED <<typeVars, goals>>

\* Mutant of BindThis: binds the receiver itself, not its representative.
BindReceiver == Bind(Head(todo).this, cur)

BindThis == Bind(found, cur)

BindOther == Bind(cur, found)

\* Two function types: unifyFoundFns of found_other starts on found_this.
UnifyFns ==
    /\ pc = "found" /\ found # cur
    /\ found \in Fn /\ cur \in Fn
    /\ Replace(<<Fns(found, cur, 1)>>)
    /\ pc' = "call" /\ cur' = None /\ found' = None
    /\ UNCHANGED <<typeVars, parent, goals, path, outcome>>

\* Mutant of Clash: the base types lack their own overrides.
ClashBase ==
    /\ pc = "found"
    /\ found \notin Uv /\ cur \notin Uv /\ ~(found \in Fn /\ cur \in Fn)
    /\ Throw("UnificationError")
    /\ UNCHANGED <<typeVars, parent, goals, todo, pc, cur, path, found>>

\* Two different kinds of type: the Type:: defaults throw.
Clash ==
    /\ pc = "found" /\ found # cur
    /\ found \notin Uv /\ cur \notin Uv /\ ~(found \in Fn /\ cur \in Fn)
    /\ Throw("UnificationError")
    /\ UNCHANGED <<typeVars, parent, goals, todo, pc, cur, path, found>>

-----------------------------------------------------------------------------
(* FnType::unifyFoundFns, `other` being the receiver of that call          *)

InFns == pc = "call" /\ Head(todo).at > 0

\* Mutants of UnifyParam: skip a parameter; compare with the wrong type.
UnifyEverySecondParam ==
    /\ InFns
    /\ LET f == Head(todo).this  g == Head(todo).other  i == Head(todo).at IN
        /\ i \in DOMAIN domain[f] /\ i \in DOMAIN domain[g]
        /\ Replace(<<Call(domain[f][i], domain[g][i]), Fns(f, g, i + 2)>>)
    /\ UNCHANGED <<typeVars, parent, goals, pc, cur, path, found, outcome>>

UnifyParamWithResult ==
    /\ InFns
    /\ LET f == Head(todo).this  g == Head(todo).other  i == Head(todo).at IN
        /\ i \in DOMAIN domain[f] /\ i \in DOMAIN domain[g]
        /\ Replace(<<Call(domain[f][i], codomain[f]), Fns(f, g, i + 1)>>)
    /\ UNCHANGED <<typeVars, parent, goals, pc, cur, path, found, outcome>>

UnifyParam ==
    /\ InFns
    /\ LET f == Head(todo).this  g == Head(todo).other  i == Head(todo).at IN
        /\ i \in DOMAIN domain[f] /\ i \in DOMAIN domain[g]
        /\ Replace(<<Call(domain[f][i], domain[g][i]), Fns(f, g, i + 1)>>)
    /\ UNCHANGED <<typeVars, parent, goals, pc, cur, path, found, outcome>>

\* Mutant of UnifyCodomain: returns after the parameters.
ForgetCodomain ==
    /\ InFns
    /\ LET f == Head(todo).this  g == Head(todo).other  i == Head(todo).at IN
        i \notin DOMAIN domain[f] /\ i \notin DOMAIN domain[g]
    /\ Replace(<<>>)
    /\ UNCHANGED <<typeVars, parent, goals, pc, cur, path, found, outcome>>

UnifyCodomain ==
    /\ InFns
    /\ LET f == Head(todo).this  g == Head(todo).other  i == Head(todo).at IN
        /\ i \notin DOMAIN domain[f] /\ i \notin DOMAIN domain[g]
        /\ Replace(<<Call(codomain[g], codomain[f])>>)
    /\ UNCHANGED <<typeVars, parent, goals, pc, cur, path, found, outcome>>

\* Mutant of ArityMismatch: stops at the end of the shorter list.
StopAtShorter ==
    /\ InFns
    /\ LET f == Head(todo).this  g == Head(todo).other  i == Head(todo).at IN
        /\ (i \in DOMAIN domain[f]) # (i \in DOMAIN domain[g])
        /\ Replace(<<Call(codomain[g], codomain[f])>>)
    /\ UNCHANGED <<typeVars, parent, goals, pc, cur, path, found, outcome>>

\* One parameter list ended before the other.
ArityMismatch ==
    /\ InFns
    /\ LET f == Head(todo).this  g == Head(todo).other  i == Head(todo).at IN
        (i \in DOMAIN domain[f]) # (i \in DOMAIN domain[g])
    /\ Throw("UnificationError")
    /\ UNCHANGED <<typeVars, parent, goals, todo, pc, cur, path, found>>

-----------------------------------------------------------------------------
Allocate ==
    \/ \E u \in Uv : NewUv(u)
    \/ \E f \in Fn, dom \in Params(Uv), cod \in Uv : CallType(f, dom, cod)
    \/ \E f \in Fn, dom \in Params(Uv), cod \in Base : DefType(f, dom, cod)

\* A step of the innermost activation.
Step ==
    /\ Busy
    /\ \/ FindThis \/ FindParent \/ FoundThis \/ FoundOther
       \/ Same \/ UnifyUvs \/ BindThis \/ BindOther \/ UnifyFns \/ Clash
       \/ UnifyParam \/ UnifyCodomain \/ ArityMismatch

Next ==
    \/ Allocate
    \/ \E a \in Type, b \in Type : Unify(a, b)
    \/ Step

Spec == Init /\ [][Next]_vars

\* The compiler is one thread: a call of unify that can take a step takes it.
FairSpec == Spec /\ WF_vars(Step)
=============================================================================
