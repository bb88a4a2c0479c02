------------------------------- MODULE Typer -------------------------------
(***************************************************************************)
(* The types that the typer gives one function definition                  *)
(* (src/cpp/typer.cpp), over the type objects of Unify, up to              *)
(* cps::Fn::llvm_declare, which asks the types of the parameters for their *)
(* LLVM types (src/cpp/type.cpp).                                          *)
(*                                                                         *)
(* check and type_of are recursive: `work` has what their activations      *)
(* still have to do, innermost first, and `result` is the type of the      *)
(* expression typed last.  The program is chosen on the way.  Names are    *)
(* the business of Scopes: `env` has the types of the names that an        *)
(* expression can use.                                                     *)
(***************************************************************************)
EXTENDS Unify, SequencesExt

CONSTANTS
    MaxExprs    \* bound: expressions of the body that have parts

VARIABLES
    binder,     \* the type that Program::check declares the function with
    params,     \* the types of the parameters
    result,
    work,
    exprs       \* expressions with parts so far

typerVars == <<binder, params, result, work, exprs>>

TypeOf(env) == [do |-> "type_of", env |-> env]
UnifyWith(t) == [do |-> "unify", type |-> t]
Result(t) == [do |-> "result", type |-> t]
Alt(env) == [do |-> "alt", env |-> env]
PatternOf(env, ann) == [do |-> "pat", env |-> env, ann |-> ann]
FunDef == [do |-> "def"]

\* Expr::check.
Check(env, t) == <<TypeOf(env), UnifyWith(t)>>

Does(what) == work # << >> /\ Head(work).do = what
Then(items) == work' = items \o Tail(work)
NoUnify == UNCHANGED vars

TyperInit ==
    /\ Init /\ binder = None /\ params = << >> /\ result = None /\ work = << >> /\ exprs = 0

-----------------------------------------------------------------------------
\* Program::check declares the definition with a variable, FunDef::check types its
\* parameters: a variable each (IdPat), unified with each annotation (AnnPat).
Declare ==
    /\ binder = None
    /\ \E u \in Uv : NewUv(u) /\ binder' = u
    /\ UNCHANGED <<params, result, work, exprs>>

Param(ann) ==
    /\ binder # None /\ Len(params) < MaxArity /\ work = << >> /\ result = None
    /\ \E u \in Uv :
        NewUv(u) /\ params' = Append(params, u)
        /\ work' = IF ann = None THEN << >> ELSE <<Result(u), UnifyWith(ann), Result(None)>>
    /\ UNCHANGED <<binder, result, exprs>>

Body(codomain0) ==
    /\ Idle /\ binder # None /\ work = << >> /\ result = None
    /\ work' = Check(<<binder>> \o params, codomain0)
                \o <<Result(codomain0), FunDef>>
    /\ UNCHANGED <<binder, params, result, exprs>> /\ NoUnify

\* The binding of the definition is unified with its type.
CheckFunDef ==
    /\ Does("def")
    /\ \E f \in Fn : DefType(f, params, result)
        /\ Then(<<Result(binder), UnifyWith(f), [do |-> "to_llvm"]>>)
    /\ UNCHANGED <<binder, params, result, exprs>>

\* expr->type->unify(type, span).
CallUnify ==
    /\ Does("unify") /\ Unify(result, Head(work).type) /\ Then(<< >>)
    /\ UNCHANGED <<binder, params, result, exprs>>

Returns ==
    /\ Idle /\ Does("result") /\ result' = Head(work).type /\ Then(<< >>)
    /\ UNCHANGED <<binder, params, exprs>> /\ NoUnify

-----------------------------------------------------------------------------
(* type_of                                                                 *)

\* Bool, Int and Id.
Atom(t) ==
    /\ Idle /\ Does("type_of") /\ t \in Base \cup Range(Head(work).env)
    /\ result' = t /\ Then(<< >>)
    /\ UNCHANGED <<binder, params, exprs>> /\ NoUnify

Typing == Idle /\ Does("type_of") /\ exprs < MaxExprs /\ exprs' = exprs + 1

If ==
    /\ Typing
    /\ LET env == Head(work).env IN
        Then(Check(env, Bool) \o <<TypeOf(env), Alt(env)>>)
    /\ UNCHANGED <<binder, params, result>> /\ NoUnify

\* The other branch is checked against the type of the first, which is the type of
\* the conditional.
CheckAlt ==
    /\ Idle /\ Does("alt")
    /\ Then(Check(Head(work).env, result) \o <<Result(result)>>)
    /\ UNCHANGED <<binder, params, result, exprs>> /\ NoUnify

TypeCall ==
    /\ Typing
    /\ \E f \in Fn, dom \in Params(Uv), cod \in Uv :
        /\ CallType(f, dom, cod)
        /\ LET env == Head(work).env IN
            Then(Check(env, f) \o FlattenSeq([i \in DOMAIN dom |-> Check(env, dom[i])])
                    \o <<Result(cod)>>)
    /\ UNCHANGED <<binder, params, result>>

\* PrimApp::type_of, with another number of operands than two or with two.
PrimArgc ==
    /\ Typing /\ Throw("PrimArgcError")
    /\ UNCHANGED <<binder, params, result, work, uvs, fns, domain, codomain, parent, rank,
                   goals, todo, pc, cur, path, found>>

Prim(t) ==
    /\ Typing
    /\ LET env == Head(work).env IN
        Then(Check(env, I64) \o Check(env, I64) \o <<Result(t)>>)
    /\ UNCHANGED <<binder, params, result>> /\ NoUnify

\* A block with a statement: Val::check types the expression, then its pattern.
Val(ann) ==
    /\ Typing
    /\ LET env == Head(work).env IN Then(<<TypeOf(env), PatternOf(env, ann)>>)
    /\ UNCHANGED <<binder, params, result>> /\ NoUnify

Pattern ==
    /\ Does("pat")
    /\ \E u \in Uv :
        /\ NewUv(u)
        /\ LET item == Head(work) IN
            Then(<<Result(u)>>
                 \o (IF item.ann = None THEN << >> ELSE <<UnifyWith(item.ann)>>)
                 \o <<UnifyWith(result), TypeOf(Append(item.env, u))>>)
    /\ UNCHANGED <<binder, params, result, exprs>>

TypeStep ==
    \/ Declare \/ (\E ann \in Base \cup {None} : Param(ann)) \/ (\E t \in Base : Body(t))
    \/ CheckFunDef \/ CallUnify \/ Returns
    \/ (\E t \in Type : Atom(t)) \/ If \/ CheckAlt \/ TypeCall \/ PrimArgc
    \/ (\E t \in Base : Prim(t)) \/ (\E ann \in Base \cup {None} : Val(ann)) \/ Pattern

TyperNext == TypeStep \/ (Step /\ UNCHANGED typerVars)

TyperSpec == TyperInit /\ [][TyperNext]_<<vars, typerVars>>

-----------------------------------------------------------------------------
\* What Uv::to_llvm and FnType::to_llvm of the types in S reach.
Reached(S) == {t \in Live : \A C \in SUBSET Live : S \subseteq C /\ Closed(C) => t \in C}

\* "assert(!dynamic_cast<Uv*>(self))" (src/cpp/type.cpp:13): when the types of a
\* function are turned into LLVM's, inference has resolved every variable in them.
TypesResolved ==
    Idle /\ Does("to_llvm") =>
        \A t \in Reached(Range(params) \cup {binder}) : t \in Uv => ~Root(t)
=============================================================================
