----------------------------- MODULE Definitions -----------------------------
(***************************************************************************)
(* A program of several functions from the typer to the LLVM module: how a *)
(* name finds its definition through the frames of TypeEnv, the unique     *)
(* names, the one map of names of the Builder, and the symbols of the      *)
(* module (Program::check, Program::to_cps, Program::to_llvm).             *)
(*                                                                         *)
(* A definition has a name, parameters and, as its body, one use of a      *)
(* name.  A unique name is its number in the order in which they were      *)
(* given out; the names of blocks and variables of types are left out.     *)
(***************************************************************************)
EXTENDS Integers, Sequences, SequencesExt

CONSTANTS
    Spelling,
    None,       \* nullptr, and no binding
    MaxNames    \* bound: definitions and parameters

ASSUME NamesAssumption == MaxNames \in Nat /\ None \notin Nat /\ None \notin Spelling

VARIABLES
    source,     \* the program
    pc,         \* the pass, or how the compiler ended
    i,          \* the definition, Fn or extern the loop of the pass is at
    spelling,   \* name_chars_: the spelling of each unique name
    env,        \* bindings_ of the outermost TypeEnv
    typed,      \* fast::Program
    exprs,      \* Builder::exprs_
    fns,        \* externs_, every Fn
    value,      \* the Expr that the body of each definition is
    funs        \* the functions of the LLVM module

vars == <<source, pc, i, spelling, env, typed, exprs, fns, value, funs>>

Definition ==
    [name : Spelling, params : UNION {[1..n -> Spelling] : n \in 0..MaxNames}, use : Spelling]

Size(defs) == FoldLeft(LAMBDA n, d : n + 1 + Len(d.params), 0, defs)

\* The Exprs that a name can stand for.
FnExpr(f) == [form |-> "fn", of |-> f, at |-> 0]
ParamExpr(d, j) == [form |-> "param", of |-> d, at |-> j]

Init ==
    /\ source = << >> /\ pc = "declare" /\ i = 1 /\ spelling = << >>
    /\ env = [s \in Spelling |-> None] /\ typed = << >>
    /\ exprs = << >> /\ fns = << >> /\ value = << >> /\ funs = << >>

\* The next pass, when the loop of one is through.
Following == [declare |-> "check", check |-> "cps_declare", cps_declare |-> "to_cps",
              to_cps |-> "print", llvm_declare |-> "llvm_define", llvm_define |-> "done"]

NextPass ==
    /\ pc \in DOMAIN Following /\ i = Len(source) + 1
    /\ pc' = Following[pc] /\ i' = 1
    /\ UNCHANGED <<source, spelling, env, typed, exprs, fns, value, funs>>

At(pass) == pc = pass /\ i \in DOMAIN source

-----------------------------------------------------------------------------
(* Program::check                                                          *)

\* FunDef::declare of the next definition that the program turns out to have:
\* freshen, and insert into bindings_, where a name stays as it is.
Declare(d) ==
    /\ pc = "declare" /\ Size(source) + 1 + Len(d.params) <= MaxNames
    /\ source' = Append(source, d) /\ spelling' = Append(spelling, d.name)
    /\ env' = IF env[d.name] = None THEN [env EXCEPT ![d.name] = Len(spelling) + 1] ELSE env
    /\ i' = i + 1
    /\ UNCHANGED <<pc, typed, exprs, fns, value, funs>>

\* Mutant of Fresh: the counter is incremented first.
FreshPast(j) == Len(spelling) + j + 1

\* freshen of the j-th parameter.
Fresh(j) == Len(spelling) + j

\* Mutant of FirstOf: a later parameter of the name takes its place.
LastOf(s, params) ==
    CHOOSE j \in DOMAIN params :
        params[j] = s /\ \A k \in (j + 1)..Len(params) : params[k] # s

\* The first parameter with the name: bindings_ of the function's frame.
FirstOf(s, params) ==
    CHOOSE j \in DOMAIN params : params[j] = s /\ \A k \in 1..(j - 1) : params[k] # s

\* FunDef::check: its unique name, its parameters and its body.
CheckDef ==
    /\ At("check")
    /\ LET d == source[i]
           use == IF d.use \in Range(d.params) THEN Fresh(FirstOf(d.use, d.params))
                  ELSE env[d.use]
       IN  IF use = None THEN pc' = "unbound" /\ UNCHANGED <<typed, spelling, i>>
           ELSE /\ typed' = Append(typed, [name |-> env[d.name], use |-> use,
                                params |-> [j \in DOMAIN d.params |-> Fresh(j)]])
                /\ spelling' = spelling \o d.params
                /\ i' = i + 1 /\ UNCHANGED pc
    /\ UNCHANGED <<source, env, exprs, fns, value, funs>>

\* An error of unify in FunDef::check.
IllTyped ==
    /\ At("check") /\ pc' = "type_error"
    /\ UNCHANGED <<source, i, spelling, env, typed, exprs, fns, value, funs>>

-----------------------------------------------------------------------------
(* Program::to_cps                                                         *)

\* Mutant of CpsDeclare: only the first definition is declared before the conversion.
CpsDeclareFirst ==
    /\ At("cps_declare") /\ pc' = "to_cps" /\ i' = 1
    /\ fns' = <<[name |-> typed[i].name, entry |-> None]>>
    /\ exprs' = [n \in {typed[i].name} |-> FnExpr(1)]
    /\ UNCHANGED <<source, spelling, env, typed, value, funs>>

\* FunDef::cps_declare: Builder::fn with no entry yet.  Builder::define inserts.
CpsDeclare ==
    /\ At("cps_declare")
    /\ LET name == typed[i].name IN
        /\ fns' = Append(fns, [name |-> name, entry |-> None])
        /\ exprs' = [n \in DOMAIN exprs \cup {name} |->
                        IF n \in DOMAIN exprs THEN exprs[n] ELSE FnExpr(Len(fns) + 1)]
    /\ i' = i + 1
    /\ UNCHANGED <<source, pc, spelling, env, typed, value, funs>>

\* FunDef::to_cps: get_fn, the parameters, the entry and the body.  at() throws
\* for a name that is not in exprs_.
ToCps ==
    /\ At("to_cps")
    /\ LET t == typed[i]
           defined == [n \in DOMAIN exprs \cup Range(t.params) |->
                        IF n \in DOMAIN exprs THEN exprs[n]
                        ELSE ParamExpr(i, CHOOSE j \in DOMAIN t.params : t.params[j] = n)]
       IN  IF t.name \in DOMAIN exprs /\ t.use \in DOMAIN defined
           THEN /\ exprs' = defined
                /\ fns' = [fns EXCEPT ![exprs[t.name].of].entry = i]
                /\ value' = Append(value, defined[t.use])
                /\ i' = i + 1 /\ UNCHANGED pc
           ELSE pc' = "missing" /\ UNCHANGED <<i, exprs, fns, value>>
    /\ UNCHANGED <<source, spelling, env, typed, funs>>

\* cps::Program::print visits the entry of every Fn.
PrintDefs ==
    /\ pc = "print" /\ i' = 1
    /\ pc' = IF \E f \in DOMAIN fns : fns[f].entry = None THEN "null" ELSE "llvm_declare"
    /\ UNCHANGED <<source, spelling, env, typed, exprs, fns, value, funs>>

-----------------------------------------------------------------------------
(* Program::to_llvm.  The module is external: it renames a function whose  *)
(* name is taken, and getFunction looks one up by name.                    *)

Symbol(f) == spelling[fns[f].name]
GetFunction(s) == CHOOSE g \in DOMAIN funs : funs[g].symbol = s

LlvmDeclare ==
    /\ At("llvm_declare")
    /\ funs' = Append(funs,
        [symbol |-> IF \E g \in DOMAIN funs : funs[g].symbol = Symbol(i) THEN None ELSE Symbol(i),
         body |-> << >>])
    /\ i' = i + 1
    /\ UNCHANGED <<source, pc, spelling, env, typed, exprs, fns, value>>

\* Fn::llvm_define: the blocks go into the function of that name, whose arguments
\* are the parameters of the entry.
LlvmDefine ==
    /\ At("llvm_define")
    /\ LET d == fns[i].entry
           v == value[d]
           llvm == IF v.form = "fn" THEN FnExpr(GetFunction(Symbol(v.of))) ELSE v
       IN  IF v.form = "param" /\ v.of # d
           THEN pc' = "missing" /\ UNCHANGED <<i, funs>>
           ELSE /\ funs' = [funs EXCEPT ![GetFunction(Symbol(i))].body =
                                Append(@, [def |-> d, value |-> llvm])]
                /\ i' = i + 1 /\ UNCHANGED pc
    /\ UNCHANGED <<source, spelling, env, typed, exprs, fns, value>>

Next ==
    \/ NextPass \/ (\E d \in Definition : Declare(d)) \/ CheckDef \/ IllTyped
    \/ CpsDeclare \/ ToCps \/ PrintDefs \/ LlvmDeclare \/ LlvmDefine

Spec == Init /\ [][Next]_vars
-----------------------------------------------------------------------------
Name == 1..Len(spelling)
Expr == [form : {"fn", "param"}, of : DOMAIN source, at : Nat]
Typed == [name : Name, use : Name, params : Seq(Name)]
Fn == [name : Name, entry : DOMAIN source \cup {None}]
Function == [symbol : Spelling \cup {None}, body : Seq([def : DOMAIN source, value : Expr])]

\* Types of what the passes compute: a number stands for a name or a definition
\* that there is.
TypeOK ==
    /\ source \in Seq(Definition) /\ i \in 1..(Len(source) + 1)
    /\ pc \in DOMAIN Following \cup
            {"print", "done", "unbound", "type_error", "missing", "null"}
    /\ spelling \in Seq(Spelling) /\ env \in [Spelling -> Name \cup {None}]
    /\ typed \in Seq(Typed)
    /\ DOMAIN exprs \subseteq Name /\ \A n \in DOMAIN exprs : exprs[n] \in Expr
    /\ fns \in Seq(Fn) /\ value \in Seq(Expr) /\ funs \in Seq(Function)

\* What the use in d stands for: its first parameter of that name or else the
\* function of the definition of that name.
Meant(d, v) ==
    LET s == source[d].use
        params == source[d].params
    IN  \/ \E j \in DOMAIN params :
            /\ params[j] = s /\ \A k \in 1..(j - 1) : params[k] # s
            /\ v = ParamExpr(d, j)
        \/ /\ \A j \in DOMAIN params : params[j] # s
           /\ \E g \in DOMAIN funs : v = FnExpr(g) /\ funs[g].symbol = s

\* Through unique names, one map for the names of all functions, functions that are
\* used before they have an entry, and lookups by spelling in the module, every
\* definition becomes the function of its name, once, with its own body, in which
\* the name used stands for what the source says.
LinksLexically ==
    pc = "done" =>
        /\ Len(funs) = Len(source)
        /\ \A d \in DOMAIN source :
            /\ funs[d].symbol = source[d].name
            /\ Len(funs[d].body) = 1 /\ funs[d].body[1].def = d
            /\ Meant(d, funs[d].body[1].value)

Distinct == \A d, e \in DOMAIN source : source[d].name = source[e].name => d = e

\* Only a name without a definition is unbound; at() always finds a name; and the
\* compiler gets past the CPS if and only if no two definitions have the same name:
\* with two, the later body replaces the earlier, and the Fn of the later
\* definition has no entry.
FailuresJustified ==
    /\ pc = "unbound" =>
        \E d \in DOMAIN source :
            /\ \A j \in DOMAIN source[d].params : source[d].params[j] # source[d].use
            /\ \A e \in DOMAIN source : source[e].name # source[d].use
    /\ pc # "missing"
    /\ pc = "null" => ~Distinct
    /\ pc \in {"llvm_declare", "llvm_define", "done"} => Distinct
=============================================================================
