------------------------------- MODULE Scopes -------------------------------
(***************************************************************************)
(* Names and scopes: class Names (src/cpp/name.cpp), class TypeEnv         *)
(* (src/cpp/typeenv.hpp) and the walk of the typer over a program          *)
(* (src/cpp/typer.cpp) as far as it makes and uses scopes.                 *)
(*                                                                         *)
(* A TypeEnv lives on the C++ stack and points at its parent with a raw    *)
(* pointer; Val::check returns its TypeEnv by move, to another address.    *)
(* The program that is walked is chosen on the way: in any place where an  *)
(* expression is typed, a name may be used or a block entered.             *)
(***************************************************************************)
EXTENDS Integers, Sequences, FiniteSets

CONSTANTS
    Chars,      \* the spellings of identifiers
    Addr,       \* bound: the stack slots that can hold a TypeEnv
    None,       \* nullopt and a missing map entry
    MaxNames,   \* bound: Names::counter_
    MaxDefs     \* bound: top-level definitions

ASSUME ScopesAssumption ==
    /\ None \notin Nat /\ None \notin Addr /\ None \notin Chars
    /\ MaxNames \in Nat /\ MaxDefs \in Nat

VARIABLES
    phase,      \* "parse", "declare" or "check"
    chars,      \* Names::name_chars_; its length is counter_
    by_chars,   \* Names::by_chars_
    live,       \* the addresses that hold a TypeEnv
    parent,     \* TypeEnv::parent_
    bindings,   \* TypeEnv::bindings_, from source names to unique names
    stack,      \* the addresses of the TypeEnvs in use, innermost first
    kinds,      \* and which function owns each of them
    defs,       \* source names of the definitions declared, then still to check
    at,         \* the TypeEnv that the running find looks at, or None
    wanted,     \* the name it looks for
    answer,     \* history: what the last find returned
    outcome     \* "ok", or the exception that left Program::check

namesVars == <<chars, by_chars>>
findVars == <<at, wanted, answer>>
envVars == <<live, parent, bindings>>
vars == <<phase, chars, by_chars, live, parent, bindings, stack, kinds, defs, at,
          wanted, answer, outcome>>

Known == 0..(Len(chars) - 1)        \* the names given out so far
Spelling(n) == chars[n + 1]         \* Name::src_name
Here == Head(stack)

-----------------------------------------------------------------------------
(* Names                                                                   *)

Fresh(spellings) ==
    /\ Len(chars) + Len(spellings) <= MaxNames
    /\ chars' = chars \o spellings

\* Names::sourced, when the parser meets an identifier.
Sourced(c) ==
    /\ phase = "parse"
    /\ by_chars[c] = None
    /\ Fresh(<<c>>)
    /\ by_chars' = [by_chars EXCEPT ![c] = Len(chars)]
    /\ UNCHANGED <<phase, envVars, stack, kinds, defs, findVars, outcome>>

Source == {by_chars[c] : c \in Chars} \ {None}

-----------------------------------------------------------------------------
(* TypeEnv                                                                 *)

Empty == [n \in {} |-> None]

\* unordered_map::insert keeps an existing entry.
Insert(map, n, unique) ==
    [m \in DOMAIN map \cup {n} |-> IF m \in DOMAIN map THEN map[m] ELSE unique]

\* Mutant of Declared: the unique name is the source name.
DeclaredSource(map, n) == Insert(map, n, n)

\* TypeEnv::declare(n, uv()): uv takes a name, then freshen takes another.
Declared(map, n) == Insert(map, n, Len(chars) + 1)

\* Mutant of FreshFor: uv takes no name.
FreshOnce(n) == Fresh(<<Spelling(n)>>)

FreshFor(n) == Fresh(<<None, Spelling(n)>>)

Push(a, kind, outer) ==
    /\ a \notin live
    /\ live' = live \cup {a}
    /\ parent' = [parent EXCEPT ![a] = outer]
    /\ bindings' = [bindings EXCEPT ![a] = Empty]
    /\ stack' = <<a>> \o stack
    /\ kinds' = <<kind>> \o kinds

Pop ==
    /\ live' = live \ {Here}
    /\ parent' = [parent EXCEPT ![Here] = None]
    /\ bindings' = [bindings EXCEPT ![Here] = Empty]
    /\ stack' = Tail(stack)
    /\ kinds' = Tail(kinds)

-----------------------------------------------------------------------------
Init ==
    /\ phase = "parse"
    /\ chars = << >>
    /\ by_chars = [c \in Chars |-> None]
    /\ live = {}
    /\ parent = [a \in Addr |-> None]
    /\ bindings = [a \in Addr |-> Empty]
    /\ stack = << >> /\ kinds = << >> /\ defs = << >>
    /\ at = None /\ wanted = None /\ answer = None
    /\ outcome = "ok"

Typing == outcome = "ok" /\ at = None /\ stack # << >>

\* An expression is being typed in the innermost TypeEnv.
InExpr == Typing /\ Head(kinds) \in {"body", "val", "rest"}

\* Program::check
Start(a) ==
    /\ phase = "parse" /\ phase' = "declare"
    /\ Push(a, "program", None)
    /\ UNCHANGED <<namesVars, defs, findVars, outcome>>

\* FunDef::declare
DeclareDef(n) ==
    /\ phase = "declare" /\ n \in Source /\ Len(defs) < MaxDefs
    /\ FreshFor(n)
    /\ bindings' = [bindings EXCEPT ![Here] = Declared(bindings[Here], n)]
    /\ defs' = Append(defs, n)
    /\ UNCHANGED <<phase, by_chars, live, parent, stack, kinds, findVars, outcome>>

AllDeclared ==
    /\ phase = "declare" /\ phase' = "check"
    /\ UNCHANGED <<namesVars, envVars, stack, kinds, defs, findVars, outcome>>

\* FunDef::check looks its own name up and opens the frame of its parameters.
CheckDef(a) ==
    /\ phase = "check" /\ Typing /\ Head(kinds) = "program" /\ defs # << >>
    /\ IF Head(defs) \in DOMAIN bindings[Here]
       THEN /\ Push(a, "params", Here)
            /\ defs' = Tail(defs)
            /\ UNCHANGED outcome
       ELSE /\ outcome' = "bad_optional_access"
            /\ UNCHANGED <<envVars, stack, kinds, defs>>
    /\ UNCHANGED <<phase, namesVars, findVars>>

\* IdPat::type_of on a parameter.
Param(n) ==
    /\ Typing /\ Head(kinds) = "params" /\ n \in Source
    /\ FreshFor(n)
    /\ bindings' = [bindings EXCEPT ![Here] = Declared(bindings[Here], n)]
    /\ UNCHANGED <<phase, by_chars, live, parent, stack, kinds, defs, findVars,
                   outcome>>

Body ==
    /\ Typing /\ Head(kinds) = "params"
    /\ kinds' = [kinds EXCEPT ![1] = "body"]
    /\ UNCHANGED <<phase, namesVars, envVars, stack, defs, findVars, outcome>>

\* Val::check of the next statement of a block: its expression is typed in
\* the frame its pattern will be declared in.
EnterVal(a) ==
    /\ InExpr
    /\ Push(a, "val", Here)
    /\ UNCHANGED <<phase, namesVars, defs, findVars, outcome>>

\* Mutant of BindVal: the caller opens a frame on the one Val::check returns.
BindValOnTop(n, a) ==
    /\ InExpr /\ Head(kinds) = "val" /\ n \in Source
    /\ a \notin live
    /\ FreshFor(n)
    /\ live' = (live \ {Here}) \cup {a}
    /\ parent' = [parent EXCEPT ![Here] = None, ![a] = Here]
    /\ bindings' = [bindings EXCEPT ![Here] = Empty, ![a] = Declared(Empty, n)]
    /\ stack' = [stack EXCEPT ![1] = a]
    /\ kinds' = [kinds EXCEPT ![1] = "rest"]
    /\ UNCHANGED <<phase, by_chars, defs, findVars, outcome>>

\* The pattern of the statement is declared and Val::check returns the
\* TypeEnv, moved into the frame of type_block, which types the rest of the
\* block in it.
BindVal(n, a) ==
    /\ InExpr /\ Head(kinds) = "val" /\ n \in Source
    /\ a \notin live
    /\ FreshFor(n)
    /\ live' = (live \ {Here}) \cup {a}
    /\ parent' = [parent EXCEPT ![Here] = None, ![a] = parent[Here]]
    /\ bindings' = [bindings EXCEPT ![Here] = Empty,
                                ![a] = Declared(bindings[Here], n)]
    /\ stack' = [stack EXCEPT ![1] = a]
    /\ kinds' = [kinds EXCEPT ![1] = "rest"]
    /\ UNCHANGED <<phase, by_chars, defs, findVars, outcome>>

\* Call::type_of and Types::uv: names for the variables of a call.
CallUv ==
    /\ InExpr
    /\ Fresh(<<None>>)
    /\ UNCHANGED <<phase, by_chars, envVars, stack, kinds, defs, findVars, outcome>>

\* type_block and FunDef::check return.
Leave ==
    /\ InExpr /\ Head(kinds) \in {"rest", "body"}
    /\ Pop
    /\ UNCHANGED <<phase, namesVars, defs, findVars, outcome>>

-----------------------------------------------------------------------------
(* Id::type_of and TypeEnv::find                                           *)

Use(n) ==
    /\ InExpr /\ n \in Source
    /\ at' = Here /\ wanted' = n
    /\ UNCHANGED <<phase, namesVars, envVars, stack, kinds, defs, answer, outcome>>

Found ==
    /\ outcome = "ok" /\ at # None
    /\ wanted \in DOMAIN bindings[at]
    /\ answer' = bindings[at][wanted]
    /\ at' = None /\ wanted' = None
    /\ UNCHANGED <<phase, namesVars, envVars, stack, kinds, defs, outcome>>

\* Mutant of FindInParent: skips a frame.
FindInGrandparent ==
    /\ outcome = "ok" /\ at # None
    /\ wanted \notin DOMAIN bindings[at]
    /\ parent[at] # None
    /\ at' = LET up == parent[at] IN
             IF parent[up] = None THEN up ELSE parent[up]
    /\ UNCHANGED <<phase, namesVars, envVars, stack, kinds, defs, wanted, answer,
                   outcome>>

FindInParent ==
    /\ outcome = "ok" /\ at # None
    /\ wanted \notin DOMAIN bindings[at]
    /\ parent[at] # None
    /\ at' = parent[at]
    /\ UNCHANGED <<phase, namesVars, envVars, stack, kinds, defs, wanted, answer,
                   outcome>>

Unbound ==
    /\ outcome = "ok" /\ at # None
    /\ wanted \notin DOMAIN bindings[at]
    /\ parent[at] = None
    /\ outcome' = "UnboundError"
    /\ UNCHANGED <<phase, namesVars, envVars, stack, kinds, defs, findVars>>

-----------------------------------------------------------------------------
Next ==
    \/ \E c \in Chars : Sourced(c)
    \/ \E a \in Addr : Start(a) \/ CheckDef(a) \/ EnterVal(a)
    \/ \E n \in Source : DeclareDef(n) \/ Param(n) \/ Use(n)
    \/ \E n \in Source, a \in Addr : BindVal(n, a)
    \/ AllDeclared \/ Body \/ CallUv \/ Leave
    \/ Found \/ FindInParent \/ Unbound

Spec == Init /\ [][Next]_vars

-----------------------------------------------------------------------------
Bindings == UNION {[S -> Known] : S \in SUBSET Source}

EnvOK ==
    /\ live \subseteq Addr
    /\ parent \in [Addr -> Addr \cup {None}]
    /\ bindings \in [Addr -> Bindings]

Kind == {"program", "params", "body", "val", "rest"}

StackOK ==
    /\ stack \in Seq(live) /\ Len(kinds) = Len(stack)
    /\ phase = "parse" <=> stack = << >>
    /\ kinds \in Seq(Kind)
    /\ \A k \in DOMAIN kinds : kinds[k] = "program" <=> k = Len(stack)

\* Types of the state: every TypeEnv in use is alive, every name is known.
TypeOK ==
    /\ phase \in {"parse", "declare", "check"}
    /\ chars \in Seq(Chars \cup {None}) /\ Len(chars) <= MaxNames
    /\ by_chars \in [Chars -> Known \cup {None}]
    /\ EnvOK /\ StackOK
    /\ defs \in Seq(Source)
    /\ at \in live \cup {None} /\ wanted \in Source \cup {None}
    /\ at = None <=> wanted = None
    /\ answer \in Known \cup {None}
    /\ outcome \in {"ok", "UnboundError", "bad_optional_access"}

\* No TypeEnv outlives its parent, in spite of the move out of Val::check, and
\* the parent links have no cycle: find never reads a dead frame and always
\* comes to an end.
NoDangling ==
    /\ \A a \in live : parent[a] \in live \cup {None}
    /\ \A S \in (SUBSET live) \ {{}} : \E a \in S : parent[a] \notin S

\* The typer renames apart: two declarations that are in scope together have
\* different unique names, and no unique name is a name of the source.
UniqueBinders ==
    \A a, b \in live : \A n \in DOMAIN bindings[a], m \in DOMAIN bindings[b] :
        /\ bindings[a][n] = bindings[b][m] => a = b /\ n = m
        /\ bindings[a][n] \notin Source

\* A spelling is interned once, and renaming keeps it: what a name is printed
\* as, or compared with, is what the source says.
SpellingKept ==
    /\ \A c \in Chars : by_chars[c] # None => Spelling(by_chars[c]) = c
    /\ \A a \in live : \A n \in DOMAIN bindings[a] :
            Spelling(bindings[a][n]) = Spelling(n)

\* FunDef::check finds the definition that Program::check declared: the
\* unchecked .value() never throws.
DefsFound == outcome # "bad_optional_access"

Lexical == INSTANCE LexicalScopes WITH
    scopes <- [k \in DOMAIN stack |-> bindings[stack[k]]]

\* The raw parent pointers implement lexical scoping: a use gets the innermost
\* declaration of its name that encloses it, or UnboundError if there is none.
ResolvesLexically == Lexical!Spec
=============================================================================
