-------------------------- MODULE DefinitionsProofs --------------------------
(***************************************************************************)
(* Proofs about Definitions, for programs of any number of definitions     *)
(* with any number of parameters.                                          *)
(***************************************************************************)
EXTENDS Definitions, SequenceTheorems, WellFoundedInduction, TLAPS

N == Len(source)

Llvm == {"llvm_declare", "llvm_define", "done"}

\* What each pass has made when the loop is at i.
Sizes ==
    /\ pc = "declare" => i = N + 1 /\ Len(spelling) = N
    /\ pc \in {"declare", "check"} => DOMAIN exprs = {} /\ fns = << >>
    /\ pc = "declare" => typed = << >>
    /\ pc = "check" => Len(typed) = i - 1
    /\ pc \in {"cps_declare", "to_cps", "print"} \cup Llvm => Len(typed) = N
    /\ pc = "cps_declare" => Len(fns) = i - 1
    /\ pc \in {"to_cps", "print"} \cup Llvm => Len(fns) = N
    /\ pc \in {"declare", "check", "cps_declare"} => value = << >>
    /\ pc = "to_cps" => Len(value) = i - 1
    /\ pc \in {"print"} \cup Llvm => Len(value) = N
    /\ pc \in {"declare", "check", "cps_declare", "to_cps", "print"} => funs = << >>
    /\ pc = "llvm_declare" => Len(funs) = i - 1
    /\ pc \in {"llvm_define", "done"} => Len(funs) = N

\* The first definition of a name is the one that the name is bound to; it has
\* the unique name of its number.
FirstBound ==
    /\ Len(spelling) >= N /\ \A d \in DOMAIN source : spelling[d] = source[d].name
    /\ \A s \in Spelling :
        \/ env[s] = None /\ \A d \in DOMAIN source : source[d].name # s
        \/ /\ env[s] \in DOMAIN source /\ source[env[s]].name = s
           /\ \A d \in 1..(env[s] - 1) : source[d].name # s

IsFirst(d, j) ==
    /\ j \in DOMAIN source[d].params /\ source[d].params[j] = source[d].use
    /\ \A k \in 1..(j - 1) : source[d].params[k] # source[d].use

IsParam(d) == \E j \in DOMAIN source[d].params : source[d].params[j] = source[d].use

\* The typer gives a use the unique name of the first parameter of that name or of
\* the definition.
UseResolved(d) ==
    \/ \E j \in DOMAIN source[d].params : IsFirst(d, j) /\ typed[d].use = typed[d].params[j]
    \/ /\ ~IsParam(d)
       /\ typed[d].use = env[source[d].use] /\ typed[d].use \in DOMAIN source

\* Parameters have names of their own.
ParamsFresh ==
    \A d \in DOMAIN typed :
        \A j \in DOMAIN typed[d].params :
            /\ typed[d].params[j] > N
            /\ \A e \in DOMAIN typed : \A k \in DOMAIN typed[e].params :
                typed[d].params[j] = typed[e].params[k] => d = e /\ j = k

Resolved ==
    /\ Len(typed) <= N
    /\ \A d \in DOMAIN typed :
        /\ typed[d].name = env[source[d].name]
        /\ DOMAIN typed[d].params = DOMAIN source[d].params
        /\ UseResolved(d)

\* A name of a definition stands for its Fn, the others for parameters of the
\* functions that have been converted.
NamesStand ==
    /\ Len(fns) <= Len(typed)
    /\ \A f \in DOMAIN fns : fns[f].name = typed[f].name /\ fns[f].name \in DOMAIN exprs
    /\ \A n \in DOMAIN exprs :
        IF n <= N THEN n \in DOMAIN fns /\ exprs[n] = FnExpr(n)
        ELSE \E d \in DOMAIN value : \E j \in DOMAIN typed[d].params :
                typed[d].params[j] = n /\ exprs[n] = ParamExpr(d, j)

\* The Expr that the body of a converted definition is.
ValueRight(d) ==
    \/ \E j \in DOMAIN source[d].params : IsFirst(d, j) /\ value[d] = ParamExpr(d, j)
    \/ ~IsParam(d) /\ env[source[d].use] \in DOMAIN source /\ value[d] = FnExpr(env[source[d].use])

Converted ==
    /\ Len(value) <= Len(fns)
    /\ \A d \in DOMAIN value : ValueRight(d) /\ fns[env[source[d].name]].entry # None
    /\ \A f \in DOMAIN fns : fns[f].entry # None =>
        fns[f].entry \in DOMAIN value /\ f = env[source[fns[f].entry].name]

\* In the module a function has the number and the name of its definition.
Linked ==
    pc \in Llvm =>
        /\ Distinct
        /\ \A f \in DOMAIN fns : fns[f].entry # None
        /\ \A g \in DOMAIN funs :
            /\ funs[g].symbol = source[g].name
            /\ IF pc = "done" \/ (pc = "llvm_define" /\ g < i)
               THEN /\ Len(funs[g].body) = 1 /\ funs[g].body[1].def = g
                    /\ Meant(g, funs[g].body[1].value)
               ELSE funs[g].body = << >>

IInv ==
    /\ TypeOK /\ Sizes /\ FirstBound /\ Resolved /\ ParamsFresh /\ NamesStand
    /\ Converted /\ Linked /\ FailuresJustified

-----------------------------------------------------------------------------
(* Types.                                                                  *)

LEMMA ParamLists ==
    ASSUME NEW d \in Definition
    PROVE  /\ d.params \in Seq(Spelling) /\ d.name \in Spelling /\ d.use \in Spelling
           /\ Len(d.params) \in Nat /\ DOMAIN d.params = 1..Len(d.params)
           /\ \A j \in DOMAIN d.params : d.params[j] \in Spelling
<1>1. PICK n \in 0..MaxNames : d.params \in [1..n -> Spelling]
    BY DEF Definition
<1>2. n \in Nat
    BY NamesAssumption
<1>3. d.params \in Seq(Spelling)
    BY <1>1, <1>2
<1> QED
    BY <1>1, <1>3, LenProperties DEF Definition

\* A list of passes with an end has its elements.
LEMMA Indices ==
    ASSUME TypeOK
    PROVE  /\ N \in Nat /\ DOMAIN source = 1..N /\ \A d \in 1..N : source[d] \in Definition
           /\ i \in Nat
           /\ Len(spelling) \in Nat /\ DOMAIN spelling = 1..Len(spelling)
           /\ \A n \in Name : spelling[n] \in Spelling
           /\ Len(typed) \in Nat /\ DOMAIN typed = 1..Len(typed)
           /\ \A d \in DOMAIN typed : typed[d] \in Typed
           /\ Len(fns) \in Nat /\ DOMAIN fns = 1..Len(fns) /\ \A f \in DOMAIN fns : fns[f] \in Fn
           /\ Len(value) \in Nat /\ DOMAIN value = 1..Len(value)
           /\ \A d \in DOMAIN value : value[d] \in Expr
           /\ Len(funs) \in Nat /\ DOMAIN funs = 1..Len(funs)
           /\ \A g \in DOMAIN funs : funs[g] \in Function
<1>1. N \in Nat /\ DOMAIN source = 1..N /\ source \in [1..N -> Definition]
    BY LenProperties DEF TypeOK, N
<1>2. Len(spelling) \in Nat /\ DOMAIN spelling = 1..Len(spelling)
      /\ spelling \in [1..Len(spelling) -> Spelling]
    BY LenProperties DEF TypeOK
<1>3. Len(typed) \in Nat /\ DOMAIN typed = 1..Len(typed) /\ typed \in [1..Len(typed) -> Typed]
    BY LenProperties DEF TypeOK
<1>4. Len(fns) \in Nat /\ DOMAIN fns = 1..Len(fns) /\ fns \in [1..Len(fns) -> Fn]
    BY LenProperties DEF TypeOK
<1>5. Len(value) \in Nat /\ DOMAIN value = 1..Len(value) /\ value \in [1..Len(value) -> Expr]
    BY LenProperties DEF TypeOK
<1>6. Len(funs) \in Nat /\ DOMAIN funs = 1..Len(funs) /\ funs \in [1..Len(funs) -> Function]
    BY LenProperties DEF TypeOK
<1>7. i \in Nat
    BY <1>1 DEF TypeOK, N
<1> QED
    BY <1>1, <1>2, <1>3, <1>4, <1>5, <1>6, <1>7 DEF Name

PassNames == DOMAIN Following \cup {"print", "done", "unbound", "type_error", "missing", "null"}

\* The actions of a loop that goes on leave the types alone but for what they make.
LEMMA StillTypes ==
    ASSUME TypeOK, UNCHANGED <<source, spelling, env, typed, exprs, fns, value, funs>>,
           i' \in 1..(N + 1), pc' \in PassNames
    PROVE  TypeOK'
<1> QED
    BY DEF TypeOK, N, PassNames, Name, Expr, Typed, Fn, Function

\* What Declare makes.
LEMMA DeclareMakes ==
    ASSUME TypeOK, NEW d \in Definition, Declare(d)
    PROVE  /\ source' \in Seq(Definition) /\ N' = N + 1 /\ DOMAIN source' = 1..(N + 1)
           /\ \A e \in 1..N : source'[e] = source[e]
           /\ source'[N + 1] = d
           /\ spelling' \in Seq(Spelling) /\ Len(spelling') = Len(spelling) + 1
           /\ \A n \in Name : spelling'[n] = spelling[n]
           /\ spelling'[Len(spelling) + 1] = d.name
<1>1. source' = Append(source, d) /\ spelling' = Append(spelling, d.name)
    BY DEF Declare
<1>2. source \in Seq(Definition) /\ spelling \in Seq(Spelling) /\ d.name \in Spelling
    BY ParamLists DEF TypeOK
<1>3. source' \in Seq(Definition) /\ DOMAIN source' = 1..Len(source')
    BY <1>1, <1>2, AppendProperties, LenProperties
<1> QED
    BY <1>1, <1>2, <1>3, AppendProperties DEF N, Name

\* The least element of a set of indices.
Less == {p \in Nat \X Nat : p[1] < p[2]}

LEMMA LeastIndex ==
    ASSUME NEW S \in SUBSET Nat, S # {}
    PROVE  \E m \in S : \A k \in S : m <= k
<1>1. Less = OpToRel(<, Nat)
    BY Zenon DEF OpToRel, Less
<1>2. IsWellFoundedOn(Less, Nat)
    BY <1>1, NatLessThanWellFounded, Zenon
<1>3. PICK m \in S : \A k \in S : <<k, m>> \notin Less
    BY <1>2, WFMin, Zenon
<1>4. ASSUME NEW k \in S
      PROVE  m <= k
    <2> DEFINE p == <<k, m>>
    <2>1. p \in Nat \X Nat /\ p[1] = k /\ p[2] = m /\ p \notin Less
        BY <1>3
    <2> HIDE DEF p
    <2>2. ~(p[1] < p[2])
        BY <2>1 DEF Less
    <2> QED
        BY <2>1, <2>2
<1> QED
    BY <1>4

\* FirstOf is the first parameter of the name.
LEMMA FirstOfFinds ==
    ASSUME NEW params \in Seq(Spelling), NEW s, s \in Range(params)
    PROVE  /\ FirstOf(s, params) \in DOMAIN params /\ params[FirstOf(s, params)] = s
           /\ \A k \in 1..(FirstOf(s, params) - 1) : params[k] # s
<1> DEFINE S == {j \in DOMAIN params : params[j] = s}
<1>1. Len(params) \in Nat /\ DOMAIN params = 1..Len(params)
    BY LenProperties
<1>2. S \in SUBSET Nat /\ S # {}
    BY <1>1 DEF Range
<1>3. PICK m \in S : \A k \in S : m <= k
    <2> HIDE DEF S
    <2> QED
        BY <1>2, LeastIndex
<1>4. m \in DOMAIN params /\ params[m] = s /\ \A k \in 1..(m - 1) : params[k] # s
    BY <1>1, <1>3
<1> QED
    BY <1>4 DEF FirstOf

LEMMA SeqRetyped ==
    ASSUME NEW S, NEW s \in Seq(S), NEW T, \A k \in DOMAIN s : s[k] \in T
    PROVE  s \in Seq(T)
<1>1. Len(s) \in Nat /\ s \in [1..Len(s) -> S] /\ DOMAIN s = 1..Len(s)
    BY LenProperties
<1>2. s \in [1..Len(s) -> T]
    BY <1>1
<1> QED
    BY <1>1, <1>2

\* The name of a definition is bound to the first definition of that name.
LEMMA DefinitionBound ==
    ASSUME TypeOK, FirstBound, NEW d \in DOMAIN source
    PROVE  LET e == env[source[d].name] IN
           /\ source[d].name \in Spelling /\ source[d].use \in Spelling
           /\ e \in DOMAIN source /\ e \in Name /\ e # None /\ e <= d
           /\ source[e].name = source[d].name /\ env[source[e].name] = e
           /\ \A k \in 1..(e - 1) : source[k].name # source[d].name
<1> DEFINE s == source[d].name
           e == env[s]
<1>1. source[d] \in Definition
    BY Indices
<1>2. s \in Spelling /\ source[d].use \in Spelling
    BY <1>1, ParamLists
<1>3. /\ e \in DOMAIN source /\ source[e].name = s
      /\ \A k \in 1..(e - 1) : source[k].name # s
    BY <1>2 DEF FirstBound
<1>4. N \in Nat /\ DOMAIN source = 1..N /\ Len(spelling) \in Nat /\ Len(spelling) >= N
    BY Indices DEF FirstBound
<1>5. e \in Name /\ e # None
    BY <1>3, <1>4, NamesAssumption DEF Name
<1>6. e <= d
    BY <1>3, <1>4
<1> QED
    BY <1>2, <1>3, <1>5, <1>6

\* What CheckDef makes of a definition whose name is bound.
LEMMA CheckDefMakes ==
    ASSUME TypeOK, FirstBound, CheckDef, pc' = pc
    PROVE  LET d == source[i]
               t == typed'[Len(typed) + 1]
           IN  /\ i \in DOMAIN source /\ pc = "check" /\ i' = i + 1
               /\ d \in Definition
               /\ spelling' \in Seq(Spelling)
               /\ Len(spelling') = Len(spelling) + Len(d.params)
               /\ \A n \in Name : n \in Name' /\ spelling'[n] = spelling[n]
               /\ typed' \in Seq(Typed')
               /\ DOMAIN typed' = 1..(Len(typed) + 1) /\ Len(typed') = Len(typed) + 1
               /\ \A e \in DOMAIN typed : typed'[e] = typed[e]
               /\ t.name = env[d.name]
               /\ DOMAIN t.params = DOMAIN d.params
               /\ \A j \in DOMAIN d.params : t.params[j] = Len(spelling) + j
               /\ t.use = IF d.use \in Range(d.params)
                          THEN Len(spelling) + FirstOf(d.use, d.params) ELSE env[d.use]
               /\ t.use # None
<1> DEFINE d == source[i]
           use == IF d.use \in Range(d.params) THEN Fresh(FirstOf(d.use, d.params))
                  ELSE env[d.use]
           params == [j \in DOMAIN d.params |-> Fresh(j)]
           t == [name |-> env[d.name], use |-> use, params |-> params]
<1>1. i \in DOMAIN source /\ pc = "check"
    BY DEF CheckDef, At
<1>2. d \in Definition
    BY <1>1, Indices
<1>3. /\ use # None /\ typed' = Append(typed, t) /\ spelling' = spelling \o d.params
      /\ i' = i + 1 /\ UNCHANGED source
    BY <1>1 DEF CheckDef
<1>4. /\ d.params \in Seq(Spelling) /\ spelling \in Seq(Spelling) /\ Len(d.params) \in Nat
      /\ DOMAIN d.params = 1..Len(d.params) /\ d.name \in Spelling /\ d.use \in Spelling
    BY <1>2, ParamLists DEF TypeOK
<1>5. /\ spelling' \in Seq(Spelling) /\ Len(spelling') = Len(spelling) + Len(d.params)
      /\ \A n \in Name : n \in Name' /\ spelling'[n] = spelling[n]
    BY <1>3, <1>4, Indices, ConcatProperties DEF Name
<1>6. /\ t.name = env[d.name] /\ t.use = use /\ DOMAIN t.params = DOMAIN d.params
      /\ \A j \in DOMAIN d.params : t.params[j] = Len(spelling) + j
    BY DEF Fresh
<1>7. use = IF d.use \in Range(d.params)
            THEN Len(spelling) + FirstOf(d.use, d.params) ELSE env[d.use]
    BY DEF Fresh
<1>8. t \in Typed'
    <2>1. env[d.name] \in Name'
        <3>1. env[d.name] \in Name
            BY <1>1, DefinitionBound, Indices
        <3> QED
            BY <3>1, <1>5
    <2>2. use \in Name'
        <3>1. CASE d.use \in Range(d.params)
            <4>1. FirstOf(d.use, d.params) \in 1..Len(d.params)
                BY <3>1, <1>4, FirstOfFinds
            <4> QED
                BY <3>1, <4>1, <1>4, <1>5, <1>7, Indices DEF Name
        <3>2. CASE d.use \notin Range(d.params)
            BY <3>2, <1>3, <1>4, <1>5 DEF TypeOK
        <3> QED
            BY <3>1, <3>2
    <2>3. params \in Seq(Name')
        <3>1. params \in [1..Len(d.params) -> Name']
            BY <1>4, <1>5, Indices DEF Name, Fresh
        <3> QED
            BY <3>1, <1>4
    <2> HIDE DEF params, use
    <2> QED
        BY <2>1, <2>2, <2>3 DEF Typed
<1> HIDE DEF t, use
<1>9. typed \in Seq(Typed')
    <2>1. \A e \in DOMAIN typed : typed[e] \in Typed'
        <3> TAKE e \in DOMAIN typed
        <3>1. typed[e] \in Typed
            BY Indices
        <3>2. typed[e].params \in Seq(Name')
            BY <3>1, <1>5, SeqMonotonic DEF Typed
        <3> QED
            BY <3>1, <3>2, <1>5 DEF Typed
    <2> QED
        BY <2>1, SeqRetyped DEF TypeOK
<1>10. /\ typed' \in Seq(Typed')
       /\ DOMAIN typed' = 1..(Len(typed) + 1) /\ Len(typed') = Len(typed) + 1
       /\ \A e \in DOMAIN typed : typed'[e] = typed[e]
       /\ typed'[Len(typed) + 1] = t
    BY <1>3, <1>8, <1>9, AppendProperties, LenProperties, Indices
<1> QED
    BY <1>1, <1>2, <1>3, <1>5, <1>6, <1>7, <1>10

\* What CpsDeclare makes.
LEMMA CpsDeclareMakes ==
    ASSUME TypeOK, Sizes, FirstBound, Resolved, CpsDeclare
    PROVE  LET name == typed[i].name IN
           /\ pc = "cps_declare" /\ i \in DOMAIN source /\ i \in DOMAIN typed /\ Len(fns) + 1 = i
           /\ name = env[source[i].name] /\ name \in Name
           /\ fns' \in Seq(Fn) /\ Len(fns') = i /\ DOMAIN fns' = 1..i
           /\ \A f \in DOMAIN fns : fns'[f] = fns[f]
           /\ fns'[i] = [name |-> name, entry |-> None]
           /\ DOMAIN exprs' = DOMAIN exprs \cup {name}
           /\ \A n \in DOMAIN exprs : exprs'[n] = exprs[n]
           /\ name \notin DOMAIN exprs => exprs'[name] = FnExpr(i)
<1> DEFINE name == typed[i].name
           fn == [name |-> name, entry |-> None]
<1>1. pc = "cps_declare" /\ i \in DOMAIN source
    BY DEF CpsDeclare, At
<1>2. Len(fns) + 1 = i /\ Len(typed) = N /\ i \in DOMAIN typed
    BY <1>1, Indices DEF Sizes
<1>3. name = env[source[i].name] /\ name \in Name
    BY <1>1, <1>2, DefinitionBound DEF Resolved
<1>4. /\ fns' = Append(fns, fn)
      /\ exprs' = [n \in DOMAIN exprs \cup {name} |->
                        IF n \in DOMAIN exprs THEN exprs[n] ELSE FnExpr(i)]
    BY <1>1, <1>2 DEF CpsDeclare
<1>5. fn \in Fn
    BY <1>3 DEF Fn
<1> HIDE DEF fn
<1>6. /\ fns' \in Seq(Fn) /\ Len(fns') = i /\ DOMAIN fns' = 1..i
      /\ \A f \in DOMAIN fns : fns'[f] = fns[f]
      /\ fns'[i] = fn
    BY <1>2, <1>4, <1>5, AppendProperties, LenProperties, Indices DEF TypeOK
<1> QED
    BY <1>1, <1>2, <1>3, <1>4, <1>6 DEF fn

\* What ToCps makes: it finds every name.
LEMMA ToCpsMakes ==
    ASSUME TypeOK, Sizes, FirstBound, Resolved, ParamsFresh, NamesStand, ToCps
    PROVE  LET t == typed[i] IN
           /\ pc = "to_cps" /\ pc' = pc /\ i' = i + 1
           /\ i \in DOMAIN source /\ i \in DOMAIN typed /\ Len(value) + 1 = i
           /\ t.name = env[source[i].name] /\ t.name \in DOMAIN fns
           /\ fns' \in Seq(Fn) /\ Len(fns') = Len(fns) /\ DOMAIN fns' = DOMAIN fns
           /\ \A f \in DOMAIN fns :
                /\ fns'[f].name = fns[f].name
                /\ fns'[f].entry = IF f = t.name THEN i ELSE fns[f].entry
           /\ DOMAIN exprs' = DOMAIN exprs \cup Range(t.params)
           /\ \A n \in DOMAIN exprs : exprs'[n] = exprs[n]
           /\ \A j \in DOMAIN t.params :
                t.params[j] \notin DOMAIN exprs /\ exprs'[t.params[j]] = ParamExpr(i, j)
           /\ value' \in Seq(Expr) /\ DOMAIN value' = 1..i /\ Len(value') = i
           /\ \A d \in DOMAIN value : value'[d] = value[d]
           /\ \/ \E j \in DOMAIN source[i].params :
                    IsFirst(i, j) /\ value'[i] = ParamExpr(i, j)
              \/ /\ ~IsParam(i) /\ env[source[i].use] \in DOMAIN source
                 /\ value'[i] = FnExpr(env[source[i].use])
<1> DEFINE t == typed[i]
           defined == [n \in DOMAIN exprs \cup Range(t.params) |->
                        IF n \in DOMAIN exprs THEN exprs[n]
                        ELSE ParamExpr(i, CHOOSE j \in DOMAIN t.params : t.params[j] = n)]
<1>1. pc = "to_cps" /\ i \in DOMAIN source
    BY DEF ToCps, At
<1>2. /\ Len(value) + 1 = i /\ Len(typed) = N /\ Len(fns) = N
      /\ i \in DOMAIN typed /\ i \in 1..N /\ DOMAIN fns = 1..N /\ DOMAIN source = 1..N
    BY <1>1, Indices DEF Sizes
<1>3. \A e \in DOMAIN source : e \in DOMAIN typed /\ e \in DOMAIN fns
    BY <1>2, Indices
<1>4. \A e \in DOMAIN source : env[source[e].name] = e => e \in DOMAIN exprs /\ exprs[e] = FnExpr(e)
    <2> TAKE e \in DOMAIN source
    <2> HAVE env[source[e].name] = e
    <2>1. fns[e].name = e /\ e \in DOMAIN exprs
        BY <1>3 DEF NamesStand, Resolved
    <2> QED
        BY <1>2, <2>1 DEF NamesStand
<1>5. t.name = env[source[i].name] /\ t.name \in DOMAIN fns /\ t.name \in DOMAIN exprs
      /\ exprs[t.name] = FnExpr(t.name)
    BY <1>1, <1>2, <1>4, DefinitionBound DEF Resolved
<1>6. \A j \in DOMAIN t.params : t.params[j] \notin DOMAIN exprs
    <2> SUFFICES ASSUME NEW j \in DOMAIN t.params, t.params[j] \in DOMAIN exprs
                 PROVE  FALSE
        OBVIOUS
    <2>1. t.params[j] > N /\ t.params[j] \in Nat /\ N \in Nat
        <3>1. t \in Typed
            BY <1>2, Indices
        <3>2. t.params \in Seq(Name)
            BY <3>1 DEF Typed
        <3>3. t.params[j] \in Name
            BY <3>2, LenProperties, ElementOfSeq
        <3> QED
            BY <1>2, <3>3, Indices DEF ParamsFresh, Name
    <2>2. PICK d \in DOMAIN value : \E k \in DOMAIN typed[d].params :
                typed[d].params[k] = t.params[j]
        BY <2>1 DEF NamesStand
    <2>3. d # i /\ d \in DOMAIN typed
        BY <1>2, Indices
    <2> QED
        BY <1>2, <2>2, <2>3 DEF ParamsFresh
<1>7. \A j \in DOMAIN t.params : defined[t.params[j]] = ParamExpr(i, j)
    <2> TAKE j \in DOMAIN t.params
    <2>1. t.params[j] \in Range(t.params)
        BY DEF Range
    <2>2. \A k \in DOMAIN t.params : t.params[k] = t.params[j] => k = j
        BY <1>2 DEF ParamsFresh
    <2>3. (CHOOSE k \in DOMAIN t.params : t.params[k] = t.params[j]) = j
        BY <2>2
    <2> QED
        BY <1>6, <2>1, <2>3
<1>8. \/ \E j \in DOMAIN source[i].params :
            IsFirst(i, j) /\ j \in DOMAIN t.params /\ t.use = t.params[j]
      \/ /\ ~IsParam(i) /\ t.use = env[source[i].use] /\ env[source[i].use] \in DOMAIN source
    BY <1>2 DEF Resolved, UseResolved
<1>9. t.use \in DOMAIN defined
      /\ \/ \E j \in DOMAIN source[i].params : IsFirst(i, j) /\ defined[t.use] = ParamExpr(i, j)
         \/ /\ ~IsParam(i) /\ env[source[i].use] \in DOMAIN source
            /\ defined[t.use] = FnExpr(env[source[i].use])
    <2>1. CASE \E j \in DOMAIN source[i].params :
                    IsFirst(i, j) /\ j \in DOMAIN t.params /\ t.use = t.params[j]
        <3>1. PICK j \in DOMAIN source[i].params :
                    IsFirst(i, j) /\ j \in DOMAIN t.params /\ t.use = t.params[j]
            BY <2>1
        <3>2. t.use \in Range(t.params) /\ defined[t.use] = ParamExpr(i, j)
            BY <1>7, <3>1 DEF Range
        <3>3. t.use \in DOMAIN defined
            BY <3>2
        <3> HIDE DEF defined
        <3> QED
            BY <3>1, <3>2, <3>3
    <2>2. CASE ~IsParam(i) /\ t.use = env[source[i].use] /\ env[source[i].use] \in DOMAIN source
        <3>1. source[i].use \in Spelling
            BY <1>1, DefinitionBound
        <3>2. source[t.use].name = source[i].use
            BY <2>2, <3>1, <1>2, Indices, NamesAssumption DEF FirstBound
        <3>3. t.use \in DOMAIN exprs /\ exprs[t.use] = FnExpr(t.use)
            BY <1>4, <2>2, <3>2
        <3> QED
            BY <2>2, <3>3
    <2> QED
        BY <1>8, <2>1, <2>2
<1>10. /\ exprs' = defined /\ fns' = [fns EXCEPT ![t.name].entry = i]
       /\ value' = Append(value, defined[t.use])
       /\ i' = i + 1 /\ pc' = pc
    <2>1. exprs[t.name].of = t.name
        BY <1>5 DEF FnExpr
    <2>2. t.use \in DOMAIN defined
        BY <1>9
    <2>3. /\ exprs' = defined /\ fns' = [fns EXCEPT ![exprs[t.name].of].entry = i]
          /\ value' = Append(value, defined[t.use])
          /\ i' = i + 1 /\ UNCHANGED pc
        BY <1>5, <2>2, Zenon DEF ToCps
    <2> HIDE DEF defined
    <2> QED
        BY <2>1, <2>3
<1>11. defined[t.use] \in Expr
    <2>1. \A j \in DOMAIN source[i].params : j \in Nat
        BY <1>1, Indices, ParamLists
    <2>2. \A j \in Nat : ParamExpr(i, j) \in Expr
        BY <1>1 DEF ParamExpr, Expr
    <2>3. \A d \in DOMAIN source : FnExpr(d) \in Expr
        BY DEF FnExpr, Expr
    <2> HIDE DEF defined
    <2> QED
        BY <1>9, <2>1, <2>2, <2>3
<1>12. /\ DOMAIN defined = DOMAIN exprs \cup Range(t.params)
       /\ \A n \in DOMAIN exprs : defined[n] = exprs[n]
    OBVIOUS
<1> HIDE DEF defined
<1>13. /\ value' \in Seq(Expr) /\ DOMAIN value' = 1..i /\ Len(value') = i
       /\ \A d \in DOMAIN value : value'[d] = value[d]
       /\ value'[i] = defined[t.use]
    BY <1>2, <1>10, <1>11, AppendProperties, LenProperties, Indices DEF TypeOK
<1>14. /\ fns' \in Seq(Fn) /\ Len(fns') = Len(fns) /\ DOMAIN fns' = DOMAIN fns
       /\ \A f \in DOMAIN fns :
            /\ fns'[f].name = fns[f].name
            /\ fns'[f].entry = IF f = t.name THEN i ELSE fns[f].entry
    <2> DEFINE fn == [fns[t.name] EXCEPT !.entry = i]
    <2>1. fns[t.name] \in Fn /\ fns \in Seq(Fn)
        BY <1>5, Indices DEF TypeOK
    <2>2. fn \in Fn /\ fn.name = fns[t.name].name /\ fn.entry = i
        BY <1>1, <2>1 DEF Fn
    <2>3. fns' = [fns EXCEPT ![t.name] = fn]
        BY <1>10
    <2> HIDE DEF fn
    <2> QED
        BY <1>2, <1>5, <2>1, <2>2, <2>3, ExceptSeq, LenProperties
<1> QED
    BY <1>1, <1>2, <1>5, <1>6, <1>7, <1>9, <1>10, <1>12, <1>13, <1>14

\* With distinct names every definition is the first of its name.
LEMMA DistinctBound ==
    ASSUME TypeOK, FirstBound, Distinct, NEW d \in DOMAIN source
    PROVE  env[source[d].name] = d
BY DefinitionBound DEF Distinct

\* A Fn is declared in the module by the name of its definition.
LEMMA SymbolRight ==
    ASSUME TypeOK, FirstBound, Resolved, NamesStand, NEW f \in DOMAIN fns
    PROVE  f \in DOMAIN source /\ Symbol(f) = source[f].name /\ Symbol(f) \in Spelling
<1>1. f \in DOMAIN typed /\ f \in DOMAIN source
    BY Indices DEF NamesStand, Resolved
<1>2. fns[f].name = env[source[f].name]
    BY <1>1 DEF NamesStand, Resolved
<1> QED
    BY <1>1, <1>2, DefinitionBound DEF FirstBound, Symbol

\* What LlvmDeclare makes: the name is not taken.
LEMMA LlvmDeclareMakes ==
    ASSUME TypeOK, Sizes, FirstBound, Resolved, NamesStand, Linked, LlvmDeclare
    PROVE  /\ pc = "llvm_declare" /\ i \in DOMAIN source /\ Len(funs) + 1 = i
           /\ funs' \in Seq(Function) /\ DOMAIN funs' = 1..i /\ Len(funs') = i
           /\ \A g \in DOMAIN funs : funs'[g] = funs[g]
           /\ funs'[i] = [symbol |-> source[i].name, body |-> << >>]
<1> DEFINE fun == [symbol |-> source[i].name, body |-> << >>]
<1>1. pc = "llvm_declare" /\ i \in DOMAIN source
    BY DEF LlvmDeclare, At
<1>2. Len(funs) + 1 = i /\ Len(fns) = N /\ i \in DOMAIN fns
    BY <1>1, Indices DEF Sizes, Llvm
<1>3. Symbol(i) = source[i].name /\ Symbol(i) \in Spelling
    BY <1>2, SymbolRight
<1>4. \A g \in DOMAIN funs : funs[g].symbol # Symbol(i)
    <2> TAKE g \in DOMAIN funs
    <2>1. g \in DOMAIN source /\ g # i
        BY <1>1, <1>2, Indices
    <2>2. funs[g].symbol = source[g].name /\ Distinct
        BY <1>1 DEF Linked, Llvm
    <2> QED
        BY <1>1, <1>3, <2>1, <2>2 DEF Distinct
<1>5. funs' = Append(funs, fun)
    BY <1>3, <1>4 DEF LlvmDeclare
<1>6. fun \in Function
    BY <1>3 DEF Function
<1> HIDE DEF fun
<1>7. /\ funs' \in Seq(Function) /\ DOMAIN funs' = 1..i /\ Len(funs') = i
      /\ \A g \in DOMAIN funs : funs'[g] = funs[g]
      /\ funs'[i] = fun
    BY <1>2, <1>5, <1>6, AppendProperties, LenProperties, Indices DEF TypeOK
<1> QED
    BY <1>1, <1>2, <1>7 DEF fun

\* getFunction finds the function of a definition.
LEMMA GetFunctionFinds ==
    ASSUME TypeOK, Sizes, Linked, pc = "llvm_define", NEW g \in DOMAIN source
    PROVE  g \in DOMAIN funs /\ GetFunction(source[g].name) = g
<1>1. DOMAIN funs = DOMAIN source
    BY Indices DEF Sizes
<1>2. Distinct /\ \A h \in DOMAIN funs : funs[h].symbol = source[h].name
    BY DEF Linked, Llvm
<1>3. \A h \in DOMAIN funs : funs[h].symbol = source[g].name <=> h = g
    BY <1>1, <1>2 DEF Distinct
<1> QED
    BY <1>1, <1>3 DEF GetFunction

\* What LlvmDefine makes: the function of the definition gets its body.
LEMMA LlvmDefineMakes ==
    ASSUME TypeOK, Sizes, FirstBound, Resolved, NamesStand, Converted, Linked, LlvmDefine
    PROVE  /\ pc = "llvm_define" /\ pc' = pc /\ i' = i + 1 /\ i \in DOMAIN source
           /\ funs' \in Seq(Function) /\ DOMAIN funs' = DOMAIN funs
           /\ Len(funs') = Len(funs) /\ DOMAIN funs = DOMAIN source
           /\ \A g \in DOMAIN funs :
                funs'[g].symbol = funs[g].symbol /\ (g # i => funs'[g] = funs[g])
           /\ Len(funs'[i].body) = 1 /\ funs'[i].body[1].def = i
           /\ \/ \E j \in DOMAIN source[i].params :
                    IsFirst(i, j) /\ funs'[i].body[1].value = ParamExpr(i, j)
              \/ /\ ~IsParam(i) /\ env[source[i].use] \in DOMAIN source
                 /\ funs'[i].body[1].value = FnExpr(env[source[i].use])
<1> DEFINE v == value[i]
           llvm == IF v.form = "fn" THEN FnExpr(GetFunction(Symbol(v.of))) ELSE v
           new == [def |-> i, value |-> llvm]
<1>1. pc = "llvm_define" /\ i \in DOMAIN source
    BY DEF LlvmDefine, At
<1>2. /\ Len(fns) = N /\ i \in DOMAIN fns /\ Len(value) = N /\ i \in DOMAIN value
      /\ DOMAIN fns = DOMAIN source /\ DOMAIN funs = DOMAIN source
    BY <1>1, Indices DEF Sizes, Llvm
<1>3. fns[i].entry = i
    <2>1. fns[i].entry # None /\ Distinct
        BY <1>1, <1>2 DEF Linked, Llvm
    <2>2. fns[i].entry \in DOMAIN source /\ i = env[source[fns[i].entry].name]
        BY <1>2, <2>1, Indices DEF Converted
    <2> QED
        BY <2>1, <2>2, DistinctBound
<1>4. ValueRight(i) /\ v \in Expr
    BY <1>2, Indices DEF Converted
<1>5. Symbol(i) = source[i].name /\ GetFunction(Symbol(i)) = i
    BY <1>1, <1>2, SymbolRight, GetFunctionFinds
<1>6. /\ v.form = "param" => v.of = i
      /\ \/ \E j \in DOMAIN source[i].params : IsFirst(i, j) /\ llvm = ParamExpr(i, j)
         \/ /\ ~IsParam(i) /\ env[source[i].use] \in DOMAIN source
            /\ llvm = FnExpr(env[source[i].use])
    <2>1. CASE \E j \in DOMAIN source[i].params : IsFirst(i, j) /\ v = ParamExpr(i, j)
        BY <2>1 DEF ParamExpr
    <2>2. CASE ~IsParam(i) /\ env[source[i].use] \in DOMAIN source
               /\ v = FnExpr(env[source[i].use])
        <3> DEFINE f == env[source[i].use]
        <3>1. v.form = "fn" /\ v.of = f /\ f \in DOMAIN fns
            BY <1>2, <2>2 DEF FnExpr
        <3>2. Symbol(f) = source[f].name /\ GetFunction(Symbol(f)) = f
            BY <1>1, <1>2, <2>2, SymbolRight, GetFunctionFinds
        <3> QED
            BY <2>2, <3>1, <3>2
    <2> QED
        BY <1>4, <2>1, <2>2 DEF ValueRight
<1>7. llvm \in Expr
    <2>1. CASE v.form = "fn"
        <3>0. \A j \in DOMAIN source[i].params : ParamExpr(i, j).form = "param"
            BY DEF ParamExpr
        <3>1. v = FnExpr(env[source[i].use]) /\ env[source[i].use] \in DOMAIN source
            BY <1>4, <2>1, <3>0 DEF ValueRight
        <3>2. llvm = v
            BY <1>6, <2>1, <3>1 DEF ParamExpr, FnExpr
        <3> QED
            BY <1>4, <3>2
    <2> QED
        BY <1>4, <2>1
<1>8. /\ funs' = [funs EXCEPT ![i].body = Append(@, new)]
      /\ i' = i + 1 /\ pc' = pc
    BY <1>3, <1>5, <1>6 DEF LlvmDefine
<1>9. funs[i].body = << >> /\ funs[i] \in Function /\ funs \in Seq(Function)
    BY <1>1, <1>2, Indices DEF Linked, Llvm, TypeOK
<1>10. new.def = i /\ new.value = llvm /\ new \in [def : DOMAIN source, value : Expr]
    BY <1>1, <1>7
<1> HIDE DEF new, llvm
<1> DEFINE fun == [funs[i] EXCEPT !.body = <<new>>]
<1>11. fun \in Function /\ fun.symbol = funs[i].symbol /\ fun.body = <<new>>
    <2> DEFINE body == <<new>>
    <2>1. body \in Seq([def : DOMAIN source, value : Expr])
        BY <1>10
    <2> HIDE DEF body
    <2>2. [funs[i] EXCEPT !.body = body] \in Function
        BY <1>9, <2>1 DEF Function
    <2>3. DOMAIN funs[i] = {"symbol", "body"}
        BY <1>9 DEF Function
    <2> QED
        BY <2>2, <2>3 DEF body
<1>12. funs' = [funs EXCEPT ![i] = fun]
    BY <1>8, <1>9
<1> HIDE DEF fun
<1>13. /\ funs' \in Seq(Function) /\ DOMAIN funs' = DOMAIN funs /\ Len(funs') = Len(funs)
       /\ \A g \in DOMAIN funs :
            funs'[g].symbol = funs[g].symbol /\ (g # i => funs'[g] = funs[g])
       /\ funs'[i].body = <<new>>
    BY <1>1, <1>2, <1>9, <1>11, <1>12, ExceptSeq, LenProperties
<1>14. Len(funs'[i].body) = 1 /\ funs'[i].body[1] = new
    BY <1>13
<1> QED
    BY <1>1, <1>2, <1>6, <1>8, <1>10, <1>13, <1>14

-----------------------------------------------------------------------------
(* The invariant is inductive.                                             *)

LEMMA InitIInv == Init => IInv
<1> SUFFICES ASSUME Init PROVE IInv
    OBVIOUS
<1>1. /\ source = << >> /\ pc = "declare" /\ i = 1 /\ spelling = << >>
      /\ env = [s \in Spelling |-> None] /\ typed = << >>
      /\ exprs = << >> /\ fns = << >> /\ value = << >> /\ funs = << >>
    BY DEF Init
<1>2. TypeOK
    BY <1>1 DEF TypeOK, Following
<1>3. Sizes /\ FirstBound
    BY <1>1 DEF Sizes, FirstBound, N, Llvm
<1>4. Resolved /\ ParamsFresh /\ NamesStand /\ Converted
    BY <1>1 DEF Resolved, ParamsFresh, NamesStand, Converted, N
<1>5. Linked /\ FailuresJustified
    BY <1>1 DEF Linked, FailuresJustified, Llvm
<1> QED
    BY <1>2, <1>3, <1>4, <1>5 DEF IInv

\* The parts of the invariant about what a step leaves alone.
LEMMA StillBound ==
    ASSUME FirstBound, UNCHANGED <<source, spelling, env>> PROVE FirstBound'
BY DEF FirstBound, N

LEMMA StillResolved ==
    ASSUME Resolved, ParamsFresh, UNCHANGED <<source, env, typed>>
    PROVE  Resolved' /\ ParamsFresh'
BY DEF Resolved, UseResolved, IsFirst, IsParam, ParamsFresh, N

LEMMA StillStand ==
    ASSUME NamesStand, Converted, UNCHANGED <<source, env, typed, exprs, fns, value>>
    PROVE  NamesStand' /\ Converted'
BY DEF NamesStand, Converted, ValueRight, IsFirst, IsParam, N

LEMMA NextPassKeeps ==
    ASSUME IInv, NextPass PROVE IInv'
<1> USE DEF IInv
<1>1. /\ i = N + 1 /\ i' = 1 /\ UNCHANGED <<source, spelling, env, typed, exprs, fns, value, funs>>
      /\ N' = N /\ N \in Nat
    BY Indices DEF NextPass, N
<1>2. \/ pc = "declare" /\ pc' = "check"
      \/ pc = "check" /\ pc' = "cps_declare"
      \/ pc = "cps_declare" /\ pc' = "to_cps"
      \/ pc = "to_cps" /\ pc' = "print"
      \/ pc = "llvm_declare" /\ pc' = "llvm_define"
      \/ pc = "llvm_define" /\ pc' = "done"
    BY DEF NextPass, Following
<1>3. TypeOK'
    <2>1. pc' \in PassNames
        BY <1>2 DEF PassNames, Following
    <2> QED
        BY <1>1, <2>1, StillTypes
<1>4. Sizes'
    BY <1>1, <1>2 DEF Sizes, Llvm
<1>5. FirstBound' /\ Resolved' /\ ParamsFresh' /\ NamesStand' /\ Converted'
    BY <1>1, StillBound, StillResolved, StillStand
<1>6. Linked'
    <2> SUFFICES ASSUME pc' \in Llvm PROVE Linked'
        BY DEF Linked
    <2>1. pc \in {"llvm_declare", "llvm_define"} /\ pc \in Llvm /\ pc' \in {"llvm_define", "done"}
        BY <1>2 DEF Llvm
    <2>2. Distinct' /\ \A f \in DOMAIN fns' : fns'[f].entry # None
        BY <1>1, <2>1 DEF Linked, Distinct
    <2>3. \A g \in DOMAIN funs : funs[g].symbol = source[g].name
        BY <2>1 DEF Linked
    <2>4. CASE pc' = "llvm_define"
        <3>1. \A g \in DOMAIN funs : funs[g].body = << >> /\ ~(g < i')
            BY <1>1, <1>2, <2>1, <2>4, Indices DEF Linked
        <3> QED
            BY <1>1, <2>2, <2>3, <2>4, <3>1 DEF Linked
    <2>5. CASE pc' = "done"
        <3>0. pc = "llvm_define" /\ Len(funs) = N
            BY <1>2, <2>5 DEF Sizes
        <3>1. pc = "llvm_define" /\ \A g \in DOMAIN funs : g < i
            BY <1>1, <3>0, Indices
        <3>2. \A g \in DOMAIN funs :
                /\ Len(funs[g].body) = 1 /\ funs[g].body[1].def = g
                /\ Meant(g, funs[g].body[1].value)
            BY <2>1, <3>1 DEF Linked
        <3> QED
            BY <1>1, <2>2, <2>3, <2>5, <3>2 DEF Linked, Meant
    <2> QED
        BY <2>1, <2>4, <2>5
<1>7. FailuresJustified'
    BY <1>1, <1>2 DEF FailuresJustified, Distinct
<1> QED
    BY <1>3, <1>4, <1>5, <1>6, <1>7

LEMMA DeclareKeeps ==
    ASSUME IInv, NEW d \in Definition, Declare(d) PROVE IInv'
<1> USE DEF IInv
<1>1. /\ source' \in Seq(Definition) /\ N' = N + 1 /\ DOMAIN source' = 1..(N + 1)
      /\ \A e \in 1..N : source'[e] = source[e]
      /\ source'[N + 1] = d
      /\ spelling' \in Seq(Spelling) /\ Len(spelling') = Len(spelling) + 1
      /\ \A n \in Name : spelling'[n] = spelling[n]
      /\ spelling'[Len(spelling) + 1] = d.name
    BY DeclareMakes
<1>2. /\ pc = "declare" /\ pc' = pc /\ i' = i + 1 /\ UNCHANGED <<typed, exprs, fns, value, funs>>
      /\ env' = IF env[d.name] = None THEN [env EXCEPT ![d.name] = Len(spelling) + 1] ELSE env
    BY DEF Declare
<1>3. /\ i = N + 1 /\ Len(spelling) = N /\ DOMAIN exprs = {} /\ fns = << >> /\ typed = << >>
      /\ value = << >> /\ funs = << >> /\ N \in Nat /\ DOMAIN source = 1..N
    BY <1>2, Indices DEF Sizes
<1>4. d.name \in Spelling /\ env \in [Spelling -> Name \cup {None}] /\ Name \subseteq Name'
      /\ Name = 1..N /\ N + 1 \in Name'
    BY <1>1, <1>3, ParamLists DEF TypeOK, Name
<1>5. TypeOK'
    <2>1. env' \in [Spelling -> Name' \cup {None}]
        BY <1>2, <1>3, <1>4
    <2>2. i' \in 1..(Len(source') + 1)
        BY <1>1, <1>2, <1>3 DEF N
    <2> QED
        BY <1>1, <1>2, <1>3, <2>1, <2>2 DEF TypeOK
<1>6. Sizes'
    BY <1>1, <1>2, <1>3 DEF Sizes, Llvm
<1>7. FirstBound'
    <2>1. Len(spelling') >= N' /\ \A e \in DOMAIN source' : spelling'[e] = source'[e].name
        BY <1>1, <1>3, <1>4 DEF FirstBound
    <2>2. ASSUME NEW s \in Spelling
          PROVE  \/ env'[s] = None /\ \A e \in DOMAIN source' : source'[e].name # s
                 \/ /\ env'[s] \in DOMAIN source' /\ source'[env'[s]].name = s
                    /\ \A e \in 1..(env'[s] - 1) : source'[e].name # s
        <3>1. CASE env[s] = None /\ s = d.name
            <4>1. env'[s] = N + 1 /\ \A e \in 1..N : source'[e].name # s
                BY <1>1, <1>2, <1>3, <1>4, <3>1, NamesAssumption DEF FirstBound
            <4> QED
                BY <1>1, <1>3, <3>1, <4>1
        <3>2. CASE env[s] = None /\ s # d.name
            <4>1. env'[s] = None /\ \A e \in 1..N : source'[e].name # s
                BY <1>1, <1>2, <1>3, <1>4, <3>2, NamesAssumption DEF FirstBound
            <4> QED
                BY <1>1, <1>3, <3>2, <4>1
        <3>3. CASE env[s] # None
            <4>1. env'[s] = env[s] /\ env[s] \in 1..N /\ source[env[s]].name = s
                  /\ \A e \in 1..(env[s] - 1) : source[e].name # s
                BY <1>2, <1>3, <1>4, <3>3 DEF FirstBound
            <4> QED
                BY <1>1, <1>3, <4>1
        <3> QED
            BY <3>1, <3>2, <3>3
    <2> QED
        BY <2>1, <2>2 DEF FirstBound
<1>8. Resolved' /\ ParamsFresh' /\ NamesStand' /\ Converted'
    BY <1>1, <1>2, <1>3 DEF Resolved, ParamsFresh, NamesStand, Converted
<1>9. Linked' /\ FailuresJustified'
    BY <1>2 DEF Linked, FailuresJustified, Llvm
<1> QED
    BY <1>5, <1>6, <1>7, <1>8, <1>9

LEMMA CheckDefKeeps ==
    ASSUME IInv, CheckDef PROVE IInv'
<1> USE DEF IInv
<1> DEFINE d == source[i]
<1>1. /\ i \in DOMAIN source /\ pc = "check" /\ UNCHANGED <<source, env, exprs, fns, value, funs>>
      /\ N' = N /\ N \in Nat /\ DOMAIN source = 1..N
    BY Indices DEF CheckDef, At, N
<1>2. /\ DOMAIN exprs = {} /\ fns = << >> /\ Len(typed) = i - 1 /\ value = << >> /\ funs = << >>
    BY <1>1 DEF Sizes
<1>3. d \in Definition /\ d.use \in Spelling /\ DOMAIN d.params = 1..Len(d.params)
      /\ Len(d.params) \in Nat /\ d.params \in Seq(Spelling)
    BY <1>1, Indices, ParamLists
<1>4. CASE pc' = pc
    <2> DEFINE t == typed'[Len(typed) + 1]
    <2>1. /\ i' = i + 1
          /\ spelling' \in Seq(Spelling)
          /\ Len(spelling') = Len(spelling) + Len(d.params)
          /\ \A n \in Name : n \in Name' /\ spelling'[n] = spelling[n]
          /\ typed' \in Seq(Typed')
          /\ DOMAIN typed' = 1..i /\ Len(typed') = i
          /\ \A e \in DOMAIN typed : typed'[e] = typed[e]
          /\ Len(typed) + 1 = i
        BY <1>2, <1>4, CheckDefMakes, Indices
    <2>2. /\ t.name = env[d.name]
          /\ DOMAIN t.params = DOMAIN d.params
          /\ \A j \in DOMAIN d.params : t.params[j] = Len(spelling) + j
          /\ t.use = IF d.use \in Range(d.params)
                     THEN Len(spelling) + FirstOf(d.use, d.params) ELSE env[d.use]
          /\ t.use # None
        BY <1>4, CheckDefMakes
    <2> HIDE DEF d, t
    <2>3. t = typed'[i] /\ DOMAIN typed = 1..(i - 1) /\ Len(spelling) \in Nat
        BY <2>1, Indices DEF t
    <2>4. TypeOK'
        <3>1. env' \in [Spelling -> Name' \cup {None}]
            BY <1>1, <2>1 DEF TypeOK
        <3>2. i' \in 1..(Len(source') + 1)
            BY <1>1, <2>1 DEF N
        <3> QED
            BY <1>1, <1>2, <1>4, <2>1, <3>1, <3>2 DEF TypeOK
    <2>5. Sizes'
        BY <1>1, <1>2, <1>4, <2>1 DEF Sizes, Llvm
    <2>6. FirstBound'
        <3>1. Len(spelling') >= N
            BY <1>1, <1>3, <2>1, <2>3 DEF FirstBound
        <3>2. \A e \in DOMAIN source : spelling'[e] = source[e].name
            BY <1>1, <2>1, <2>3 DEF FirstBound, Name
        <3> QED
            BY <1>1, <3>1, <3>2 DEF FirstBound
    <2>7. Resolved'
        <3>1. ASSUME NEW e \in DOMAIN typed'
              PROVE  /\ typed'[e].name = env[source[e].name]
                     /\ DOMAIN typed'[e].params = DOMAIN source[e].params
                     /\ UseResolved(e)'
            <4>1. CASE e \in DOMAIN typed
                BY <1>1, <2>1, <4>1 DEF Resolved, UseResolved, IsFirst, IsParam
            <4>2. CASE e = i /\ d.use \in Range(d.params)
                <5> DEFINE j == FirstOf(d.use, d.params)
                <5>1. j \in DOMAIN d.params /\ d.params[j] = d.use
                      /\ \A k \in 1..(j - 1) : d.params[k] # d.use
                    BY <1>3, <4>2, FirstOfFinds
                <5>2. t.use = t.params[j]
                    BY <2>2, <4>2, <5>1
                <5> HIDE DEF j
                <5>3. UseResolved(e)'
                    BY <1>1, <2>2, <2>3, <4>2, <5>1, <5>2 DEF UseResolved, IsFirst, d
                <5> QED
                    BY <2>2, <2>3, <4>2, <5>3 DEF d
            <4>3. CASE e = i /\ d.use \notin Range(d.params)
                <5>1. env[d.use] \in DOMAIN source /\ t.use = env[d.use]
                    BY <1>3, <2>2, <4>3 DEF FirstBound
                <5>2. ~IsParam(i)
                    BY <4>3 DEF IsParam, Range, d
                <5>3. UseResolved(e)'
                    BY <1>1, <2>3, <4>3, <5>1, <5>2 DEF UseResolved, IsParam, d
                <5> QED
                    BY <2>2, <2>3, <4>3, <5>3 DEF d
            <4> QED
                BY <2>1, <2>3, <4>1, <4>2, <4>3, <1>1
        <3> QED
            BY <1>1, <2>1, <3>1 DEF Resolved
    <2>8. ParamsFresh'
        <3>1. \A e \in DOMAIN typed : \A j \in DOMAIN typed[e].params :
                typed[e].params[j] \in Nat /\ typed[e].params[j] <= Len(spelling)
            <4> TAKE e \in DOMAIN typed
            <4> TAKE j \in DOMAIN typed[e].params
            <4>1. typed[e].params \in Seq(Name)
                BY Indices DEF Typed
            <4>2. typed[e].params[j] \in Name
                BY <4>1, LenProperties, ElementOfSeq
            <4> QED
                BY <2>3, <4>2 DEF Name
        <3>2. \A j \in DOMAIN t.params :
                /\ t.params[j] > N /\ t.params[j] > Len(spelling)
                /\ \A k \in DOMAIN t.params : t.params[j] = t.params[k] => j = k
            BY <1>1, <1>3, <2>2, <2>3 DEF FirstBound
        <3>3. \A e \in DOMAIN typed' : e = i \/ e \in DOMAIN typed
            BY <1>1, <2>1, <2>3
        <3>4. ASSUME NEW e \in DOMAIN typed', NEW j \in DOMAIN typed'[e].params
              PROVE  /\ typed'[e].params[j] > N
                     /\ \A f \in DOMAIN typed' : \A k \in DOMAIN typed'[f].params :
                            typed'[e].params[j] = typed'[f].params[k] => e = f /\ j = k
            <4>1. typed'[e].params[j] > N
                BY <2>1, <2>3, <3>2, <3>3 DEF ParamsFresh
            <4>2. ASSUME NEW f \in DOMAIN typed', NEW k \in DOMAIN typed'[f].params,
                         typed'[e].params[j] = typed'[f].params[k]
                  PROVE  e = f /\ j = k
                <5>1. CASE e \in DOMAIN typed /\ f \in DOMAIN typed
                    BY <2>1, <4>2, <5>1 DEF ParamsFresh
                <5>2. CASE e = i /\ f = i
                    BY <2>3, <3>2, <4>2, <5>2
                <5>3. CASE e \in DOMAIN typed /\ f = i
                    <6>1. typed'[e] = typed[e] /\ typed'[f] = t
                        BY <2>1, <2>3, <5>3
                    <6>2. typed'[e].params[j] <= Len(spelling) /\ typed'[f].params[k] > Len(spelling)
                          /\ typed'[e].params[j] \in Nat
                        BY <3>1, <3>2, <5>3, <6>1
                    <6> QED
                        BY <2>3, <4>2, <6>2
                <5>4. CASE e = i /\ f \in DOMAIN typed
                    <6>1. typed'[f] = typed[f] /\ typed'[e] = t
                        BY <2>1, <2>3, <5>4
                    <6>2. typed'[f].params[k] <= Len(spelling) /\ typed'[e].params[j] > Len(spelling)
                          /\ typed'[f].params[k] \in Nat
                        BY <3>1, <3>2, <5>4, <6>1
                    <6> QED
                        BY <2>3, <4>2, <6>2
                <5> QED
                    BY <3>3, <5>1, <5>2, <5>3, <5>4
            <4> QED
                BY <4>1, <4>2
        <3> QED
            BY <1>1, <3>4 DEF ParamsFresh
    <2>9. NamesStand' /\ Converted'
        BY <1>1, <1>2, <2>1 DEF NamesStand, Converted
    <2>10. Linked' /\ FailuresJustified'
        BY <1>1, <1>4 DEF Linked, FailuresJustified, Llvm
    <2> QED
        BY <2>4, <2>5, <2>6, <2>7, <2>8, <2>9, <2>10
<1>5. CASE pc' # pc
    <2>1. /\ d.use \notin Range(d.params) /\ env[d.use] = None
          /\ pc' = "unbound" /\ UNCHANGED <<typed, spelling, i>>
        <3>1. d.use \in Range(d.params) => Fresh(FirstOf(d.use, d.params)) # None
            <4>1. d.use \in Range(d.params) => FirstOf(d.use, d.params) \in Nat
                BY <1>3, FirstOfFinds
            <4> QED
                BY <4>1, Indices, NamesAssumption DEF Fresh
        <3> QED
            BY <1>5, <3>1 DEF CheckDef
    <2>2. TypeOK'
        BY <1>1, <2>1, StillTypes DEF PassNames, TypeOK, N
    <2>3. Sizes'
        BY <2>1 DEF Sizes, Llvm
    <2>4. FirstBound' /\ Resolved' /\ ParamsFresh' /\ NamesStand' /\ Converted'
        BY <1>1, <2>1, StillBound, StillResolved, StillStand
    <2>5. Linked'
        BY <2>1 DEF Linked, Llvm
    <2>6. FailuresJustified'
        <3>1. \A j \in DOMAIN d.params : d.params[j] # d.use
            BY <2>1 DEF Range
        <3>2. \A e \in DOMAIN source : source[e].name # d.use
            BY <1>3, <1>1, <2>1, NamesAssumption DEF FirstBound
        <3> QED
            BY <1>1, <2>1, <3>1, <3>2 DEF FailuresJustified
    <2> QED
        BY <2>2, <2>3, <2>4, <2>5, <2>6
<1> QED
    BY <1>4, <1>5

LEMMA IllTypedKeeps ==
    ASSUME IInv, IllTyped PROVE IInv'
<1> USE DEF IInv
<1>1. /\ pc' = "type_error"
      /\ UNCHANGED <<source, i, spelling, env, typed, exprs, fns, value, funs>>
    BY DEF IllTyped
<1>2. TypeOK'
    BY <1>1, StillTypes DEF PassNames, TypeOK, N
<1>3. FirstBound' /\ Resolved' /\ ParamsFresh' /\ NamesStand' /\ Converted'
    BY <1>1, StillBound, StillResolved, StillStand
<1>4. Sizes' /\ Linked' /\ FailuresJustified'
    BY <1>1 DEF Sizes, Linked, FailuresJustified, Llvm
<1> QED
    BY <1>2, <1>3, <1>4

LEMMA CpsDeclareKeeps ==
    ASSUME IInv, CpsDeclare PROVE IInv'
<1> USE DEF IInv
<1> DEFINE name == typed[i].name
<1>1. /\ pc = "cps_declare" /\ i \in DOMAIN source /\ i \in DOMAIN typed /\ Len(fns) + 1 = i
      /\ name = env[source[i].name] /\ name \in Name
      /\ fns' \in Seq(Fn) /\ Len(fns') = i /\ DOMAIN fns' = 1..i
      /\ \A f \in DOMAIN fns : fns'[f] = fns[f]
      /\ fns'[i] = [name |-> name, entry |-> None]
      /\ DOMAIN exprs' = DOMAIN exprs \cup {name}
      /\ \A n \in DOMAIN exprs : exprs'[n] = exprs[n]
      /\ name \notin DOMAIN exprs => exprs'[name] = FnExpr(i)
    BY CpsDeclareMakes
<1>2. /\ pc' = pc /\ i' = i + 1 /\ UNCHANGED <<source, spelling, env, typed, value, funs>>
      /\ N' = N /\ N \in Nat /\ DOMAIN source = 1..N
    BY Indices DEF CpsDeclare, N
<1>3. Len(typed) = N /\ value = << >> /\ funs = << >> /\ DOMAIN fns = 1..(i - 1)
    BY <1>1, Indices DEF Sizes
<1> HIDE DEF name
<1>4. TypeOK'
    <2>1. DOMAIN exprs' \subseteq Name'
        BY <1>1, <1>2 DEF TypeOK, Name
    <2>2. FnExpr(i) \in Expr
        BY <1>1 DEF FnExpr, Expr
    <2>3. \A n \in DOMAIN exprs' : exprs'[n] \in Expr
        BY <1>1, <2>2 DEF TypeOK
    <2>4. i' \in 1..(Len(source') + 1)
        BY <1>1, <1>2 DEF N
    <2> QED
        BY <1>1, <1>2, <2>1, <2>3, <2>4 DEF TypeOK, Name, Expr, Typed, Fn, Function
<1>5. Sizes'
    BY <1>1, <1>2, <1>3 DEF Sizes, Llvm
<1>6. FirstBound' /\ Resolved' /\ ParamsFresh'
    BY <1>2, StillBound, StillResolved
<1>7. NamesStand'
    <2>1. Len(fns') <= Len(typed')
        BY <1>1, <1>2, <1>3
    <2>2. \A f \in DOMAIN fns' : fns'[f].name = typed[f].name /\ fns'[f].name \in DOMAIN exprs'
        BY <1>1, <1>3 DEF NamesStand, name
    <2>3. name \notin DOMAIN exprs => name = i
        <3>1. name \in DOMAIN source /\ name <= i /\ env[source[name].name] = name
            BY <1>1, DefinitionBound
        <3>2. name \in DOMAIN fns => fns[name].name = name /\ name \in DOMAIN exprs
            BY <1>2, <1>3, <3>1 DEF NamesStand, Resolved
        <3> QED
            BY <1>1, <1>2, <1>3, <3>1, <3>2
    <2>4. ASSUME NEW n \in DOMAIN exprs'
          PROVE  IF n <= N THEN n \in DOMAIN fns' /\ exprs'[n] = FnExpr(n)
                 ELSE \E d \in DOMAIN value : \E j \in DOMAIN typed[d].params :
                        typed[d].params[j] = n /\ exprs'[n] = ParamExpr(d, j)
        <3>1. CASE n \in DOMAIN exprs
            BY <1>1, <1>3, <3>1 DEF NamesStand
        <3>2. CASE n \notin DOMAIN exprs
            <4>1. n = i /\ exprs'[n] = FnExpr(n)
                BY <1>1, <2>3, <3>2
            <4> QED
                BY <1>1, <1>2, <4>1
        <3> QED
            BY <3>1, <3>2
    <2> QED
        BY <1>2, <2>1, <2>2, <2>4 DEF NamesStand
<1>8. Converted'
    BY <1>1, <1>2, <1>3 DEF Converted
<1>9. Linked' /\ FailuresJustified'
    BY <1>1, <1>2 DEF Linked, FailuresJustified, Llvm
<1> QED
    BY <1>4, <1>5, <1>6, <1>7, <1>8, <1>9

LEMMA ToCpsKeeps ==
    ASSUME IInv, ToCps PROVE IInv'
<1> USE DEF IInv
<1> DEFINE t == typed[i]
<1>1. /\ pc = "to_cps" /\ pc' = pc /\ i' = i + 1
      /\ i \in DOMAIN source /\ i \in DOMAIN typed /\ Len(value) + 1 = i
      /\ t.name = env[source[i].name] /\ t.name \in DOMAIN fns
      /\ fns' \in Seq(Fn) /\ Len(fns') = Len(fns) /\ DOMAIN fns' = DOMAIN fns
      /\ \A f \in DOMAIN fns :
           /\ fns'[f].name = fns[f].name
           /\ fns'[f].entry = IF f = t.name THEN i ELSE fns[f].entry
      /\ value' \in Seq(Expr) /\ DOMAIN value' = 1..i /\ Len(value') = i
      /\ \A d \in DOMAIN value : value'[d] = value[d]
    BY ToCpsMakes
<1>2. /\ DOMAIN exprs' = DOMAIN exprs \cup Range(t.params)
      /\ \A n \in DOMAIN exprs : exprs'[n] = exprs[n]
      /\ \A j \in DOMAIN t.params :
           t.params[j] \notin DOMAIN exprs /\ exprs'[t.params[j]] = ParamExpr(i, j)
    BY ToCpsMakes
<1>3. \/ \E j \in DOMAIN source[i].params : IsFirst(i, j) /\ value'[i] = ParamExpr(i, j)
      \/ /\ ~IsParam(i) /\ env[source[i].use] \in DOMAIN source
         /\ value'[i] = FnExpr(env[source[i].use])
    BY ToCpsMakes
<1>4. /\ UNCHANGED <<source, spelling, env, typed, funs>>
      /\ N' = N /\ N \in Nat /\ DOMAIN source = 1..N
    BY Indices DEF ToCps, N
<1>5. Len(fns) = N /\ Len(typed) = N /\ DOMAIN value = 1..(i - 1) /\ DOMAIN fns = 1..N
    BY <1>1, Indices DEF Sizes
<1>6. t \in Typed /\ t.params \in Seq(Name)
    BY <1>1, Indices DEF Typed
<1>7. \A j \in DOMAIN t.params : t.params[j] \in Name /\ t.params[j] > N /\ j \in Nat
    BY <1>1, <1>6, LenProperties, ElementOfSeq DEF ParamsFresh
<1> HIDE DEF t
<1>8. TypeOK'
    <2>1. DOMAIN exprs' \subseteq Name'
        BY <1>2, <1>4, <1>7 DEF TypeOK, Name, Range
    <2>2. \A j \in Nat : ParamExpr(i, j) \in Expr
        BY <1>1 DEF ParamExpr, Expr
    <2>3. ASSUME NEW n \in DOMAIN exprs'
          PROVE  exprs'[n] \in Expr
        <3>1. CASE n \in DOMAIN exprs
            BY <1>2, <3>1 DEF TypeOK
        <3>2. CASE n \in Range(t.params)
            <4>1. PICK j \in DOMAIN t.params : t.params[j] = n
                BY <3>2 DEF Range
            <4> QED
                BY <1>2, <1>7, <2>2, <4>1
        <3> QED
            BY <1>2, <3>1, <3>2
    <2>4. i' \in 1..(Len(source') + 1)
        BY <1>1, <1>4 DEF N
    <2> QED
        BY <1>1, <1>4, <2>1, <2>3, <2>4 DEF TypeOK, Name, Expr, Typed, Fn, Function
<1>9. Sizes'
    BY <1>1, <1>4, <1>5 DEF Sizes, Llvm
<1>10. FirstBound' /\ Resolved' /\ ParamsFresh'
    BY <1>4, StillBound, StillResolved
<1>11. NamesStand'
    <2>1. \A f \in DOMAIN fns' : fns'[f].name = typed[f].name /\ fns'[f].name \in DOMAIN exprs'
        BY <1>1, <1>2 DEF NamesStand
    <2>2. ASSUME NEW n \in DOMAIN exprs'
          PROVE  IF n <= N THEN n \in DOMAIN fns' /\ exprs'[n] = FnExpr(n)
                 ELSE \E d \in DOMAIN value' : \E j \in DOMAIN typed[d].params :
                        typed[d].params[j] = n /\ exprs'[n] = ParamExpr(d, j)
        <3>1. CASE n \in DOMAIN exprs
            <4>1. DOMAIN value \subseteq DOMAIN value'
                BY <1>1, <1>4, <1>5
            <4> QED
                BY <1>1, <1>2, <3>1, <4>1 DEF NamesStand
        <3>2. CASE n \in Range(t.params)
            <4>1. PICK j \in DOMAIN t.params : t.params[j] = n
                BY <3>2 DEF Range
            <4>2. n > N /\ n \in Nat /\ exprs'[n] = ParamExpr(i, j)
                BY <1>2, <1>7, <4>1, Indices DEF Name
            <4>3. i \in DOMAIN value'
                BY <1>1, <1>4
            <4> QED
                BY <1>4, <4>1, <4>2, <4>3 DEF t
        <3> QED
            BY <1>2, <3>1, <3>2
    <2> QED
        BY <1>1, <1>4, <2>1, <2>2 DEF NamesStand
<1>12. Converted'
    <2>1. Len(value') <= Len(fns')
        BY <1>1, <1>4, <1>5
    <2>2. ASSUME NEW d \in DOMAIN value'
          PROVE  ValueRight(d)' /\ fns'[env[source[d].name]].entry # None
        <3>1. CASE d \in DOMAIN value
            <4>1. ValueRight(d)'
                BY <1>1, <1>4, <3>1 DEF Converted, ValueRight, IsFirst, IsParam
            <4>2. env[source[d].name] \in DOMAIN fns
                BY <1>4, <1>5, <1>1, <3>1, DefinitionBound
            <4>3. fns'[env[source[d].name]].entry # None
                BY <1>1, <1>4, <3>1, <4>2, NamesAssumption DEF Converted
            <4> QED
                BY <4>1, <4>3
        <3>2. CASE d = i
            <4>1. ValueRight(d)'
                BY <1>3, <1>4, <3>2 DEF ValueRight, IsFirst, IsParam
            <4> QED
                BY <1>1, <1>4, <3>2, <4>1, NamesAssumption
        <3> QED
            BY <1>1, <1>4, <1>5, <3>1, <3>2
    <2>3. ASSUME NEW f \in DOMAIN fns', fns'[f].entry # None
          PROVE  fns'[f].entry \in DOMAIN value' /\ f = env[source[fns'[f].entry].name]
        <3>1. CASE f = t.name
            BY <1>1, <1>4, <3>1
        <3>2. CASE f # t.name
            <4>1. fns'[f].entry = fns[f].entry /\ f \in DOMAIN fns
                BY <1>1, <3>2
            <4>2. fns[f].entry \in DOMAIN value /\ f = env[source[fns[f].entry].name]
                BY <2>3, <4>1 DEF Converted
            <4> QED
                BY <1>1, <1>4, <1>5, <4>1, <4>2
        <3> QED
            BY <3>1, <3>2
    <2> QED
        BY <1>4, <2>1, <2>2, <2>3 DEF Converted
<1>13. Linked' /\ FailuresJustified'
    BY <1>1 DEF Linked, FailuresJustified, Llvm
<1> QED
    BY <1>8, <1>9, <1>10, <1>11, <1>12, <1>13

LEMMA PrintDefsKeeps ==
    ASSUME IInv, PrintDefs PROVE IInv'
<1> USE DEF IInv
<1>1. /\ pc = "print" /\ i' = 1
      /\ UNCHANGED <<source, spelling, env, typed, exprs, fns, value, funs>>
      /\ N' = N /\ N \in Nat /\ DOMAIN source = 1..N
    BY Indices DEF PrintDefs, N
<1>2. \/ pc' = "null" /\ \E f \in DOMAIN fns : fns[f].entry = None
      \/ pc' = "llvm_declare" /\ \A f \in DOMAIN fns : fns[f].entry # None
    BY DEF PrintDefs
<1>3. /\ Len(typed) = N /\ Len(fns) = N /\ Len(value) = N /\ funs = << >>
      /\ DOMAIN fns = 1..N /\ DOMAIN value = 1..N
    BY <1>1, Indices DEF Sizes
<1>4. TypeOK'
    BY <1>1, <1>2, StillTypes DEF PassNames, Following
<1>5. Sizes'
    BY <1>1, <1>2, <1>3 DEF Sizes, Llvm
<1>6. FirstBound' /\ Resolved' /\ ParamsFresh' /\ NamesStand' /\ Converted'
    BY <1>1, StillBound, StillResolved, StillStand
<1>7. pc' = "null" => ~Distinct
    <2> SUFFICES ASSUME pc' = "null", Distinct PROVE FALSE
        OBVIOUS
    <2>1. PICK f \in DOMAIN fns : fns[f].entry = None
        BY <1>2
    <2>2. env[source[f].name] = f
        BY <1>1, <1>3, DistinctBound
    <2> QED
        BY <1>3, <2>1, <2>2 DEF Converted
<1>8. pc' = "llvm_declare" => Distinct
    <2> SUFFICES ASSUME pc' = "llvm_declare", NEW d \in DOMAIN source, NEW e \in DOMAIN source,
                        source[d].name = source[e].name
                 PROVE  d = e
        BY DEF Distinct
    <2>1. ASSUME NEW f \in DOMAIN source
          PROVE  env[source[f].name] = f
        <3>1. fns[f].entry # None
            BY <1>1, <1>2, <1>3, <2>1
        <3>2. fns[f].entry \in DOMAIN source /\ f = env[source[fns[f].entry].name]
            BY <1>1, <1>3, <3>1 DEF Converted
        <3> QED
            BY <3>2, DefinitionBound
    <2> QED
        BY <2>1
<1>9. Linked'
    BY <1>1, <1>2, <1>3, <1>8 DEF Linked, Distinct, Llvm
<1>10. FailuresJustified'
    BY <1>1, <1>2, <1>7, <1>8 DEF FailuresJustified, Distinct
<1> QED
    BY <1>4, <1>5, <1>6, <1>9, <1>10

LEMMA LlvmDeclareKeeps ==
    ASSUME IInv, LlvmDeclare PROVE IInv'
<1> USE DEF IInv
<1>1. /\ pc = "llvm_declare" /\ i \in DOMAIN source /\ Len(funs) + 1 = i
      /\ funs' \in Seq(Function) /\ DOMAIN funs' = 1..i /\ Len(funs') = i
      /\ \A g \in DOMAIN funs : funs'[g] = funs[g]
      /\ funs'[i] = [symbol |-> source[i].name, body |-> << >>]
    BY LlvmDeclareMakes
<1>2. /\ pc' = pc /\ i' = i + 1
      /\ UNCHANGED <<source, spelling, env, typed, exprs, fns, value>>
      /\ N' = N /\ N \in Nat /\ DOMAIN source = 1..N
    BY Indices DEF LlvmDeclare, N
<1>3. DOMAIN funs = 1..(i - 1)
    BY <1>1, Indices
<1>4. TypeOK'
    <2>1. i' \in 1..(Len(source') + 1)
        BY <1>1, <1>2 DEF N
    <2> QED
        BY <1>1, <1>2, <2>1 DEF TypeOK, Name, Expr, Typed, Fn, Function
<1>5. Sizes'
    BY <1>1, <1>2 DEF Sizes, Llvm
<1>6. FirstBound' /\ Resolved' /\ ParamsFresh' /\ NamesStand' /\ Converted'
    BY <1>2, StillBound, StillResolved, StillStand
<1>7. Linked'
    <2>1. Distinct /\ \A f \in DOMAIN fns : fns[f].entry # None
        BY <1>1 DEF Linked, Llvm
    <2>2. \A g \in DOMAIN funs' : funs'[g].symbol = source[g].name /\ funs'[g].body = << >>
        BY <1>1, <1>2, <1>3 DEF Linked, Llvm
    <2> QED
        BY <1>1, <1>2, <2>1, <2>2 DEF Linked, Distinct
<1>8. FailuresJustified'
    BY <1>1, <1>2 DEF FailuresJustified, Distinct
<1> QED
    BY <1>4, <1>5, <1>6, <1>7, <1>8

LEMMA LlvmDefineKeeps ==
    ASSUME IInv, LlvmDefine PROVE IInv'
<1> USE DEF IInv
<1>1. /\ pc = "llvm_define" /\ pc' = pc /\ i' = i + 1 /\ i \in DOMAIN source
      /\ funs' \in Seq(Function) /\ DOMAIN funs' = DOMAIN funs
      /\ Len(funs') = Len(funs) /\ DOMAIN funs = DOMAIN source
      /\ \A g \in DOMAIN funs :
           funs'[g].symbol = funs[g].symbol /\ (g # i => funs'[g] = funs[g])
      /\ Len(funs'[i].body) = 1 /\ funs'[i].body[1].def = i
      /\ \/ \E j \in DOMAIN source[i].params :
               IsFirst(i, j) /\ funs'[i].body[1].value = ParamExpr(i, j)
         \/ /\ ~IsParam(i) /\ env[source[i].use] \in DOMAIN source
            /\ funs'[i].body[1].value = FnExpr(env[source[i].use])
    BY LlvmDefineMakes
<1>2. /\ UNCHANGED <<source, spelling, env, typed, exprs, fns, value>>
      /\ N' = N /\ N \in Nat /\ DOMAIN source = 1..N
    BY Indices DEF LlvmDefine, N
<1>3. TypeOK'
    <2>1. i' \in 1..(Len(source') + 1)
        BY <1>1, <1>2 DEF N
    <2> QED
        BY <1>1, <1>2, <2>1 DEF TypeOK, Name, Expr, Typed, Fn, Function
<1>4. Sizes'
    BY <1>1, <1>2 DEF Sizes, Llvm
<1>5. FirstBound' /\ Resolved' /\ ParamsFresh' /\ NamesStand' /\ Converted'
    BY <1>2, StillBound, StillResolved, StillStand
<1>6. Linked'
    <2>1. Distinct /\ \A f \in DOMAIN fns : fns[f].entry # None
        BY <1>1 DEF Linked, Llvm
    <2>2. \A g \in DOMAIN funs : funs[g].symbol = source[g].name /\ funs'[g].symbol = source[g].name
        BY <1>1 DEF Linked, Llvm
    <2>3. ASSUME NEW g \in DOMAIN funs'
          PROVE  IF g < i + 1
                 THEN /\ Len(funs'[g].body) = 1 /\ funs'[g].body[1].def = g
                      /\ Meant(g, funs[g].body[1].value)'
                 ELSE funs'[g].body = << >>
        <3>1. CASE g = i
            <4> DEFINE v == funs'[i].body[1].value
            <4>1. CASE \E j \in DOMAIN source[i].params : IsFirst(i, j) /\ v = ParamExpr(i, j)
                <5>1. Meant(g, funs[g].body[1].value)'
                    BY <1>2, <3>1, <4>1 DEF Meant, IsFirst
                <5> QED
                    BY <1>1, <1>2, <3>1, <5>1
            <4>2. CASE ~IsParam(i) /\ env[source[i].use] \in DOMAIN source
                       /\ v = FnExpr(env[source[i].use])
                <5> DEFINE f == env[source[i].use]
                <5>1. source[i].use \in Spelling
                    BY <1>1, DefinitionBound
                <5>2. f \in DOMAIN funs' /\ source[f].name = source[i].use
                    BY <1>1, <4>2, <5>1, <1>2, NamesAssumption DEF FirstBound
                <5>3. funs'[f].symbol = source[i].use
                    BY <1>1, <2>2, <5>2
                <5>4. Meant(g, funs[g].body[1].value)'
                    BY <1>2, <3>1, <4>2, <5>2, <5>3 DEF Meant, IsParam
                <5> QED
                    BY <1>1, <1>2, <3>1, <5>4
            <4> QED
                BY <1>1, <4>1, <4>2
        <3>2. CASE g # i
            <4>1. funs'[g] = funs[g] /\ g \in DOMAIN funs /\ (g < i + 1 <=> g < i)
                BY <1>1, <1>2, <3>2
            <4>2. CASE g < i
                <5>1. /\ Len(funs[g].body) = 1 /\ funs[g].body[1].def = g
                      /\ Meant(g, funs[g].body[1].value)
                    BY <1>1, <4>1, <4>2 DEF Linked, Llvm
                <5>2. Meant(g, funs[g].body[1].value)'
                    BY <1>1, <1>2, <4>1, <5>1 DEF Meant
                <5> QED
                    BY <4>1, <4>2, <5>1, <5>2
            <4>3. CASE ~(g < i)
                BY <1>1, <4>1, <4>3 DEF Linked, Llvm
            <4> QED
                BY <4>2, <4>3
        <3> QED
            BY <3>1, <3>2
    <2> QED
        BY <1>1, <1>2, <2>1, <2>2, <2>3 DEF Linked, Distinct
<1>7. FailuresJustified'
    BY <1>1, <1>2 DEF FailuresJustified, Distinct
<1> QED
    BY <1>3, <1>4, <1>5, <1>6, <1>7

LEMMA StutterKeeps == ASSUME IInv, UNCHANGED vars PROVE IInv'
<1>1. UNCHANGED <<source, pc, i, spelling, env, typed, exprs, fns, value, funs>>
    BY DEF vars
<1>2. TypeOK'
    BY <1>1 DEF IInv, TypeOK, Name, Expr, Typed, Fn, Function
<1>3. FirstBound' /\ Resolved' /\ ParamsFresh' /\ NamesStand' /\ Converted'
    BY <1>1, StillBound, StillResolved, StillStand DEF IInv
<1>4. Sizes' /\ FailuresJustified'
    BY <1>1 DEF IInv, Sizes, FailuresJustified, Distinct, N
<1>5. Linked'
    BY <1>1 DEF IInv, Linked, Distinct, Meant
<1> QED
    BY <1>2, <1>3, <1>4, <1>5 DEF IInv

LEMMA NextIInv == IInv /\ [Next]_vars => IInv'
<1> SUFFICES ASSUME IInv, [Next]_vars PROVE IInv'
    OBVIOUS
<1>1. CASE NextPass
    BY <1>1, NextPassKeeps
<1>2. CASE \E d \in Definition : Declare(d)
    BY <1>2, DeclareKeeps
<1>3. CASE CheckDef
    BY <1>3, CheckDefKeeps
<1>4. CASE IllTyped
    BY <1>4, IllTypedKeeps
<1>5. CASE CpsDeclare
    BY <1>5, CpsDeclareKeeps
<1>6. CASE ToCps
    BY <1>6, ToCpsKeeps
<1>7. CASE PrintDefs
    BY <1>7, PrintDefsKeeps
<1>8. CASE LlvmDeclare
    BY <1>8, LlvmDeclareKeeps
<1>9. CASE LlvmDefine
    BY <1>9, LlvmDefineKeeps
<1>10. CASE UNCHANGED vars
    BY <1>10, StutterKeeps
<1> QED
    BY <1>1, <1>2, <1>3, <1>4, <1>5, <1>6, <1>7, <1>8, <1>9, <1>10 DEF Next

LEMMA Invariant == Spec => []IInv
<1> QED
    BY InitIInv, NextIInv, PTL DEF Spec

-----------------------------------------------------------------------------
(* The theorems.                                                           *)

\* What every pass computes has its type: a number it keeps for a name, a
\* definition or a Fn stands for one that there is.
THEOREM TypesCorrect == Spec => []TypeOK
<1>1. IInv => TypeOK
    BY DEF IInv
<1> QED
    BY <1>1, Invariant, PTL

\* A program of any number of functions is linked as its source says: every
\* definition becomes the function of its name, once, with its own body, and the
\* name in the body stands for the first parameter of that name, or else for the
\* function of the definition of that name (Program::to_llvm, Fn::llvm_define).
THEOREM LinkingIsLexical == Spec => []LinksLexically
<1>1. ASSUME IInv PROVE LinksLexically
    <2> SUFFICES ASSUME pc = "done" PROVE LinksLexically
        BY DEF LinksLexically
    <2>1. Len(funs) = Len(source) /\ DOMAIN funs = DOMAIN source
        BY <1>1, Indices DEF IInv, Sizes, N
    <2>2. \A g \in DOMAIN funs :
            /\ funs[g].symbol = source[g].name
            /\ Len(funs[g].body) = 1 /\ funs[g].body[1].def = g
            /\ Meant(g, funs[g].body[1].value)
        BY <1>1 DEF IInv, Linked, Llvm
    <2> QED
        BY <2>1, <2>2 DEF LinksLexically
<1> QED
    BY <1>1, Invariant, PTL

\* A use is unbound only when no definition has the name, no pass throws for a
\* name it does not find, and the passes get to LLVM if and only if no two
\* definitions have the same name.
THEOREM FailingIsJustified == Spec => []FailuresJustified
<1>1. IInv => FailuresJustified
    BY DEF IInv
<1> QED
    BY <1>1, Invariant, PTL
=============================================================================
