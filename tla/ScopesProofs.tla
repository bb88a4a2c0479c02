---------------------------- MODULE ScopesProofs ----------------------------
(***************************************************************************)
(* Proofs about names and scopes, for any spellings, any number of stack   *)
(* slots, names and definitions.                                           *)
(***************************************************************************)
EXTENDS Scopes, SequenceTheorems, TLAPS

Top == Len(stack)

\* The activations own the frames, and the parent of each frame is the frame
\* of the next activation.
Chain ==
    /\ \A j, k \in DOMAIN stack : stack[j] = stack[k] => j = k
    /\ live = {stack[k] : k \in DOMAIN stack}
    /\ \A k \in DOMAIN stack :
            parent[stack[k]] = IF k = Top THEN None ELSE stack[k + 1]

\* The running find has looked at the frames inside the one it looks at.
FindOK ==
    at # None =>
        /\ phase = "check"
        /\ \E k \in DOMAIN stack :
              /\ at = stack[k]
              /\ \A j \in 1..(k - 1) : wanted \notin DOMAIN bindings[stack[j]]

\* The definitions to check are declared in the outermost frame.
DefsOK ==
    /\ phase = "parse" => defs = << >>
    /\ phase = "declare" => Top = 1
    /\ \A k \in DOMAIN defs : defs[k] \in DOMAIN bindings[stack[Top]]

IInv == /\ TypeOK /\ Chain /\ NoDangling /\ FindOK
        /\ UniqueBinders /\ SpellingKept /\ DefsOK /\ DefsFound

-----------------------------------------------------------------------------
(* Sequences and maps.                                                     *)

\* Pushing an element, index by index.
LEMMA PushSeq ==
    ASSUME NEW S, NEW s \in Seq(S), NEW e \in S
    PROVE  /\ <<e>> \o s \in Seq(S)
           /\ Len(<<e>> \o s) = Len(s) + 1
           /\ \A k \in 1..(Len(s) + 1) :
                    (<<e>> \o s)[k] = IF k = 1 THEN e ELSE s[k - 1]
<1>1. <<e>> \in Seq(S) /\ Len(<<e>>) = 1 /\ <<e>>[1] = e
  OBVIOUS
<1>2. Len(s) \in Nat
  BY LenProperties
<1>3. /\ <<e>> \o s \in Seq(S)
      /\ Len(<<e>> \o s) = Len(<<e>>) + Len(s)
      /\ \A k \in 1..(Len(<<e>>) + Len(s)) :
            (<<e>> \o s)[k] = IF k <= Len(<<e>>) THEN <<e>>[k] ELSE s[k - Len(<<e>>)]
  BY <1>1, ConcatProperties
<1> QED
  BY <1>1, <1>2, <1>3

\* Popping an element, index by index.
LEMMA PopSeq ==
    ASSUME NEW S, NEW s \in Seq(S), s # << >>
    PROVE  /\ Tail(s) \in Seq(S)
           /\ Len(s) \in Nat \ {0} /\ Len(Tail(s)) = Len(s) - 1
           /\ \A k \in 1..(Len(s) - 1) : Tail(s)[k] = s[k + 1]
           /\ Head(s) = s[1] /\ Head(s) \in S
  BY HeadTailProperties, EmptySeq

Maps(S, K) == UNION {[T -> K] : T \in SUBSET S}

\* A partial function from S to K, by its domain and its range.
LEMMA MapType ==
    ASSUME NEW S, NEW K, NEW map
    PROVE  map \in Maps(S, K) <=> DOMAIN map \subseteq S /\ map \in [DOMAIN map -> K]
  BY DEF Maps

\* Partial functions between larger sets.
LEMMA MapMono ==
    ASSUME NEW S, NEW K, NEW S2, NEW K2, S \subseteq S2, K \subseteq K2,
           NEW map \in Maps(S, K)
    PROVE  map \in Maps(S2, K2)
<1>1. DOMAIN map \subseteq S /\ map \in [DOMAIN map -> K]
  BY MapType
<1>2. map \in [DOMAIN map -> K2]
  BY <1>1
<1> QED
  BY <1>1, <1>2, MapType

\* The empty TypeEnv is a partial function.
LEMMA EmptyMap ==
    ASSUME NEW S, NEW K
    PROVE  Empty \in Maps(S, K) /\ DOMAIN Empty = {}
<1>1. DOMAIN Empty = {} /\ Empty \in [DOMAIN Empty -> K]
  BY DEF Empty
<1> QED
  BY <1>1, MapType

\* Insert adds a binding and keeps those that are there.
LEMMA InsertMap ==
    ASSUME NEW S, NEW K, NEW map \in Maps(S, K), NEW n \in S, NEW u, NEW K2,
           K \subseteq K2, u \in K2
    PROVE  /\ Insert(map, n, u) \in Maps(S, K2)
           /\ DOMAIN Insert(map, n, u) = DOMAIN map \cup {n}
           /\ \A m \in DOMAIN map : Insert(map, n, u)[m] = map[m]
           /\ n \notin DOMAIN map => Insert(map, n, u)[n] = u
<1> DEFINE new == Insert(map, n, u)
<1>1. DOMAIN map \subseteq S /\ map \in [DOMAIN map -> K]
  BY MapType
<1>2. /\ DOMAIN new = DOMAIN map \cup {n}
      /\ \A m \in DOMAIN map : new[m] = map[m]
      /\ n \notin DOMAIN map => new[n] = u
      /\ new \in [DOMAIN new -> K2]
  BY <1>1 DEF Insert
<1> HIDE DEF new
<1>3. new \in Maps(S, K2)
  BY <1>1, <1>2, MapType
<1> QED
  BY <1>2, <1>3 DEF new

-----------------------------------------------------------------------------
(* Types.                                                                  *)

\* The contents of a TypeEnv are partial functions.
LEMMA BindingsAreMaps == Bindings = Maps(Source, Known)
  BY DEF Bindings, Maps

\* Interned names were given out.
LEMMA SourceKnown == TypeOK => Source \subseteq Known
  BY DEF TypeOK, Source

\* Names are only added.
LEMMA FreshKeeps ==
    ASSUME TypeOK, NEW new \in Seq(Chars \cup {None}), Fresh(new)
    PROVE  /\ chars' \in Seq(Chars \cup {None})
           /\ Len(chars') = Len(chars) + Len(new) /\ Len(chars') <= MaxNames
           /\ Len(chars) \in Nat /\ Len(new) \in Nat
           /\ Known \subseteq Known'
           /\ \A n \in Known : Spelling(n)' = Spelling(n)
           /\ \A i \in 1..Len(new) :
                    /\ Len(chars) + i - 1 \in Known'
                    /\ chars'[Len(chars) + i] = new[i]
<1>1. chars \in Seq(Chars \cup {None}) /\ Len(chars) \in Nat /\ Len(new) \in Nat
  BY LenProperties DEF TypeOK
<1>2. /\ chars' \in Seq(Chars \cup {None})
      /\ Len(chars') = Len(chars) + Len(new)
      /\ \A i \in 1..(Len(chars) + Len(new)) :
            chars'[i] = IF i <= Len(chars) THEN chars[i] ELSE new[i - Len(chars)]
  BY <1>1, ConcatProperties DEF Fresh
<1>3. Len(chars') <= MaxNames
  BY <1>1, <1>2, ScopesAssumption DEF Fresh
<1>4. Known \subseteq Known' /\ \A n \in Known : Spelling(n)' = Spelling(n)
  BY <1>1, <1>2 DEF Known, Spelling
<1>5. ASSUME NEW i \in 1..Len(new)
      PROVE  /\ Len(chars) + i - 1 \in Known'
             /\ chars'[Len(chars) + i] = new[i]
  <2>1. Len(chars) + i \in 1..(Len(chars) + Len(new)) /\ ~(Len(chars) + i <= Len(chars))
    BY <1>1
  <2>2. chars'[Len(chars) + i] = new[(Len(chars) + i) - Len(chars)]
    BY <1>2, <2>1
  <2>3. Len(chars) + i - 1 \in 0..(Len(chars') - 1)
    BY <1>1, <1>2
  <2>4. chars'[Len(chars) + i] = new[i]
    BY <1>1, <2>2
  <2> QED
    BY <2>3, <2>4 DEF Known
<1> QED
  BY <1>1, <1>2, <1>3, <1>4, <1>5

\* The two names of a declaration.
LEMMA FreshForKeeps ==
    ASSUME TypeOK, NEW n \in Source, FreshFor(n)
    PROVE  /\ chars' \in Seq(Chars \cup {None}) /\ Len(chars') <= MaxNames
           /\ Known \subseteq Known'
           /\ \A m \in Known : Spelling(m)' = Spelling(m)
           /\ Len(chars) \in Nat /\ Len(chars) + 1 \in Known'
           /\ Len(chars) + 1 \notin Known
           /\ chars'[Len(chars) + 2] = Spelling(n)
<1>1. n \in Known /\ chars \in Seq(Chars \cup {None}) /\ Len(chars) \in Nat
  BY SourceKnown, LenProperties DEF TypeOK
<1>2. Spelling(n) \in Chars \cup {None}
  BY <1>1, ElementOfSeq DEF Known, Spelling
<1> DEFINE new == <<None, Spelling(n)>>
<1>3. new \in Seq(Chars \cup {None}) /\ Len(new) = 2 /\ new[2] = Spelling(n)
  BY <1>2
<1>4. Fresh(new)
  BY DEF FreshFor
<1> HIDE DEF new
<1>5. /\ chars' \in Seq(Chars \cup {None}) /\ Len(chars') <= MaxNames
      /\ Known \subseteq Known'
      /\ \A m \in Known : Spelling(m)' = Spelling(m)
      /\ \A i \in 1..Len(new) :
            /\ Len(chars) + i - 1 \in Known'
            /\ chars'[Len(chars) + i] = new[i]
  BY <1>3, <1>4, FreshKeeps
<1>6. 2 \in 1..Len(new) /\ Len(chars) + 2 - 1 = Len(chars) + 1
  BY <1>1, <1>3
<1>7. Len(chars) + 1 \in Known' /\ chars'[Len(chars) + 2] = new[2]
  BY <1>5, <1>6
<1>8. Len(chars) + 1 \notin Known
  BY <1>1 DEF Known
<1> QED
  BY <1>1, <1>3, <1>5, <1>7, <1>8

\* Every step keeps the names given out so far and what they are spelled.
LEMMA NamesStep ==
    ASSUME TypeOK, Next
    PROVE  /\ chars' \in Seq(Chars \cup {None}) /\ Len(chars') <= MaxNames
           /\ by_chars' \in [Chars -> Known' \cup {None}]
           /\ Known \subseteq Known' /\ Source \subseteq Source'
           /\ \A n \in Known : Spelling(n)' = Spelling(n)
           /\ phase # "parse" => Source' = Source
<1> USE ScopesAssumption
<1>1. /\ chars \in Seq(Chars \cup {None}) /\ Len(chars) <= MaxNames
      /\ by_chars \in [Chars -> Known \cup {None}]
      /\ Source \subseteq Known
  BY SourceKnown DEF TypeOK
<1>2. ASSUME NEW c \in Chars, Sourced(c)
      PROVE  /\ chars' \in Seq(Chars \cup {None}) /\ Len(chars') <= MaxNames
             /\ by_chars' \in [Chars -> Known' \cup {None}]
             /\ Known \subseteq Known' /\ Source \subseteq Source'
             /\ \A n \in Known : Spelling(n)' = Spelling(n)
             /\ phase # "parse" => Source' = Source
  <2> DEFINE new == <<c>>
  <2>1. new \in Seq(Chars \cup {None}) /\ Len(new) = 1
    OBVIOUS
  <2>2. Fresh(new) /\ by_chars' = [by_chars EXCEPT ![c] = Len(chars)]
        /\ by_chars[c] = None /\ phase = "parse"
    BY <1>2 DEF Sourced
  <2> HIDE DEF new
  <2>3. /\ chars' \in Seq(Chars \cup {None}) /\ Len(chars') <= MaxNames
        /\ Known \subseteq Known' /\ \A n \in Known : Spelling(n)' = Spelling(n)
        /\ Len(chars') = Len(chars) + 1 /\ Len(chars) \in Nat
    BY <2>1, <2>2, FreshKeeps
  <2>4. Len(chars) \in Known'
    BY <2>3 DEF Known
  <2>5. by_chars' \in [Chars -> Known' \cup {None}]
    BY <1>1, <2>2, <2>3, <2>4
  <2>6. Source \subseteq Source'
    BY <1>1, <2>2 DEF Source
  <2> QED
    BY <2>2, <2>3, <2>5, <2>6
<1>3. ASSUME NEW n \in Source, FreshFor(n), by_chars' = by_chars
      PROVE  /\ chars' \in Seq(Chars \cup {None}) /\ Len(chars') <= MaxNames
             /\ by_chars' \in [Chars -> Known' \cup {None}]
             /\ Known \subseteq Known' /\ Source' = Source
             /\ \A m \in Known : Spelling(m)' = Spelling(m)
  BY <1>1, <1>3, FreshForKeeps DEF Source
<1>4. ASSUME CallUv
      PROVE  /\ chars' \in Seq(Chars \cup {None}) /\ Len(chars') <= MaxNames
             /\ by_chars' \in [Chars -> Known' \cup {None}]
             /\ Known \subseteq Known' /\ Source' = Source
             /\ \A m \in Known : Spelling(m)' = Spelling(m)
  <2> DEFINE new == <<None>>
  <2>1. new \in Seq(Chars \cup {None}) /\ Fresh(new) /\ by_chars' = by_chars
    BY <1>4 DEF CallUv
  <2> HIDE DEF new
  <2> QED
    BY <1>1, <2>1, FreshKeeps DEF Source
<1>5. ASSUME UNCHANGED namesVars
      PROVE  /\ chars' \in Seq(Chars \cup {None}) /\ Len(chars') <= MaxNames
             /\ by_chars' \in [Chars -> Known' \cup {None}]
             /\ Known \subseteq Known' /\ Source' = Source
             /\ \A m \in Known : Spelling(m)' = Spelling(m)
  BY <1>1, <1>5 DEF namesVars, Known, Source, Spelling
<1>6. \/ \E c \in Chars : Sourced(c)
      \/ \E n \in Source : FreshFor(n) /\ by_chars' = by_chars
      \/ CallUv
      \/ UNCHANGED namesVars
  BY DEF Next, Start, DeclareDef, AllDeclared, CheckDef, Param, Body, EnterVal,
     BindVal, Leave, Use, Found, FindInParent, Unbound, namesVars
<1> QED
  BY <1>2, <1>3, <1>4, <1>5, <1>6

-----------------------------------------------------------------------------
(* What a step does to the frames is one of five things.                   *)

Still == UNCHANGED <<envVars, stack>>

Pushes(a) ==
    /\ a \in Addr \ live
    /\ live' = live \cup {a}
    /\ parent' = [parent EXCEPT ![a] = IF stack = << >> THEN None ELSE Here]
    /\ bindings' = [bindings EXCEPT ![a] = Empty]
    /\ stack' = <<a>> \o stack

Declares(n) ==
    /\ stack # << >> /\ n \in Source /\ FreshFor(n) /\ by_chars' = by_chars
    /\ bindings' = [bindings EXCEPT ![Here] = Declared(bindings[Here], n)]
    /\ UNCHANGED <<live, parent, stack>>

Moves(n, a) ==
    /\ stack # << >> /\ n \in Source /\ FreshFor(n) /\ by_chars' = by_chars
    /\ a \in Addr \ live
    /\ live' = (live \ {Here}) \cup {a}
    /\ parent' = [parent EXCEPT ![Here] = None, ![a] = parent[Here]]
    /\ bindings' = [bindings EXCEPT ![Here] = Empty,
                                    ![a] = Declared(bindings[Here], n)]
    /\ stack' = [stack EXCEPT ![1] = a]

Pops ==
    /\ stack # << >>
    /\ live' = live \ {Here}
    /\ parent' = [parent EXCEPT ![Here] = None]
    /\ bindings' = [bindings EXCEPT ![Here] = Empty]
    /\ stack' = Tail(stack)

\* Every step leaves the frames alone or is one of the four changes.
LEMMA FrameSteps ==
    ASSUME TypeOK, Next
    PROVE  \/ Still
           \/ \E a \in Addr : Pushes(a)
           \/ \E n \in Source : Declares(n)
           \/ \E n \in Source, a \in Addr : Moves(n, a)
           \/ Pops
<1>1. phase = "parse" <=> stack = << >>
  BY DEF TypeOK, StackOK
<1>2. ASSUME NEW a \in Addr, Start(a) PROVE Pushes(a)
  BY <1>1, <1>2 DEF Start, Push, Pushes
<1>3. ASSUME NEW a \in Addr, CheckDef(a) PROVE Pushes(a) \/ Still
  BY <1>3 DEF CheckDef, Push, Pushes, Typing, Still
<1>4. ASSUME NEW a \in Addr, EnterVal(a) PROVE Pushes(a)
  BY <1>4 DEF EnterVal, Push, Pushes, InExpr, Typing
<1>5. ASSUME NEW n \in Source, DeclareDef(n) \/ Param(n) PROVE Declares(n)
  BY <1>1, <1>5 DEF DeclareDef, Param, Declares, Typing
<1>6. ASSUME NEW n \in Source, NEW a \in Addr, BindVal(n, a) PROVE Moves(n, a)
  BY <1>6 DEF BindVal, Moves, InExpr, Typing
<1>7. ASSUME Leave PROVE Pops
  BY <1>7 DEF Leave, Pop, Pops, InExpr, Typing
<1>8. ASSUME \/ \E c \in Chars : Sourced(c)
             \/ \E n \in Source : Use(n)
             \/ AllDeclared \/ Body \/ CallUv \/ Found \/ FindInParent \/ Unbound
      PROVE  Still
  BY <1>8 DEF Sourced, Use, AllDeclared, Body, CallUv, Found, FindInParent, Unbound,
     Still, envVars
<1> QED
  BY <1>2, <1>3, <1>4, <1>5, <1>6, <1>7, <1>8 DEF Next

\* The stack, index by index.
LEMMA StackIndices ==
    ASSUME TypeOK
    PROVE  /\ Top \in Nat /\ DOMAIN stack = 1..Top
           /\ \A k \in 1..Top : stack[k] \in live /\ stack[k] \in Addr
           /\ stack # << >> => Top >= 1 /\ Here = stack[1] /\ Here \in live
<1>1. stack \in Seq(live) /\ live \subseteq Addr
  BY DEF TypeOK, StackOK, EnvOK
<1>2. Top \in Nat /\ DOMAIN stack = 1..Top /\ \A k \in 1..Top : stack[k] \in live
  BY <1>1, LenProperties, ElementOfSeq DEF Top
<1>3. ASSUME stack # << >>
      PROVE  Top >= 1 /\ Here = stack[1] /\ Here \in live
  BY <1>1, <1>2, <1>3, PopSeq DEF Top, Here
<1> QED
  BY <1>1, <1>2, <1>3

\* The stack after each kind of change, index by index.
LEMMA StackAfter ==
    ASSUME TypeOK
    PROVE  /\ \A a \in Addr : Pushes(a) =>
                /\ Top' = Top + 1 /\ DOMAIN stack' = 1..(Top + 1)
                /\ \A k \in 1..(Top + 1) :
                        stack'[k] = IF k = 1 THEN a ELSE stack[k - 1]
           /\ \A a \in Addr, n \in Source : Moves(n, a) =>
                /\ Top' = Top /\ DOMAIN stack' = 1..Top
                /\ \A k \in 1..Top : stack'[k] = IF k = 1 THEN a ELSE stack[k]
           /\ Pops =>
                /\ Top' = Top - 1 /\ DOMAIN stack' = 1..(Top - 1)
                /\ \A k \in 1..(Top - 1) : stack'[k] = stack[k + 1]
           /\ (Still \/ \E n \in Source : Declares(n)) =>
                stack' = stack /\ Top' = Top
<1>1. stack \in Seq(Addr) /\ Top \in Nat /\ DOMAIN stack = 1..Top
  BY StackIndices, SeqMonotonic DEF TypeOK, StackOK, EnvOK
<1>2. ASSUME NEW a \in Addr, Pushes(a)
      PROVE  /\ Top' = Top + 1 /\ DOMAIN stack' = 1..(Top + 1)
             /\ \A k \in 1..(Top + 1) :
                    stack'[k] = IF k = 1 THEN a ELSE stack[k - 1]
  <2> DEFINE s == <<a>> \o stack
  <2>1. /\ s \in Seq(Addr) /\ Len(s) = Top + 1
        /\ \A k \in 1..(Top + 1) : s[k] = IF k = 1 THEN a ELSE stack[k - 1]
    BY <1>1, PushSeq DEF Top
  <2>2. stack' = s
    BY <1>2 DEF Pushes
  <2> HIDE DEF s
  <2> QED
    BY <2>1, <2>2, LenProperties DEF Top
<1>3. ASSUME NEW a \in Addr, NEW n \in Source, Moves(n, a)
      PROVE  /\ Top' = Top /\ DOMAIN stack' = 1..Top
             /\ \A k \in 1..Top : stack'[k] = IF k = 1 THEN a ELSE stack[k]
  <2>1. stack' = [stack EXCEPT ![1] = a] /\ 1 \in 1..Top
    BY <1>1, <1>3, StackIndices DEF Moves
  <2> QED
    BY <1>1, <2>1, ExceptSeq DEF Top
<1>4. ASSUME Pops
      PROVE  /\ Top' = Top - 1 /\ DOMAIN stack' = 1..(Top - 1)
             /\ \A k \in 1..(Top - 1) : stack'[k] = stack[k + 1]
  BY <1>1, <1>4, PopSeq, LenProperties DEF Pops, Top
<1>5. ASSUME Still \/ \E n \in Source : Declares(n) PROVE stack' = stack /\ Top' = Top
  BY <1>5 DEF Still, Declares, Top
<1> QED
  BY <1>2, <1>3, <1>4, <1>5

-----------------------------------------------------------------------------
(* The frames.                                                             *)

\* What a declaration makes of the contents of a TypeEnv.
LEMMA DeclaredMap ==
    ASSUME TypeOK, NEW a \in Addr, NEW n \in Source, FreshFor(n)
    PROVE  LET new == Declared(bindings[a], n) IN
           /\ new \in Maps(Source, Known')
           /\ DOMAIN new = DOMAIN bindings[a] \cup {n}
           /\ \A m \in DOMAIN bindings[a] : new[m] = bindings[a][m]
           /\ n \notin DOMAIN bindings[a] => new[n] = Len(chars) + 1
<1>1. bindings[a] \in Maps(Source, Known)
  BY BindingsAreMaps DEF TypeOK, EnvOK
<1>2. Known \subseteq Known' /\ Len(chars) + 1 \in Known'
  BY FreshForKeeps
<1> DEFINE u == Len(chars) + 1
           K == Known'
<1>3. Known \subseteq K /\ u \in K
  BY <1>2
<1>4. Declared(bindings[a], n) = Insert(bindings[a], n, u)
  BY DEF Declared
<1> DEFINE map == bindings[a]
<1>5. map \in Maps(Source, Known)
  BY <1>1
<1> HIDE DEF u, K, map
<1>6. /\ Insert(map, n, u) \in Maps(Source, K)
      /\ DOMAIN Insert(map, n, u) = DOMAIN map \cup {n}
      /\ \A m \in DOMAIN map : Insert(map, n, u)[m] = map[m]
      /\ n \notin DOMAIN map => Insert(map, n, u)[n] = u
  BY <1>3, <1>5, InsertMap
<1> QED
  BY <1>4, <1>6 DEF u, K, map

\* The frames keep their types.
LEMMA EnvStep ==
    ASSUME TypeOK, Next
    PROVE  EnvOK'
<1> USE ScopesAssumption
<1>1. /\ live \subseteq Addr /\ parent \in [Addr -> Addr \cup {None}]
      /\ bindings \in [Addr -> Maps(Source, Known)]
  BY BindingsAreMaps DEF TypeOK, EnvOK
<1>2. Known \subseteq Known' /\ Source \subseteq Source'
  BY NamesStep
<1> DEFINE B == Maps(Source', Known')
<1>3. Bindings' = B
  BY DEF Bindings, Maps
<1>4. \A map \in Maps(Source, Known) : map \in B
  <2> SUFFICES ASSUME NEW map \in Maps(Source, Known) PROVE map \in B
    OBVIOUS
  <2>1. DOMAIN map \subseteq Source' /\ map \in [DOMAIN map -> Known']
    BY <1>2, MapType
  <2> QED
    BY <2>1, MapType
<1>5. Empty \in B
  BY EmptyMap
<1>6. \A a \in Addr, n \in Source : FreshFor(n) => Declared(bindings[a], n) \in B
  <2> SUFFICES ASSUME NEW a \in Addr, NEW n \in Source, FreshFor(n)
               PROVE  Declared(bindings[a], n) \in B
    OBVIOUS
  <2> DEFINE map == Declared(bindings[a], n)
  <2>1. map \in Maps(Source, Known')
    BY DeclaredMap
  <2> HIDE DEF map
  <2>2. DOMAIN map \subseteq Source' /\ map \in [DOMAIN map -> Known']
    BY <1>2, <2>1, MapType
  <2> QED
    BY <2>2, MapType DEF map
<1> HIDE DEF B
<1>7. bindings \in [Addr -> B]
  BY <1>1, <1>4
<1>8. stack # << >> => Here \in Addr
  BY StackIndices, <1>1
<1>9. CASE Still
  BY <1>1, <1>3, <1>7, <1>9 DEF Still, envVars, EnvOK
<1>10. CASE \E a \in Addr : Pushes(a)
  BY <1>1, <1>3, <1>5, <1>7, <1>8, <1>10 DEF Pushes, EnvOK
<1>11. CASE \E n \in Source : Declares(n)
  BY <1>1, <1>3, <1>6, <1>7, <1>8, <1>11 DEF Declares, EnvOK
<1>12. CASE \E n \in Source, a \in Addr : Moves(n, a)
  BY <1>1, <1>3, <1>5, <1>6, <1>7, <1>8, <1>12 DEF Moves, EnvOK
<1>13. CASE Pops
  BY <1>1, <1>3, <1>5, <1>7, <1>8, <1>13 DEF Pops, EnvOK
<1> QED
  BY <1>9, <1>10, <1>11, <1>12, <1>13, FrameSteps

\* The parent links follow the stack of activations through every step.
LEMMA ChainStep ==
    ASSUME TypeOK, Chain, Next
    PROVE  Chain'
<1> USE ScopesAssumption
<1>1. /\ Top \in Nat /\ DOMAIN stack = 1..Top /\ live \subseteq Addr
      /\ parent \in [Addr -> Addr \cup {None}]
      /\ \A k \in 1..Top : stack[k] \in live /\ stack[k] \in Addr
      /\ stack # << >> => Top >= 1 /\ Here = stack[1] /\ Here \in live
  BY StackIndices DEF TypeOK, EnvOK
<1>2. /\ \A j, k \in 1..Top : stack[j] = stack[k] => j = k
      /\ live = {stack[k] : k \in 1..Top}
      /\ \A k \in 1..Top :
            parent[stack[k]] = IF k = Top THEN None ELSE stack[k + 1]
  BY <1>1 DEF Chain
<1>3. stack = << >> => Top = 0
  BY DEF Top
<1>4. CASE Still
  BY <1>4 DEF Still, envVars, Chain, Top
<1>5. CASE \E n \in Source : Declares(n)
  <2>1. UNCHANGED <<live, parent, stack>>
    BY <1>5 DEF Declares
  <2> QED
    BY <2>1 DEF Chain, Top
<1>6. ASSUME NEW a \in Addr, Pushes(a) PROVE Chain'
  <2>1. /\ Top' = Top + 1 /\ DOMAIN stack' = 1..(Top + 1)
        /\ \A k \in 1..(Top + 1) : stack'[k] = IF k = 1 THEN a ELSE stack[k - 1]
    BY <1>6, StackAfter
  <2>2. a \notin live /\ live' = live \cup {a}
        /\ parent' = [parent EXCEPT ![a] = IF stack = << >> THEN None ELSE Here]
    BY <1>6 DEF Pushes
  <2>3. \A j, k \in 1..(Top + 1) : stack'[j] = stack'[k] => j = k
    <3> SUFFICES ASSUME NEW j \in 1..(Top + 1), NEW k \in 1..(Top + 1), stack'[j] = stack'[k]
                 PROVE  j = k
      OBVIOUS
    <3>1. j # 1 => j - 1 \in 1..Top
      BY <1>1
    <3>2. k # 1 => k - 1 \in 1..Top
      BY <1>1
    <3>3. CASE j # 1 /\ k # 1
      <4>1. stack[j - 1] = stack[k - 1]
        BY <2>1, <3>3
      <4>2. j - 1 = k - 1
        BY <1>2, <3>1, <3>2, <3>3, <4>1
      <4> QED
        BY <4>2
    <3> QED
      BY <1>1, <2>1, <2>2, <3>1, <3>2, <3>3
  <2>4. live' = {stack'[k] : k \in 1..(Top + 1)}
    <3>1. \A k \in 1..(Top + 1) : stack'[k] \in live'
      <4> SUFFICES ASSUME NEW k \in 1..(Top + 1) PROVE stack'[k] \in live'
        OBVIOUS
      <4>1. k # 1 => k - 1 \in 1..Top
        BY <1>1
      <4> QED
        BY <1>1, <2>1, <2>2, <4>1
    <3>2. ASSUME NEW b \in live' PROVE \E k \in 1..(Top + 1) : stack'[k] = b
      <4>1. CASE b = a
        BY <1>1, <2>1, <4>1
      <4>2. CASE b \in live
        <5>1. PICK k \in 1..Top : stack[k] = b
          BY <1>2, <4>2
        <5>2. k + 1 \in 1..(Top + 1) /\ k + 1 # 1 /\ (k + 1) - 1 = k
          BY <1>1
        <5>3. stack'[k + 1] = b
          BY <2>1, <5>1, <5>2
        <5> QED
          BY <5>2, <5>3
      <4> QED
        BY <2>2, <4>1, <4>2
    <3> QED
      BY <3>1, <3>2
  <2>5. ASSUME NEW k \in 1..(Top + 1)
        PROVE  parent'[stack'[k]] = IF k = Top + 1 THEN None ELSE stack'[k + 1]
    <3>1. CASE k = 1
      <4>1. stack'[k] = a /\ parent'[a] = IF stack = << >> THEN None ELSE Here
        BY <1>1, <2>1, <2>2, <3>1
      <4>2. CASE stack = << >>
        BY <1>3, <3>1, <4>1, <4>2
      <4>3. CASE stack # << >>
        <5>1. k + 1 \in 1..(Top + 1) /\ stack'[k + 1] = stack[1]
          BY <1>1, <2>1, <3>1, <4>3
        <5> QED
          BY <1>1, <3>1, <4>1, <4>3, <5>1
      <4> QED
        BY <4>2, <4>3
    <3>2. CASE k # 1
      <4>1. k - 1 \in 1..Top /\ stack'[k] = stack[k - 1]
        BY <1>1, <2>1, <3>2
      <4>2. stack[k - 1] # a /\ parent'[stack[k - 1]] = parent[stack[k - 1]]
        BY <1>1, <2>2, <4>1
      <4>3. parent[stack[k - 1]] = IF k - 1 = Top THEN None ELSE stack[(k - 1) + 1]
        BY <1>2, <4>1
      <4>4. k # Top + 1 => k + 1 \in 1..(Top + 1) /\ stack'[k + 1] = stack[k]
        BY <1>1, <2>1
      <4>5. (k - 1) + 1 = k /\ (k - 1 = Top <=> k = Top + 1)
        BY <1>1
      <4> QED
        BY <4>1, <4>2, <4>3, <4>4, <4>5
    <3> QED
      BY <3>1, <3>2
  <2> QED
    BY <2>1, <2>3, <2>4, <2>5 DEF Chain
<1>7. ASSUME NEW n \in Source, NEW a \in Addr, Moves(n, a) PROVE Chain'
  <2>1. /\ Top' = Top /\ DOMAIN stack' = 1..Top
        /\ \A k \in 1..Top : stack'[k] = IF k = 1 THEN a ELSE stack[k]
    BY <1>7, StackAfter
  <2>2. /\ a \notin live /\ live' = (live \ {Here}) \cup {a} /\ stack # << >>
        /\ parent' = [parent EXCEPT ![Here] = None, ![a] = parent[Here]]
    BY <1>7 DEF Moves
  <2>3. \A j, k \in 1..Top : stack'[j] = stack'[k] => j = k
    BY <1>1, <1>2, <2>1, <2>2
  <2>4. live' = {stack'[k] : k \in 1..Top}
    <3>1. \A k \in 1..Top : stack'[k] \in live'
      BY <1>1, <1>2, <2>1, <2>2
    <3>2. ASSUME NEW b \in live' PROVE \E k \in 1..Top : stack'[k] = b
      <4>1. CASE b = a
        BY <1>1, <2>1, <2>2, <4>1
      <4>2. CASE b \in live /\ b # Here
        <5>1. PICK k \in 1..Top : stack[k] = b
          BY <1>2, <4>2
        <5> QED
          BY <1>1, <2>1, <2>2, <4>2, <5>1
      <4> QED
        BY <2>2, <4>1, <4>2
    <3> QED
      BY <3>1, <3>2
  <2>5. ASSUME NEW k \in 1..Top
        PROVE  parent'[stack'[k]] = IF k = Top THEN None ELSE stack'[k + 1]
    <3>1. k # Top => k + 1 \in 1..Top /\ stack'[k + 1] = stack[k + 1]
      BY <1>1, <2>1
    <3>2. parent'[stack'[k]] = parent[stack[k]]
      <4>1. CASE k = 1
        BY <1>1, <2>1, <2>2, <4>1
      <4>2. CASE k # 1
        <5>1. stack[k] # Here /\ stack[k] # a /\ stack'[k] = stack[k]
          BY <1>1, <1>2, <2>1, <2>2, <4>2
        <5> QED
          BY <1>1, <2>2, <5>1
      <4> QED
        BY <4>1, <4>2
    <3> QED
      BY <1>2, <3>1, <3>2
  <2> QED
    BY <2>1, <2>3, <2>4, <2>5 DEF Chain
<1>8. ASSUME Pops PROVE Chain'
  <2>1. /\ Top' = Top - 1 /\ DOMAIN stack' = 1..(Top - 1)
        /\ \A k \in 1..(Top - 1) : stack'[k] = stack[k + 1]
    BY <1>8, StackAfter
  <2>2. /\ live' = live \ {Here} /\ stack # << >>
        /\ parent' = [parent EXCEPT ![Here] = None]
    BY <1>8 DEF Pops
  <2>3. \A k \in 1..(Top - 1) : k + 1 \in 1..Top /\ stack[k + 1] # Here
    <3> SUFFICES ASSUME NEW k \in 1..(Top - 1)
                 PROVE  k + 1 \in 1..Top /\ stack[k + 1] # Here
      OBVIOUS
    <3>1. k + 1 \in 1..Top /\ 1 \in 1..Top /\ k + 1 # 1
      BY <1>1
    <3> QED
      BY <1>1, <1>2, <2>2, <3>1
  <2>4. \A j, k \in 1..(Top - 1) : stack'[j] = stack'[k] => j = k
    <3> SUFFICES ASSUME NEW j \in 1..(Top - 1), NEW k \in 1..(Top - 1), stack'[j] = stack'[k]
                 PROVE  j = k
      OBVIOUS
    <3>1. j + 1 = k + 1
      BY <1>2, <2>1, <2>3
    <3> QED
      BY <1>1, <3>1
  <2>5. live' = {stack'[k] : k \in 1..(Top - 1)}
    <3>1. \A k \in 1..(Top - 1) : stack'[k] \in live'
      BY <1>1, <2>1, <2>2, <2>3
    <3>2. ASSUME NEW b \in live' PROVE \E k \in 1..(Top - 1) : stack'[k] = b
      <4>1. PICK k \in 1..Top : stack[k] = b
        BY <1>2, <2>2
      <4>2. k # 1
        BY <1>1, <2>2, <4>1
      <4>3. k - 1 \in 1..(Top - 1) /\ (k - 1) + 1 = k
        BY <1>1, <4>2
      <4>4. stack'[k - 1] = b
        BY <2>1, <4>1, <4>3
      <4> QED
        BY <4>3, <4>4
    <3> QED
      BY <3>1, <3>2
  <2>6. ASSUME NEW k \in 1..(Top - 1)
        PROVE  parent'[stack'[k]] = IF k = Top - 1 THEN None ELSE stack'[k + 1]
    <3>1. parent'[stack'[k]] = parent[stack[k + 1]]
      BY <1>1, <2>1, <2>2, <2>3
    <3>2. parent[stack[k + 1]] = IF k + 1 = Top THEN None ELSE stack[(k + 1) + 1]
      BY <1>2, <2>3
    <3>3. k # Top - 1 => k + 1 \in 1..(Top - 1) /\ stack'[k + 1] = stack[(k + 1) + 1]
      BY <1>1, <2>1
    <3>4. k + 1 = Top <=> k = Top - 1
      BY <1>1
    <3> QED
      BY <3>1, <3>2, <3>3, <3>4
  <2> QED
    BY <2>1, <2>4, <2>5, <2>6 DEF Chain
<1> QED
  BY <1>4, <1>5, <1>6, <1>7, <1>8, FrameSteps

\* The state of the typer other than the frames.
LEMMA StackStep ==
    ASSUME TypeOK, Chain, Next
    PROVE  StackOK'
<1> USE ScopesAssumption
<1>1. /\ stack \in Seq(live) /\ Len(kinds) = Top /\ live \subseteq Addr
      /\ phase = "parse" <=> stack = << >>
      /\ kinds \in Seq(Kind) /\ DOMAIN kinds = 1..Top /\ Top \in Nat
      /\ \A k \in 1..Top : kinds[k] = "program" <=> k = Top
      /\ stack # << >> => Top >= 1
      /\ kinds = << >> <=> Top = 0
  BY StackIndices, LenProperties, EmptySeq DEF TypeOK, StackOK, EnvOK, Top
<1>2. stack' \in Seq(live')
  <2>1. Chain'
    BY ChainStep
  <2>2. stack' \in Seq(Addr)
    <3>1. stack \in Seq(Addr)
      BY <1>1, SeqMonotonic
    <3>2. CASE Still \/ \E n \in Source : Declares(n)
      BY <3>1, <3>2, StackAfter
    <3>3. CASE \E a \in Addr : Pushes(a)
      BY <3>1, <3>3, PushSeq DEF Pushes
    <3>4. CASE \E n \in Source, a \in Addr : Moves(n, a)
      BY <1>1, <3>1, <3>4, ExceptSeq DEF Moves, Top
    <3>5. CASE Pops
      BY <3>1, <3>5, PopSeq DEF Pops
    <3> QED
      BY <3>2, <3>3, <3>4, <3>5, FrameSteps
  <2>3. Len(stack') \in Nat /\ stack' \in [1..Len(stack') -> Addr]
        /\ DOMAIN stack' = 1..Len(stack')
    BY <2>2, LenProperties
  <2>4. \A k \in 1..Len(stack') : stack'[k] \in live'
    BY <2>1, <2>3 DEF Chain
  <2>5. stack' \in [1..Len(stack') -> live']
    BY <2>3, <2>4
  <2> QED
    BY <2>3, <2>5, SeqDef
<1> DEFINE Kinds == /\ Len(kinds') = Top'
                    /\ phase' = "parse" <=> stack' = << >>
                    /\ kinds' \in Seq(Kind)
                    /\ \A k \in DOMAIN kinds' : kinds'[k] = "program" <=> k = Top'
<1>3. ASSUME UNCHANGED kinds, stack' = stack,
             phase' = phase \/ (phase = "declare" /\ phase' = "check")
      PROVE  Kinds
  <2>1. Top' = Top
    BY <1>3 DEF Top
  <2> QED
    BY <1>1, <1>3, <2>1
<1>4. ASSUME NEW a \in Addr, NEW kind \in Kind, NEW outer, Push(a, kind, outer),
             phase' # "parse", kind = "program" <=> Top = 0
      PROVE  Kinds
  <2>1. /\ kinds' \in Seq(Kind) /\ Len(kinds') = Top + 1
        /\ \A k \in 1..(Top + 1) :
              kinds'[k] = IF k = 1 THEN kind ELSE kinds[k - 1]
    BY <1>1, <1>4, PushSeq DEF Push
  <2>2. stack \in Seq(Addr)
    BY <1>1, SeqMonotonic
  <2> DEFINE s == <<a>> \o stack
  <2>3. s \in Seq(Addr) /\ Len(s) = Top + 1
    BY <2>2, PushSeq DEF Top
  <2>6. stack' = s
    BY <1>4 DEF Push
  <2> HIDE DEF s
  <2>7. Len(stack') = Top + 1 /\ stack' # << >>
    BY <1>1, <2>3, <2>6, EmptySeq
  <2>4. DOMAIN kinds' = 1..(Top + 1)
    BY <2>1, LenProperties
  <2>5. ASSUME NEW k \in 1..(Top + 1) PROVE kinds'[k] = "program" <=> k = Top + 1
    <3>1. CASE k = 1
      BY <1>1, <1>4, <2>1, <3>1
    <3>2. CASE k # 1
      <4>1. k - 1 \in 1..Top /\ kinds'[k] = kinds[k - 1]
        BY <1>1, <2>1, <3>2
      <4> QED
        BY <1>1, <4>1
    <3> QED
      BY <3>1, <3>2
  <2> QED
    BY <1>4, <2>1, <2>4, <2>5, <2>7 DEF Top
<1>5. ASSUME stack # << >>, Head(kinds) # "program", NEW kind \in Kind \ {"program"},
             kinds' = [kinds EXCEPT ![1] = kind],
             stack' = stack \/ \E a \in Addr : stack' = [stack EXCEPT ![1] = a],
             UNCHANGED phase
      PROVE  Kinds
  <2>1. 1 \in 1..Top /\ Head(kinds) = kinds[1] /\ Top # 1
    BY <1>1, <1>5, PopSeq
  <2>2. /\ kinds' \in Seq(Kind) /\ Len(kinds') = Top
        /\ \A k \in 1..Top : kinds'[k] = IF k = 1 THEN kind ELSE kinds[k]
    <3>1. 1 \in 1..Len(kinds) /\ kind \in Kind
      BY <1>1, <2>1
    <3> QED
      BY <1>1, <1>5, <3>1, ExceptSeq
  <2>3. stack \in Seq(Addr)
    BY <1>1, SeqMonotonic
  <2>4. Len(stack') = Top /\ stack' \in Seq(Addr)
    BY <1>5, <2>1, <2>3, ExceptSeq DEF Top
  <2>5. stack' # << >>
    BY <1>1, <2>1, <2>4, EmptySeq
  <2>6. DOMAIN kinds' = 1..Top
    BY <2>2, LenProperties
  <2> QED
    BY <1>1, <1>5, <2>1, <2>2, <2>4, <2>5, <2>6 DEF Top
<1>6. ASSUME Leave PROVE Kinds
  <2>1. stack # << >> /\ Head(kinds) # "program" /\ stack' = Tail(stack)
        /\ kinds' = Tail(kinds) /\ phase' = phase
    BY <1>6 DEF Leave, Pop, InExpr, Typing
  <2>2. /\ Top >= 1 /\ Head(kinds) = kinds[1]
        /\ kinds' \in Seq(Kind) /\ Len(kinds') = Top - 1
        /\ \A k \in 1..(Top - 1) : kinds'[k] = kinds[k + 1]
    BY <1>1, <2>1, PopSeq DEF Top
  <2>3. Top # 1
    BY <1>1, <2>1, <2>2
  <2>4. stack' \in Seq(live) /\ Len(stack') = Top - 1
    BY <1>1, <2>1, PopSeq DEF Top
  <2>5. stack' # << >>
    BY <1>1, <2>3, <2>4, EmptySeq
  <2>6. DOMAIN kinds' = 1..(Top - 1)
    BY <2>2, LenProperties
  <2>7. \A k \in 1..(Top - 1) : k + 1 \in 1..Top /\ (k + 1 = Top <=> k = Top - 1)
    BY <1>1
  <2> QED
    <3>1. \A k \in 1..(Top - 1) : kinds'[k] = "program" <=> k = Top - 1
      BY <1>1, <2>2, <2>7
    <3>2. Top' = Top - 1
      BY <2>4 DEF Top
    <3> QED
      BY <1>1, <2>1, <2>2, <2>5, <2>6, <3>1, <3>2
<1> HIDE DEF Kinds
<1>7. ASSUME NEW a \in Addr, Start(a) PROVE Kinds
  <2>1. Push(a, "program", None) /\ phase' # "parse" /\ Top = 0
    BY <1>1, <1>7 DEF Start, Top
  <2> QED
    BY <1>4, <2>1 DEF Kind
<1>8. ASSUME NEW a \in Addr, CheckDef(a) PROVE Kinds
  <2>1. phase' = phase /\ phase # "parse" /\ Top # 0
    BY <1>1, <1>8 DEF CheckDef, Typing
  <2>2. CASE Push(a, "params", Here)
    BY <1>4, <2>1, <2>2 DEF Kind
  <2>3. CASE UNCHANGED <<stack, kinds>>
    BY <1>3, <2>1, <2>3
  <2> QED
    BY <1>8, <2>2, <2>3 DEF CheckDef
<1>9. ASSUME NEW a \in Addr, EnterVal(a) PROVE Kinds
  <2>1. phase' = phase /\ phase # "parse" /\ Top # 0 /\ Push(a, "val", Here)
    BY <1>1, <1>9 DEF EnterVal, InExpr, Typing
  <2> QED
    BY <1>4, <2>1 DEF Kind
<1>10. ASSUME Body PROVE Kinds
  BY <1>5, <1>10 DEF Body, Typing, Kind
<1>11. ASSUME NEW n \in Source, NEW a \in Addr, BindVal(n, a) PROVE Kinds
  BY <1>5, <1>11 DEF BindVal, InExpr, Typing, Kind
<1>12. ASSUME \/ \E c \in Chars : Sourced(c)
              \/ \E n \in Source : DeclareDef(n) \/ Param(n) \/ Use(n)
              \/ AllDeclared \/ CallUv \/ Found \/ FindInParent \/ Unbound
       PROVE  Kinds
  BY <1>3, <1>12 DEF Sourced, DeclareDef, Param, Use, AllDeclared, CallUv, Found,
     FindInParent, Unbound
<1>13. Kinds
  BY <1>6, <1>7, <1>8, <1>9, <1>10, <1>11, <1>12 DEF Next
<1> QED
  BY <1>2, <1>13 DEF Kinds, StackOK, Top

\* The rest of the types.
LEMMA TypeStep ==
    ASSUME TypeOK, Chain, Next
    PROVE  TypeOK'
<1> USE ScopesAssumption
<1>1. /\ chars' \in Seq(Chars \cup {None}) /\ Len(chars') <= MaxNames
      /\ by_chars' \in [Chars -> Known' \cup {None}]
      /\ Known \subseteq Known' /\ Source \subseteq Source'
  BY NamesStep
<1>2. EnvOK' /\ StackOK'
  BY EnvStep, StackStep
<1>3. phase' \in {"parse", "declare", "check"}
  BY DEF TypeOK, Next, Sourced, Start, DeclareDef, AllDeclared, CheckDef, Param, Body,
     EnterVal, BindVal, CallUv, Leave, Use, Found, FindInParent, Unbound
<1>4. defs' \in Seq(Source')
  <2>1. defs \in Seq(Source)
    BY DEF TypeOK
  <2>2. CASE defs' = defs
    BY <1>1, <2>1, <2>2, SeqMonotonic
  <2>3. ASSUME NEW n \in Source, DeclareDef(n) PROVE defs' \in Seq(Source')
    <3>1. defs' \in Seq(Source)
      BY <2>1, <2>3, AppendProperties DEF DeclareDef
    <3> QED
      BY <1>1, <3>1, SeqMonotonic
  <2>4. CASE defs' = Tail(defs) /\ defs # << >>
    <3>1. defs' \in Seq(Source)
      BY <2>1, <2>4, PopSeq
    <3> QED
      BY <1>1, <3>1, SeqMonotonic
  <2>5. \/ defs' = defs
        \/ \E n \in Source : DeclareDef(n)
        \/ defs' = Tail(defs) /\ defs # << >>
    BY DEF Next, Sourced, Start, AllDeclared, CheckDef, Param, Body,
       EnterVal, BindVal, CallUv, Leave, Use, Found, FindInParent, Unbound
  <2> QED
    BY <2>2, <2>3, <2>4, <2>5
<1>5. /\ at' \in live' \cup {None} /\ wanted' \in Source' \cup {None}
      /\ at' = None <=> wanted' = None
      /\ answer' \in Known' \cup {None}
  <2>1. /\ at \in live \cup {None} /\ wanted \in Source \cup {None}
        /\ at = None <=> wanted = None
        /\ answer \in Known \cup {None}
        /\ live \subseteq Addr
    BY DEF TypeOK, EnvOK
  <2>2. ASSUME NEW n \in Source, Use(n)
        PROVE  /\ at' \in live' /\ wanted' = n /\ answer' = answer
    BY <2>2, StackIndices DEF Use, InExpr, Typing, envVars
  <2>3. ASSUME Found
        PROVE  /\ at' = None /\ wanted' = None /\ answer' \in Known
    <3>1. at \in Addr /\ bindings[at] \in Maps(Source, Known)
      BY <2>1, <2>3, BindingsAreMaps DEF TypeOK, EnvOK, Found
    <3> DEFINE map == bindings[at]
    <3>2. map \in [DOMAIN map -> Known]
      BY <3>1, MapType
    <3> QED
      BY <2>3, <3>2 DEF Found
  <2>4. ASSUME FindInParent
        PROVE  at' \in live' /\ wanted' = wanted /\ answer' = answer /\ wanted # None
    <3>1. at \in live /\ parent[at] # None /\ at' = parent[at] /\ live' = live
          /\ UNCHANGED <<wanted, answer>>
      BY <2>1, <2>4 DEF FindInParent, envVars
    <3>2. PICK k \in DOMAIN stack : at = stack[k]
      BY <3>1 DEF Chain
    <3>3. k # Top /\ parent[at] = stack[k + 1]
      BY <3>1, <3>2 DEF Chain
    <3>4. stack[k + 1] \in live
      BY <3>2, <3>3, StackIndices
    <3> QED
      BY <2>1, <3>1, <3>3, <3>4
  <2>5. CASE UNCHANGED findVars /\ at = None
    BY <1>1, <2>1, <2>5 DEF findVars
  <2>6. CASE UNCHANGED findVars /\ live \subseteq live'
    BY <1>1, <2>1, <2>6 DEF findVars
  <2>7. ASSUME \/ \E c \in Chars : Sourced(c)
               \/ \E n \in Source : DeclareDef(n)
               \/ AllDeclared \/ Unbound
        PROVE  UNCHANGED findVars /\ live' = live
    BY <2>7 DEF Sourced, DeclareDef, AllDeclared, Unbound, envVars
  <2>8. ASSUME NEW a \in Addr, Start(a)
        PROVE  UNCHANGED findVars /\ live \subseteq live'
    BY <2>8 DEF Start, Push
  <2>9. ASSUME \/ \E a \in Addr : CheckDef(a) \/ EnterVal(a)
               \/ \E n \in Source : Param(n)
               \/ \E n \in Source, a \in Addr : BindVal(n, a)
               \/ Body \/ CallUv \/ Leave
        PROVE  UNCHANGED findVars /\ at = None
    BY <2>9 DEF CheckDef, EnterVal, Param, BindVal, Body, CallUv, Leave, InExpr, Typing
  <2>10. \/ \E n \in Source : Use(n)
         \/ Found \/ FindInParent
         \/ UNCHANGED findVars /\ (at = None \/ live \subseteq live')
    BY <2>7, <2>8, <2>9 DEF Next
  <2>11. None \notin live' /\ None \notin Source
    BY <1>2 DEF EnvOK, Source
  <2> QED
    BY <1>1, <2>1, <2>2, <2>3, <2>4, <2>5, <2>6, <2>10, <2>11
<1>6. outcome' \in {"ok", "UnboundError", "bad_optional_access"}
  BY DEF TypeOK, Next, Sourced, Start, DeclareDef, AllDeclared, CheckDef, Param, Body,
     EnterVal, BindVal, CallUv, Leave, Use, Found, FindInParent, Unbound
<1> QED
  BY <1>1, <1>2, <1>3, <1>4, <1>5, <1>6 DEF TypeOK

-----------------------------------------------------------------------------
(* Parents and bindings.                                                   *)

\* No step leaves a frame with a dead parent or on a cycle.
LEMMA DanglingStep ==
    ASSUME TypeOK, Chain, NoDangling, Next
    PROVE  NoDangling'
<1> USE ScopesAssumption
<1>1. /\ live \subseteq Addr /\ parent \in [Addr -> Addr \cup {None}]
      /\ stack # << >> => Here = stack[1] /\ Here \in live /\ Top >= 1 /\ Top \in Nat
      /\ DOMAIN stack = 1..Top
  BY StackIndices DEF TypeOK, EnvOK
<1>2. CASE Still \/ \E n \in Source : Declares(n)
  <2>1. UNCHANGED <<live, parent>>
    BY <1>2 DEF Still, Declares, envVars
  <2> QED
    BY <2>1 DEF NoDangling
<1>3. ASSUME NEW a \in Addr, Pushes(a) PROVE NoDangling'
  <2>1. /\ a \notin live /\ live' = live \cup {a}
        /\ \A b \in live : parent'[b] = parent[b]
        /\ parent'[a] \in live \cup {None}
    BY <1>1, <1>3 DEF Pushes
  <2>2. ASSUME NEW S \in (SUBSET live') \ {{}} PROVE \E b \in S : parent'[b] \notin S
    <3>1. CASE S = {a}
      BY <1>1, <2>1, <3>1
    <3>2. CASE S # {a}
      <4>1. S \ {a} \in (SUBSET live) \ {{}}
        BY <2>1, <2>2, <3>2
      <4>2. PICK b \in S \ {a} : parent[b] \notin S \ {a}
        BY <4>1 DEF NoDangling
      <4>3. parent[b] \in live \cup {None} /\ b \in live
        BY <2>1, <4>2 DEF NoDangling
      <4>4. parent'[b] \notin S
        BY <2>1, <4>2, <4>3
      <4> QED
        BY <4>2, <4>4
    <3> QED
      BY <3>1, <3>2
  <2> QED
    BY <2>1, <2>2 DEF NoDangling
<1>4. ASSUME stack # << >>
      PROVE  \A b \in live : parent[b] # Here
  <2> SUFFICES ASSUME NEW b \in live, parent[b] = Here PROVE FALSE
    OBVIOUS
  <2>1. PICK k \in DOMAIN stack : b = stack[k]
    BY DEF Chain
  <2>2. k # Top /\ stack[k + 1] = stack[1]
    BY <1>1, <1>4, <2>1 DEF Chain
  <2>3. k + 1 \in DOMAIN stack /\ 1 \in DOMAIN stack /\ k + 1 # 1
    BY <1>1, <1>4, <2>1, <2>2
  <2> QED
    BY <2>2, <2>3 DEF Chain
<1>5. ASSUME NEW n \in Source, NEW a \in Addr, Moves(n, a) PROVE NoDangling'
  <2>1. /\ a \notin live /\ live' = (live \ {Here}) \cup {a} /\ Here \in live
        /\ \A b \in live \ {Here} : parent'[b] = parent[b]
        /\ parent'[a] = parent[Here] /\ stack # << >>
    BY <1>1, <1>5 DEF Moves
  <2>2. \A b \in live : parent[b] \in (live \ {Here}) \cup {None}
    BY <1>4, <2>1 DEF NoDangling
  <2>3. ASSUME NEW S \in (SUBSET live') \ {{}} PROVE \E b \in S : parent'[b] \notin S
    <3> DEFINE T == IF a \in S THEN (S \ {a}) \cup {Here} ELSE S
    <3>1. T \in (SUBSET live) \ {{}}
      BY <2>1, <2>3
    <3>2. PICK b \in T : parent[b] \notin T
      BY <3>1 DEF NoDangling
    <3>3. parent[b] \in (live \ {Here}) \cup {None}
      BY <2>2, <3>1, <3>2
    <3>4. parent[b] \notin S
      BY <1>1, <2>1, <3>2, <3>3
    <3>5. CASE b = Here
      BY <2>1, <3>2, <3>4, <3>5
    <3>6. CASE b # Here
      BY <2>1, <3>1, <3>2, <3>4, <3>6
    <3> QED
      BY <3>5, <3>6
  <2> QED
    BY <2>1, <2>2, <2>3 DEF NoDangling
<1>6. CASE Pops
  <2>1. /\ live' = live \ {Here} /\ stack # << >>
        /\ \A b \in live \ {Here} : parent'[b] = parent[b]
    BY <1>1, <1>6 DEF Pops
  <2>2. \A b \in live : parent[b] \in (live \ {Here}) \cup {None}
    BY <1>4, <2>1 DEF NoDangling
  <2>3. ASSUME NEW S \in (SUBSET live') \ {{}} PROVE \E b \in S : parent'[b] \notin S
    <3>1. S \in (SUBSET live) \ {{}}
      BY <2>1
    <3>2. PICK b \in S : parent[b] \notin S
      BY <3>1 DEF NoDangling
    <3> QED
      BY <2>1, <3>2
  <2> QED
    BY <2>1, <2>2, <2>3 DEF NoDangling
<1> QED
  BY <1>2, <1>3, <1>5, <1>6, FrameSteps

\* After a step, a frame is as it was, or empty, or the innermost frame with
\* one declaration more, at the same address or moved.
LEMMA Contents ==
    ASSUME TypeOK, Next
    PROVE  \/ \A b \in live' : \/ b \in live /\ bindings'[b] = bindings[b]
                               \/ bindings'[b] = Empty
           \/ \E n \in Source, a \in live' :
                /\ stack # << >> /\ FreshFor(n) /\ by_chars' = by_chars
                /\ bindings'[a] = Declared(bindings[Here], n)
                /\ \A b \in live' \ {a} :
                        b \in live \ {Here} /\ bindings'[b] = bindings[b]
<1>1. live \subseteq Addr /\ bindings \in [Addr -> Bindings]
      /\ (stack # << >> => Here \in live)
  BY StackIndices DEF TypeOK, EnvOK
<1>2. CASE Still
  BY <1>2 DEF Still, envVars
<1>3. CASE \E a \in Addr : Pushes(a)
  BY <1>1, <1>3 DEF Pushes
<1>4. ASSUME NEW n \in Source, Declares(n)
      PROVE  /\ stack # << >> /\ FreshFor(n) /\ by_chars' = by_chars
             /\ Here \in live' /\ bindings'[Here] = Declared(bindings[Here], n)
             /\ \A b \in live' \ {Here} :
                    b \in live \ {Here} /\ bindings'[b] = bindings[b]
  BY <1>1, <1>4 DEF Declares
<1>5. ASSUME NEW n \in Source, NEW a \in Addr, Moves(n, a)
      PROVE  /\ stack # << >> /\ FreshFor(n) /\ by_chars' = by_chars
             /\ a \in live' /\ bindings'[a] = Declared(bindings[Here], n)
             /\ \A b \in live' \ {a} :
                    b \in live \ {Here} /\ bindings'[b] = bindings[b]
  BY <1>1, <1>5 DEF Moves
<1>6. CASE Pops
  BY <1>1, <1>6 DEF Pops
<1> QED
  BY <1>2, <1>3, <1>4, <1>5, <1>6, FrameSteps

\* What the frames in use map: source names to names given out.
LEMMA BindingsKnown ==
    ASSUME TypeOK, NEW a \in live
    PROVE  /\ a \in Addr /\ DOMAIN bindings[a] \subseteq Source
           /\ \A n \in DOMAIN bindings[a] : bindings[a][n] \in Known
<1>1. a \in Addr /\ bindings[a] \in Maps(Source, Known)
  BY BindingsAreMaps DEF TypeOK, EnvOK
<1> DEFINE map == bindings[a]
<1>2. DOMAIN map \subseteq Source /\ map \in [DOMAIN map -> Known]
  BY <1>1, MapType
<1> QED
  BY <1>1, <1>2

\* The declaration of a step, next to the bindings that were there.
LEMMA NewBinding ==
    ASSUME TypeOK, NEW n \in Source, stack # << >>, FreshFor(n), by_chars' = by_chars
    PROVE  LET new == Declared(bindings[Here], n) IN
           /\ Source' = Source /\ n \in Known
           /\ DOMAIN new = DOMAIN bindings[Here] \cup {n}
           /\ \A m \in DOMAIN bindings[Here] : new[m] = bindings[Here][m]
           /\ n \notin DOMAIN bindings[Here] => new[n] = Len(chars) + 1
           /\ Len(chars) + 1 \notin Known /\ Here \in live
<1>1. Here \in live /\ Here \in Addr
  BY StackIndices DEF TypeOK, EnvOK
<1>2. Source' = Source /\ n \in Known /\ Len(chars) + 1 \notin Known
  BY FreshForKeeps, SourceKnown DEF Source
<1> DEFINE new == Declared(bindings[Here], n)
<1>3. /\ DOMAIN new = DOMAIN bindings[Here] \cup {n}
      /\ \A m \in DOMAIN bindings[Here] : new[m] = bindings[Here][m]
      /\ n \notin DOMAIN bindings[Here] => new[n] = Len(chars) + 1
  BY <1>1, DeclaredMap
<1> QED
  BY <1>1, <1>2, <1>3

\* A unique name is new when it is declared.
LEMMA UniqueStep ==
    ASSUME TypeOK, Chain, UniqueBinders, Next
    PROVE  UniqueBinders'
<1>1. CASE phase = "parse"
  <2>1. live = {} /\ stack = << >>
    BY <1>1 DEF TypeOK, StackOK, Chain
  <2>2. ASSUME NEW a \in live' PROVE DOMAIN bindings'[a] = {}
    <3>1. bindings'[a] = Empty
      BY <2>1, Contents
    <3> QED
      BY <3>1, EmptyMap
  <2> QED
    BY <2>2 DEF UniqueBinders
<1>2. CASE phase # "parse"
  <2>1. Source' = Source
    BY <1>2, NamesStep
  <2>2. CASE \A b \in live' : \/ b \in live /\ bindings'[b] = bindings[b]
                              \/ bindings'[b] = Empty
    BY <2>1, <2>2, EmptyMap DEF UniqueBinders
  <2>3. ASSUME NEW n \in Source, NEW a \in live',
               stack # << >>, FreshFor(n), by_chars' = by_chars,
               bindings'[a] = Declared(bindings[Here], n),
               \A b \in live' \ {a} : b \in live \ {Here} /\ bindings'[b] = bindings[b]
        PROVE  UniqueBinders'
    <3> DEFINE new == Declared(bindings[Here], n)
               old == bindings[Here]
               u == Len(chars) + 1
    <3>1. /\ DOMAIN new = DOMAIN old \cup {n}
          /\ \A m \in DOMAIN old : new[m] = old[m]
          /\ n \notin DOMAIN old => new[n] = u
          /\ u \notin Known /\ Here \in live
      BY <2>3, NewBinding
    <3>2. /\ \A b \in live : \A m \in DOMAIN bindings[b] : bindings[b][m] \in Known
          /\ Source \subseteq Known
      BY BindingsKnown, SourceKnown
    <3>3. \A m \in DOMAIN new : \/ m \in DOMAIN old /\ new[m] = old[m]
                                \/ m = n /\ new[m] = u
      BY <3>1
    <3> HIDE DEF new, u
    <3>4. \A m \in DOMAIN new : new[m] \notin Source
      BY <3>1, <3>2, <3>3 DEF UniqueBinders
    <3>5. \A m, l \in DOMAIN new : new[m] = new[l] => m = l
      BY <3>1, <3>2, <3>3 DEF UniqueBinders
    <3>6. \A b \in live \ {Here} : \A l \in DOMAIN bindings[b], m \in DOMAIN new :
                bindings[b][l] # new[m]
      BY <3>1, <3>2, <3>3 DEF UniqueBinders
    <3>7. bindings'[a] = new
      BY <2>3 DEF new
    <3> HIDE DEF old
    <3>8. ASSUME NEW b \in live', NEW c \in live',
                 NEW l \in DOMAIN bindings'[b], NEW m \in DOMAIN bindings'[c]
          PROVE  /\ bindings'[b][l] = bindings'[c][m] => b = c /\ l = m
                 /\ bindings'[b][l] \notin Source
      <4>1. CASE b = a /\ c = a
        BY <3>4, <3>5, <3>7, <3>8, <4>1
      <4>2. CASE b = a /\ c # a
        <5>1. c \in live \ {Here} /\ bindings'[c] = bindings[c]
          BY <2>3, <4>2
        <5> QED
          BY <3>4, <3>6, <3>7, <3>8, <4>2, <5>1
      <4>3. CASE b # a /\ c = a
        <5>1. b \in live \ {Here} /\ bindings'[b] = bindings[b]
          BY <2>3, <4>3
        <5> QED
          BY <3>6, <3>7, <3>8, <4>3, <5>1 DEF UniqueBinders
      <4>4. CASE b # a /\ c # a
        <5>1. /\ b \in live /\ bindings'[b] = bindings[b]
              /\ c \in live /\ bindings'[c] = bindings[c]
          BY <2>3, <4>4
        <5> QED
          BY <5>1, <3>8 DEF UniqueBinders
      <4> QED
        BY <4>1, <4>2, <4>3, <4>4
    <3> QED
      BY <2>1, <3>8 DEF UniqueBinders
  <2> QED
    BY <2>2, <2>3, Contents
<1> QED
  BY <1>1, <1>2

\* A unique name is spelled like the source name when it is declared.
LEMMA SpellingStep ==
    ASSUME TypeOK, SpellingKept, Next
    PROVE  SpellingKept'
<1>1. \A n \in Known : chars'[n + 1] = chars[n + 1]
  BY NamesStep DEF Spelling
<1>2. Source \subseteq Known /\ by_chars \in [Chars -> Known \cup {None}]
  BY SourceKnown DEF TypeOK
<1>3. ASSUME NEW c \in Chars, by_chars'[c] # None
      PROVE  chars'[by_chars'[c] + 1] = c
  <2>1. CASE by_chars' = by_chars
    <3>1. by_chars[c] \in Known /\ Spelling(by_chars[c]) = c
      BY <1>2, <1>3, <2>1 DEF SpellingKept
    <3> QED
      BY <1>1, <2>1, <3>1 DEF Spelling
  <2>2. ASSUME NEW d \in Chars, Sourced(d) PROVE chars'[by_chars'[c] + 1] = c
    <3> DEFINE new == <<d>>
    <3>1. new \in Seq(Chars \cup {None}) /\ Len(new) = 1 /\ new[1] = d
      OBVIOUS
    <3>2. Fresh(new) /\ by_chars' = [by_chars EXCEPT ![d] = Len(chars)]
      BY <2>2 DEF Sourced
    <3> HIDE DEF new
    <3>3. chars'[Len(chars) + 1] = d
      <4>1. 1 \in 1..Len(new)
        BY <3>1
      <4> QED
        BY <3>1, <3>2, <4>1, FreshKeeps
    <3>4. CASE c = d
      BY <1>2, <3>2, <3>3, <3>4 DEF Spelling
    <3>5. CASE c # d
      <4>1. by_chars'[c] = by_chars[c] /\ by_chars[c] \in Known
            /\ Spelling(by_chars[c]) = c
        BY <1>2, <1>3, <3>2, <3>5 DEF SpellingKept
      <4> QED
        BY <1>1, <4>1 DEF Spelling
    <3> QED
      BY <3>4, <3>5
  <2>3. by_chars' = by_chars \/ \E d \in Chars : Sourced(d)
    BY DEF Next, Start, DeclareDef, AllDeclared, CheckDef, Param, Body, EnterVal,
       BindVal, CallUv, Leave, Use, Found, FindInParent, Unbound, namesVars
  <2> QED
    BY <2>1, <2>2, <2>3
<1>4. ASSUME NEW a \in live', NEW m \in DOMAIN bindings'[a]
      PROVE  chars'[bindings'[a][m] + 1] = chars'[m + 1]
  <2>1. ASSUME NEW b \in live, NEW l \in DOMAIN bindings[b]
        PROVE  chars'[bindings[b][l] + 1] = chars'[l + 1]
    <3>1. l \in Known /\ bindings[b][l] \in Known
      BY <1>2, BindingsKnown
    <3>2. chars[bindings[b][l] + 1] = chars[l + 1]
      BY DEF SpellingKept, Spelling
    <3> QED
      BY <1>1, <3>1, <3>2
  <2>2. CASE \A b \in live' : \/ b \in live /\ bindings'[b] = bindings[b]
                              \/ bindings'[b] = Empty
    <3>1. a \in live /\ bindings'[a] = bindings[a]
      BY <1>4, <2>2, EmptyMap
    <3> QED
      BY <1>4, <2>1, <3>1
  <2>3. ASSUME NEW n \in Source, NEW d \in live',
               stack # << >>, FreshFor(n), by_chars' = by_chars,
               bindings'[d] = Declared(bindings[Here], n),
               \A b \in live' \ {d} : b \in live \ {Here} /\ bindings'[b] = bindings[b]
        PROVE  chars'[bindings'[a][m] + 1] = chars'[m + 1]
    <3>1. CASE a # d
      BY <1>4, <2>1, <2>3, <3>1
    <3>2. CASE a = d
      <4> DEFINE new == Declared(bindings[Here], n)
                 old == bindings[Here]
                 u == Len(chars) + 1
      <4>1. /\ DOMAIN new = DOMAIN old \cup {n}
            /\ \A l \in DOMAIN old : new[l] = old[l]
            /\ n \notin DOMAIN old => new[n] = u
            /\ Here \in live /\ n \in Known
        BY <2>3, NewBinding
      <4>2. chars'[Len(chars) + 2] = Spelling(n) /\ Len(chars) \in Nat
        BY <2>3, FreshForKeeps
      <4>3. bindings'[a] = new
        BY <2>3, <3>2
      <4> HIDE DEF new
      <4>4. CASE m \in DOMAIN old
        <5>1. bindings'[a][m] = bindings[Here][m]
          BY <4>1, <4>3, <4>4
        <5> QED
          BY <2>1, <4>1, <4>4, <5>1
      <4>5. CASE m \notin DOMAIN old
        <5>1. m = n /\ bindings'[a][m] = u
          BY <1>4, <4>1, <4>3, <4>5
        <5>2. u + 1 = Len(chars) + 2
          BY <4>2
        <5>3. chars'[n + 1] = Spelling(n)
          BY <1>1, <4>1 DEF Spelling
        <5> QED
          BY <4>2, <5>1, <5>2, <5>3
      <4> QED
        BY <4>4, <4>5
    <3> QED
      BY <3>1, <3>2
  <2> QED
    BY <2>2, <2>3, Contents
<1> QED
  BY <1>3, <1>4 DEF SpellingKept, Spelling

\* The outermost frame stays and only gains declarations.
LEMMA RootGrows ==
    ASSUME TypeOK, Chain, Next, stack # << >>
    PROVE  DOMAIN bindings[stack[Top]] \subseteq DOMAIN bindings'[stack'[Top']]
<1>1. /\ Top \in Nat /\ Top >= 1 /\ DOMAIN stack = 1..Top /\ live \subseteq Addr
      /\ \A k \in 1..Top : stack[k] \in live
      /\ Here = stack[1] /\ Here \in live
      /\ \A j, k \in 1..Top : stack[j] = stack[k] => j = k
      /\ bindings \in [Addr -> Bindings]
  BY StackIndices DEF TypeOK, EnvOK, Chain
<1>2. stack' # << >>
  <2>1. phase' # "parse" /\ StackOK'
    BY StackStep DEF TypeOK, StackOK, Next, Sourced, Start, DeclareDef, AllDeclared, CheckDef,
       Param, Body, EnterVal, BindVal, CallUv, Leave, Use, Found, FindInParent, Unbound
  <2> QED
    BY <2>1 DEF StackOK
<1>3. CASE Still
  BY <1>3, StackAfter DEF Still, envVars
<1>4. ASSUME NEW a \in Addr, Pushes(a)
      PROVE  DOMAIN bindings[stack[Top]] \subseteq DOMAIN bindings'[stack'[Top']]
  <2>1. Top' = Top + 1 /\ stack'[Top + 1] = stack[(Top + 1) - 1]
    BY <1>1, <1>4, StackAfter
  <2>2. stack'[Top'] = stack[Top] /\ stack[Top] # a /\ stack[Top] \in Addr
    BY <1>1, <1>4, <2>1 DEF Pushes
  <2> QED
    BY <1>1, <1>4, <2>2 DEF Pushes
<1>5. ASSUME NEW n \in Source, Declares(n)
      PROVE  DOMAIN bindings[stack[Top]] \subseteq DOMAIN bindings'[stack'[Top']]
  <2>1. stack' = stack /\ Top' = Top
    BY <1>5, StackAfter
  <2>2. DOMAIN bindings[Here] \subseteq DOMAIN Declared(bindings[Here], n)
    BY <1>5, NewBinding DEF Declares
  <2> QED
    BY <1>1, <1>5, <2>1, <2>2 DEF Declares
<1>6. ASSUME NEW n \in Source, NEW a \in Addr, Moves(n, a)
      PROVE  DOMAIN bindings[stack[Top]] \subseteq DOMAIN bindings'[stack'[Top']]
  <2>1. Top' = Top /\ stack'[Top] = IF Top = 1 THEN a ELSE stack[Top]
    BY <1>1, <1>6, StackAfter
  <2>2. DOMAIN bindings[Here] \subseteq DOMAIN Declared(bindings[Here], n)
    BY <1>6, NewBinding DEF Moves
  <2>3. a \notin live /\ bindings'[a] = Declared(bindings[Here], n)
        /\ \A b \in live \ {Here} : bindings'[b] = bindings[b]
    BY <1>1, <1>6 DEF Moves
  <2>4. Top # 1 => stack[Top] \in live \ {Here}
    BY <1>1
  <2> QED
    BY <1>1, <2>1, <2>2, <2>3, <2>4
<1>7. CASE Pops
  <2>1. Top' = Top - 1 /\ \A k \in 1..(Top - 1) : stack'[k] = stack[k + 1]
    BY <1>7, StackAfter
  <2>2. Top # 1
    <3>1. Len(stack') = Top - 1 /\ stack' \in Seq(live')
      BY <2>1, StackStep DEF Top, StackOK
    <3> QED
      BY <1>2, <3>1, EmptySeq
  <2>3. stack'[Top - 1] = stack[(Top - 1) + 1] /\ (Top - 1) + 1 = Top
    BY <1>1, <2>1, <2>2
  <2>4. stack[Top] \in live \ {Here}
    BY <1>1, <2>2
  <2> QED
    BY <1>1, <1>7, <2>1, <2>3, <2>4 DEF Pops
<1> QED
  BY <1>3, <1>4, <1>5, <1>6, <1>7, FrameSteps

\* Only the outermost activation is the program's.
LEMMA ProgramIsRoot ==
    ASSUME TypeOK, stack # << >>, Head(kinds) = "program"
    PROVE  Top = 1
<1>1. Top \in Nat /\ Top >= 1 /\ kinds \in Seq(Kind) /\ Len(kinds) = Top
      /\ \A k \in DOMAIN kinds : kinds[k] = "program" <=> k = Top
  BY StackIndices DEF TypeOK, StackOK, Top
<1>2. Head(kinds) = kinds[1] /\ 1 \in DOMAIN kinds
  BY <1>1, PopSeq, EmptySeq, LenProperties
<1> QED
  BY <1>1, <1>2

\* Every other activation runs after all definitions were declared.
LEMMA OthersInCheck ==
    ASSUME TypeOK, DefsOK, stack # << >>, Head(kinds) # "program"
    PROVE  phase = "check"
<1>1. Top \in Nat /\ Top >= 1 /\ kinds \in Seq(Kind) /\ Len(kinds) = Top
      /\ \A k \in DOMAIN kinds : kinds[k] = "program" <=> k = Top
  BY StackIndices DEF TypeOK, StackOK, Top
<1>2. Head(kinds) = kinds[1] /\ 1 \in DOMAIN kinds
  BY <1>1, PopSeq, EmptySeq, LenProperties
<1>3. Top # 1 /\ phase # "parse"
  BY <1>1, <1>2 DEF TypeOK, StackOK
<1> QED
  BY <1>3 DEF DefsOK, TypeOK

\* Declared definitions stay declared until they are checked.
LEMMA DefsStep ==
    ASSUME TypeOK, Chain, DefsOK, DefsFound, Next
    PROVE  DefsOK' /\ DefsFound'
<1> DEFINE root == stack[Top]
           root2 == stack'[Top']
<1>1. defs \in Seq(Source) /\ DOMAIN defs = 1..Len(defs) /\ Len(defs) \in Nat
  BY LenProperties DEF TypeOK
<1>2. phase = "parse" <=> stack = << >>
  BY DEF TypeOK, StackOK
<1>3. phase' = "parse" => defs' = << >>
  BY <1>2 DEF DefsOK, Next, Sourced, Start, DeclareDef, AllDeclared, CheckDef, Param, Body,
     EnterVal, BindVal, CallUv, Leave, Use, Found, FindInParent, Unbound, Typing
<1>4. phase' = "declare" => Top' = 1
  <2>1. ASSUME NEW a \in Addr, Start(a) PROVE Top' = 1
    <3>1. Pushes(a) /\ stack = << >>
      BY <1>2, <2>1 DEF Start, Push, Pushes
    <3>2. Top' = Top + 1 /\ Top = 0
      BY <3>1, StackAfter DEF Top
    <3> QED
      BY <3>2
  <2>2. phase' = "declare" => (phase = "declare" /\ stack' = stack) \/ \E a \in Addr : Start(a)
    <3>1. ASSUME \/ \E c \in Chars : Sourced(c)
                 \/ \E a \in Addr : CheckDef(a)
                 \/ AllDeclared
          PROVE  phase' # "declare"
      BY <3>1 DEF Sourced, CheckDef, AllDeclared
    <3>2. ASSUME \/ \E a \in Addr : EnterVal(a)
                 \/ \E n \in Source : Param(n)
                 \/ \E n \in Source, a \in Addr : BindVal(n, a)
                 \/ Leave
          PROVE  phase' # "declare"
      <4>1. stack # << >> /\ Head(kinds) # "program" /\ phase' = phase
        BY <3>2 DEF EnterVal, Param, BindVal, Leave, InExpr, Typing
      <4> QED
        BY <4>1, OthersInCheck
    <3>3. ASSUME \/ \E n \in Source : DeclareDef(n) \/ Use(n)
                 \/ Body \/ CallUv \/ Found \/ FindInParent \/ Unbound
          PROVE  phase' = phase /\ stack' = stack
      BY <3>3 DEF DeclareDef, Use, Body, CallUv, Found, FindInParent, Unbound
    <3> QED
      BY <3>1, <3>2, <3>3 DEF Next
  <2> QED
    BY <2>1, <2>2 DEF DefsOK, Top
<1>5. ASSUME NEW k \in DOMAIN defs' PROVE defs'[k] \in DOMAIN bindings'[stack'[Top']]
  <2>1. CASE defs' = defs
    <3>1. phase # "parse"
      BY <1>5, <2>1, <1>1 DEF DefsOK
    <3> QED
      BY <1>2, <1>5, <2>1, <3>1, RootGrows DEF DefsOK
  <2>2. ASSUME NEW n \in Source, DeclareDef(n)
        PROVE  defs'[k] \in DOMAIN bindings'[stack'[Top']]
    <3>1. stack # << >> /\ Top = 1 /\ stack' = stack /\ Top' = Top
          /\ defs' = Append(defs, n)
      BY <1>2, <2>2 DEF DeclareDef, DefsOK, Top
    <3>2. Here = stack[Top] /\ Here \in Addr
      BY <3>1, StackIndices DEF TypeOK, EnvOK
    <3>3. n \in DOMAIN bindings'[stack'[Top']]
      <4>1. FreshFor(n) /\ by_chars' = by_chars
        BY <2>2 DEF DeclareDef
      <4>2. n \in DOMAIN Declared(bindings[Here], n)
        BY <3>1, <4>1, NewBinding
      <4> QED
        BY <2>2, <3>1, <3>2, <4>2 DEF DeclareDef, TypeOK, EnvOK
    <3>4. /\ DOMAIN defs' = 1..(Len(defs) + 1)
          /\ \A i \in 1..Len(defs) : defs'[i] = defs[i]
          /\ defs'[Len(defs) + 1] = n
      BY <1>1, <3>1, AppendProperties, LenProperties
    <3>5. CASE k \in 1..Len(defs)
      <4>1. k \in DOMAIN defs /\ defs'[k] = defs[k]
        BY <1>1, <3>4, <3>5
      <4>2. defs[k] \in DOMAIN bindings[stack[Top]]
        BY <4>1 DEF DefsOK
      <4>3. DOMAIN bindings[stack[Top]] \subseteq DOMAIN bindings'[stack'[Top']]
        BY <3>1, RootGrows
      <4>4. defs[k] \in DOMAIN bindings'[stack'[Top']]
        BY <4>2, <4>3
      <4> QED
        BY <4>1, <4>4
    <3>6. CASE k = Len(defs) + 1
      <4>1. defs'[k] = n
        BY <3>4, <3>6
      <4> QED
        BY <3>3, <4>1
    <3> QED
      BY <1>1, <1>5, <3>4, <3>5, <3>6
  <2>3. CASE defs' = Tail(defs) /\ defs # << >>
    <3>1. stack # << >>
      BY <1>2, <2>3 DEF DefsOK
    <3>2. Len(defs') = Len(defs) - 1 /\ DOMAIN defs' = 1..(Len(defs) - 1)
          /\ \A i \in 1..(Len(defs) - 1) : defs'[i] = defs[i + 1]
      BY <1>1, <2>3, PopSeq, LenProperties
    <3>3. k + 1 \in DOMAIN defs /\ defs'[k] = defs[k + 1]
      BY <1>1, <1>5, <3>2
    <3> QED
      BY <3>1, <3>3, RootGrows DEF DefsOK
  <2>4. \/ defs' = defs
        \/ \E n \in Source : DeclareDef(n)
        \/ defs' = Tail(defs) /\ defs # << >>
    BY DEF Next, Sourced, Start, AllDeclared, CheckDef, Param, Body,
       EnterVal, BindVal, CallUv, Leave, Use, Found, FindInParent, Unbound
  <2> QED
    BY <2>1, <2>2, <2>3, <2>4
<1>6. DefsFound'
  <2>1. ASSUME NEW a \in Addr, CheckDef(a) PROVE outcome' = outcome
    <3>1. stack # << >> /\ Top = 1 /\ defs # << >>
      BY <2>1, ProgramIsRoot DEF CheckDef, Typing
    <3>2. Here = stack[Top]
      BY <3>1, StackIndices
    <3>3. Head(defs) = defs[1] /\ 1 \in DOMAIN defs
      BY <1>1, <3>1, PopSeq
    <3>4. Head(defs) \in DOMAIN bindings[Here]
      BY <3>2, <3>3 DEF DefsOK
    <3> QED
      BY <2>1, <3>4 DEF CheckDef
  <2>2. outcome' \in {outcome, "UnboundError"} \/ \E a \in Addr : CheckDef(a)
    BY DEF Next, Sourced, Start, DeclareDef, AllDeclared, Param, Body,
       EnterVal, BindVal, CallUv, Leave, Use, Found, FindInParent, Unbound
  <2> QED
    BY <2>1, <2>2 DEF DefsFound
<1> QED
  BY <1>3, <1>4, <1>5, <1>6 DEF DefsOK

\* The running find follows the stack of activations.
LEMMA FindStep ==
    ASSUME TypeOK, Chain, FindOK, DefsOK, Next
    PROVE  FindOK'
<1>1. /\ Top \in Nat /\ DOMAIN stack = 1..Top
      /\ stack # << >> => Top >= 1 /\ Here = stack[1]
  BY StackIndices
<1>2. ASSUME NEW n \in Source, Use(n) PROVE FindOK'
  <2>1. at' = stack'[1] /\ 1 \in DOMAIN stack' /\ phase' = phase
        /\ stack # << >> /\ Head(kinds) # "program"
    BY <1>1, <1>2 DEF Use, InExpr, Typing
  <2>2. phase' = "check"
    BY <2>1, OthersInCheck
  <2> QED
    BY <2>1, <2>2 DEF FindOK
<1>3. CASE at' = None
  BY <1>3 DEF FindOK
<1>4. CASE UNCHANGED <<phase, findVars, envVars, stack>>
  BY <1>4 DEF findVars, envVars, FindOK
<1>5. ASSUME FindInParent PROVE FindOK'
  <2>1. /\ at # None /\ parent[at] # None /\ at' = parent[at]
        /\ wanted \notin DOMAIN bindings[at]
        /\ UNCHANGED <<phase, wanted, bindings, stack>>
    BY <1>5 DEF FindInParent, envVars
  <2>2. PICK k \in 1..Top : /\ at = stack[k]
                            /\ \A j \in 1..(k - 1) : wanted \notin DOMAIN bindings[stack[j]]
    BY <1>1, <2>1 DEF FindOK
  <2>3. k # Top /\ parent[at] = stack[k + 1]
    BY <1>1, <2>1, <2>2 DEF Chain
  <2>4. k + 1 \in 1..Top /\ at' = stack'[k + 1]
    BY <1>1, <2>1, <2>2, <2>3
  <2>5. \A j \in 1..((k + 1) - 1) : wanted' \notin DOMAIN bindings'[stack'[j]]
    <3> SUFFICES ASSUME NEW j \in 1..((k + 1) - 1)
                 PROVE  wanted' \notin DOMAIN bindings'[stack'[j]]
      OBVIOUS
    <3>1. j \in 1..(k - 1) \/ j = k
      BY <1>1
    <3> QED
      BY <2>1, <2>2, <3>1
  <2>6. DOMAIN stack' = 1..Top
    BY <1>1, <2>1
  <2>7. phase' = "check"
    BY <2>1 DEF FindOK
  <2> QED
    BY <2>4, <2>5, <2>6, <2>7 DEF FindOK
<1>6. ASSUME \/ \E c \in Chars : Sourced(c)
             \/ \E n \in Source : DeclareDef(n)
             \/ \E a \in Addr : Start(a)
             \/ AllDeclared
      PROVE  at' = None
  <2>1. phase # "check" /\ at' = at
    BY <1>6 DEF Sourced, DeclareDef, Start, AllDeclared, findVars
  <2> QED
    BY <2>1 DEF FindOK
<1>7. ASSUME \/ \E a \in Addr : CheckDef(a) \/ EnterVal(a)
             \/ \E n \in Source : Param(n)
             \/ \E n \in Source, a \in Addr : BindVal(n, a)
             \/ Body \/ CallUv \/ Leave \/ Found
      PROVE  at' = None
  BY <1>7 DEF CheckDef, EnterVal, Param, BindVal, Body, CallUv, Leave, Found, InExpr,
     Typing, findVars
<1>8. ASSUME Unbound PROVE UNCHANGED <<phase, findVars, envVars, stack>>
  BY <1>8 DEF Unbound
<1> QED
  BY <1>2, <1>3, <1>4, <1>5, <1>6, <1>7, <1>8 DEF Next

-----------------------------------------------------------------------------
(* The invariant.                                                          *)

\* The invariant holds when the parser starts.
LEMMA Initially == Init => IInv
<1> SUFFICES ASSUME Init PROVE IInv
  OBVIOUS
<1> USE ScopesAssumption DEF Init
<1>1. Known = {} /\ Source = {} /\ stack = << >> /\ Len(stack) = 0 /\ DOMAIN stack = {}
      /\ DOMAIN kinds = {} /\ DOMAIN defs = {}
  BY DEF Known, Source
<1>2. EnvOK
  <2>1. Empty \in Bindings
    BY EmptyMap, BindingsAreMaps
  <2> QED
    BY <2>1 DEF EnvOK
<1>3. StackOK
  BY <1>1 DEF StackOK, Kind
<1>4. TypeOK
  BY <1>1, <1>2, <1>3 DEF TypeOK
<1>5. Chain /\ FindOK /\ DefsOK
  BY <1>1 DEF Chain, FindOK, DefsOK
<1>6. NoDangling /\ UniqueBinders /\ SpellingKept /\ DefsFound
  BY DEF NoDangling, UniqueBinders, SpellingKept, DefsFound
<1> QED
  BY <1>4, <1>5, <1>6 DEF IInv

\* The invariant is about the state alone.
LEMMA Stuttering == IInv /\ UNCHANGED vars => IInv'
<1> SUFFICES ASSUME IInv, UNCHANGED vars PROVE IInv'
  OBVIOUS
<1> USE DEF vars, IInv
<1>1. Known' = Known /\ Source' = Source
  BY DEF Known, Source
<1>2. TypeOK'
  <2>1. EnvOK' /\ StackOK'
    BY <1>1 DEF TypeOK, EnvOK, StackOK, Bindings
  <2> QED
    BY <1>1, <2>1 DEF TypeOK
<1>3. Chain' /\ NoDangling' /\ FindOK' /\ DefsOK'
  BY SMTT(30) DEF Chain, NoDangling, FindOK, DefsOK, Top
<1>4. UniqueBinders' /\ SpellingKept' /\ DefsFound'
  BY <1>1 DEF UniqueBinders, SpellingKept, DefsFound, Spelling
<1> QED
  BY <1>2, <1>3, <1>4

\* The invariant holds in every state of every run.
LEMMA Invariance == Spec => []IInv
<1>1. IInv /\ Next => IInv'
  BY TypeStep, ChainStep, DanglingStep, FindStep, UniqueStep, SpellingStep, DefsStep
     DEF IInv
<1> QED
  BY <1>1, Initially, Stuttering, PTL DEF Spec

\* Every TypeEnv the typer uses is alive, and every name it uses was given out.
THEOREM TypesCorrect == Spec => []TypeOK
  BY Invariance, PTL DEF IInv

\* However deep the nesting and wherever Val::check moves its TypeEnv, find
\* never follows a parent pointer to a dead frame or around a cycle.
THEOREM ParentsAlive == Spec => []NoDangling
  BY Invariance, PTL DEF IInv

\* Binders that are in scope together have different unique names, none of
\* them a name of the source.
THEOREM BindersUnique == Spec => []UniqueBinders
  BY Invariance, PTL DEF IInv

\* Interning and renaming keep what a name is spelled.
THEOREM SpellingsKept == Spec => []SpellingKept
  BY Invariance, PTL DEF IInv

\* The unchecked lookup of FunDef::check always finds its definition.
THEOREM DefinitionsFound == Spec => []DefsFound
  BY Invariance, PTL DEF IInv

-----------------------------------------------------------------------------
(* The frames implement lexical scoping.                                   *)

\* The exceptions of the model leave Program::check after the declarations.
PhaseOK == phase # "check" => outcome = "ok"

\* No exception is thrown while definitions are declared.
LEMMA PhaseInvariant == Spec => []PhaseOK
<1>1. Init => PhaseOK
  BY DEF Init, PhaseOK
<1>2. IInv /\ PhaseOK /\ Next => PhaseOK'
  <2> SUFFICES ASSUME IInv, PhaseOK, Next PROVE PhaseOK'
    OBVIOUS
  <2>1. DefsFound'
    BY DefsStep DEF IInv
  <2>2. ASSUME Unbound PROVE phase' = "check"
    BY <2>2 DEF Unbound, IInv, FindOK
  <2>3. Unbound \/ outcome' = outcome \/ outcome' = "bad_optional_access"
    BY DEF Next, Sourced, Start, DeclareDef, AllDeclared, CheckDef, Param, Body,
       EnterVal, BindVal, CallUv, Leave, Use, Found, FindInParent
  <2>4. phase = "check" => phase' = "check"
    BY DEF Next, Sourced, Start, DeclareDef, AllDeclared, CheckDef, Param, Body,
       EnterVal, BindVal, CallUv, Leave, Use, Found, FindInParent, Unbound
  <2> QED
    BY <2>1, <2>2, <2>3, <2>4 DEF PhaseOK, DefsFound
<1>3. PhaseOK /\ UNCHANGED vars => PhaseOK'
  BY DEF vars, PhaseOK
<1> QED
  BY <1>1, <1>2, <1>3, Invariance, PTL DEF Spec

\* The scopes that the frames stand for.
ScopesOf == [k \in DOMAIN stack |-> bindings[stack[k]]]
\* The image of a sequence under a function, index by index.
LEMMA MapSeq ==
    ASSUME NEW A, NEW S, NEW seq \in Seq(A), NEW map \in [A -> S]
    PROVE  LET image == [k \in DOMAIN seq |-> map[seq[k]]] IN
           /\ image \in Seq(S) /\ Len(image) = Len(seq) /\ Len(seq) \in Nat
           /\ DOMAIN image = 1..Len(seq)
           /\ \A k \in 1..Len(seq) : image[k] = map[seq[k]]
<1> DEFINE image == [k \in DOMAIN seq |-> map[seq[k]]]
<1>1. /\ Len(seq) \in Nat /\ DOMAIN seq = 1..Len(seq)
      /\ \A k \in 1..Len(seq) : seq[k] \in A
  BY LenProperties, ElementOfSeq
<1>2. /\ DOMAIN image = 1..Len(seq)
      /\ \A k \in 1..Len(seq) : image[k] = map[seq[k]]
      /\ image \in [1..Len(seq) -> S]
  BY <1>1
<1> HIDE DEF image
<1>3. image \in Seq(S)
  BY <1>1, <1>2, SeqDef
<1>4. Len(image) = Len(seq)
  BY <1>1, <1>2, <1>3, LenProperties
<1> QED
  BY <1>1, <1>2, <1>3, <1>4 DEF image

\* The scopes before and after a step, index by index.
LEMMA ScopesAround ==
    ASSUME TypeOK, Chain, Next
    PROVE  /\ ScopesOf \in Seq(Bindings') /\ ScopesOf' \in Seq(Bindings')
           /\ Len(ScopesOf) = Top /\ DOMAIN ScopesOf = 1..Top /\ Top \in Nat
           /\ Len(ScopesOf') = Top' /\ DOMAIN ScopesOf' = 1..Top' /\ Top' \in Nat
           /\ \A k \in 1..Top : ScopesOf[k] = bindings[stack[k]]
           /\ \A k \in 1..Top' : ScopesOf'[k] = bindings'[stack'[k]]
<1> DEFINE B == Bindings'
<1>1. stack \in Seq(Addr) /\ bindings \in [Addr -> Bindings]
  BY SeqMonotonic DEF TypeOK, StackOK, EnvOK
<1>2. stack' \in Seq(Addr) /\ bindings' \in [Addr -> B]
  <2>1. TypeOK'
    BY TypeStep
  <2>2. stack' \in Seq(live') /\ live' \subseteq Addr /\ bindings' \in [Addr -> B]
    BY <2>1 DEF TypeOK, StackOK, EnvOK
  <2> QED
    BY <2>2, SeqMonotonic
<1>3. bindings \in [Addr -> B]
  <2>1. Known \subseteq Known' /\ Source \subseteq Source'
    BY NamesStep
  <2>2. B = Maps(Source', Known') /\ Bindings = Maps(Source, Known)
    BY DEF Bindings, Maps
  <2> HIDE DEF B
  <2>3. \A map \in Bindings : map \in B
    BY <2>1, <2>2, MapMono
  <2> QED
    BY <1>1, <2>3
<1> HIDE DEF B
<1>4. /\ ScopesOf \in Seq(B)
      /\ Len(ScopesOf) = Top /\ DOMAIN ScopesOf = 1..Top /\ Top \in Nat
      /\ \A k \in 1..Top : ScopesOf[k] = bindings[stack[k]]
  BY <1>1, <1>3, MapSeq DEF ScopesOf, Top
<1>5. /\ ScopesOf' \in Seq(B)
      /\ Len(ScopesOf') = Top' /\ DOMAIN ScopesOf' = 1..Top' /\ Top' \in Nat
      /\ \A k \in 1..Top' : ScopesOf'[k] = bindings'[stack'[k]]
  BY <1>2, MapSeq DEF ScopesOf, Top
<1> QED
  BY <1>4, <1>5 DEF B

\* Pushing a frame opens an empty scope.
LEMMA PushOpens ==
    ASSUME TypeOK, Chain, Next, NEW a \in Addr, Pushes(a)
    PROVE  ScopesOf' = <<Empty>> \o ScopesOf
<1> DEFINE B == Bindings'
           t == <<Empty>> \o ScopesOf
<1>1. Empty \in B
  BY EmptyMap DEF Bindings, Maps
<1>2. /\ ScopesOf \in Seq(B) /\ ScopesOf' \in Seq(B)
      /\ Len(ScopesOf) = Top /\ Len(ScopesOf') = Top' /\ Top \in Nat
      /\ \A k \in 1..Top : ScopesOf[k] = bindings[stack[k]]
      /\ \A k \in 1..Top' : ScopesOf'[k] = bindings'[stack'[k]]
  BY ScopesAround
<1> HIDE DEF B
<1>3. /\ t \in Seq(B) /\ Len(t) = Top + 1
      /\ \A k \in 1..(Top + 1) : t[k] = IF k = 1 THEN Empty ELSE ScopesOf[k - 1]
  BY <1>1, <1>2, PushSeq
<1>4. /\ Top' = Top + 1
      /\ \A k \in 1..(Top + 1) : stack'[k] = IF k = 1 THEN a ELSE stack[k - 1]
  BY StackAfter
<1>5. \A k \in 1..Top : stack[k] \in Addr \ {a}
  BY StackIndices DEF Pushes
<1>6. /\ bindings' = [bindings EXCEPT ![a] = Empty]
      /\ bindings \in [Addr -> Bindings]
  BY DEF Pushes, TypeOK, EnvOK
<1>7. \A k \in 1..(Top + 1) : ScopesOf'[k] = t[k]
  <2> SUFFICES ASSUME NEW k \in 1..(Top + 1) PROVE ScopesOf'[k] = t[k]
    OBVIOUS
  <2> HIDE DEF t
  <2>1. CASE k = 1
    BY <1>2, <1>3, <1>4, <1>6, <2>1
  <2>2. CASE k # 1
    <3>1. k - 1 \in 1..Top
      BY <1>2, <2>2
    <3>2. ScopesOf'[k] = bindings'[stack[k - 1]]
      BY <1>2, <1>4, <2>2
    <3>3. bindings'[stack[k - 1]] = bindings[stack[k - 1]]
      BY <1>5, <1>6, <3>1
    <3> QED
      BY <1>2, <1>3, <2>2, <3>1, <3>2, <3>3
  <2> QED
    BY <2>1, <2>2
<1> HIDE DEF t
<1>8. ScopesOf' = t
  BY <1>2, <1>3, <1>4, <1>7, SeqEqual
<1> QED
  BY <1>8 DEF t

\* Popping a frame closes the innermost scope and changes no other.
LEMMA PopCloses ==
    ASSUME TypeOK, Chain, Next, Pops
    PROVE  ScopesOf # << >> /\ ScopesOf' = Tail(ScopesOf)
<1> DEFINE B == Bindings'
           t == Tail(ScopesOf)
<1>1. /\ ScopesOf \in Seq(B) /\ ScopesOf' \in Seq(B)
      /\ Len(ScopesOf) = Top /\ Len(ScopesOf') = Top' /\ Top \in Nat
      /\ \A k \in 1..Top : ScopesOf[k] = bindings[stack[k]]
      /\ \A k \in 1..Top' : ScopesOf'[k] = bindings'[stack'[k]]
  BY ScopesAround
<1> HIDE DEF B
<1>2. Top >= 1 /\ Here = stack[1] /\ DOMAIN stack = 1..Top
      /\ (\A k \in 1..Top : stack[k] \in Addr)
  BY StackIndices DEF Pops
<1>3. ScopesOf # << >>
  BY <1>1, <1>2, EmptySeq
<1>4. /\ t \in Seq(B) /\ Len(t) = Top - 1
      /\ \A k \in 1..(Top - 1) : t[k] = ScopesOf[k + 1]
  BY <1>1, <1>3, PopSeq
<1>5. Top' = Top - 1 /\ \A k \in 1..(Top - 1) : stack'[k] = stack[k + 1]
  BY StackAfter
<1>6. /\ bindings' = [bindings EXCEPT ![Here] = Empty]
      /\ bindings \in [Addr -> Bindings]
  BY DEF Pops, TypeOK, EnvOK
<1> HIDE DEF t
<1>7. \A k \in 1..(Top - 1) : ScopesOf'[k] = t[k]
  <2> SUFFICES ASSUME NEW k \in 1..(Top - 1) PROVE ScopesOf'[k] = t[k]
    OBVIOUS
  <2>1. k + 1 \in 1..Top /\ k + 1 # 1 /\ k \in 1..Top'
    BY <1>1, <1>2, <1>5
  <2>2. stack[k + 1] # Here /\ stack[k + 1] \in Addr
    BY <1>2, <2>1 DEF Chain
  <2>3. bindings'[stack[k + 1]] = bindings[stack[k + 1]]
    BY <1>6, <2>2
  <2> QED
    BY <1>1, <1>4, <1>5, <2>1, <2>3
<1>8. ScopesOf' = t
  BY <1>1, <1>4, <1>5, <1>7, SeqEqual
<1> QED
  BY <1>3, <1>8 DEF t

\* A declaration, in place or with a move, adds to the innermost scope.
Adds ==
    /\ ScopesOf # << >> /\ DOMAIN ScopesOf' = DOMAIN ScopesOf
    /\ \A k \in DOMAIN ScopesOf : k # 1 => ScopesOf'[k] = ScopesOf[k]
    /\ \A m \in DOMAIN ScopesOf[1] :
            m \in DOMAIN ScopesOf'[1] /\ ScopesOf'[1][m] = ScopesOf[1][m]

\* A declaration changes the innermost scope only, even when it moves the frame.
LEMMA DeclarationAdds ==
    ASSUME TypeOK, Chain, Next, NEW n \in Source, NEW a \in Addr, Declares(n) \/ Moves(n, a)
    PROVE  Adds
<1>1. /\ Len(ScopesOf) = Top /\ DOMAIN ScopesOf = 1..Top
      /\ DOMAIN ScopesOf' = 1..Top' /\ Top \in Nat
      /\ \A k \in 1..Top : ScopesOf[k] = bindings[stack[k]]
      /\ \A k \in 1..Top' : ScopesOf'[k] = bindings'[stack'[k]]
  BY ScopesAround
<1>2. /\ Top >= 1 /\ Here = stack[1] /\ Here \in Addr /\ DOMAIN stack = 1..Top
      /\ stack # << >>
      /\ \A k \in 1..Top : stack[k] \in live /\ stack[k] \in Addr
  BY StackIndices DEF Declares, Moves
<1>3. ScopesOf # << >>
  BY <1>1, <1>2
<1>4. Top' = Top
  BY StackAfter
<1>5. \A k \in 1..Top : k # 1 => stack[k] # Here /\ stack'[k] = stack[k]
  <2>1. \A k \in 1..Top : k # 1 => stack[k] # Here
    BY <1>2 DEF Chain
  <2>2. \A k \in 1..Top : k # 1 => stack'[k] = stack[k]
    BY <1>2, StackAfter
  <2> QED
    BY <2>1, <2>2
<1>6. /\ bindings'[stack'[1]] = Declared(bindings[Here], n)
      /\ \A k \in 1..Top : k # 1 => bindings'[stack[k]] = bindings[stack[k]]
  <2>1. bindings \in [Addr -> Bindings]
    BY DEF TypeOK, EnvOK
  <2>2. CASE Declares(n)
    <3>1. /\ bindings' = [bindings EXCEPT ![Here] = Declared(bindings[Here], n)]
          /\ stack' = stack
      BY <2>2 DEF Declares
    <3> QED
      BY <1>2, <1>5, <2>1, <3>1
  <2>3. CASE Moves(n, a)
    <3>1. /\ bindings' = [bindings EXCEPT ![Here] = Empty,
                                          ![a] = Declared(bindings[Here], n)]
          /\ a \notin live
      BY <2>3 DEF Moves
    <3>2. stack'[1] = a
      BY <1>2, <2>3, StackAfter
    <3> QED
      BY <1>2, <1>5, <2>1, <3>1, <3>2
  <2> QED
    BY <2>2, <2>3
<1>7. LET new == Declared(bindings[Here], n) IN
      \A m \in DOMAIN bindings[Here] : m \in DOMAIN new /\ new[m] = bindings[Here][m]
  <2>1. FreshFor(n) /\ by_chars' = by_chars
    BY DEF Declares, Moves
  <2> QED
    BY <1>2, <2>1, NewBinding
<1>8. \A m \in DOMAIN ScopesOf[1] :
            m \in DOMAIN ScopesOf'[1] /\ ScopesOf'[1][m] = ScopesOf[1][m]
  <2>1. ScopesOf[1] = bindings[Here] /\ ScopesOf'[1] = Declared(bindings[Here], n)
    BY <1>1, <1>2, <1>4, <1>6
  <2> QED
    BY <1>7, <2>1
<1>9. \A k \in 1..Top : k # 1 => ScopesOf'[k] = ScopesOf[k]
  BY <1>1, <1>4, <1>5, <1>6
<1> QED
  BY <1>1, <1>3, <1>4, <1>8, <1>9 DEF Adds

\* No find is running, and what the last one answered does not change.
Idle == /\ wanted = None /\ outcome = "ok"
        /\ UNCHANGED <<wanted, answer, outcome>>

Same == UNCHANGED <<ScopesOf, wanted, answer, outcome>>

\* What each step of the typer is in terms of scopes.
LEMMA StepKinds ==
    ASSUME IInv, PhaseOK, Next
    PROVE  \/ \E a \in Addr : Pushes(a) /\ Idle
           \/ \E n \in Source, a \in Addr : (Declares(n) \/ Moves(n, a)) /\ Idle
           \/ Pops /\ Idle
           \/ \E n \in Source : Use(n)
           \/ Found \/ Unbound \/ Same
<1>1. /\ at = None <=> wanted = None
      /\ phase # "check" => at = None /\ outcome = "ok"
      /\ phase = "parse" <=> stack = << >>
  BY DEF IInv, TypeOK, StackOK, FindOK, PhaseOK
<1>2. ASSUME NEW a \in Addr, Start(a) PROVE Pushes(a) /\ Idle
  BY <1>1, <1>2 DEF Start, Push, Pushes, Idle, findVars
<1>3. ASSUME NEW a \in Addr, CheckDef(a) PROVE Pushes(a) /\ Idle
  <2>1. DefsFound'
    BY DefsStep DEF IInv
  <2>2. Push(a, "params", Here) /\ UNCHANGED <<wanted, answer, outcome>>
        /\ at = None /\ outcome = "ok" /\ stack # << >>
    BY <1>3, <2>1 DEF CheckDef, DefsFound, findVars, Typing
  <2> QED
    BY <1>1, <1>3, <2>2 DEF Push, Pushes, Idle, CheckDef
<1>4. ASSUME NEW a \in Addr, EnterVal(a) PROVE Pushes(a) /\ Idle
  BY <1>1, <1>4 DEF EnterVal, Push, Pushes, Idle, findVars, InExpr, Typing
<1>5. ASSUME NEW n \in Source, DeclareDef(n) \/ Param(n) PROVE Declares(n) /\ Idle
  BY <1>1, <1>5 DEF DeclareDef, Param, Declares, Idle, findVars, Typing
<1>6. ASSUME NEW n \in Source, NEW a \in Addr, BindVal(n, a) PROVE Moves(n, a) /\ Idle
  BY <1>1, <1>6 DEF BindVal, Moves, Idle, findVars, InExpr, Typing
<1>7. ASSUME Leave PROVE Pops /\ Idle
  BY <1>1, <1>7 DEF Leave, Pop, Pops, Idle, findVars, InExpr, Typing
<1>8. ASSUME \/ \E c \in Chars : Sourced(c)
             \/ AllDeclared \/ Body \/ CallUv \/ FindInParent
      PROVE  Same
  <2>1. UNCHANGED <<bindings, stack, wanted, answer, outcome>>
    BY <1>8 DEF Sourced, AllDeclared, Body, CallUv, FindInParent, envVars, findVars
  <2> QED
    BY <2>1 DEF Same, ScopesOf
<1>9. CASE \/ \E a \in Addr : Start(a) \/ CheckDef(a) \/ EnterVal(a)
  BY <1>2, <1>3, <1>4, <1>9
<1>10. CASE \E n \in Source : DeclareDef(n) \/ Param(n)
  <2>1. PICK n \in Source : DeclareDef(n) \/ Param(n)
    BY <1>10
  <2>2. Declares(n) /\ Idle
    BY <1>5, <2>1
  <2>3. \E a \in Addr : TRUE
    <3>1. Here \in Addr
      BY <2>2, StackIndices DEF Declares, IInv
    <3> QED
      BY <3>1
  <2> QED
    BY <2>2, <2>3
<1>11. CASE \E n \in Source, a \in Addr : BindVal(n, a)
  BY <1>6, <1>11
<1> QED
  BY <1>7, <1>8, <1>9, <1>10, <1>11 DEF Next

\* The binding that find returns is the innermost one.
LEMMA FoundAnswers ==
    ASSUME IInv, Found
    PROVE  /\ wanted # None /\ outcome = "ok" /\ wanted' = None
           /\ \E k \in DOMAIN ScopesOf :
                /\ wanted \in DOMAIN ScopesOf[k]
                /\ \A j \in 1..(k - 1) :
                      ~(j \in DOMAIN ScopesOf /\ wanted \in DOMAIN ScopesOf[j])
                /\ answer' = ScopesOf[k][wanted]
           /\ UNCHANGED <<ScopesOf, outcome>>
<1>1. /\ wanted # None /\ outcome = "ok" /\ wanted' = None
      /\ wanted \in DOMAIN bindings[at] /\ answer' = bindings[at][wanted]
      /\ UNCHANGED <<bindings, stack, outcome>>
  BY DEF Found, IInv, TypeOK, envVars
<1>2. PICK k \in DOMAIN stack :
            /\ at = stack[k]
            /\ \A j \in 1..(k - 1) : wanted \notin DOMAIN bindings[stack[j]]
  BY DEF Found, IInv, FindOK
<1>3. \A j \in DOMAIN stack : ScopesOf[j] = bindings[stack[j]]
  BY DEF ScopesOf
<1>4. DOMAIN ScopesOf = DOMAIN stack /\ UNCHANGED ScopesOf
  BY <1>1 DEF ScopesOf
<1>5. /\ wanted \in DOMAIN ScopesOf[k] /\ answer' = ScopesOf[k][wanted]
      /\ \A j \in 1..(k - 1) : ~(j \in DOMAIN ScopesOf /\ wanted \in DOMAIN ScopesOf[j])
  BY <1>1, <1>2, <1>3, <1>4
<1> QED
  BY <1>1, <1>2, <1>4, <1>5

\* Find only gives up when no scope binds the name.
LEMMA UnboundAnswers ==
    ASSUME IInv, Unbound
    PROVE  /\ wanted # None /\ outcome = "ok" /\ outcome' = "UnboundError"
           /\ \A k \in DOMAIN ScopesOf : wanted \notin DOMAIN ScopesOf[k]
           /\ UNCHANGED <<ScopesOf, wanted, answer>>
<1> USE ScopesAssumption
<1>1. /\ at # None /\ wanted # None /\ outcome = "ok" /\ outcome' = "UnboundError"
      /\ wanted \notin DOMAIN bindings[at] /\ parent[at] = None
      /\ UNCHANGED <<bindings, stack, wanted, answer>>
  BY DEF Unbound, IInv, TypeOK, envVars, findVars
<1>2. PICK k \in DOMAIN stack :
            /\ at = stack[k]
            /\ \A j \in 1..(k - 1) : wanted \notin DOMAIN bindings[stack[j]]
  BY <1>1 DEF IInv, FindOK
<1>3. Top \in Nat /\ DOMAIN stack = 1..Top /\ \A j \in 1..Top : stack[j] \in Addr
  BY StackIndices DEF IInv
<1>4. k = Top
  <2>1. k # Top => parent[at] = stack[k + 1]
    BY <1>2 DEF IInv, Chain
  <2>2. k # Top => stack[k + 1] \in Addr
    BY <1>2, <1>3
  <2> QED
    BY <1>1, <2>1, <2>2
<1>5. \A j \in DOMAIN stack : wanted \notin DOMAIN bindings[stack[j]]
  <2> SUFFICES ASSUME NEW j \in DOMAIN stack PROVE wanted \notin DOMAIN bindings[stack[j]]
    OBVIOUS
  <2>1. j = k \/ j \in 1..(k - 1)
    BY <1>3, <1>4
  <2> QED
    BY <1>1, <1>2, <2>1
<1>6. DOMAIN ScopesOf = DOMAIN stack /\ UNCHANGED ScopesOf
      /\ \A j \in DOMAIN stack : ScopesOf[j] = bindings[stack[j]]
  BY <1>1 DEF ScopesOf
<1> QED
  BY <1>1, <1>5, <1>6

\* A use of a name asks for it.
LEMMA UseAsks ==
    ASSUME IInv, NEW n \in Source, Use(n)
    PROVE  /\ wanted = None /\ outcome = "ok" /\ wanted' # None
           /\ UNCHANGED <<ScopesOf, answer, outcome>>
<1>1. n # None
  BY DEF Source
<1>2. wanted = None /\ outcome = "ok" /\ wanted' = n
      /\ UNCHANGED <<bindings, stack, answer, outcome>>
  BY DEF Use, InExpr, Typing, envVars, IInv, TypeOK
<1> QED
  BY <1>1, <1>2 DEF ScopesOf

\* Every step of the typer is a step of lexical scoping, or none.
LEMMA StepImplements ==
    ASSUME IInv, PhaseOK, Next
    PROVE  [Lexical!Next]_(Lexical!vars)
<1> USE DEF Lexical!Next, Lexical!vars
<1>1. TypeOK /\ Chain
  BY DEF IInv
<1>2. ASSUME NEW a \in Addr, Pushes(a), Idle PROVE Lexical!Open
  <2>1. ScopesOf' = <<Empty>> \o ScopesOf
    BY <1>1, <1>2, PushOpens
  <2> QED
    BY <1>2, <2>1 DEF Lexical!Open, Lexical!Ready, Idle, ScopesOf, Empty
<1>3. ASSUME NEW n \in Source, NEW a \in Addr, Declares(n) \/ Moves(n, a), Idle
      PROVE  Lexical!Declare
  <2>1. Adds
    BY <1>1, <1>3, DeclarationAdds
  <2> QED
    BY <1>3, <2>1 DEF Lexical!Declare, Lexical!Ready, Idle, ScopesOf, Adds
<1>4. ASSUME Pops, Idle PROVE Lexical!Close
  <2>1. ScopesOf # << >> /\ ScopesOf' = Tail(ScopesOf)
    BY <1>1, <1>4, PopCloses
  <2> QED
    BY <1>4, <2>1 DEF Lexical!Close, Lexical!Ready, Idle, ScopesOf
<1>5. ASSUME NEW n \in Source, Use(n) PROVE Lexical!Ask
  BY <1>5, UseAsks DEF Lexical!Ask, Lexical!Ready, ScopesOf
<1>6. ASSUME Found PROVE Lexical!Answer
  BY <1>6, FoundAnswers DEF Lexical!Answer, Lexical!Innermost, Lexical!Binding, ScopesOf
<1>7. ASSUME Unbound PROVE Lexical!Answer
  BY <1>7, UnboundAnswers DEF Lexical!Answer, Lexical!Bound, Lexical!Binding, ScopesOf
<1>8. ASSUME Same PROVE UNCHANGED Lexical!vars
  BY <1>8 DEF Same, ScopesOf
<1> QED
  BY <1>2, <1>3, <1>4, <1>5, <1>6, <1>7, <1>8, StepKinds

\* The frames, their raw parent pointers and the moves implement lexical
\* scoping: every use gets the innermost declaration in scope.
THEOREM ScopingIsLexical == Spec => ResolvesLexically
<1>1. Init => Lexical!Init
  BY DEF Init, Lexical!Init
<1>2. IInv /\ PhaseOK /\ [Next]_vars => [Lexical!Next]_(Lexical!vars)
  <2>1. ASSUME UNCHANGED vars PROVE UNCHANGED Lexical!vars
    BY <2>1 DEF vars, Lexical!vars
  <2> QED
    BY <2>1, StepImplements
<1> QED
  BY <1>1, <1>2, Invariance, PhaseInvariant, PTL DEF Spec, ResolvesLexically, Lexical!Spec
=============================================================================
