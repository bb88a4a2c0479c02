---------------------------- MODULE CodegenProofs ----------------------------
(***************************************************************************)
(* Proofs about ToCps and Codegen, for functions of any number of nodes,   *)
(* expressions and blocks.                                                 *)
(***************************************************************************)
EXTENDS Codegen, SequenceTheorems, FiniteSetTheorems, WellFoundedInduction,
        TLAPS

-----------------------------------------------------------------------------
(* What the Builder and the activations of to_cps hold.                    *)

\* The blocks that a value is passed to, and the ones that a branch leads to.
Joins == {b \in Block : b # Entry /\ Len(params[b]) = 1}
Arms == {b \in Block : b # Entry /\ Len(params[b]) = 0}

ExprsOK ==
    /\ exprs \in Seq([kind : {"fn", "param", "const", "prim"}, args : Seq(Nat \cup {Null})])
    /\ \A e \in DOMAIN exprs : Range(exprs[e].args) \subseteq (1..(e - 1)) \cup {Null}

\* Whoever passes a value passes it to a block with a parameter; a branch passes
\* none to a block that has none.
TransferOK(t) ==
    /\ t \in Transfer /\ Range(t.args) \subseteq Value
    /\ \/ t.form = "goto" /\ Len(t.args) = 1 /\ \E c \in Joins \cup {Return} : t.conts = <<c>>
       \/ t.form = "call" /\ Len(t.args) = 2 /\ \E c \in Joins \cup {Return} : t.conts = <<c>>
       \/ t.form = "if" /\ Len(t.args) = 1 /\ \E c, d \in Arms : t.conts = <<c, d>>

BlocksOK ==
    /\ params \in Seq(Seq(DOMAIN exprs)) /\ current \in Block /\ Entry \in Block
    /\ Block = Joins \cup Arms \cup {Entry}
    /\ Len(transfer) = Len(params) /\ transfer \in Seq(Transfer \cup {None})
    /\ \A b \in Block : transfer[b] = None \/ TransferOK(transfer[b])

NamesOK ==
    /\ types \in Seq(Type)
    /\ defs \in Seq(DOMAIN exprs \cup {None}) /\ Len(defs) = Len(types)

Cont ==
    [cont : Joins \cup {Return}, name : {None}] \cup [cont : {None}, name : NameT \cup {None}]

Activation ==
    [form : {"expr", "prim", "call", "if"}, k : Cont, oname : NameT \cup {None}, type : Type,
     scope : SUBSET NameT, args : Seq(Value), alt : Arms \cup {None}, join : Joins \cup {None}]

\* The blocks of a conditional are there; its join is unless the continuation is
\* trivial.
Branched(a) == a.join = None <=> IsTrivial(a.k)

\* An activation that goes on next.
Resumed(a) ==
    \/ a.form = "expr" /\ a.alt = None /\ a.join = None
    \/ a.form \in {"prim", "call"} /\ Len(a.args) \in {1, 2} /\ a.alt = None /\ a.join = None
    \/ a.form = "if" /\ Len(a.args) = 1 /\ a.alt = None /\ a.join = None
    \/ a.form = "if" /\ Len(a.args) = 2 /\ a.alt \in Arms /\ Branched(a)
    \/ a.form = "if" /\ Len(a.args) = 3 /\ a.alt = None /\ Branched(a)

BranchCont(a) == IF a.join = None THEN a.k ELSE Trivial(a.join)

\* The activation a waits for c.
Waits(c, a) ==
    \/ /\ a.form = "expr" /\ a.alt = None /\ a.join = None
       /\ \E n \in NameT : c.k = NextCont(n) /\ c.oname = n
    \/ /\ a.form \in {"prim", "call"} /\ a.alt = None /\ a.join = None
       /\ c.oname = None
       /\ \/ Len(a.args) = 0 /\ c.k = IF a.form = "call" THEN a.k ELSE NextCont(None)
          \/ Len(a.args) = 1 /\ c.k = NextCont(None)
    \/ /\ a.form = "if" /\ c.oname = None
       /\ \/ Len(a.args) = 0 /\ a.alt = None /\ a.join = None /\ c.k = NextCont(None)
          \/ Len(a.args) = 1 /\ a.alt \in Arms /\ Branched(a) /\ c.k = BranchCont(a)
          \/ Len(a.args) = 2 /\ a.alt = None /\ Branched(a) /\ c.k = BranchCont(a)

\* The names in scope have values, except the one whose value is under way; a join
\* has given its name one.
Named(a) ==
    /\ \A n \in a.scope : defs[n] # None
    /\ a.join # None /\ a.oname # None => defs[a.oname] # None
NamedBut(c, a) ==
    /\ \A n \in a.scope : defs[n] # None \/ (c.oname = n /\ c.k = NextCont(n))
    /\ a.join # None /\ a.oname # None => defs[a.oname] # None

StackOK ==
    /\ stack \in Seq(Activation)
    /\ stack # << >> => Resumed(Top) /\ Named(Top) /\ stack[Len(stack)].k = Trivial(Return)
    /\ \A j \in 2..Len(stack) :
        Waits(stack[j - 1], stack[j]) /\ NamedBut(stack[j - 1], stack[j])

\* Only the blocks that the conversion still goes on in have no transfer.
TransfersOK ==
    /\ \A b \in Block \ {current} :
        transfer[b] # None \/ \E j \in DOMAIN stack : b \in {stack[j].alt, stack[j].join}
    /\ stack = << >> \/ (Top.form = "if" /\ Len(Top.args) >= 2) => transfer[current] # None

Converts == ExprsOK /\ BlocksOK /\ NamesOK /\ StackOK /\ TransfersOK

-----------------------------------------------------------------------------
(* The visit of blocks and expressions.                                    *)

Leaves == {"leave block", "leave expr"}

Item ==
    [do : {"block", "leave block"}, node : Block] \cup [do : {"expr"}, node : Value]
        \cup [do : {"leave expr"}, node : DOMAIN exprs]

AgendaOK ==
    /\ agenda \in Seq(Item) /\ visited \subseteq {i \in Item : i.do \notin Leaves}
    /\ order \in Seq(DOMAIN exprs) /\ blocks \in Seq(Block)

\* What is entered is left once.
EnteredOnce ==
    /\ IsInjective(order) /\ IsInjective(blocks)
    /\ \A i, j \in DOMAIN agenda : agenda[i] = agenda[j] /\ agenda[i].do \in Leaves => i = j
    /\ \A i \in DOMAIN agenda :
        /\ agenda[i].do = "leave expr" =>
            Visit("expr", agenda[i].node) \in visited /\ agenda[i].node \notin Range(order)
        /\ agenda[i].do = "leave block" =>
            Visit("block", agenda[i].node) \in visited /\ agenda[i].node \notin Range(blocks)
    /\ \A e \in Range(order) : Visit("expr", e) \in visited
    /\ \A b \in Range(blocks) : Visit("block", b) \in visited

\* Operands are older than what they are operands of, so none of them is left
\* after it.
Descending ==
    \A i, j \in DOMAIN agenda : i < j /\ agenda[j].do = "leave expr" =>
        /\ agenda[i].do \in {"expr", "leave expr"}
        /\ agenda[i].node = Null \/ agenda[i].node < agenda[j].node

LeftOrEntered ==
    /\ \A v \in Value : Visit("expr", v) \in visited =>
        v \in Range(order) \/ \E i \in DOMAIN agenda : agenda[i] = Visit("leave expr", v)
    /\ \A j \in DOMAIN agenda : agenda[j].do = "leave expr" =>
        \A v \in Range(exprs[agenda[j].node].args) :
            \/ v \in Range(order)
            \/ \E i \in 1..(j - 1) : agenda[i] \in {Visit("expr", v), Visit("leave expr", v)}

OperandsFirst ==
    \A k \in DOMAIN order : \A v \in Range(exprs[order[k]].args) :
        \E i \in 1..(k - 1) : order[i] = v

Walks == AgendaOK /\ EnteredOnce /\ Descending /\ LeftOrEntered /\ OperandsFirst

Walked == {"schedule", "no_exprs", "declare", "fill", "missing", "no_input", "done"}

\* The expressions scheduled are the last ones of the postorder.
Schedules ==
    LET m == Cardinality(DOMAIN sched) IN
    /\ m \in 0..Len(order) /\ IsFiniteSet(DOMAIN sched)
    /\ DOMAIN sched = {order[j] : j \in (Len(order) - m + 1)..Len(order)}

Fills ==
    /\ filled \subseteq Block /\ DOMAIN inputs = Block
    /\ \A b \in filled : inputs[b] = Passed(b)

CompileInv ==
    /\ pc \in {"convert", "walk", "null"} \cup Walked
    /\ Converts
    /\ pc = "convert" => agenda = << >> /\ visited = {} /\ order = << >> /\ blocks = << >>
    /\ pc # "convert" => stack = << >>
    /\ pc # "null" => Walks
    /\ pc \in {"convert", "walk"} => sched = << >>
    /\ pc \in Walked => agenda = << >>
    /\ pc = "schedule" => Schedules
    /\ pc \in {"convert", "walk", "schedule", "declare"} => filled = {}
    /\ pc \in {"fill", "no_input", "done"} => Fills
    /\ PhisComplete

-----------------------------------------------------------------------------
(* What the conversion has, it keeps.                                      *)

Grows ==
    /\ DOMAIN exprs \subseteq DOMAIN exprs'
    /\ Joins \subseteq Joins' /\ Arms \subseteq Arms'
    /\ NameT \subseteq NameT' /\ \A n \in NameT : defs[n] # None => defs'[n] # None

LEMMA ActivationsKept ==
    ASSUME Grows
    PROVE  Activation \subseteq Activation'
BY DEF Grows, Cont, Value, Activation

LEMMA WaitsKept ==
    ASSUME Grows, NEW c, NEW a, Waits(c, a)
    PROVE  Waits(c, a)'
BY DEF Grows, Waits, Branched, BranchCont, IsTrivial, Trivial, NextCont

LEMMA NamedKept ==
    ASSUME Grows, NEW a \in Activation, NEW c
    PROVE  /\ Named(a) => Named(a)'
           /\ NamedBut(c, a) => NamedBut(c, a)'
BY DEF Grows, Named, NamedBut, Activation

LEMMA TransferKept ==
    ASSUME Grows, NEW t, TransferOK(t)
    PROVE  TransferOK(t)'
BY DEF Grows, Value, TransferOK

LEMMA TransfersKept ==
    ASSUME Grows, \A b \in Block : transfer[b] = None \/ TransferOK(transfer[b]),
           NEW t, TransferOK(t)' \/ t = None,
           \A b \in Block' : transfer'[b] \in {None, t} \/ (b \in Block /\ transfer'[b] = transfer[b])
    PROVE  (\A b \in Block : transfer[b] = None \/ TransferOK(transfer[b]))'
<1>1. ASSUME NEW b \in Block', transfer'[b] # None
      PROVE  TransferOK(transfer[b])'
    BY <1>1, TransferKept DEF TransferOK
<1> QED
    BY <1>1

-----------------------------------------------------------------------------
(* The stack after a return and after a call.                              *)

LEMMA TailOfTail ==
    ASSUME NEW S, NEW s \in Seq(S), Len(s) > 1
    PROVE  /\ Tail(Tail(s)) \in Seq(S) /\ Len(Tail(Tail(s))) = Len(s) - 2
           /\ \A j \in 1..(Len(s) - 2) : Tail(Tail(s))[j] = s[j + 2]
<1>1. PICK t : t = Tail(s)
    OBVIOUS
<1>2. t \in Seq(S) /\ Len(t) = Len(s) - 1 /\ t # << >> /\ \A j \in 1..(Len(s) - 1) : t[j] = s[j + 1]
    BY <1>1
<1>3. Tail(t) \in Seq(S) /\ Len(Tail(t)) = Len(s) - 2 /\ \A j \in 1..(Len(s) - 2) : Tail(t)[j] = t[j + 1]
    BY <1>2
<1> QED
    BY <1>1, <1>2, <1>3

LEMMA ConsElements ==
    ASSUME NEW S, NEW r \in Seq(S), NEW x
    PROVE  LET t == <<x>> \o r IN
           /\ t \in Seq(S \cup {x}) /\ Len(t) = Len(r) + 1 /\ DOMAIN t = 1..Len(t) /\ t[1] = x
           /\ \A j \in 2..Len(t) : t[j] = r[j - 1]
           /\ t # << >> /\ Head(t) = x /\ Tail(t) = r
OBVIOUS

\* What takes the place of the first two activations.
WithArg(a, v) == [a EXCEPT !.args = Append(@, v)]

LEMMA ReturnedStack ==
    ASSUME stack \in Seq(Activation), Len(stack) > 1, NEW v, NEW s, s = Returned(v),
           NEW b, b = WithArg(stack[2], v)
    PROVE  /\ s \in Seq(Activation \cup {b}) /\ s # << >> /\ Head(s) = b
           /\ Len(s) = Len(stack) - 1 /\ DOMAIN s = 1..Len(s) /\ s[1] = b
           /\ \A j \in 2..Len(s) : s[j] = stack[j + 1]
<1>1. PICK r : r = Tail(Tail(stack))
    OBVIOUS
<1>2. r \in Seq(Activation) /\ Len(r) = Len(stack) - 2 /\ \A j \in 1..(Len(stack) - 2) : r[j] = stack[j + 2]
    BY <1>1, TailOfTail
<1>3. s = <<b>> \o r
    <2>1. ASSUME Len(stack) = 1 PROVE FALSE
        BY <2>1
    <2> QED
        BY <1>1, <2>1, Zenon DEF Returned, WithArg
<1>4. /\ s \in Seq(Activation \cup {b}) /\ Len(s) = Len(r) + 1 /\ DOMAIN s = 1..Len(s)
      /\ s[1] = b /\ s # << >> /\ Head(s) = b
      /\ \A j \in 2..Len(s) : s[j] = r[j - 1]
    BY <1>2, <1>3, ConsElements
<1>5. \A j \in 2..Len(s) : s[j] = stack[j + 1]
    BY <1>2, <1>4
<1> QED
    BY <1>2, <1>4, <1>5

LEMMA CalledStack ==
    ASSUME stack \in Seq(Activation), stack # << >>, NEW a, NEW e
    PROVE  LET s == Calls(a, e) IN
           /\ Len(s) = Len(stack) + 1 /\ DOMAIN s = 1..Len(s)
           /\ s[1] = e /\ s[2] = a
           /\ \A j \in 3..Len(s) : s[j] = stack[j - 1]
BY DEF Calls

LEMMA Pops ==
    ASSUME StackOK, Grows, stack # << >>, NEW v \in Value', stack' = Returned(v),
           \A n \in NameT : Top.k = NextCont(n) /\ Top.oname = n => defs'[n] # None
    PROVE  StackOK'
<1>1. stack \in Seq(Activation) /\ Len(stack) >= 1 /\ DOMAIN stack = 1..Len(stack)
    BY DEF StackOK
<1>2. CASE Len(stack) = 1
    BY <1>1, <1>2 DEF Returned, StackOK
<1>3. CASE Len(stack) > 1
    <2>20. PICK a : a = stack[2]
        OBVIOUS
    <2>21. PICK c : c = stack[1]
        OBVIOUS
    <2>22. PICK b : b = WithArg(stack[2], v)
        OBVIOUS
    <2>23. b = [a EXCEPT !.args = Append(@, v)]
        BY <2>22, <2>20, Zenon DEF WithArg
    <2>24. PICK s : s = Returned(v)
        OBVIOUS
    <2>25. /\ s \in Seq(Activation \cup {b}) /\ s # << >> /\ Head(s) = b
           /\ Len(s) = Len(stack) - 1 /\ DOMAIN s = 1..Len(s) /\ s[1] = b
           /\ \A j \in 2..Len(s) : s[j] = stack[j + 1]
        BY <1>1, <1>3, <2>22, <2>24, ReturnedStack, ZenonT(60)
    <2>26. stack' = s
        BY <2>24
    <2>1. /\ Len(stack') = Len(stack) - 1 /\ DOMAIN stack' = 1..Len(stack') /\ stack'[1] = b
          /\ \A j \in 2..Len(stack') : stack'[j] = stack[j + 1]
        BY <2>25, <2>26
    <2>2. a \in Activation /\ a \in Activation' /\ \A j \in DOMAIN stack : stack[j] \in Activation'
        BY <1>1, <1>3, <2>20, ActivationsKept
    <2>3. a.args \in Seq(Value') /\ Append(a.args, v) \in Seq(Value') /\ a.args \in Seq(Value)
          /\ Len(Append(a.args, v)) = Len(a.args) + 1
        BY <2>2 DEF Activation
    <2>4. /\ b \in Activation' /\ b.args = Append(a.args, v)
          /\ b.form = a.form /\ b.k = a.k /\ b.oname = a.oname /\ b.scope = a.scope /\ b.alt = a.alt
          /\ b.join = a.join
        BY <2>2, <2>3, <2>23 DEF Activation
    <2>5. Waits(stack[1], stack[2]) /\ NamedBut(stack[1], stack[2]) /\ Top = stack[1]
        <3>1. \A i, j : j \in 2..Len(stack) /\ i = j - 1 =>
                    Waits(stack[i], stack[j]) /\ NamedBut(stack[i], stack[j])
            BY Zenon DEF StackOK
        <3>2. 2 \in 2..Len(stack) /\ 1 = 2 - 1
            BY <1>1, <1>3
        <3>3. Waits(stack[1], stack[2]) /\ NamedBut(stack[1], stack[2])
            BY <3>1, <3>2, Zenon
        <3> QED
            BY <3>3, <1>1 DEF Top
    <2>7. Waits(c, a) /\ NamedBut(c, a)
        BY <2>5, <2>20, <2>21
    <2>8. Waits(c, a)'
        BY <2>7, WaitsKept
    <2>9. NamedBut(c, a)'
        BY <2>2, <2>7, NamedKept
    <2>10. \A n \in a.scope : n \in NameT
        BY <2>2 DEF Activation
    <2>11. Named(b)'
        BY <2>5, <2>9, <2>10, <2>4, <2>21 DEF Named, NamedBut
    <2>12. Resumed(b)'
        BY <2>8, <2>3, <2>4 DEF Waits, Resumed, Branched
    <2>13. stack[Len(stack)].k = Trivial(Return)
        BY DEF StackOK
    <2>14. stack'[Len(stack')].k = Trivial(Return)
        BY <2>1, <2>4, <2>13, <2>20, <1>1, <1>3
    <2>15. ASSUME NEW j \in 2..Len(stack')
           PROVE  (Waits(stack[j - 1], stack[j]) /\ NamedBut(stack[j - 1], stack[j]))'
        <3>10. PICK d : d = stack[j]
            OBVIOUS
        <3>11. PICK f : f = stack[j + 1]
            OBVIOUS
        <3>1. j \in 2..Len(stack) /\ j + 1 \in 2..Len(stack) /\ stack'[j] = f /\ (j + 1) - 1 = j
            BY <2>1, <1>1, <2>15, <3>11
        <3>2. Waits(d, f) /\ NamedBut(d, f) /\ f \in Activation
            BY <3>1, <1>1, <3>10, <3>11 DEF StackOK
        <3>3. Waits(d, f)' /\ NamedBut(d, f)'
            BY <3>2, WaitsKept, NamedKept
        <3>4. j = 2 => stack'[j - 1] = b /\ d = a
            BY <2>1, <2>20, <3>10
        <3>5. j # 2 => stack'[j - 1] = d
            <4>1. j # 2 => j - 1 \in 2..Len(stack') /\ (j - 1) + 1 = j
                BY <2>1, <1>1, <2>15
            <4> QED
                BY <4>1, <2>1, <3>10
        <3>6. stack'[j - 1].k = d.k /\ stack'[j - 1].oname = d.oname
            BY <3>4, <3>5, <2>4
        <3> QED
            BY <3>1, <3>3, <3>6 DEF Waits, NamedBut
    <2>16. stack' \in Seq(Activation')
        BY <2>4, ActivationsKept, <2>25, <2>26
    <2>17. stack' # << >> /\ Head(stack') = b
        BY <2>25, <2>26
    <2>18. (Resumed(Top) /\ Named(Top) /\ stack[Len(stack)].k = Trivial(Return))'
        BY <2>17, <2>11, <2>12, <2>14 DEF Top, Resumed, Named, Branched
    <2> QED
        BY <2>15, <2>16, <2>18 DEF StackOK
<1> QED
    BY <1>1, <1>2, <1>3

LEMMA Pushes ==
    ASSUME StackOK, Grows, stack # << >>, NEW a \in Activation', NEW e \in Activation',
           stack' = Calls(a, e), a.k = Top.k, a.oname = Top.oname,
           Resumed(e)', Named(e)', Waits(e, a)', NamedBut(e, a)'
    PROVE  StackOK'
<1>1. stack \in Seq(Activation) /\ Len(stack) >= 1 /\ DOMAIN stack = 1..Len(stack) /\ Top = stack[1]
    BY DEF StackOK, Top
<1>2. /\ Len(stack') = Len(stack) + 1 /\ DOMAIN stack' = 1..Len(stack')
      /\ stack'[1] = e /\ stack'[2] = a
      /\ \A j \in 3..Len(stack') : stack'[j] = stack[j - 1]
    BY <1>1, CalledStack
<1>3. stack' \in Seq(Activation')
    BY <1>1, ActivationsKept DEF Calls
<1>4. Top' = e
    BY <1>2, <1>3 DEF Top
<1>5. (Resumed(Top) /\ Named(Top))'
    BY <1>4 DEF Resumed, Named, Branched
<1>6. (stack[Len(stack)].k = Trivial(Return))'
    BY <1>1, <1>2 DEF StackOK
<1>7. ASSUME NEW j \in 2..Len(stack')
      PROVE  (Waits(stack[j - 1], stack[j]) /\ NamedBut(stack[j - 1], stack[j]))'
    <2>1. CASE j = 2
        BY <2>1, <1>2 DEF Waits, NamedBut, Branched, BranchCont
    <2>2. CASE j > 2
        <3>1. PICK f : f = stack[j - 1]
            OBVIOUS
        <3>2. PICK d : d = stack[j - 2]
            OBVIOUS
        <3>3. j - 1 \in 2..Len(stack) /\ (j - 1) - 1 = j - 2 /\ stack'[j] = f
            BY <2>2, <1>1, <1>2, <1>7, <3>1
        <3>4. Waits(d, f) /\ NamedBut(d, f) /\ f \in Activation
            BY <3>1, <3>2, <3>3, <1>1 DEF StackOK
        <3>5. Waits(d, f)'
            BY <3>4, WaitsKept
        <3>6. NamedBut(d, f)'
            BY <3>4, NamedKept
        <3>7. stack'[j - 1].k = d.k /\ stack'[j - 1].oname = d.oname
            BY <1>1, <1>2, <3>2, <1>7, <2>2
        <3> QED
            BY <3>3, <3>5, <3>6, <3>7 DEF Waits, NamedBut
    <2> QED
        BY <2>1, <2>2, <1>7
<1> QED
    BY <1>3, <1>5, <1>6, <1>7 DEF StackOK

-----------------------------------------------------------------------------
(* What the steps append.                                                  *)

LEMMA ExprAppended ==
    ASSUME ExprsOK, NEW x, x.kind \in {"param", "const", "prim"}, x.args \in Seq(Value),
           x = [kind |-> x.kind, args |-> x.args], exprs' = Append(exprs, x)
    PROVE  /\ ExprsOK' /\ DOMAIN exprs \subseteq DOMAIN exprs'
           /\ Len(exprs) + 1 \in DOMAIN exprs'
<1>1. exprs \in Seq([kind : {"fn", "param", "const", "prim"}, args : Seq(Nat \cup {Null})])
    BY DEF ExprsOK
<1>2. DOMAIN exprs = 1..Len(exprs) /\ Len(exprs) \in Nat
    BY <1>1
<1>3. Value \subseteq Nat \cup {Null} /\ Value = 1..Len(exprs) \cup {Null}
    BY <1>2 DEF Value
<1>4. x \in [kind : {"fn", "param", "const", "prim"}, args : Seq(Nat \cup {Null})]
    BY <1>3
<1>5. /\ exprs' \in Seq([kind : {"fn", "param", "const", "prim"}, args : Seq(Nat \cup {Null})])
      /\ Len(exprs') = Len(exprs) + 1 /\ DOMAIN exprs' = 1..(Len(exprs) + 1)
      /\ exprs'[Len(exprs) + 1] = x /\ \A e \in DOMAIN exprs : exprs'[e] = exprs[e]
    BY <1>1, <1>4, <1>2
<1>6. Range(x.args) \subseteq Value
    BY DEF Range
<1>7. \A e \in DOMAIN exprs' : Range(exprs'[e].args) \subseteq (1..(e - 1)) \cup {Null}
    <2> TAKE e \in DOMAIN exprs'
    <2>1. CASE e \in DOMAIN exprs
        BY <2>1, <1>5 DEF ExprsOK
    <2>2. CASE e = Len(exprs) + 1
        BY <2>2, <1>2, <1>3, <1>5, <1>6
    <2> QED
        BY <2>1, <2>2, <1>2, <1>5
<1> QED
    BY <1>2, <1>5, <1>7 DEF ExprsOK

LEMMA SeqDomain ==
    ASSUME NEW S, NEW s \in Seq(S)
    PROVE  DOMAIN s = 1..Len(s) /\ Len(s) \in Nat
OBVIOUS

LEMMA SeqWider ==
    ASSUME NEW S, NEW T, S \subseteq T, NEW s \in Seq(S)
    PROVE  s \in Seq(T)
OBVIOUS

LEMMA RangeWithin ==
    ASSUME NEW S, NEW s \in Seq(S)
    PROVE  Range(s) \subseteq S
BY DEF Range

\* Blocks of at most one parameter are added.
LEMMA BlocksAdded ==
    ASSUME params \in Seq(Seq(DOMAIN exprs)), Entry \in Block, Block = Joins \cup Arms \cup {Entry},
           DOMAIN exprs \subseteq DOMAIN exprs',
           params' \in Seq(Seq(DOMAIN exprs')), Len(params') >= Len(params),
           \A b \in Block : params'[b] = params[b],
           \A b \in Block' \ Block : Len(params'[b]) <= 1
    PROVE  /\ Joins \subseteq Joins' /\ Arms \subseteq Arms' /\ Entry \in Block'
           /\ Block' = Joins' \cup Arms' \cup {Entry} /\ Block \subseteq Block'
           /\ \A b \in Block' \ Block :
                (Len(params'[b]) = 1 => b \in Joins') /\ (Len(params'[b]) = 0 => b \in Arms')
<1>1. Block = 1..Len(params) /\ Len(params) \in Nat
    BY SeqDomain, Zenon DEF Block
<1>6. Block' = 1..Len(params') /\ Len(params') \in Nat
    BY SeqDomain, Zenon DEF Block
<1>2. \A b \in Block' : Len(params'[b]) \in Nat
    BY <1>6
<1>3. Block \subseteq Block'
    BY <1>1, <1>6
<1>4. Joins \subseteq Joins' /\ Arms \subseteq Arms'
    BY <1>3 DEF Joins, Arms
<1>5. ASSUME NEW b \in Block' \ Block
      PROVE  b # Entry /\ Len(params'[b]) \in {0, 1}
    <2>1. PICK n \in Nat : n = Len(params'[b])
        BY <1>2
    <2>2. n <= 1
        BY <2>1
    <2>3. n \in {0, 1}
        BY <2>2
    <2> QED
        BY <2>1, <2>3
<1> QED
    BY <1>3, <1>4, <1>5 DEF Joins, Arms

-----------------------------------------------------------------------------
(* Which blocks have their transfer.                                       *)

\* The value that an `if` waits for after the condition is one that is passed on.
LEMMA BranchTrivial ==
    ASSUME NEW c, NEW a \in Activation, Waits(c, a), a.form = "if", Len(a.args) # 0
    PROVE  IsTrivial(c.k)
BY DEF Waits, Branched, BranchCont, IsTrivial, Trivial

LEMMA PopTransfers ==
    ASSUME StackOK, stack # << >>, NEW v, stack' = Returned(v),
           \A b \in Block' \ {current'} :
                transfer'[b] # None \/ \E j \in 2..Len(stack) : b \in {stack[j].alt, stack[j].join},
           IsTrivial(Top.k) => transfer'[current'] # None
    PROVE  TransfersOK'
<1>1. stack \in Seq(Activation) /\ Len(stack) >= 1 /\ DOMAIN stack = 1..Len(stack) /\ Top = stack[1]
    BY DEF StackOK, Top
<1>2. CASE Len(stack) = 1
    BY <1>1, <1>2, NodesAssumption DEF StackOK, IsTrivial, Trivial, TransfersOK
<1>3. CASE Len(stack) > 1
    <2>1. PICK b : b = WithArg(stack[2], v)
        OBVIOUS
    <2>2. PICK s : s = Returned(v)
        OBVIOUS
    <2>3. /\ s \in Seq(Activation \cup {b}) /\ s # << >> /\ Head(s) = b
          /\ Len(s) = Len(stack) - 1 /\ DOMAIN s = 1..Len(s) /\ s[1] = b
          /\ \A j \in 2..Len(s) : s[j] = stack[j + 1]
        <3>1. stack \in Seq(Activation) /\ Len(stack) > 1
            BY <1>1, <1>3
        <3> HIDE <1>1, <1>3
        <3> QED
            BY <3>1, <2>1, <2>2, ReturnedStack, SMTT(30)
    <2>4. PICK a : a = stack[2]
        OBVIOUS
    <2>5. a \in Activation
        BY <1>1, <1>3, <2>4
    <2>6. /\ b.alt = a.alt /\ b.join = a.join /\ b.form = a.form /\ b.args = Append(a.args, v)
          /\ a.args \in Seq(Value)
        BY <2>1, <2>4, <2>5 DEF WithArg, Activation
    <2>7. \A j \in 2..Len(stack) :
            /\ j - 1 \in DOMAIN s
            /\ s[j - 1].alt = stack[j].alt /\ s[j - 1].join = stack[j].join
        <3> TAKE j \in 2..Len(stack)
        <3>1. CASE j = 2
            BY <3>1, <2>3, <2>4, <2>6
        <3>2. CASE j > 2
            BY <3>2, <2>3, <1>1
        <3> QED
            BY <3>1, <3>2, <1>1
    <2>8. stack' = s
        BY <2>2
    <2>9. \A c \in Block' \ {current'} :
            transfer'[c] # None \/ \E j \in DOMAIN s : c \in {s[j].alt, s[j].join}
        BY <2>7
    <2>10. ASSUME b.form = "if", Len(b.args) >= 2
           PROVE  transfer'[current'] # None
        <3>1. Len(a.args) # 0
            BY <2>6, <2>10
        <3>2. PICK c : c = stack[1]
            OBVIOUS
        <3>3. Waits(c, a)
            <4>1. \A i, j : j \in 2..Len(stack) /\ i = j - 1 => Waits(stack[i], stack[j])
                BY Zenon DEF StackOK
            <4>2. 2 \in 2..Len(stack) /\ 1 = 2 - 1
                BY <1>1, <1>3
            <4> QED
                BY <4>1, <4>2, <3>2, <2>4, Zenon
        <3>4. IsTrivial(c.k)
            BY <2>5, <2>6, <2>10, <3>1, <3>3, BranchTrivial
        <3> QED
            BY <3>2, <3>4, <1>1
    <2> QED
        BY <2>3, <2>8, <2>9, <2>10 DEF TransfersOK, Top
<1> QED
    BY <1>1, <1>2, <1>3

LEMMA PushTransfers ==
    ASSUME StackOK, stack # << >>, NEW a, NEW e, e.form = "expr", stack' = Calls(a, e),
           \A b \in Block' \ {current'} :
                \/ transfer'[b] # None \/ b \in {a.alt, a.join}
                \/ \E j \in 2..Len(stack) : b \in {stack[j].alt, stack[j].join}
    PROVE  TransfersOK'
<1>1. stack \in Seq(Activation) /\ Len(stack) >= 1 /\ DOMAIN stack = 1..Len(stack) /\ Top = stack[1]
    BY DEF StackOK, Top
<1>2. PICK s : s = Calls(a, e)
    OBVIOUS
<1>3. /\ Len(s) = Len(stack) + 1 /\ DOMAIN s = 1..Len(s)
      /\ s[1] = e /\ s[2] = a
      /\ \A j \in 3..Len(s) : s[j] = stack[j - 1]
    BY <1>1, <1>2, CalledStack
<1>4. Head(s) = e /\ s # << >>
    BY <1>2 DEF Calls
<1>5. \A j \in 2..Len(stack) : j + 1 \in DOMAIN s /\ s[j + 1] = stack[j]
    BY <1>1, <1>3
<1>6. 2 \in DOMAIN s
    BY <1>1, <1>3
<1>7. \A c \in Block' \ {current'} :
        transfer'[c] # None \/ \E j \in DOMAIN s : c \in {s[j].alt, s[j].join}
    BY <1>3, <1>5, <1>6
<1>8. stack' = s
    BY <1>2
<1> QED
    BY <1>4, <1>7, <1>8 DEF TransfersOK, Top

-----------------------------------------------------------------------------
(* The steps of the conversion.                                            *)

LEMMA DefineNames ==
    ASSUME NamesOK, DOMAIN exprs \subseteq DOMAIN exprs', None \notin DOMAIN exprs', types' = types,
           NEW n \in NameT \cup {None}, NEW v \in DOMAIN exprs', defs' = Define(defs, n, v)
    PROVE  /\ NamesOK' /\ NameT' = NameT
           /\ \A m \in NameT : defs[m] # None => defs'[m] # None
           /\ n # None => defs'[n] # None
BY SeqDomain DEF NamesOK, NameT, Define

LEMMA TopFacts ==
    ASSUME StackOK, stack # << >>
    PROVE  /\ Top \in Activation /\ Top = stack[1] /\ Resumed(Top) /\ Named(Top)
           /\ DOMAIN stack = 1..Len(stack) /\ Len(stack) >= 1
BY DEF StackOK, Top

LEMMA ValuesAre ==
    ASSUME ExprsOK
    PROVE  /\ DOMAIN exprs = 1..Len(exprs) /\ Len(exprs) \in Nat
           /\ Value \subseteq Int \cup {Null} /\ DOMAIN exprs \subseteq Value
           /\ None \notin DOMAIN exprs /\ Null \notin DOMAIN exprs
BY SeqDomain, NodesAssumption DEF ExprsOK, Value

LEMMA BlocksAre ==
    ASSUME NEW S, params \in Seq(S)
    PROVE  /\ Block = 1..Len(params) /\ Len(params) \in Nat
           /\ Joins \subseteq Nat /\ Arms \subseteq Nat
           /\ None \notin Block /\ Return \notin Block /\ None \notin Joins /\ None \notin Arms
           /\ Joins \subseteq Block /\ Arms \subseteq Block
BY SeqDomain, NodesAssumption DEF Block, Joins, Arms

LEMMA ValuesAreNext ==
    ASSUME ExprsOK'
    PROVE  /\ DOMAIN exprs' = 1..Len(exprs') /\ Len(exprs') \in Nat
           /\ Value' \subseteq Int \cup {Null} /\ DOMAIN exprs' \subseteq Value'
           /\ None \notin DOMAIN exprs' /\ Null \notin DOMAIN exprs'
BY SeqDomain, NodesAssumption DEF ExprsOK, Value

LEMMA BlocksAreNext ==
    ASSUME NEW S, params' \in Seq(S)
    PROVE  /\ Block' = 1..Len(params') /\ Len(params') \in Nat
           /\ Joins' \subseteq Nat /\ Arms' \subseteq Nat
           /\ None \notin Block' /\ Return \notin Block' /\ None \notin Joins' /\ None \notin Arms'
           /\ Joins' \subseteq Block' /\ Arms' \subseteq Block'
BY SeqDomain, NodesAssumption DEF Block, Joins, Arms

LEMMA GotoIsOK ==
    ASSUME ExprsOK', params' \in Seq(Seq(DOMAIN exprs')),
           NEW v \in DOMAIN exprs', NEW c \in Joins' \cup {Return}
    PROVE  TransferOK(Goto(v, c))' /\ Goto(v, c) \in Transfer
<1>1. v \in Int \cup {Null} /\ v \in Value'
    BY ValuesAreNext
<1>2. c \in Nat \cup {Return}
    BY BlocksAreNext
<1>3. Range(<<v>>) = {v} /\ <<v>> \in Seq(Int \cup {Null}) /\ Len(<<v>>) = 1
    BY <1>1 DEF Range
<1>4. <<c>> \in Seq(Nat \cup {Return})
    BY <1>2
<1> QED
    BY <1>1, <1>3, <1>4 DEF TransferOK, Goto, Transfer

LEMMA SameBlocks ==
    ASSUME BlocksOK, DOMAIN exprs \subseteq DOMAIN exprs', params' = params
    PROVE  /\ params' \in Seq(Seq(DOMAIN exprs')) /\ Block' = Block /\ Joins' = Joins /\ Arms' = Arms
           /\ Entry \in Block' /\ Block' = Joins' \cup Arms' \cup {Entry}
BY DEF BlocksOK, Block, Joins, Arms

LEMMA OthersWait ==
    ASSUME BlocksOK, StackOK, TransfersOK, stack # << >>, Top.form \in {"expr", "prim", "call"}
    PROVE  \A b \in Block \ {current} :
                transfer[b] # None \/ \E j \in 2..Len(stack) : b \in {stack[j].alt, stack[j].join}
<1>1. Top = stack[1] /\ DOMAIN stack = 1..Len(stack) /\ Top.alt = None /\ Top.join = None
    BY TopFacts DEF Resumed
<1>2. None \notin Block
    BY BlocksAre DEF BlocksOK
<1>3. \A j \in DOMAIN stack : j = 1 \/ j \in 2..Len(stack)
    BY <1>1 DEF StackOK
<1> QED
    BY <1>1, <1>2, <1>3 DEF TransfersOK

\* to_cps returns v after it has passed it on or given it a name.
LEMMA ContinueKeeps ==
    ASSUME Converts, stack # << >>, Top.form \in {"expr", "prim"},
           ExprsOK', DOMAIN exprs \subseteq DOMAIN exprs',
           NEW v \in DOMAIN exprs', Continue(Top.k, v), UNCHANGED <<params, types, current>>
    PROVE  Converts'
<1>1. ExprsOK /\ BlocksOK /\ NamesOK /\ StackOK /\ TransfersOK
    BY DEF Converts
<1>2. /\ Top \in Activation /\ Top = stack[1] /\ Resumed(Top) /\ Named(Top)
      /\ DOMAIN stack = 1..Len(stack) /\ Len(stack) >= 1
    BY <1>1, TopFacts
<1>3. Top.k \in Cont
    BY <1>2 DEF Activation
<1>4. /\ params' \in Seq(Seq(DOMAIN exprs')) /\ Block' = Block /\ Joins' = Joins /\ Arms' = Arms
      /\ Entry \in Block' /\ Block' = Joins' \cup Arms' \cup {Entry}
    BY <1>1, SameBlocks
<1>5. stack' = Returned(v) /\ types' = types /\ NameT' = NameT /\ current' = current
    BY DEF Continue, NameT
<1>6. v \in Value' /\ v # None
    BY ValuesAreNext
<1>7. /\ transfer \in Seq(Transfer \cup {None}) /\ Len(transfer) = Len(params)
      /\ current \in Block /\ \A b \in Block : transfer[b] = None \/ TransferOK(transfer[b])
    BY <1>1 DEF BlocksOK
<1>8. /\ defs \in Seq(DOMAIN exprs \cup {None}) /\ Len(defs) = Len(types) /\ types \in Seq(Type)
      /\ DOMAIN defs = NameT
    BY <1>1 DEF NamesOK, NameT
<1>9. defs \in Seq(DOMAIN exprs' \cup {None})
    BY <1>8
<1>10. Block = DOMAIN transfer
    BY <1>7, <1>1, SeqDomain DEF Block, BlocksOK
<1>11. CASE IsTrivial(Top.k)
    <2>1. transfer' = [transfer EXCEPT ![current] = Goto(v, Top.k.cont)] /\ defs' = defs
        BY <1>11 DEF Continue
    <2>2. Top.k.cont \in Joins \cup {Return}
        BY <1>3, <1>11 DEF IsTrivial, Cont
    <2>3. PICK t : t = Goto(v, Top.k.cont)
        OBVIOUS
    <2>4. TransferOK(t)' /\ t \in Transfer
        BY <1>4, <2>2, <2>3, GotoIsOK
    <2>5. /\ transfer' \in Seq(Transfer \cup {None}) /\ Len(transfer') = Len(transfer)
          /\ transfer'[current] = t /\ \A b \in Block \ {current} : transfer'[b] = transfer[b]
        BY <1>7, <1>10, <2>1, <2>3, <2>4
    <2>6. Grows
        BY <1>4, <1>5, <2>1 DEF Grows
    <2>7. BlocksOK'
        BY <2>5, <1>4, <2>4, <2>6, <1>7, TransfersKept, <1>5 DEF BlocksOK
    <2>8. NamesOK'
        BY <1>5, <1>8, <1>9, <2>1 DEF NamesOK
    <2>9. StackOK'
        BY <1>11, <1>1, <1>5, <1>6, <2>6, Pops DEF IsTrivial, NextCont
    <2>10. TransfersOK'
        <3>1. \A b \in Block' \ {current'} :
                transfer'[b] # None \/ \E j \in 2..Len(stack) : b \in {stack[j].alt, stack[j].join}
            BY <1>1, <1>4, <1>5, <2>5, OthersWait
        <3>2. transfer'[current'] # None
            BY <2>4, <2>5, <1>5, NodesAssumption
        <3> QED
            BY <3>1, <3>2, <1>1, <1>5, PopTransfers
    <2> QED
        BY <2>7, <2>8, <2>9, <2>10 DEF Converts
<1>12. CASE ~IsTrivial(Top.k)
    <2>1. transfer' = transfer /\ defs' = Define(defs, Top.k.name, v)
        BY <1>12 DEF Continue
    <2>2. Top.k.name \in NameT \cup {None}
        BY <1>3, <1>12 DEF IsTrivial, Cont
    <2>3. /\ NamesOK' /\ \A m \in NameT : defs[m] # None => defs'[m] # None
          /\ Top.k.name # None => defs'[Top.k.name] # None
        BY ValuesAreNext, <2>1, <2>2, <1>1, <1>5, DefineNames
    <2>6. Grows
        BY <1>4, <1>5, <2>3 DEF Grows
    <2>7. BlocksOK'
        BY <2>1, <2>6, <1>4, <1>7, TransfersKept, <1>5 DEF BlocksOK
    <2>9. StackOK'
        <3>1. \A n \in NameT : Top.k = NextCont(n) => defs'[n] # None
            BY <2>3, <1>8, NodesAssumption DEF NextCont
        <3> QED
            BY <3>1, <1>1, <1>5, <1>6, <2>6, Pops
    <2>10. TransfersOK'
        BY <1>1, <1>4, <1>5, <2>1, OthersWait, <1>12, PopTransfers
    <2> QED
        BY <2>3, <2>7, <2>9, <2>10 DEF Converts
<1> QED
    BY <1>11, <1>12

LEMMA IdKeeps ==
    ASSUME Converts, NEW n \in NameT, Id(n)
    PROVE  Converts'
BY TopFacts, SeqDomain, ContinueKeeps DEF Id, InForm, Converts, Named, NamesOK, NameT, ExprsOK

LEMMA ConstKeeps ==
    ASSUME Converts, Const
    PROVE  Converts'
<1>1. /\ stack # << >> /\ Top.form = "expr" /\ Continue(Top.k, Len(exprs) + 1)
      /\ exprs' = Append(exprs, [kind |-> "const", args |-> << >>])
      /\ UNCHANGED <<params, types, current>>
    BY DEF Const, InForm
<1>2. PICK x : x = [kind |-> "const", args |-> << >>]
    OBVIOUS
<1>4. x.args \in Seq(Value) /\ x.kind = "const" /\ x = [kind |-> x.kind, args |-> x.args]
    BY <1>2
<1>5. exprs' = Append(exprs, x)
    BY <1>1, <1>2
<1> HIDE <1>2
<1>3. ExprsOK' /\ DOMAIN exprs \subseteq DOMAIN exprs' /\ Len(exprs) + 1 \in DOMAIN exprs'
    BY <1>4, <1>5, ExprAppended DEF Converts
<1> QED
    BY <1>1, <1>3, ContinueKeeps

LEMMA ApplyKeeps ==
    ASSUME Converts, Apply
    PROVE  Converts'
BY TopFacts, ExprAppended, ContinueKeeps DEF Apply, InForm, Converts, Activation

\* A step that allocates nothing and calls to_cps for e.
LEMMA CallKeeps ==
    ASSUME Converts, stack # << >>, Top.form \in {"expr", "prim", "call"},
           UNCHANGED <<exprs, params, transfer, current>>,
           NamesOK', NameT \subseteq NameT', \A n \in NameT : defs[n] # None => defs'[n] # None,
           NEW a \in Activation', NEW e \in Activation', stack' = Calls(a, e),
           a.k = Top.k, a.oname = Top.oname, e.form = "expr",
           Resumed(e)', Named(e)', Waits(e, a)', NamedBut(e, a)'
    PROVE  Converts'
BY TransfersKept, Pushes, OthersWait, PushTransfers DEF Converts, Block, Joins, Arms, Grows, ExprsOK, BlocksOK

LEMMA NewExpr ==
    ASSUME NEW k \in Cont', NEW o \in NameT' \cup {None}, NEW t \in Type, NEW sc \in SUBSET NameT',
           \A n \in sc : defs'[n] # None, NEW e, e = Expr(k, o, t, sc)
    PROVE  /\ e \in Activation' /\ Resumed(e)' /\ Named(e)'
           /\ e.form = "expr" /\ e.k = k /\ e.oname = o /\ e.alt = None /\ e.join = None
BY DEF Expr, Activation, Resumed, Named

LEMMA ValKeeps ==
    ASSUME Converts, NEW t \in Type, Val(t)
    PROVE  Converts'
<1> DEFINE n == Len(types) + 1
<1>1. /\ stack # << >> /\ Top.form = "expr"
      /\ stack' = Calls([Top EXCEPT !.scope = @ \cup {n}], Expr(NextCont(n), n, t, Top.scope))
      /\ types' = Append(types, t) /\ defs' = Append(defs, None)
      /\ UNCHANGED <<exprs, params, transfer, current>>
    BY DEF Val, InForm
<1>2. ExprsOK /\ BlocksOK /\ NamesOK /\ StackOK /\ TransfersOK
    BY DEF Converts
<1>3. Top \in Activation /\ Resumed(Top) /\ Named(Top)
    BY <1>1, <1>2, TopFacts
<1>4. /\ types \in Seq(Type) /\ defs \in Seq(DOMAIN exprs \cup {None}) /\ Len(defs) = Len(types)
      /\ NameT = 1..Len(types) /\ Len(types) \in Nat
    BY <1>2, SeqDomain DEF NamesOK, NameT
<1>5. NamesOK' /\ NameT' = 1..n /\ \A m \in NameT : defs'[m] = defs[m]
    BY <1>1, <1>4 DEF NamesOK, NameT
<1> HIDE DEF n
<1>6. NameT \subseteq NameT' /\ n \in NameT' /\ n # None
    BY <1>4, <1>5, NodesAssumption DEF n
<1>7. PICK e : e = Expr(NextCont(n), n, t, Top.scope)
    OBVIOUS
<1>8. PICK a : a = [Top EXCEPT !.scope = @ \cup {n}]
    OBVIOUS
<1>9. Top.scope \in SUBSET NameT /\ \A m \in Top.scope : defs'[m] # None
    BY <1>3, <1>5 DEF Activation, Named
<1>10. NextCont(n) \in Cont'
    BY <1>6 DEF Cont, NextCont
<1>11. /\ e \in Activation' /\ Resumed(e)' /\ Named(e)'
       /\ e.form = "expr" /\ e.k = NextCont(n) /\ e.oname = n /\ e.alt = None /\ e.join = None
    BY <1>6, <1>7, <1>9, <1>10, NewExpr
<1>12. Grows
    BY <1>1, <1>5, <1>6 DEF Grows, Joins, Arms, Block
<1>13. Top \in Activation'
    BY <1>3, <1>12, ActivationsKept
<1>14. /\ a \in Activation' /\ a.scope = Top.scope \cup {n} /\ a.form = "expr"
       /\ a.k = Top.k /\ a.oname = Top.oname /\ a.alt = Top.alt /\ a.join = Top.join
    BY <1>1, <1>6, <1>8, <1>13 DEF Activation
<1>15. Waits(e, a)'
    BY <1>1, <1>3, <1>6, <1>11, <1>14 DEF Waits, Resumed
<1>16. NamedBut(e, a)'
    BY <1>1, <1>3, <1>9, <1>11, <1>14 DEF NamedBut, Resumed
<1>17. stack' = Calls(a, e)
    BY <1>1, <1>7, <1>8
<1>18. \A m \in NameT : defs[m] # None => defs'[m] # None
    BY <1>5
<1> QED
    BY <1>1, <1>5, <1>6, <1>18, <1>14, <1>11, <1>15, <1>16, <1>17, CallKeeps

\* to_cps for a part of the innermost expression, in the same scope.
LEMMA PartKeeps ==
    ASSUME Converts, stack # << >>, Top.form \in {"expr", "prim", "call"},
           UNCHANGED <<exprs, params, transfer, defs, types, current>>,
           NEW a \in Activation, a.k = Top.k, a.oname = Top.oname, a.scope = Top.scope,
           a.join = None, NEW k \in Cont, NEW t \in Type, NEW e, e = Expr(k, None, t, Top.scope),
           stack' = Calls(a, e), Waits(e, a)
    PROVE  Converts'
<1>1. ExprsOK /\ BlocksOK /\ NamesOK /\ StackOK /\ TransfersOK
    BY DEF Converts
<1>2. Top \in Activation /\ Named(Top)
    BY <1>1, TopFacts
<1>3. Block' = Block /\ Joins' = Joins /\ Arms' = Arms /\ NameT' = NameT
    BY DEF Block, Joins, Arms, NameT
<1>4. Grows
    BY <1>3 DEF Grows
<1>5. NamesOK'
    BY <1>1 DEF NamesOK
<1>6. a \in Activation' /\ k \in Cont'
    BY <1>3, <1>4, ActivationsKept DEF Cont
<1>7. Top.scope \in SUBSET NameT' /\ \A n \in Top.scope : defs'[n] # None
    BY <1>2, <1>3 DEF Activation, Named
<1>8. /\ e \in Activation' /\ Resumed(e)' /\ Named(e)'
      /\ e.form = "expr" /\ e.k = k /\ e.oname = None /\ e.alt = None /\ e.join = None
    BY <1>6, <1>7, NewExpr, SMTT(30)
<1>9. Waits(e, a)'
    BY <1>4, WaitsKept
<1>10. NamedBut(e, a)'
    BY <1>7 DEF NamedBut
<1> QED
    BY <1>1, <1>3, <1>5, <1>6, <1>8, <1>9, <1>10, CallKeeps

LEMMA NoNameCont == NextCont(None) \in Cont
BY DEF NextCont, Cont

LEMMA PrimKeeps ==
    ASSUME Converts, Prim
    PROVE  Converts'
<1>1. /\ stack # << >> /\ Top.form = "expr"
      /\ stack' = Calls([Top EXCEPT !.form = "prim", !.args = << >>],
                        Expr(NextCont(None), None, "i64", Top.scope))
      /\ UNCHANGED <<exprs, params, transfer, defs, types, current>>
    BY DEF Prim, InForm
<1>2. Top \in Activation /\ Resumed(Top)
    BY <1>1, TopFacts DEF Converts
<1>3. PICK a : a = [Top EXCEPT !.form = "prim", !.args = << >>]
    OBVIOUS
<1>4. PICK e : e = Expr(NextCont(None), None, "i64", Top.scope)
    OBVIOUS
<1>5. << >> \in Seq(Value) /\ Len(<< >>) = 0 /\ "i64" \in Type
    BY DEF Type
<1>6. /\ a \in Activation /\ a.form = "prim" /\ a.args = << >> /\ a.k = Top.k /\ a.oname = Top.oname
      /\ a.scope = Top.scope /\ a.alt = Top.alt /\ a.join = Top.join
    BY <1>2, <1>3, <1>5 DEF Activation
<1>7. a.alt = None /\ a.join = None
    BY <1>1, <1>2, <1>6 DEF Resumed
<1>8. Waits(e, a)
    BY <1>4, <1>5, <1>6, <1>7 DEF Waits, Expr
<1>9. stack' = Calls(a, e)
    BY <1>1, <1>3, <1>4
<1> QED
    BY <1>1, <1>4, <1>5, <1>6, <1>7, <1>8, <1>9, NoNameCont, PartKeeps

LEMMA IfKeeps ==
    ASSUME Converts, If
    PROVE  Converts'
<1>1. /\ stack # << >> /\ Top.form = "expr"
      /\ stack' = Calls([Top EXCEPT !.form = "if", !.args = << >>],
                        Expr(NextCont(None), None, "bool", Top.scope))
      /\ UNCHANGED <<exprs, params, transfer, defs, types, current>>
    BY DEF If, InForm
<1>2. Top \in Activation /\ Resumed(Top)
    BY <1>1, TopFacts DEF Converts
<1>3. PICK a : a = [Top EXCEPT !.form = "if", !.args = << >>]
    OBVIOUS
<1>4. PICK e : e = Expr(NextCont(None), None, "bool", Top.scope)
    OBVIOUS
<1>5. << >> \in Seq(Value) /\ Len(<< >>) = 0 /\ "bool" \in Type
    BY DEF Type
<1>6. /\ a \in Activation /\ a.form = "if" /\ a.args = << >> /\ a.k = Top.k /\ a.oname = Top.oname
      /\ a.scope = Top.scope /\ a.alt = Top.alt /\ a.join = Top.join
    BY <1>2, <1>3, <1>5 DEF Activation
<1>7. a.alt = None /\ a.join = None
    BY <1>1, <1>2, <1>6 DEF Resumed
<1>8. Waits(e, a)
    BY <1>4, <1>5, <1>6, <1>7 DEF Waits, Expr
<1>9. stack' = Calls(a, e)
    BY <1>1, <1>3, <1>4
<1> QED
    BY <1>1, <1>4, <1>5, <1>6, <1>7, <1>8, <1>9, NoNameCont, PartKeeps

LEMMA CallStartKeeps ==
    ASSUME Converts, Call
    PROVE  Converts'
<1>1. /\ stack # << >> /\ Top.form = "expr" /\ Top.type \in DOMAIN Callee
      /\ stack' = Calls([Top EXCEPT !.form = "call", !.args = << >>],
                        Expr(Top.k, None, Callee[Top.type], Top.scope))
      /\ UNCHANGED <<exprs, params, transfer, defs, types, current>>
    BY DEF Call, InForm
<1>2. Top \in Activation /\ Resumed(Top)
    BY <1>1, TopFacts DEF Converts
<1>3. PICK a : a = [Top EXCEPT !.form = "call", !.args = << >>]
    OBVIOUS
<1>4. PICK e : e = Expr(Top.k, None, Callee[Top.type], Top.scope)
    OBVIOUS
<1>5. << >> \in Seq(Value) /\ Len(<< >>) = 0 /\ Callee[Top.type] \in Type /\ Top.k \in Cont
    <2>1. DOMAIN Callee = {"i64", "fn"} /\ Callee["i64"] = "fn" /\ Callee["fn"] = "higher fn"
        BY DEF Callee
    <2>2. Callee[Top.type] \in {"fn", "higher fn"}
        BY <1>1, <2>1
    <2>3. Top.k \in Cont
        BY <1>2 DEF Activation
    <2>4. Callee[Top.type] \in Type
        BY <2>2 DEF Type
    <2>5. << >> \in Seq(Value) /\ Len(<< >>) = 0
        OBVIOUS
    <2> QED
        BY <2>3, <2>4, <2>5
<1>6. /\ a \in Activation /\ a.form = "call" /\ a.args = << >> /\ a.k = Top.k /\ a.oname = Top.oname
      /\ a.scope = Top.scope /\ a.alt = Top.alt /\ a.join = Top.join
    BY <1>2, <1>3, <1>5 DEF Activation
<1>7. a.alt = None /\ a.join = None
    BY <1>1, <1>2, <1>6 DEF Resumed
<1>8. Waits(e, a)
    BY <1>4, <1>5, <1>6, <1>7 DEF Waits, Expr
<1>9. stack' = Calls(a, e)
    BY <1>1, <1>3, <1>4
<1> QED
    BY <1>1, <1>4, <1>5, <1>6, <1>7, <1>8, <1>9, PartKeeps

LEMMA OperandKeeps ==
    ASSUME Converts, Operand
    PROVE  Converts'
BY TopFacts, NoNameCont, PartKeeps DEF Operand, InForm, Converts, Resumed, Type, Waits, Expr

-----------------------------------------------------------------------------
(* The steps that make blocks.                                             *)

LEMMA AppendElements ==
    ASSUME NEW S, NEW s \in Seq(S), NEW x
    PROVE  /\ Append(s, x) \in Seq(S \cup {x}) /\ Len(Append(s, x)) = Len(s) + 1
           /\ Append(s, x)[Len(s) + 1] = x
           /\ \A j \in 1..Len(s) : Append(s, x)[j] = s[j]
OBVIOUS

LEMMA JoinAdded ==
    ASSUME ExprsOK, BlocksOK, NamesOK,
           NEW ps \in Seq(Seq(DOMAIN exprs)), Len(ps) >= Len(params),
           \A b \in Block : ps[b] = params[b], \A b \in DOMAIN ps \ Block : Len(ps[b]) = 0,
           NEW n \in NameT \cup {None}, AddJoin(ps, n), types' = types,
           NEW r, r = Len(ps) + 1
    PROVE  /\ ExprsOK' /\ NamesOK' /\ Grows /\ params' \in Seq(Seq(DOMAIN exprs'))
           /\ Len(exprs) + 1 \in Value' /\ Len(exprs) + 1 \in DOMAIN exprs'
           /\ Len(params') = r /\ Entry \in Block' /\ Block' = Joins' \cup Arms' \cup {Entry}
           /\ Block \subseteq Block' /\ r \in Joins' /\ \A b \in DOMAIN ps \ Block : b \in Arms'
           /\ params'[r] = <<Len(exprs) + 1>>
           /\ n # None => defs'[n] # None
<1> DEFINE e == Len(exprs) + 1
<1>1. /\ exprs' = Append(exprs, [kind |-> "param", args |-> << >>])
      /\ params' = Append(ps, <<e>>) /\ defs' = Define(defs, n, e)
    BY DEF AddJoin
<1>2. PICK x : x = [kind |-> "param", args |-> << >>]
    OBVIOUS
<1>3. x.args \in Seq(Value) /\ x.kind = "param" /\ x = [kind |-> x.kind, args |-> x.args]
    BY <1>2
<1>4. exprs' = Append(exprs, x)
    BY <1>1, <1>2
<1> HIDE <1>2
<1>5. ExprsOK' /\ DOMAIN exprs \subseteq DOMAIN exprs' /\ e \in DOMAIN exprs'
    BY <1>3, <1>4, ExprAppended
<1>6. e \in Value' /\ None \notin DOMAIN exprs'
    BY <1>5, ValuesAreNext
<1> HIDE DEF e
<1>8. /\ NamesOK' /\ NameT' = NameT
      /\ \A m \in NameT : defs[m] # None => defs'[m] # None
      /\ n # None => defs'[n] # None
    BY <1>1, <1>5, <1>6, DefineNames
<1>10. ps \in Seq(Seq(DOMAIN exprs'))
    BY <1>5
<1>11. <<e>> \in Seq(DOMAIN exprs') /\ Len(<<e>>) = 1
    BY <1>5
<1>12. PICK z : z = <<e>>
    OBVIOUS
<1>13. z \in Seq(DOMAIN exprs') /\ Len(z) = 1 /\ params' = Append(ps, z)
    BY <1>1, <1>11, <1>12
<1> HIDE <1>12
<1>14. DOMAIN ps = 1..Len(ps) /\ Len(ps) \in Nat
    BY SeqDomain
<1>15. /\ params' \in Seq(Seq(DOMAIN exprs')) /\ Len(params') = r /\ params'[r] = z
       /\ \A b \in DOMAIN ps : params'[b] = ps[b]
    BY <1>10, AppendElements, <1>13, <1>14
<1>16. Block' = 1..r /\ Block = 1..Len(params) /\ Len(params) \in Nat
    BY <1>15, <1>14, SeqDomain DEF BlocksOK, Block
<1>17. \A b \in Block : b \in DOMAIN ps /\ params'[b] = params[b]
    BY <1>14, <1>15, <1>16
<1>18. ASSUME NEW b \in Block' \ Block
       PROVE  Len(params'[b]) <= 1
    <2>1. b = r \/ b \in DOMAIN ps \ Block
        BY <1>14, <1>16
    <2>2. CASE b = r
        <3>1. params'[b] = z /\ Len(z) = 1
            BY <2>2, <1>13, <1>15
        <3> HIDE <1>13
        <3> QED
            BY <3>1
    <2>3. CASE b \in DOMAIN ps \ Block
        BY <2>3, <1>15
    <2> QED
        BY <2>1, <2>2, <2>3
<1>19. Entry \in Block /\ Block = Joins \cup Arms \cup {Entry} /\ params \in Seq(Seq(DOMAIN exprs))
    BY DEF BlocksOK
<1>20. Len(params') >= Len(params)
    BY <1>15, <1>14, <1>16
<1>21. /\ Joins \subseteq Joins' /\ Arms \subseteq Arms' /\ Entry \in Block'
       /\ Block' = Joins' \cup Arms' \cup {Entry} /\ Block \subseteq Block'
       /\ \A b \in Block' \ Block :
            (Len(params'[b]) = 1 => b \in Joins') /\ (Len(params'[b]) = 0 => b \in Arms')
    BY <1>5, <1>15, <1>17, <1>18, <1>19, <1>20, BlocksAdded
<1>22. r \in Joins'
    BY <1>14, <1>16, <1>21, <1>15, <1>13
<1>23. \A b \in DOMAIN ps \ Block : b \in Arms'
    BY <1>14, <1>15, <1>16, <1>21
<1>24. Grows
    BY <1>5, <1>8, <1>21 DEF Grows
<1>25. params'[r] = <<e>>
    BY <1>15, <1>12
<1> QED
    BY <1>5, <1>6, <1>8, <1>15, <1>21, <1>22, <1>23, <1>24, <1>25 DEF e

LEMMA CallIsOK ==
    ASSUME ExprsOK', params' \in Seq(Seq(DOMAIN exprs')),
           NEW args \in Seq(Value'), Len(args) = 2, NEW c \in Joins' \cup {Return},
           NEW t, t = [form |-> "call", args |-> args, conts |-> <<c>>]
    PROVE  TransferOK(t)' /\ t \in Transfer
BY ValuesAreNext, BlocksAreNext, RangeWithin, SeqWider DEF TransferOK, Transfer

LEMMA CatElements ==
    ASSUME NEW S, NEW u \in Seq(S), NEW w \in Seq(S)
    PROVE  /\ u \o w \in Seq(S) /\ Len(u \o w) = Len(u) + Len(w)
           /\ \A j \in 1..Len(u) : (u \o w)[j] = u[j]
           /\ \A j \in (Len(u) + 1)..(Len(u) + Len(w)) : (u \o w)[j] = w[j - Len(u)]
OBVIOUS

LEMMA TransferReplaced ==
    ASSUME BlocksOK, NEW t \in Transfer, NEW u, u = [transfer EXCEPT ![current] = t]
    PROVE  /\ u \in Seq(Transfer \cup {None}) /\ Len(u) = Len(params)
           /\ u[current] = t /\ t # None
           /\ \A b \in Block \ {current} : u[b] = transfer[b]
BY BlocksAre, NodesAssumption DEF BlocksOK

\* A transfer for the current block, and blocks without one.
LEMMA TransferSet ==
    ASSUME BlocksOK, NEW t \in Transfer, NEW u, u = [transfer EXCEPT ![current] = t],
           NEW ns \in Seq({None}), transfer' = u \o ns
    PROVE  /\ transfer' \in Seq(Transfer \cup {None}) /\ Len(transfer') = Len(params) + Len(ns)
           /\ transfer'[current] = t /\ t # None
           /\ \A b \in Block \ {current} : transfer'[b] = transfer[b]
           /\ \A b \in 1..(Len(params) + Len(ns)) : b \notin Block => transfer'[b] = None
<1>1. current \in Block /\ Block = 1..Len(params) /\ Len(params) \in Nat
    BY BlocksAre DEF BlocksOK
<1>2. /\ u \in Seq(Transfer \cup {None}) /\ Len(u) = Len(params) /\ u[current] = t /\ t # None
      /\ \A b \in Block \ {current} : u[b] = transfer[b]
    BY TransferReplaced
<1>3. ns \in Seq(Transfer \cup {None}) /\ DOMAIN ns = 1..Len(ns) /\ \A j \in 1..Len(ns) : ns[j] = None
    OBVIOUS
<1>4. PICK w : w = u \o ns
    OBVIOUS
<1>5. /\ w \in Seq(Transfer \cup {None}) /\ Len(w) = Len(u) + Len(ns)
      /\ \A b \in 1..Len(u) : w[b] = u[b]
      /\ \A b \in (Len(u) + 1)..(Len(u) + Len(ns)) : w[b] = ns[b - Len(u)]
    BY <1>2, <1>3, <1>4, CatElements
<1>6. Len(ns) \in Nat
    OBVIOUS
<1>7. \A b \in Block \ {current} : w[b] = transfer[b]
    BY <1>1, <1>2, <1>5
<1>8. w[current] = t
    BY <1>1, <1>2, <1>5
<1>9. ASSUME NEW b \in 1..(Len(params) + Len(ns)), b \notin Block
      PROVE  w[b] = None
    BY <1>1, <1>2, <1>6, <1>9, <1>3, <1>5
<1> QED
    BY <1>2, <1>4, <1>5, <1>7, <1>8, <1>9

LEMMA CallToKeeps ==
    ASSUME Converts, CallTo
    PROVE  Converts'
<1>1. ExprsOK /\ BlocksOK /\ NamesOK /\ StackOK /\ TransfersOK
    BY DEF Converts
<1>2. stack # << >> /\ Top.form = "call" /\ Len(Top.args) = 2 /\ types' = types
    BY DEF CallTo, InForm
<1>3. Top \in Activation /\ Top.k \in Cont /\ Top.args \in Seq(Value)
    BY <1>1, <1>2, TopFacts DEF Activation
<1>4. CASE IsTrivial(Top.k)
    <2> DEFINE c == Top.k.cont
    <2>1. PICK t : t = [form |-> "call", args |-> Top.args, conts |-> <<c>>]
        OBVIOUS
    <2>2. /\ transfer' = [transfer EXCEPT ![current] = t] /\ stack' = Returned(Null)
          /\ UNCHANGED <<exprs, params, defs, current>>
        BY <1>4, <2>1 DEF CallTo
    <2>3. c \in Joins \cup {Return}
        BY <1>3, <1>4 DEF IsTrivial, Cont
    <2>4. /\ Block' = Block /\ Joins' = Joins /\ Arms' = Arms /\ Value' = Value /\ NameT' = NameT
        BY <1>2, <2>2 DEF Block, Joins, Arms, Value, NameT
    <2>5. ExprsOK' /\ NamesOK' /\ params' \in Seq(Seq(DOMAIN exprs'))
        BY <1>1, <1>2, <2>2 DEF ExprsOK, NamesOK, BlocksOK
    <2>6. TransferOK(t)' /\ t \in Transfer
        BY <1>2, <1>3, <2>1, <2>3, <2>4, <2>5, CallIsOK
    <2>7. Grows
        BY <2>2, <2>4 DEF Grows
    <2>8. /\ transfer' \in Seq(Transfer \cup {None}) /\ Len(transfer') = Len(params)
          /\ transfer'[current] = t /\ t # None /\ \A b \in Block \ {current} : transfer'[b] = transfer[b]
        BY <1>1, <2>2, <2>6, TransferReplaced
    <2>9. BlocksOK'
        <3>1. (\A b \in Block : transfer[b] = None \/ TransferOK(transfer[b]))'
            BY <2>8, <2>4, <2>6, <2>7, <1>1, TransfersKept DEF BlocksOK
        <3> QED
            BY <3>1, <1>1, <2>2, <2>4, <2>5, <2>8 DEF BlocksOK
    <2>10. StackOK'
        BY <1>4, <1>1, <1>2, <2>2, <2>7, Pops DEF IsTrivial, NextCont, Value
    <2>11. TransfersOK'
        BY <1>1, <1>2, <2>2, <2>4, <2>8, OthersWait, PopTransfers
    <2> QED
        BY <2>5, <2>9, <2>10, <2>11 DEF Converts
<1>5. CASE ~IsTrivial(Top.k)
    <2>1. PICK r : r = Len(params) + 1
        OBVIOUS
    <2>2. PICK t : t = [form |-> "call", args |-> Top.args, conts |-> <<r>>]
        OBVIOUS
    <2>3. /\ AddJoin(params, Top.k.name)
          /\ transfer' = Append([transfer EXCEPT ![current] = t], None)
          /\ current' = r /\ stack' = Returned(Len(exprs) + 1)
        BY <1>5, <2>1, <2>2 DEF CallTo
    <2>4. Top.k.name \in NameT \cup {None}
        BY <1>3, <1>5 DEF IsTrivial, Cont
    <2>5. /\ params \in Seq(Seq(DOMAIN exprs)) /\ Block = 1..Len(params) /\ Len(params) \in Nat
          /\ DOMAIN params = Block
        BY <1>1, BlocksAre DEF BlocksOK, Block
    <2>6. /\ ExprsOK' /\ NamesOK' /\ Grows /\ params' \in Seq(Seq(DOMAIN exprs'))
          /\ Len(exprs) + 1 \in Value'
          /\ Len(params') = r /\ Entry \in Block' /\ Block' = Joins' \cup Arms' \cup {Entry}
          /\ Block \subseteq Block' /\ r \in Joins'
          /\ Top.k.name # None => defs'[Top.k.name] # None
        <3>1. PICK ps : ps = params
            OBVIOUS
        <3>2. /\ ps \in Seq(Seq(DOMAIN exprs)) /\ Len(ps) >= Len(params)
              /\ (\A b \in Block : ps[b] = params[b]) /\ DOMAIN ps \ Block = {}
              /\ AddJoin(ps, Top.k.name) /\ r = Len(ps) + 1
            BY <3>1, <2>1, <2>3, <2>5
        <3> QED
            BY <3>2, <1>1, <1>2, <2>4, JoinAdded
    <2>7. Top.args \in Seq(Value')
        BY <2>6, <1>3, SeqWider DEF Grows, Value
    <2>8. TransferOK(t)' /\ t \in Transfer
        BY <1>2, <2>2, <2>6, <2>7, CallIsOK
    <2>9. /\ transfer' \in Seq(Transfer \cup {None}) /\ Len(transfer') = r
          /\ transfer'[current] = t /\ t # None
          /\ \A b \in Block \ {current} : transfer'[b] = transfer[b]
          /\ \A b \in 1..r : b \notin Block => transfer'[b] = None
        <3>1. <<None>> \in Seq({None}) /\ Len(<<None>>) = 1
            OBVIOUS
        <3>2. PICK u : u = [transfer EXCEPT ![current] = t]
            OBVIOUS
        <3>3. u \in Seq(Transfer \cup {None})
            BY <1>1, <2>8, <3>2, TransferReplaced
        <3>4. Append(u, None) = u \o <<None>>
            BY <3>3
        <3>5. transfer' = u \o <<None>>
            BY <2>3, <3>2, <3>4
        <3>6. PICK ns : ns = <<None>>
            OBVIOUS
        <3>7. ns \in Seq({None}) /\ Len(ns) = 1 /\ transfer' = u \o ns
            BY <3>1, <3>5, <3>6
        <3> HIDE <3>6
        <3>8. Len(params) + Len(ns) = r
            BY <2>1, <3>7
        <3> QED
            BY <3>2, <3>7, <3>8, <2>8, <1>1, TransferSet
    <2>10. Block' = 1..r
        BY <2>6, SeqDomain DEF Block
    <2>11. BlocksOK'
        BY <2>9, <2>10, <2>6, <2>8, <1>1, TransfersKept, <2>3 DEF BlocksOK
    <2>12. StackOK'
        BY <2>6, <1>1, SeqDomain, NodesAssumption, <1>2, <2>3, Pops DEF NextCont, NamesOK, NameT
    <2>13. TransfersOK'
        <3>1. ASSUME NEW b \in Block' \ {current'}
              PROVE  transfer'[b] # None \/ \E j \in 2..Len(stack) : b \in {stack[j].alt, stack[j].join}
            <4>1. b \in Block
                BY <2>1, <2>3, <2>5, <2>10
            <4>2. CASE b = current
                BY <4>2, <2>9
            <4>3. CASE b # current
                BY <4>1, <4>3, <1>1, <1>2, <2>9, OthersWait
            <4> QED
                BY <4>2, <4>3
        <3> QED
            BY <3>1, <1>1, <1>2, <1>5, <2>3, PopTransfers
    <2> QED
        BY <2>6, <2>11, <2>12, <2>13 DEF Converts
<1> QED
    BY <1>4, <1>5

\* Nothing is allocated, no transfer and no name set.
LEMMA NothingNew ==
    ASSUME Converts, UNCHANGED <<exprs, params, transfer, defs, types>>, current' \in Block
    PROVE  /\ Grows /\ ExprsOK' /\ BlocksOK' /\ NamesOK'
           /\ Value' = Value /\ Block' = Block /\ Joins' = Joins /\ Arms' = Arms /\ NameT' = NameT
           /\ Cont' = Cont /\ Activation' = Activation
BY TransfersKept DEF Converts, Value, Block, Joins, Arms, NameT, Grows, ExprsOK, NamesOK, BlocksOK, Cont,
    Activation

LEMMA JoinKeeps ==
    ASSUME Converts, Join
    PROVE  Converts'
<1>1. ExprsOK /\ BlocksOK /\ NamesOK /\ StackOK /\ TransfersOK
    BY DEF Converts
<1>2. /\ stack # << >> /\ Top.form = "if" /\ Len(Top.args) = 3
      /\ UNCHANGED <<exprs, params, transfer, defs, types>>
    BY DEF Join, InForm
<1>3. /\ Top \in Activation /\ Top.alt = None /\ Branched(Top) /\ Named(Top) /\ Top = stack[1]
      /\ DOMAIN stack = 1..Len(stack)
    BY <1>1, <1>2, TopFacts DEF Resumed
<1>4. Top.join \in Joins \cup {None} /\ Top.oname \in NameT \cup {None}
    BY <1>3 DEF Activation
<1>5. Block \subseteq Nat /\ None \notin Block /\ Joins \subseteq Block /\ current \in Block
    BY <1>1, BlocksAre DEF BlocksOK
<1>6. transfer[current] # None
    BY <1>1, <1>2 DEF TransfersOK
<1>7. \A b \in Block : \/ transfer[b] # None \/ b = Top.join
                       \/ \E j \in 2..Len(stack) : b \in {stack[j].alt, stack[j].join}
    BY <1>1, <1>3, <1>5, <1>6 DEF StackOK, TransfersOK
<1>8. CASE Top.join = None
    <2>1. stack' = Returned(Null) /\ current' = current
        BY <1>8 DEF Join
    <2>2. IsTrivial(Top.k)
        BY <1>3, <1>8 DEF Branched
    <2>3. Grows /\ ExprsOK' /\ BlocksOK' /\ NamesOK' /\ Value' = Value /\ Block' = Block
        BY <1>2, <1>5, <2>1, NothingNew
    <2>4. StackOK'
        BY <2>2, <1>1, <1>2, <2>1, <2>3, Pops DEF IsTrivial, NextCont, Value
    <2>5. TransfersOK'
        BY <1>1, <1>2, <1>5, <1>6, <1>7, <1>8, <2>1, <2>3, PopTransfers
    <2> QED
        BY <2>3, <2>4, <2>5 DEF Converts
<1>9. CASE Top.join # None
    <2>1. stack' = Returned(params[Top.join][1]) /\ current' = Top.join
        BY <1>9 DEF Join
    <2>2. ~IsTrivial(Top.k) /\ Top.join \in Joins
        BY <1>3, <1>4, <1>9 DEF Branched
    <2>3. Grows /\ ExprsOK' /\ BlocksOK' /\ NamesOK' /\ Value' = Value /\ Block' = Block
        BY <1>2, <1>5, <2>1, <2>2, NothingNew
    <2>4. StackOK'
        <3>1. params[Top.join] \in Seq(DOMAIN exprs) /\ Len(params[Top.join]) = 1
            BY <1>1, <2>2 DEF Joins, BlocksOK, Block
        <3>2. params[Top.join][1] \in Value
            BY <3>1 DEF Value
        <3>3. ASSUME NEW n \in NameT, Top.oname = n
              PROVE  defs'[n] # None
            BY <1>1, SeqDomain, <3>3, <1>2, <1>3, <1>9, NodesAssumption DEF NamesOK, NameT, Named
        <3>4. PICK v : v = params[Top.join][1]
            OBVIOUS
        <3>5. v \in Value' /\ stack' = Returned(v)
            BY <3>2, <3>4, <2>1, <2>3
        <3> QED
            BY <3>5, <3>3, <1>1, <1>2, <2>3, Pops
    <2>5. TransfersOK'
        BY <1>1, <1>2, <1>7, <2>1, <2>2, <2>3, PopTransfers
    <2> QED
        BY <2>3, <2>4, <2>5 DEF Converts
<1> QED
    BY <1>8, <1>9

LEMMA BranchContIs ==
    ASSUME NEW a \in Activation, Branched(a)
    PROVE  BranchCont(a) \in Cont
BY DEF BranchCont, Activation, Trivial, Cont

LEMMA AlternativeKeeps ==
    ASSUME Converts, Alternative
    PROVE  Converts'
<1>1. ExprsOK /\ BlocksOK /\ NamesOK /\ StackOK /\ TransfersOK
    BY DEF Converts
<1>2. /\ stack # << >> /\ Top.form = "if" /\ Len(Top.args) = 2
      /\ UNCHANGED <<exprs, params, transfer, defs, types>>
      /\ current' = Top.alt
      /\ stack' = Calls([Top EXCEPT !.alt = None],
                        Expr(BranchCont(Top), None, Top.type, Top.scope))
    BY DEF Alternative, InForm, BranchCont
<1>3. /\ Top \in Activation /\ Top.alt \in Arms /\ Branched(Top) /\ Named(Top) /\ Top = stack[1]
      /\ DOMAIN stack = 1..Len(stack)
    BY <1>1, <1>2, TopFacts DEF Resumed
<1>5. Block \subseteq Nat /\ None \notin Block /\ Arms \subseteq Block
    BY <1>1, BlocksAre DEF BlocksOK
<1>6. transfer[current] # None
    BY <1>1, <1>2 DEF TransfersOK
<1>7. /\ Grows /\ ExprsOK' /\ BlocksOK' /\ NamesOK' /\ Block' = Block /\ NameT' = NameT
      /\ Cont' = Cont /\ Activation' = Activation
    BY <1>2, <1>3, <1>5, NothingNew
<1>8. PICK a : a = [Top EXCEPT !.alt = None]
    OBVIOUS
<1>9. PICK e : e = Expr(BranchCont(Top), None, Top.type, Top.scope)
    OBVIOUS
<1>10. /\ a \in Activation /\ a.form = "if" /\ a.args = Top.args /\ a.k = Top.k /\ a.alt = None
       /\ a.oname = Top.oname /\ a.scope = Top.scope /\ a.join = Top.join
    BY <1>2, <1>3, <1>8 DEF Activation
<1> HIDE <1>8
<1>11. BranchCont(Top) \in Cont /\ Top.type \in Type /\ Top.scope \in SUBSET NameT
    BY <1>3, BranchContIs DEF Activation
<1>12. \A n \in Top.scope : defs'[n] # None
    BY <1>2, <1>3 DEF Named
<1>13. /\ e \in Activation' /\ Resumed(e)' /\ Named(e)' /\ e.form = "expr"
       /\ e.k = BranchCont(Top) /\ e.oname = None /\ e.alt = None /\ e.join = None
    BY <1>7, <1>9, <1>11, <1>12, NewExpr
<1> HIDE <1>9
<1>14. Waits(e, a)'
    BY <1>3, <1>10, <1>13, <1>2, <1>7, WaitsKept DEF Branched, BranchCont, Waits
<1>15. NamedBut(e, a)'
    BY <1>2, <1>3, <1>10, <1>12 DEF NamedBut, Named
<1>16. stack' = Calls(a, e)
    BY <1>2, <1>8, <1>9
<1>17. StackOK'
    BY <1>1, <1>2, <1>7, <1>10, <1>13, <1>14, <1>15, <1>16, Pushes
<1>18. TransfersOK'
    <2>1. ASSUME NEW b \in Block, b # current'
          PROVE  \/ transfer'[b] # None \/ b \in {a.alt, a.join}
                 \/ \E j \in 2..Len(stack) : b \in {stack[j].alt, stack[j].join}
        BY <1>1, <1>3, <2>1, <1>2, <1>6, <1>10 DEF StackOK, TransfersOK
    <2> QED
        BY <2>1, <1>1, <1>2, <1>7, <1>13, <1>16, PushTransfers
<1> QED
    BY <1>7, <1>17, <1>18 DEF Converts

LEMMA IfIsOK ==
    ASSUME ExprsOK', params' \in Seq(Seq(DOMAIN exprs')),
           NEW args \in Seq(Value'), Len(args) = 1, NEW c \in Arms', NEW d \in Arms',
           NEW t, t = [form |-> "if", args |-> args, conts |-> <<c, d>>]
    PROVE  TransferOK(t)' /\ t \in Transfer
BY ValuesAreNext, BlocksAreNext, RangeWithin, SeqWider DEF TransferOK, Transfer

\* The blocks of a conditional are there, and its first branch is converted.
LEMMA BranchBlocks ==
    ASSUME BlocksOK, Grows, params' \in Seq(Seq(DOMAIN exprs')), Entry \in Block',
           Block' = Joins' \cup Arms' \cup {Entry}, current' \in Block',
           NEW t \in Transfer, TransferOK(t)',
           NEW u, u = [transfer EXCEPT ![current] = t],
           NEW ns \in Seq({None}), transfer' = u \o ns, Len(params') = Len(params) + Len(ns)
    PROVE  /\ BlocksOK'
           /\ \A b \in Block' :
                \/ b \notin Block
                \/ transfer'[b] # None
                \/ b # current /\ transfer[b] = None
<1>5. /\ transfer' \in Seq(Transfer \cup {None}) /\ Len(transfer') = Len(params) + Len(ns)
      /\ transfer'[current] = t /\ t # None
      /\ \A b \in Block \ {current} : transfer'[b] = transfer[b]
      /\ \A b \in 1..(Len(params) + Len(ns)) : b \notin Block => transfer'[b] = None
    BY TransferSet
<1>6. Block' = 1..Len(params')
    BY BlocksAreNext
<1>7. (\A b \in Block : transfer[b] = None \/ TransferOK(transfer[b]))'
    BY <1>5, <1>6, TransfersKept DEF BlocksOK
<1>8. BlocksOK'
    BY <1>5, <1>7 DEF BlocksOK
<1> QED
    BY <1>5, <1>8

WithBlocks(a, alt, join) == [a EXCEPT !.alt = alt, !.join = join]

LEMMA BranchStack ==
    ASSUME StackOK, Grows, stack # << >>, Top.form = "if", Len(Top.args) = 1,
           NEW alt \in Arms', NEW join \in Joins' \cup {None}, join = None <=> IsTrivial(Top.k),
           join # None /\ Top.oname # None => defs'[Top.oname] # None, None \notin Joins',
           NEW a, a = WithBlocks(Top, alt, join),
           NEW k, k = BranchCont(a), NEW e, e = Expr(k, None, Top.type, Top.scope),
           stack' = Calls(a, e)
    PROVE  StackOK' /\ a.alt = alt /\ a.join = join /\ e.form = "expr"
<1>1. Top \in Activation /\ Named(Top)
    BY TopFacts
<1>2. PICK p : p = Top
    OBVIOUS
<1>3. p \in Activation'
    BY <1>1, <1>2, ActivationsKept
<1>4. /\ a \in Activation' /\ a.form = p.form /\ a.args = p.args /\ a.k = p.k /\ a.alt = alt
      /\ a.oname = p.oname /\ a.scope = p.scope /\ a.join = join
    <2>1. a = [p EXCEPT !.alt = alt, !.join = join]
        BY <1>2 DEF WithBlocks
    <2> QED
        BY ONLY <2>1, <1>3, alt \in Arms', join \in Joins' \cup {None} DEF Activation
<1>5. Branched(a)
    BY <1>2, <1>4 DEF Branched
<1>6. k \in Cont'
    BY <1>4 DEF Activation, BranchCont, Cont, Trivial
<1>7. Top.type \in Type /\ Top.scope \in SUBSET NameT' /\ \A n \in Top.scope : defs'[n] # None
    BY <1>1 DEF Activation, Named, Grows
<1>8. /\ e \in Activation' /\ Resumed(e)' /\ Named(e)' /\ e.form = "expr"
      /\ e.k = k /\ e.oname = None /\ e.alt = None /\ e.join = None
    <2>1. PICK t, sc : t = Top.type /\ sc = Top.scope
        OBVIOUS
    <2>2. /\ t \in Type /\ sc \in SUBSET NameT' /\ (\A n \in sc : defs'[n] # None)
          /\ None \in NameT' \cup {None}
        BY <2>1, <1>7
    <2>3. e = Expr(k, None, t, sc)
        BY <2>1
    <2> QED
        BY ONLY <2>2, <2>3, <1>6, NewExpr
<1>9. Waits(e, a)'
    <2>1. Branched(a)' /\ e.k = BranchCont(a)'
        BY <1>5, <1>8 DEF Branched, BranchCont
    <2>2. a.form = "if" /\ Len(a.args) = 1 /\ a.alt \in Arms' /\ e.oname = None
        BY <1>2, <1>4, <1>8
    <2> QED
        BY ONLY <2>1, <2>2 DEF Waits
<1>10. NamedBut(e, a)'
    <2>1. \A n \in a.scope : defs'[n] # None
        BY <1>2, <1>4, <1>7
    <2>2. a.join # None /\ a.oname # None => defs'[a.oname] # None
        BY <1>2, <1>4
    <2> QED
        BY ONLY <2>1, <2>2 DEF NamedBut
<1>11. a.k = Top.k /\ a.oname = Top.oname
    BY <1>2, <1>4
<1> QED
    BY <1>4, <1>8, <1>9, <1>10, <1>11, Pushes

LEMMA BranchTransfers ==
    ASSUME StackOK, TransfersOK, stack # << >>, Top.alt = None, Top.join = None, None \notin Block',
           NEW a, NEW e, e.form = "expr", stack' = Calls(a, e),
           \A b \in Block' \ Block : b \in {current', a.alt, a.join},
           \A b \in Block' :
                b \notin Block \/ transfer'[b] # None \/ (b # current /\ transfer[b] = None)
    PROVE  TransfersOK'
BY TopFacts, PushTransfers DEF StackOK, TransfersOK

LEMMA ArmsAdded ==
    ASSUME BlocksOK, NEW ps, ps = params \o <<<< >>, << >>>>
    PROVE  /\ ps \in Seq(Seq(DOMAIN exprs)) /\ Len(ps) = Len(params) + 2 /\ Len(ps) >= Len(params)
           /\ Len(params) \in Nat /\ Block = 1..Len(params)
           /\ DOMAIN ps \ Block = {Len(params) + 1, Len(params) + 2}
           /\ \A b \in Block : ps[b] = params[b]
           /\ \A b \in DOMAIN ps \ Block : Len(ps[b]) = 0
<1>1. params \in Seq(Seq(DOMAIN exprs)) /\ Block = 1..Len(params) /\ Len(params) \in Nat
    BY BlocksAre DEF BlocksOK
<1>2. PICK q : q = <<<< >>, << >>>>
    OBVIOUS
<1>3. q \in Seq(Seq(DOMAIN exprs)) /\ Len(q) = 2 /\ \A j \in 1..2 : Len(q[j]) = 0
    BY <1>2
<1>4. ps = params \o q
    BY <1>2
<1> HIDE <1>2
<1>5. PICK n \in Nat : n = Len(params)
    BY <1>1
<1>6. /\ ps \in Seq(Seq(DOMAIN exprs)) /\ Len(ps) = n + 2 /\ \A j \in 1..n : ps[j] = params[j]
      /\ \A j \in (n + 1)..(n + 2) : ps[j] = q[j - n]
    BY <1>1, <1>3, <1>4, <1>5, CatElements, SMTT(30)
<1>7. DOMAIN ps = 1..(n + 2)
    BY <1>6, SeqDomain
<1>8. DOMAIN ps \ Block = {n + 1, n + 2}
    <2>1. Block = 1..n
        BY <1>1, <1>5
    <2>2. \A j \in Int : j \in (1..(n + 2)) \ (1..n) <=> j \in {n + 1, n + 2}
        BY ONLY n \in Nat
    <2>3. (1..(n + 2)) \ (1..n) = {n + 1, n + 2}
        BY ONLY <2>2, n \in Nat
    <2> QED
        BY ONLY <2>1, <2>3, <1>7
<1>9. Len(ps[n + 1]) = 0 /\ Len(ps[n + 2]) = 0
    <2>1. n + 1 \in (n + 1)..(n + 2) /\ n + 2 \in (n + 1)..(n + 2) /\ (n + 1) - n = 1 /\ (n + 2) - n = 2
        OBVIOUS
    <2>2. ps[n + 1] = q[1] /\ ps[n + 2] = q[2]
        BY <2>1, <1>6
    <2>3. Len(q[1]) = 0 /\ Len(q[2]) = 0
        BY ONLY <1>3
    <2> QED
        BY ONLY <2>2, <2>3
<1> QED
    BY <1>1, <1>5, <1>6, <1>8, <1>9

LEMMA BranchKeeps ==
    ASSUME Converts, Branch
    PROVE  Converts'
<1>1. ExprsOK /\ BlocksOK /\ NamesOK /\ StackOK /\ TransfersOK
    BY DEF Converts
<1>2. stack # << >> /\ Top.form = "if" /\ Len(Top.args) = 1 /\ types' = types
    BY DEF Branch, InForm
<1>3. /\ Top \in Activation /\ Top.args \in Seq(Value) /\ Top.alt = None /\ Top.join = None
      /\ Top.oname \in NameT \cup {None}
    BY <1>1, <1>2, TopFacts DEF Activation, Resumed
<1>4. PICK n \in Nat : n = Len(params)
    BY <1>1, BlocksAre DEF BlocksOK
<1>5. PICK ps : ps = params \o <<<< >>, << >>>>
    OBVIOUS
<1>6. /\ ps \in Seq(Seq(DOMAIN exprs)) /\ Len(ps) = n + 2 /\ Len(ps) >= Len(params)
      /\ Block = 1..n /\ DOMAIN ps \ Block = {n + 1, n + 2}
      /\ \A b \in Block : ps[b] = params[b]
      /\ \A b \in DOMAIN ps \ Block : Len(ps[b]) = 0
    BY <1>1, <1>4, <1>5, ArmsAdded
<1>7. PICK t : t = [form |-> "if", args |-> Top.args, conts |-> <<n + 1, n + 2>>]
    OBVIOUS
<1>8. PICK u : u = [transfer EXCEPT ![current] = t]
    OBVIOUS
<1>9. PICK join : join = IF IsTrivial(Top.k) THEN None ELSE n + 3
    OBVIOUS
<1>10. n + 3 # None
    BY NodesAssumption
<1>11. PICK a : a = [Top EXCEPT !.alt = n + 2, !.join = join]
    OBVIOUS
<1>12. a.join = join /\ a.k = Top.k
    BY <1>3, <1>11 DEF Activation
<1>13. PICK k : k = BranchCont(a)
    OBVIOUS
<1>14. PICK e : e = Expr(k, None, Top.type, Top.scope)
    OBVIOUS
<1>15. /\ current' = n + 1 /\ stack' = Calls(a, e)
       /\ IF join = None
          THEN params' = ps /\ transfer' = u \o <<None, None>> /\ UNCHANGED <<exprs, defs>>
          ELSE AddJoin(ps, Top.oname) /\ transfer' = Append(u \o <<None, None>>, None)
    <2>1. n + 1 = Len(params) + 1 /\ n + 2 = (Len(params) + 1) + 1
        BY <1>4
    <2>2. (Len(params) + 1) + 1 + 1 = n + 3
        BY <1>4
    <2>3. BranchCont(a) = IF IsTrivial(Top.k) THEN Top.k ELSE Trivial(join)
        BY <1>9, <1>10, <1>12 DEF BranchCont
    <2> QED
        BY <2>1, <2>2, <2>3, <1>5, <1>7, <1>8, <1>9, <1>11, <1>13, <1>14 DEF Branch
<1> HIDE <1>5, <1>8, <1>11, <1>14
<1>16. PICK ns : ns = IF join = None THEN <<None, None>> ELSE <<None, None, None>>
    OBVIOUS
<1>17. ns \in Seq({None}) /\ Len(ns) = IF join = None THEN 2 ELSE 3
    <2>1. CASE join = None
        <3>1. ns = <<None, None>>
            BY <1>16, <2>1
        <3> QED
            BY ONLY <3>1, <2>1
    <2>2. CASE join # None
        <3>1. ns = <<None, None, None>>
            BY <1>16, <2>2
        <3> QED
            BY ONLY <3>1, <2>2
    <2> QED
        BY <2>1, <2>2
<1>18. /\ ExprsOK' /\ NamesOK' /\ Grows /\ params' \in Seq(Seq(DOMAIN exprs')) /\ Entry \in Block'
       /\ Block' = Joins' \cup Arms' \cup {Entry} /\ Len(params') = Len(params) + Len(ns)
       /\ n + 1 \in Arms' /\ n + 2 \in Arms' /\ join \in Joins' \cup {None}
       /\ Block' \ Block \subseteq {n + 1, n + 2, join}
       /\ join # None /\ Top.oname # None => defs'[Top.oname] # None
    <2>1. CASE join = None
        <3>1. params' = ps /\ exprs' = exprs /\ defs' = defs
            BY <1>15, <2>1
        <3>2. ExprsOK' /\ NamesOK' /\ NameT' = NameT
            BY <1>1, <1>2, <3>1 DEF ExprsOK, NamesOK, NameT
        <3>3. Block' = 1..(n + 2)
            BY <3>1, <1>6, SeqDomain DEF Block
        <3>4. Block' \ Block = {n + 1, n + 2}
            BY <3>1, <1>6 DEF Block
        <3>5. /\ params \in Seq(Seq(DOMAIN exprs)) /\ Entry \in Block
              /\ Block = Joins \cup Arms \cup {Entry}
            BY <1>1 DEF BlocksOK
        <3>6. /\ \A b \in Block : params'[b] = params[b]
              /\ \A b \in Block' \ Block : Len(params'[b]) = 0
            BY <3>1, <3>4, <1>6
        <3>7. /\ Joins \subseteq Joins' /\ Arms \subseteq Arms' /\ Entry \in Block'
              /\ Block' = Joins' \cup Arms' \cup {Entry}
              /\ \A b \in Block' \ Block : b \in Arms'
            BY <3>1, <1>6, <3>6, <3>5, BlocksAdded
        <3>8. Grows
            BY <3>1, <3>2, <3>7 DEF Grows
        <3> QED
            BY <2>1, <3>1, <3>2, <3>4, <3>7, <3>8, <1>4, <1>6, <1>17
    <2>2. CASE join # None
        <3>1. AddJoin(ps, Top.oname) /\ join = n + 3
            BY <1>9, <1>15, <2>2
        <3>2. PICK o : o = Top.oname
            OBVIOUS
        <3>3. o \in NameT \cup {None} /\ AddJoin(ps, o) /\ join = Len(ps) + 1
            BY <3>1, <3>2, <1>3, <1>6
        <3>4. /\ ExprsOK' /\ NamesOK' /\ Grows /\ params' \in Seq(Seq(DOMAIN exprs'))
              /\ Len(params') = join /\ Entry \in Block' /\ Block' = Joins' \cup Arms' \cup {Entry}
              /\ join \in Joins' /\ \A b \in DOMAIN ps \ Block : b \in Arms'
              /\ o # None => defs'[o] # None
            BY <3>3, <1>1, <1>2, <1>6, JoinAdded, ZenonT(60)
        <3>5. Block' = 1..(n + 3)
            BY <3>1, <3>4, SeqDomain DEF Block
        <3>6. Block' \ Block \subseteq {n + 1, n + 2, n + 3}
            BY ONLY <3>5, <1>6, n \in Nat
        <3>7. Len(params') = Len(params) + Len(ns)
            BY <3>1, <3>4, <2>2, <1>4, <1>17
        <3> QED
            BY <3>1, <3>2, <3>4, <3>6, <3>7, <1>6
    <2> QED
        BY <2>1, <2>2
<1>19. TransferOK(t)' /\ t \in Transfer
    BY <1>18, <1>2, <1>3, <1>7, SeqWider, IfIsOK DEF Grows, Value
<1>20. transfer' = u \o ns
    <2>1. u \in Seq(Transfer \cup {None})
        BY <1>1, <1>8, <1>19, TransferReplaced
    <2>2. Append(u \o <<None, None>>, None) = u \o <<None, None, None>>
        BY ONLY <2>1
    <2> QED
        BY <2>2, <1>15, <1>16
<1>21. None \notin Block' /\ None \notin Joins'  /\ Arms' \subseteq Block'
    BY <1>18, BlocksAreNext
<1>22. /\ BlocksOK'
       /\ \A b \in Block' :
            b \notin Block \/ transfer'[b] # None \/ (b # current /\ transfer[b] = None)
    BY <1>1, <1>8, <1>15, <1>17, <1>18, <1>19, <1>20, <1>21, BranchBlocks
<1>23. StackOK' /\ a.alt = n + 2 /\ a.join = join /\ e.form = "expr"
    <2>1. join = None <=> IsTrivial(Top.k)
        BY <1>9, <1>10
    <2>2. PICK alt : alt = n + 2
        OBVIOUS
    <2>3. alt \in Arms' /\ a = WithBlocks(Top, alt, join)
        BY <2>2, <1>11, <1>18 DEF WithBlocks
    <2>4. Grows /\ join \in Joins' \cup {None} /\ stack' = Calls(a, e)
          /\ (join # None /\ Top.oname # None => defs'[Top.oname] # None)
        BY <1>15, <1>18
    <2>5. StackOK' /\ a.alt = alt /\ a.join = join /\ e.form = "expr"
        BY ONLY <2>1, <2>3, <2>4, <1>1, <1>2, <1>13, <1>14, <1>21, BranchStack
    <2> QED
        BY <2>2, <2>5
<1>24. TransfersOK'
    BY <1>1, <1>2, <1>3, <1>15, <1>18, <1>21, <1>22, <1>23, BranchTransfers
<1> QED
    BY <1>18, <1>22, <1>23, <1>24 DEF Converts

LEMMA FourElements ==
    ASSUME NEW S, NEW a \in S, NEW b \in S, NEW c \in S, NEW d \in S
    PROVE  LET s == <<a, b, c, d>> IN s \in Seq(S) /\ Len(s) = 4 /\ DOMAIN s = 1..4
OBVIOUS

LEMMA ConversionStarts ==
    ASSUME Init
    PROVE  Converts
<1>1. current = 1 /\ params = <<<<2, 3, 4>>>> /\ transfer = <<None>>
    BY DEF Init
<1>12. exprs = [e \in 1..4 |-> [kind |-> IF e = 1 THEN "fn" ELSE "param", args |-> << >>]]
    BY DEF Init
<1>13. types = <<"fn", "i64", "bool", "higher fn">>
    BY DEF Init
<1>14. defs = <<1, 2, 3, 4>>
    BY DEF Init
<1>2. PICK t \in Base : stack = <<Expr(Trivial(Return), None, t, 1..4)>>
    BY DEF Init
<1>3. PICK e : e = Expr(Trivial(Return), None, t, 1..4)
    OBVIOUS
<1>15. types \in Seq(Type) /\ Len(types) = 4
    <2>1. "fn" \in Type /\ "i64" \in Type /\ "bool" \in Type /\ "higher fn" \in Type
        BY DEF Type
    <2> QED
        BY ONLY <2>1, <1>13, FourElements
<1>4. DOMAIN exprs = 1..4 /\ DOMAIN params = {1} /\ NameT = 1..4
    <2>1. DOMAIN exprs = 1..4
        BY ONLY <1>12
    <2>2. DOMAIN params = {1}
        BY ONLY <1>1
    <2>3. NameT = 1..4
        BY ONLY <1>15, SeqDomain DEF NameT
    <2> QED
        BY <2>1, <2>2, <2>3
<1>5. Block = {1} /\ Value = (1..4) \cup {Null}
    BY ONLY <1>4 DEF Block, Value
<1>6. Joins = {} /\ Arms = {}
    BY ONLY <1>5 DEF Joins, Arms, Entry
<1>7. ExprsOK
    <2> DEFINE E == [kind : {"fn", "param", "const", "prim"}, args : Seq(Nat \cup {Null})]
    <2>1. \A d \in 1..4 : exprs[d] \in E /\ exprs[d].args = << >>
        <3>1. << >> \in Seq(Nat \cup {Null})
            OBVIOUS
        <3> QED
            BY ONLY <3>1, <1>12
    <2>2. exprs \in Seq(E)
        <3> HIDE DEF E
        <3>1. exprs \in [1..4 -> E]
            BY ONLY <2>1, <1>12
        <3> QED
            BY ONLY <3>1
    <2>3. \A d \in 1..4 : Range(exprs[d].args) = {}
        BY ONLY <2>1 DEF Range
    <2> QED
        BY ONLY <2>2, <2>3, <1>4 DEF ExprsOK
<1>8. BlocksOK
    <2>1. PICK p : p = <<2, 3, 4>>
        OBVIOUS
    <2>2. p \in Seq(1..4)
        BY ONLY <2>1
    <2>3. params = <<p>>
        BY ONLY <2>1, <1>1
    <2>4. params \in Seq(Seq(DOMAIN exprs)) /\ Len(params) = 1
        BY ONLY <2>2, <2>3, <1>4
    <2>5. transfer \in Seq(Transfer \cup {None}) /\ Len(transfer) = 1 /\ transfer[1] = None
        BY ONLY <1>1
    <2>6. current \in Block /\ Entry \in Block /\ Block = Joins \cup Arms \cup {Entry}
        BY ONLY <1>1, <1>5, <1>6 DEF Entry
    <2> QED
        BY ONLY <2>4, <2>5, <2>6, <1>5 DEF BlocksOK
<1>9. NamesOK
    <2>2. defs \in Seq((1..4) \cup {None}) /\ Len(defs) = 4
        BY ONLY <1>14
    <2> QED
        BY ONLY <2>2, <1>4, <1>15 DEF NamesOK
<1>10. StackOK
    <2>1. stack = <<e>> /\ Len(stack) = 1 /\ stack[1] = e /\ Top = e
        BY <1>2, <1>3 DEF Top
    <2>2. Trivial(Return) \in Cont /\ t \in Type /\ << >> \in Seq(Value)
        <3>1. Trivial(Return) \in Cont
            BY ONLY TRUE DEF Trivial, Cont
        <3>2. t \in Type
            BY ONLY t \in Base DEF Base, Type
        <3>3. << >> \in Seq(Value)
            OBVIOUS
        <3> QED
            BY <3>1, <3>2, <3>3
    <2>3. e \in Activation /\ Resumed(e) /\ e.scope = 1..4 /\ e.k = Trivial(Return) /\ e.join = None
        BY ONLY <2>2, <1>3, <1>4, t \in Base DEF Expr, Activation, Resumed
    <2>4. Named(e)
        <3>1. \A n \in 1..4 : defs[n] \in 1..4
            BY ONLY <1>14
        <3>2. \A n \in 1..4 : n # None
            BY NodesAssumption
        <3> QED
            BY ONLY <2>3, <3>1, <3>2 DEF Named
    <2>5. stack \in Seq(Activation)
        BY <2>1, <2>3
    <2> HIDE <1>3
    <2> QED
        BY <2>1, <2>3, <2>4, <2>5 DEF StackOK
<1>11. TransfersOK
    <2>1. Top = e /\ e.form = "expr" /\ stack # << >>
        BY <1>2, <1>3 DEF Top, Expr
    <2> HIDE <1>2, <1>3
    <2> QED
        BY ONLY <2>1, <1>1, <1>5 DEF TransfersOK
<1> QED
    BY <1>7, <1>8, <1>9, <1>10, <1>11 DEF Converts

LEMMA ConversionKeeps ==
    ASSUME Converts, ToCpsNext
    PROVE  Converts'
<1>1. CASE \E n \in NameT : Id(n)
    BY <1>1, IdKeeps
<1>2. CASE \E t \in Type : Val(t)
    BY <1>2, ValKeeps
<1>3. CASE Const \/ Prim \/ If \/ Call
    BY <1>3, ConstKeeps, PrimKeeps, IfKeeps, CallStartKeeps
<1>4. CASE Operand \/ Apply \/ CallTo
    BY <1>4, OperandKeeps, ApplyKeeps, CallToKeeps
<1>5. CASE Branch \/ Alternative \/ Join
    BY <1>5, BranchKeeps, AlternativeKeeps, JoinKeeps
<1> QED
    BY <1>1, <1>2, <1>3, <1>4, <1>5 DEF ToCpsNext

LEMMA ConvertedStays ==
    ASSUME Converts, UNCHANGED cpsVars
    PROVE  Converts'
BY NothingNew DEF Converts, cpsVars, BlocksOK, Top, StackOK, Resumed, Named, Branched, Waits, NamedBut,
    BranchCont, TransfersOK

-----------------------------------------------------------------------------
(* The visit.                                                              *)

LEMMA NothingVisited ==
    agenda = << >> /\ visited = {} /\ order = << >> /\ blocks = << >> => Walks
<1> SUFFICES ASSUME agenda = << >>, visited = {}, order = << >>, blocks = << >>
             PROVE  Walks
    OBVIOUS
<1>1. DOMAIN agenda = {} /\ DOMAIN order = {} /\ DOMAIN blocks = {}
    OBVIOUS
<1>2. Range(order) = {} /\ Range(blocks) = {}
    BY <1>1 DEF Range
<1>3. AgendaOK
    BY DEF AgendaOK
<1>4. EnteredOnce
    BY <1>1, <1>2 DEF EnteredOnce, IsInjective
<1> QED
    BY <1>1, <1>3, <1>4 DEF Walks, Descending, LeftOrEntered, OperandsFirst

LEMMA NothingVisitedNext ==
    ASSUME (agenda = << >> /\ visited = {} /\ order = << >> /\ blocks = << >>)'
    PROVE  Walks'
BY NothingVisited, PTL

LEMMA WalkStays ==
    ASSUME Walks, UNCHANGED <<exprs, params, agenda, visited, order, blocks>>
    PROVE  Walks'
<1>1. Item' = Item /\ Block' = Block /\ Value' = Value
    BY DEF Item, Block, Value
<1>2. AgendaOK'
    BY <1>1 DEF Walks, AgendaOK
<1>3. EnteredOnce'
    BY DEF Walks, EnteredOnce
<1>4. Descending'
    BY DEF Walks, Descending
<1>6. OperandsFirst'
    BY DEF Walks, OperandsFirst
<1>5. LeftOrEntered'
    BY <1>1 DEF Walks, LeftOrEntered
<1> QED
    BY <1>2, <1>3, <1>4, <1>5, <1>6 DEF Walks

\* The first item of the agenda gives way to ns.
LEMMA Spliced ==
    ASSUME NEW S, NEW ag \in Seq(S), ag # << >>, NEW ns \in Seq(S), NEW t, t = ns \o Tail(ag),
           NEW n, n = Len(ns), NEW m, m = Len(ag)
    PROVE  /\ n \in Nat /\ m \in Nat /\ m >= 1 /\ DOMAIN ag = 1..m /\ Head(ag) = ag[1]
           /\ t \in Seq(S) /\ DOMAIN t = 1..(n + m - 1)
           /\ \A i \in 1..n : t[i] = ns[i]
           /\ \A i \in (n + 1)..(n + m - 1) : t[i] = ag[i - n + 1]
BY CatElements, SeqDomain

LEMMA TailIs ==
    ASSUME NEW S, NEW ag \in Seq(S), ag # << >>
    PROVE  << >> \in Seq(S) /\ Tail(ag) = << >> \o Tail(ag) /\ Len(<< >>) = 0
OBVIOUS

\* A sequence with one more element.
Longer(s, t, x) ==
    /\ DOMAIN t = 1..(Len(s) + 1) /\ t[Len(s) + 1] = x /\ \A k \in 1..Len(s) : t[k] = s[k]

LEMMA AppendIsLonger ==
    ASSUME NEW S, NEW s \in Seq(S), NEW x \in S
    PROVE  Append(s, x) \in Seq(S) /\ Longer(s, Append(s, x), x)
BY DEF Longer

LEMMA Appended ==
    ASSUME NEW s, NEW t, NEW x, DOMAIN s = 1..Len(s), Len(s) \in Nat, Longer(s, t, x),
           IsInjective(s), x \notin Range(s)
    PROVE  IsInjective(t) /\ Range(t) = Range(s) \cup {x}
BY DEF Longer, Range, IsInjective

Finished == Converts /\ stack = << >>

\* Every block has a transfer that leads to blocks and has values as operands.
LEMMA FinishedTransfers ==
    ASSUME Finished, NEW b \in Block
    PROVE  /\ TransferOK(transfer[b]) /\ transfer[b].args \in Seq(Value)
           /\ Successors(b) \in Seq(Block)
<1>1. BlocksOK /\ TransfersOK /\ DOMAIN stack = {}
    BY DEF Finished, Converts
<1>2. transfer[b] # None
    BY <1>1 DEF TransfersOK, Finished
<1>3. TransferOK(transfer[b])
    BY <1>1, <1>2 DEF BlocksOK
<1>4. PICK t : t = transfer[b]
    OBVIOUS
<1>5. t.args \in Seq(Value)
    BY <1>3, <1>4, SeqWider DEF TransferOK, Transfer, Range
<1>6. Successors(b) \in Seq(Block)
    <2>1. CASE Return \in Range(t.conts)
        BY <2>1, <1>4 DEF Successors
    <2>2. CASE Return \notin Range(t.conts)
        <3>1. Successors(b) = t.conts
            BY <2>2, <1>2, <1>4 DEF Successors
        <3>2. Joins \subseteq Block /\ Arms \subseteq Block
            BY <1>1, BlocksAre DEF BlocksOK
        <3>3. \/ \E c \in Joins \cup {Return} : t.conts = <<c>>
              \/ \E c, d \in Arms : t.conts = <<c, d>>
            BY <1>3, <1>4 DEF TransferOK
        <3>4. CASE \E c, d \in Arms : t.conts = <<c, d>>
            BY <3>1, <3>2, <3>4
        <3>5. ASSUME NEW c \in Joins \cup {Return}, t.conts = <<c>>
              PROVE  t.conts \in Seq(Block)
            BY <2>2, <3>2, <3>5 DEF Range
        <3> QED
            BY <3>1, <3>3, <3>4, <3>5
    <2> QED
        BY <2>1, <2>2
<1> QED
    BY <1>3, <1>4, <1>5, <1>6

LEMMA VisitsAre ==
    ASSUME NEW S, NEW ns \in Seq(S), NEW kind, NEW s, s = VisitAll(kind, ns)
    PROVE  /\ Len(s) = Len(ns) /\ Len(ns) \in Nat /\ s \in Seq([do : {kind}, node : S])
           /\ \A i \in 1..Len(ns) : s[i] = Visit(kind, ns[i])
<1>1. DOMAIN ns = 1..Len(ns) /\ Len(ns) \in Nat /\ \A i \in 1..Len(ns) : ns[i] \in S
    OBVIOUS
<1>2. s = [i \in 1..Len(ns) |-> Visit(kind, ns[i])]
    BY <1>1 DEF VisitAll
<1>3. \A i \in 1..Len(ns) : Visit(kind, ns[i]) \in [do : {kind}, node : S]
    BY <1>1 DEF Visit
<1> QED
    BY <1>1, <1>2, <1>3

LEMMA VisitIs ==
    \A kind, n : Visit(kind, n).do = kind /\ Visit(kind, n).node = n
BY DEF Visit

LEMMA ItemsAre ==
    /\ \A b \in Block : Visit("block", b) \in Item /\ Visit("leave block", b) \in Item
    /\ \A v \in Value : Visit("expr", v) \in Item
    /\ \A e \in DOMAIN exprs : Visit("leave expr", e) \in Item
    /\ \A i \in Item :
        /\ i = Visit(i.do, i.node)
        /\ \/ i.do \in {"block", "leave block"} /\ i.node \in Block
           \/ i.do = "expr" /\ i.node \in Value
           \/ i.do = "leave expr" /\ i.node \in DOMAIN exprs
<1>1. \A b \in Block : Visit("block", b) \in Item /\ Visit("leave block", b) \in Item
    BY DEF Item, Visit
<1>2. \A v \in Value : Visit("expr", v) \in Item
    BY DEF Item, Visit
<1>3. \A e \in DOMAIN exprs : Visit("leave expr", e) \in Item
    BY DEF Item, Visit
<1>4. ASSUME NEW i \in Item
      PROVE  /\ i = Visit(i.do, i.node)
             /\ \/ i.do \in {"block", "leave block"} /\ i.node \in Block
                \/ i.do = "expr" /\ i.node \in Value
                \/ i.do = "leave expr" /\ i.node \in DOMAIN exprs
    BY DEF Visit, Item
<1> QED
    BY <1>1, <1>2, <1>3, <1>4

\* A step of the visit changes none of what the conversion has made.
LEMMA ItemsStay ==
    ASSUME UNCHANGED cpsVars
    PROVE  /\ Item' = Item /\ Block' = Block /\ Value' = Value /\ exprs' = exprs /\ params' = params
           /\ transfer' = transfer
BY DEF cpsVars, Item, Block, Value

LEMMA ElementIn ==
    ASSUME NEW S, NEW s \in Seq(S), NEW i \in DOMAIN s
    PROVE  s[i] \in S
OBVIOUS

LEMMA LeavesAre ==
    ASSUME NEW x, NEW n, x = Visit("leave expr", n)
    PROVE  x.do = "leave expr" /\ x.node = n /\ (x \in Item => n \in DOMAIN exprs)
BY ItemsAre DEF Visit

\* An operand that has been entered is left before the expression is.
LEMMA EnteredIsLeft ==
    ASSUME ExprsOK, Walks, NEW j \in DOMAIN agenda, NEW e, agenda[j] = Visit("leave expr", e),
           NEW v, v \in Range(exprs[e].args), Visit("expr", v) \in visited
    PROVE  v \in Range(order) \/ \E i \in 1..(j - 1) : agenda[i] = Visit("leave expr", v)
<1>1. AgendaOK /\ Descending /\ LeftOrEntered
    BY DEF Walks
<1>2. agenda \in Seq(Item)
    BY ONLY <1>1 DEF AgendaOK
<1>3. DOMAIN agenda = 1..Len(agenda) /\ Len(agenda) \in Nat
    BY ONLY <1>2
<1>4. \A i \in DOMAIN agenda : agenda[i] \in Item
    BY ONLY <1>2, ElementIn
<1>5. e \in DOMAIN exprs /\ agenda[j].node = e /\ agenda[j].do = "leave expr"
    BY <1>4, LeavesAre
<1>6. DOMAIN exprs = 1..Len(exprs) /\ Len(exprs) \in Nat /\ Null \notin DOMAIN exprs
    BY ValuesAre
<1>7. v \in (1..(e - 1)) \cup {Null}
    BY <1>5 DEF ExprsOK
<1>8. e \in DOMAIN exprs
    BY <1>5
<1>9. (v \in Nat /\ e \in Nat /\ v < e /\ e # Null) \/ v = Null
    BY ONLY <1>8, <1>6, <1>7
<1>10. v \in Value
    BY ONLY <1>8, <1>6, <1>7 DEF Value
<1>11. ASSUME NEW i \in DOMAIN agenda, agenda[i] = Visit("leave expr", v)
       PROVE  i \in 1..(j - 1)
    <2>1. agenda[i].node = v /\ agenda[i].do = "leave expr" /\ v \in DOMAIN exprs
        BY ONLY <1>4, <1>11, LeavesAre
    <2>2. v \in DOMAIN exprs
        BY <2>1
    <2>3. v \in Nat /\ e \in Nat /\ v < e /\ e # Null
        BY ONLY <1>6, <1>9, <2>2
    <2>4. ASSUME j < i PROVE FALSE
        <3>1. e = Null \/ e < v
            BY ONLY <1>1, <1>5, <2>1, <2>4, i \in DOMAIN agenda, j \in DOMAIN agenda, Zenon
                DEF Descending
        <3> QED
            BY ONLY <3>1, <2>3
    <2>5. ASSUME i = j PROVE FALSE
        <3>1. v = e
            BY ONLY <1>5, <2>1, <2>5
        <3> QED
            BY ONLY <3>1, <2>3
    <2> QED
        BY ONLY <1>3, <2>4, <2>5, i \in DOMAIN agenda, j \in DOMAIN agenda
<1> QED
    BY ONLY <1>1, <1>10, <1>11, Visit("expr", v) \in visited, Zenon DEF LeftOrEntered

\* Steps of the visit: the first item of the agenda gives way to ns.
Gives(ns) == agenda' = ns \o Tail(agenda)

LEMMA AgendaAfter ==
    ASSUME Walks, agenda # << >>, NEW ns \in Seq(Item), Gives(ns),
           NEW n, n = Len(ns), NEW m, m = Len(agenda), NEW t, t = agenda'
    PROVE  /\ n \in Nat /\ m \in Nat /\ m >= 1 /\ DOMAIN agenda = 1..m /\ Head(agenda) = agenda[1]
           /\ agenda \in Seq(Item) /\ \A i \in 1..m : agenda[i] \in Item
           /\ t \in Seq(Item) /\ DOMAIN t = 1..(n + m - 1)
           /\ \A i \in 1..n : t[i] = ns[i]
           /\ \A i \in (n + 1)..(n + m - 1) : t[i] = agenda[i - n + 1]
           /\ \A k \in 2..m : k + n - 1 \in DOMAIN t /\ t[k + n - 1] = agenda[k]
<1>1. agenda \in Seq(Item)
    BY DEF Walks, AgendaOK
<1>2. PICK ag : ag = agenda
    OBVIOUS
<1>3. ag \in Seq(Item) /\ ag # << >> /\ m = Len(ag) /\ t = ns \o Tail(ag)
    BY <1>1, <1>2 DEF Gives
<1>4. /\ n \in Nat /\ m \in Nat /\ m >= 1 /\ DOMAIN ag = 1..m /\ Head(ag) = ag[1]
      /\ t \in Seq(Item) /\ DOMAIN t = 1..(n + m - 1)
      /\ \A i \in 1..n : t[i] = ns[i]
      /\ \A i \in (n + 1)..(n + m - 1) : t[i] = ag[i - n + 1]
    BY ONLY <1>3, ns \in Seq(Item), n = Len(ns), Spliced
<1>5. ASSUME NEW k \in 2..m
      PROVE  k + n - 1 \in DOMAIN t /\ t[k + n - 1] = ag[k]
    <2>1. k + n - 1 \in (n + 1)..(n + m - 1) /\ (k + n - 1) - n + 1 = k
        BY ONLY <1>4, k \in 2..m
    <2> QED
        BY ONLY <2>1, <1>4
<1>6. \A i \in 1..m : ag[i] \in Item
    BY ONLY <1>3, <1>4, ElementIn
<1> QED
    BY <1>2, <1>3, <1>4, <1>5, <1>6

\* Of the new items only the last may leave something, and nothing else leaves that.
LEMMA OnceKept ==
    ASSUME Walks, agenda # << >>, NEW ns \in Seq(Item), Gives(ns), NEW x,
           \A i \in 1..Len(ns) : ns[i].do \in Leaves => i = Len(ns) /\ ns[i] = x,
           Len(ns) > 0 => \A k \in DOMAIN agenda : agenda[k] # x
    PROVE  \A i, j \in DOMAIN agenda' : (agenda[i] = agenda[j] /\ agenda[i].do \in Leaves)' => i = j
<1>1. PICK n, m, t : n = Len(ns) /\ m = Len(agenda) /\ t = agenda'
    OBVIOUS
<1>2. /\ n \in Nat /\ m \in Nat /\ m >= 1 /\ DOMAIN agenda = 1..m
      /\ DOMAIN t = 1..(n + m - 1)
      /\ \A i \in 1..n : t[i] = ns[i]
      /\ \A i \in (n + 1)..(n + m - 1) : t[i] = agenda[i - n + 1]
    BY <1>1, AgendaAfter
<1>3. /\ \A i \in 1..n : ns[i].do \in Leaves => i = n /\ ns[i] = x
      /\ n > 0 => \A k \in 1..m : agenda[k] # x
    BY <1>1, <1>2
<1>4. \A i, j \in 1..m : agenda[i] = agenda[j] /\ agenda[i].do \in Leaves => i = j
    BY <1>2 DEF Walks, EnteredOnce
<1>5. ASSUME NEW i \in 1..(n + m - 1), NEW j \in 1..(n + m - 1), t[i] = t[j], t[i].do \in Leaves
      PROVE  i = j
    <2>1. CASE i \in 1..n /\ j \in 1..n
        BY ONLY <2>1, <1>2, <1>3, <1>5
    <2>2. CASE i \in 1..n /\ j \in (n + 1)..(n + m - 1)
        <3>1. t[i] = x /\ n > 0
            BY ONLY <2>2, <1>2, <1>3, <1>5
        <3>2. t[j] = agenda[j - n + 1] /\ j - n + 1 \in 1..m
            BY ONLY <2>2, <1>2
        <3> QED
            BY ONLY <3>1, <3>2, <1>3, <1>5
    <2>3. CASE j \in 1..n /\ i \in (n + 1)..(n + m - 1)
        <3>1. t[j] = x /\ n > 0
            BY ONLY <2>3, <1>2, <1>3, <1>5
        <3>2. t[i] = agenda[i - n + 1] /\ i - n + 1 \in 1..m
            BY ONLY <2>3, <1>2
        <3> QED
            BY ONLY <3>1, <3>2, <1>3, <1>5
    <2>4. CASE i \in (n + 1)..(n + m - 1) /\ j \in (n + 1)..(n + m - 1)
        <3>1. t[i] = agenda[i - n + 1] /\ i - n + 1 \in 1..m /\ t[j] = agenda[j - n + 1] /\ j - n + 1 \in 1..m
            BY ONLY <2>4, <1>2
        <3>2. i - n + 1 = j - n + 1
            BY ONLY <3>1, <1>4, <1>5
        <3> QED
            BY ONLY <3>2, <2>4, <1>2
    <2>5. i \in 1..n \/ i \in (n + 1)..(n + m - 1)
        BY ONLY <1>2, i \in 1..(n + m - 1)
    <2>6. j \in 1..n \/ j \in (n + 1)..(n + m - 1)
        BY ONLY <1>2, j \in 1..(n + m - 1)
    <2> QED
        BY <2>1, <2>2, <2>3, <2>4, <2>5, <2>6
<1> QED
    BY <1>1, <1>2, <1>5

Older(i, j) == i.do \in {"expr", "leave expr"} /\ (i.node = Null \/ i.node < j.node)

LEMMA DescendingKept ==
    ASSUME Walks, agenda # << >>, NEW ns \in Seq(Item), Gives(ns),
           \A i, j \in 1..Len(ns) : i < j /\ ns[j].do = "leave expr" => Older(ns[i], ns[j]),
           \A i \in 1..Len(ns), k \in 2..Len(agenda) :
                agenda[k].do = "leave expr" => Older(ns[i], agenda[k])
    PROVE  Descending'
<1>1. PICK n, m, t : n = Len(ns) /\ m = Len(agenda) /\ t = agenda'
    OBVIOUS
<1>2. /\ n \in Nat /\ m \in Nat /\ m >= 1 /\ DOMAIN agenda = 1..m
      /\ DOMAIN t = 1..(n + m - 1)
      /\ \A i \in 1..n : t[i] = ns[i]
      /\ \A i \in (n + 1)..(n + m - 1) : t[i] = agenda[i - n + 1]
    BY ONLY <1>1, Walks, agenda # << >>, Gives(ns), ns \in Seq(Item), AgendaAfter
<1>3. /\ \A i, j \in 1..n : i < j /\ ns[j].do = "leave expr" => Older(ns[i], ns[j])
      /\ \A i \in 1..n, k \in 2..m : agenda[k].do = "leave expr" => Older(ns[i], agenda[k])
    BY <1>1
<1>4. \A i, j \in 1..m : i < j /\ agenda[j].do = "leave expr" => Older(agenda[i], agenda[j])
    BY <1>2 DEF Walks, Descending, Older
<1>5. ASSUME NEW i \in 1..(n + m - 1), NEW j \in 1..(n + m - 1), i < j, t[j].do = "leave expr"
      PROVE  Older(t[i], t[j])
    <2>6. i < j
        BY <1>5
    <2>1. CASE j \in 1..n
        <3>1. i \in 1..n
            BY ONLY <2>1, <2>6, <1>2, i \in 1..(n + m - 1)
        <3> QED
            BY ONLY <3>1, <2>1, <1>2, <1>3, <1>5
    <2>2. CASE i \in 1..n /\ j \in (n + 1)..(n + m - 1)
        <3>1. t[i] = ns[i] /\ t[j] = agenda[j - n + 1] /\ j - n + 1 \in 2..m
            BY ONLY <2>2, <1>2
        <3> QED
            BY ONLY <2>2, <3>1, <1>3, <1>5
    <2>3. CASE i \in (n + 1)..(n + m - 1) /\ j \in (n + 1)..(n + m - 1)
        <3>1. /\ t[i] = agenda[i - n + 1] /\ i - n + 1 \in 1..m
              /\ t[j] = agenda[j - n + 1] /\ j - n + 1 \in 1..m
              /\ i - n + 1 < j - n + 1
            BY ONLY <2>3, <2>6, <1>2
        <3> QED
            BY ONLY <3>1, <1>4, <1>5
    <2>4. i \in 1..n \/ i \in (n + 1)..(n + m - 1)
        BY ONLY <1>2, i \in 1..(n + m - 1)
    <2>5. j \in 1..n \/ j \in (n + 1)..(n + m - 1)
        BY ONLY <1>2, j \in 1..(n + m - 1)
    <2> QED
        BY <2>1, <2>2, <2>3, <2>4, <2>5
<1> QED
    BY <1>1, <1>2, <1>5 DEF Descending, Older

\* The visit of v or the return from it.
Visits(v) == {Visit("expr", v), Visit("leave expr", v)}

LEMMA LeftKept ==
    ASSUME Walks, agenda # << >>, NEW ns \in Seq(Item), Gives(ns), exprs' = exprs, Value' = Value,
           Range(order) \subseteq Range(order)',
           \A v \in Value : Visit("expr", v) \in visited' =>
                \/ v \in Range(order)' \/ Visit("leave expr", v) \in Range(ns)
                \/ \E k \in 2..Len(agenda) : agenda[k] = Visit("leave expr", v),
           \A j \in 1..Len(ns) : ns[j].do = "leave expr" =>
                \A v \in Range(exprs[ns[j].node].args) :
                    v \in Range(order)' \/ \E i \in 1..(j - 1) : ns[i] \in Visits(v),
           \A j \in 2..Len(agenda) : agenda[j].do = "leave expr" =>
                \A v \in Range(exprs[agenda[j].node].args) : agenda[1] \in Visits(v) =>
                    \/ v \in Range(order)' \/ \E i \in 1..Len(ns) : ns[i] \in Visits(v)
                    \/ \E k \in 2..(j - 1) : agenda[k] \in Visits(v)
    PROVE  LeftOrEntered'
<1>1. PICK n, m, t : n = Len(ns) /\ m = Len(agenda) /\ t = agenda'
    OBVIOUS
<1>2. /\ n \in Nat /\ m \in Nat /\ m >= 1 /\ DOMAIN agenda = 1..m
      /\ DOMAIN t = 1..(n + m - 1)
      /\ \A i \in 1..n : t[i] = ns[i]
      /\ \A i \in (n + 1)..(n + m - 1) : t[i] = agenda[i - n + 1]
      /\ \A k \in 2..m : k + n - 1 \in DOMAIN t /\ t[k + n - 1] = agenda[k]
    BY ONLY <1>1, Walks, agenda # << >>, Gives(ns), ns \in Seq(Item), AgendaAfter
<1>3. ASSUME NEW v \in Value, Visit("expr", v) \in visited', v \notin Range(order)'
      PROVE  \E i \in DOMAIN t : t[i] = Visit("leave expr", v)
    <2>1. CASE Visit("leave expr", v) \in Range(ns)
        <3>1. PICK i \in 1..n : ns[i] = Visit("leave expr", v)
            BY ONLY <2>1, <1>1, ns \in Seq(Item), SeqDomain DEF Range
        <3>2. i \in DOMAIN t
            BY ONLY <1>2, i \in 1..n
        <3> QED
            BY ONLY <3>1, <3>2, <1>2
    <2>2. CASE \E k \in 2..m : agenda[k] = Visit("leave expr", v)
        BY ONLY <2>2, <1>2
    <2> QED
        BY <2>1, <2>2, <1>1, <1>3
<1>4. ASSUME NEW j \in DOMAIN t, t[j].do = "leave expr", NEW v \in Range(exprs[t[j].node].args),
             v \notin Range(order)'
      PROVE  \E i \in 1..(j - 1) : t[i] \in Visits(v)
    <2>1. CASE j \in 1..n
        <3>1. t[j] = ns[j]
            BY ONLY <2>1, <1>2
        <3>2. PICK i \in 1..(j - 1) : ns[i] \in Visits(v)
            BY <2>1, <3>1, <1>1, <1>4
        <3>3. i \in 1..n
            BY ONLY <2>1, <1>2, i \in 1..(j - 1)
        <3> QED
            BY ONLY <3>2, <3>3, <1>2, i \in 1..(j - 1)
    <2>2. CASE j \in (n + 1)..(n + m - 1)
        <3>1. PICK l \in 2..m : l = j - n + 1
            BY ONLY <2>2, <1>2
        <3>2. t[j] = agenda[l] /\ l \in DOMAIN agenda
            BY ONLY <3>1, <2>2, <1>2, l \in 2..m
        <3>3. \E i \in 1..(l - 1) : agenda[i] \in Visits(v)
            BY <3>2, <1>4 DEF Walks, LeftOrEntered, Visits
        <3>4. \/ \E i \in 1..n : ns[i] \in Visits(v)
              \/ \E k \in 2..(l - 1) : agenda[k] \in Visits(v)
            <4>1. PICK i \in 1..(l - 1) : agenda[i] \in Visits(v)
                BY <3>3
            <4>2. CASE i = 1
                BY <4>1, <4>2, <3>2, <1>1, <1>4
            <4>3. CASE i # 1
                <5>1. i \in 2..(l - 1)
                    BY ONLY <4>3, i \in 1..(l - 1), l \in 2..m, <1>2
                <5> QED
                    BY ONLY <5>1, <4>1
            <4> QED
                BY <4>2, <4>3
        <3>5. CASE \E i \in 1..n : ns[i] \in Visits(v)
            <4>1. PICK i \in 1..n : ns[i] \in Visits(v)
                BY <3>5
            <4>2. i \in 1..(j - 1) /\ t[i] = ns[i]
                BY ONLY <2>2, <1>2, i \in 1..n
            <4> QED
                BY <4>1, <4>2
        <3>6. CASE \E k \in 2..(l - 1) : agenda[k] \in Visits(v)
            <4>1. PICK k \in 2..(l - 1) : agenda[k] \in Visits(v)
                BY <3>6
            <4>2. k \in 2..m /\ k + n - 1 \in 1..(j - 1)
                BY ONLY <3>1, <1>2, k \in 2..(l - 1), l \in 2..m
            <4>3. t[k + n - 1] = agenda[k]
                BY ONLY <4>2, <1>2
            <4> QED
                BY ONLY <4>1, <4>2, <4>3
        <3> QED
            BY <3>4, <3>5, <3>6
    <2>3. j \in 1..n \/ j \in (n + 1)..(n + m - 1)
        BY ONLY <1>2, j \in DOMAIN t
    <2> QED
        BY <2>1, <2>2, <2>3
<1>5. (\A v \in Value : Visit("expr", v) \in visited =>
          v \in Range(order) \/ \E i \in DOMAIN agenda : agenda[i] = Visit("leave expr", v))'
    BY <1>1, <1>3
<1>6. (\A j \in DOMAIN agenda : agenda[j].do = "leave expr" =>
          \A v \in Range(exprs[agenda[j].node].args) :
              v \in Range(order) \/ \E i \in 1..(j - 1) : agenda[i] \in Visits(v))'
    BY <1>1, <1>4
<1> QED
    BY <1>5, <1>6 DEF LeftOrEntered, Visits

LEMMA FirstItem ==
    ASSUME Walks, agenda # << >>
    PROVE  /\ Head(agenda) = agenda[1] /\ 1 \in DOMAIN agenda /\ agenda \in Seq(Item)
           /\ DOMAIN agenda = 1..Len(agenda) /\ Len(agenda) \in Nat /\ Len(agenda) >= 1
           /\ Head(agenda) \in Item
<1>1. agenda \in Seq(Item)
    BY DEF Walks, AgendaOK
<1>2. Head(agenda) = agenda[1] /\ 1 \in DOMAIN agenda
    BY ONLY <1>1, agenda # << >>
<1>3. DOMAIN agenda = 1..Len(agenda) /\ Len(agenda) \in Nat /\ Len(agenda) >= 1
    BY ONLY <1>1, agenda # << >>
<1>4. agenda[1] \in Item
    BY ONLY <1>1, <1>2, ElementIn
<1> QED
    BY <1>1, <1>2, <1>3, <1>4

\* The first item goes.
LEMMA GivesNothing ==
    ASSUME Walks, agenda # << >>, agenda' = Tail(agenda)
    PROVE  \E ns \in Seq(Item) : Len(ns) = 0 /\ Range(ns) = {} /\ Gives(ns)
<1>1. agenda \in Seq(Item)
    BY DEF Walks, AgendaOK
<1>2. << >> \in Seq(Item) /\ Tail(agenda) = << >> \o Tail(agenda) /\ Len(<< >>) = 0
    BY ONLY <1>1, agenda # << >>, TailIs
<1>3. Range(<< >>) = {}
    BY DEF Range
<1> QED
    BY <1>2, <1>3 DEF Gives

LEMMA Popped ==
    ASSUME Walks, agenda # << >>, agenda' = Tail(agenda), UNCHANGED cpsVars
    PROVE  /\ agenda' \in Seq(Item')
           /\ \A i \in DOMAIN agenda' : i + 1 \in 2..Len(agenda) /\ agenda'[i] = agenda[i + 1]
           /\ \A i, j \in DOMAIN agenda' :
                (agenda[i] = agenda[j] /\ agenda[i].do \in Leaves)' => i = j
           /\ Descending'
<1>1. PICK ns \in Seq(Item) : Len(ns) = 0 /\ Gives(ns)
    BY GivesNothing
<1>2. PICK n, m, t : n = Len(ns) /\ m = Len(agenda) /\ t = agenda'
    OBVIOUS
<1>3. /\ m \in Nat /\ t \in Seq(Item) /\ DOMAIN t = 1..(n + m - 1)
      /\ \A i \in (n + 1)..(n + m - 1) : t[i] = agenda[i - n + 1]
    <2>1. Gives(ns)
        BY <1>1
    <2> QED
        BY ONLY <2>1, <1>2, Walks, agenda # << >>, ns \in Seq(Item), AgendaAfter
<1>4. n = 0
    BY <1>1, <1>2
<1>5. \A i \in DOMAIN t : i + 1 \in 2..m /\ t[i] = agenda[i + 1]
    BY ONLY <1>3, <1>4
<1>6. \A i \in 1..Len(ns) : FALSE
    BY ONLY <1>1
<1>7. \A i, j \in DOMAIN agenda' : (agenda[i] = agenda[j] /\ agenda[i].do \in Leaves)' => i = j
    <2>1. PICK x : x = 0
        OBVIOUS
    <2>2. /\ \A i \in 1..Len(ns) : ns[i].do \in Leaves => i = Len(ns) /\ ns[i] = x
          /\ Len(ns) > 0 => \A k \in DOMAIN agenda : agenda[k] # x
        BY <1>1, <1>6
    <2> QED
        BY ONLY <2>2, <1>1, Walks, agenda # << >>, ns \in Seq(Item), OnceKept
<1>8. Descending'
    <2>1. /\ \A i, j \in 1..Len(ns) : i < j /\ ns[j].do = "leave expr" => Older(ns[i], ns[j])
          /\ \A i \in 1..Len(ns), k \in 2..Len(agenda) :
                agenda[k].do = "leave expr" => Older(ns[i], agenda[k])
        BY <1>6
    <2> QED
        BY ONLY <2>1, <1>1, Walks, agenda # << >>, ns \in Seq(Item), DescendingKept
<1>9. Item' = Item
    BY ItemsStay
<1> QED
    BY <1>2, <1>3, <1>5, <1>7, <1>8, <1>9

LEMMA PoppedLeft ==
    ASSUME Walks, agenda # << >>, agenda' = Tail(agenda), UNCHANGED cpsVars,
           Range(order) \subseteq Range(order)',
           \A v \in Value : Visit("expr", v) \in visited' =>
                v \in Range(order)' \/ \E k \in 2..Len(agenda) : agenda[k] = Visit("leave expr", v),
           \A j \in 2..Len(agenda) : agenda[j].do = "leave expr" =>
                \A v \in Range(exprs[agenda[j].node].args) : agenda[1] \in Visits(v) =>
                    v \in Range(order)' \/ \E k \in 2..(j - 1) : agenda[k] \in Visits(v)
    PROVE  LeftOrEntered'
<1>1. PICK ns \in Seq(Item) : Len(ns) = 0 /\ Gives(ns)
    BY GivesNothing
<1>2. \A i \in 1..Len(ns) : FALSE
    BY ONLY <1>1
<1>3. exprs' = exprs /\ Value' = Value
    BY ItemsStay
<1>4. \A j \in 1..Len(ns) : ns[j].do = "leave expr" =>
        \A v \in Range(exprs[ns[j].node].args) :
            v \in Range(order)' \/ \E i \in 1..(j - 1) : ns[i] \in Visits(v)
    BY <1>2
<1> QED
    BY <1>1, <1>3, <1>4, LeftKept

LEMMA VisitedBeforeKeeps ==
    ASSUME Finished, Walks, VisitedBefore
    PROVE  Walks'
<1>1. /\ agenda # << >> /\ Head(agenda) \in visited /\ agenda' = Tail(agenda)
      /\ UNCHANGED <<visited, order, blocks>> /\ UNCHANGED cpsVars
    BY DEF VisitedBefore
<1>2. AgendaOK /\ EnteredOnce /\ Descending /\ LeftOrEntered /\ OperandsFirst
    BY DEF Walks
<1>3. Item' = Item /\ Block' = Block /\ Value' = Value /\ exprs' = exprs
    BY <1>1, ItemsStay
<1>4. PICK m : m = Len(agenda)
    OBVIOUS
<1>5. /\ Head(agenda) = agenda[1] /\ 1 \in DOMAIN agenda /\ agenda \in Seq(Item)
      /\ DOMAIN agenda = 1..m /\ m \in Nat /\ m >= 1 /\ Head(agenda) \in Item
    BY <1>1, <1>4, FirstItem
<1>6. /\ agenda' \in Seq(Item')
      /\ \A i \in DOMAIN agenda' : i + 1 \in 2..m /\ agenda'[i] = agenda[i + 1]
      /\ \A i, j \in DOMAIN agenda' :
            (agenda[i] = agenda[j] /\ agenda[i].do \in Leaves)' => i = j
      /\ Descending'
    BY <1>1, <1>4, Popped
<1>7. agenda[1].do \notin Leaves
    BY <1>1, <1>2, <1>5 DEF AgendaOK
<1>8. AgendaOK'
    BY <1>1, <1>2, <1>3, <1>6 DEF AgendaOK
<1>9. EnteredOnce'
    <2>1. ASSUME NEW i \in DOMAIN agenda'
          PROVE  /\ agenda'[i].do = "leave expr" =>
                    Visit("expr", agenda'[i].node) \in visited /\ agenda'[i].node \notin Range(order)
                 /\ agenda'[i].do = "leave block" =>
                    Visit("block", agenda'[i].node) \in visited /\ agenda'[i].node \notin Range(blocks)
        <3>1. PICK d : d = agenda[i + 1]
            OBVIOUS
        <3>2. agenda'[i] = d /\ i + 1 \in DOMAIN agenda
            BY <3>1, <1>5, <1>6
        <3> QED
            BY <3>1, <3>2, <1>2 DEF EnteredOnce
    <2> QED
        BY <2>1, <1>1, <1>2, <1>6 DEF EnteredOnce
<1>10. LeftOrEntered'
    <2>1. ASSUME NEW v \in Value, Visit("expr", v) \in visited', v \notin Range(order)'
          PROVE  \E k \in 2..m : agenda[k] = Visit("leave expr", v)
        <3>1. PICK k \in DOMAIN agenda : agenda[k] = Visit("leave expr", v)
            BY <1>1, <1>2, <2>1 DEF LeftOrEntered
        <3>2. k # 1
            BY <3>1, <1>7, LeavesAre DEF Leaves
        <3>3. k \in 2..m
            BY ONLY <3>2, <1>5, k \in DOMAIN agenda
        <3> QED
            BY <3>1, <3>3
    <2>2. ASSUME NEW j \in 2..m, agenda[j].do = "leave expr", NEW v,
                 v \in Range(exprs[agenda[j].node].args), agenda[1] \in Visits(v), v \notin Range(order)
          PROVE  \E k \in 2..(j - 1) : agenda[k] \in Visits(v)
        <3>1. agenda[1] = Visit("expr", v)
            BY <2>2, <1>7, LeavesAre DEF Visits, Leaves
        <3>2. Visit("expr", v) \in visited
            BY <3>1, <1>1, <1>5
        <3>3. j \in DOMAIN agenda
            BY ONLY <1>5, j \in 2..m
        <3>4. PICK e : e = agenda[j].node
            OBVIOUS
        <3>5. agenda[j] = Visit("leave expr", e) /\ v \in Range(exprs[e].args)
            BY <3>3, <3>4, <2>2, <1>5, ElementIn, ItemsAre
        <3>6. PICK i \in 1..(j - 1) : agenda[i] = Visit("leave expr", v)
            <4>1. ExprsOK
                BY DEF Finished, Converts
            <4>2. v \notin Range(order)
                BY <2>2
            <4> QED
                BY ONLY <4>1, <4>2, <3>2, <3>3, <3>5, Walks, EnteredIsLeft
        <3>7. i # 1
            BY <3>6, <1>7, LeavesAre DEF Leaves
        <3>8. i \in 2..(j - 1)
            BY ONLY <3>7, i \in 1..(j - 1), j \in 2..m, <1>5
        <3> QED
            BY <3>6, <3>8 DEF Visits
    <2> QED
        BY ONLY <2>1, <2>2, <1>1, <1>4, Walks, PoppedLeft
<1>11. OperandsFirst'
    BY ONLY <1>1, <1>2, <1>3 DEF OperandsFirst
<1> QED
    BY <1>6, <1>8, <1>9, <1>10, <1>11 DEF Walks

LEMMA LeaveBlockKeeps ==
    ASSUME Finished, Walks, LeaveBlock
    PROVE  Walks'
<1>1. /\ agenda # << >> /\ Head(agenda).do = "leave block" /\ agenda' = Tail(agenda)
      /\ blocks' = Append(blocks, Head(agenda).node)
      /\ UNCHANGED <<visited, order>> /\ UNCHANGED cpsVars
    BY DEF LeaveBlock
<1>2. AgendaOK /\ EnteredOnce /\ Descending /\ LeftOrEntered /\ OperandsFirst
    BY DEF Walks
<1>3. Item' = Item /\ Block' = Block /\ Value' = Value /\ exprs' = exprs
    BY <1>1, ItemsStay
<1>4. PICK m : m = Len(agenda)
    OBVIOUS
<1>5. /\ Head(agenda) = agenda[1] /\ 1 \in DOMAIN agenda /\ agenda \in Seq(Item)
      /\ DOMAIN agenda = 1..m /\ m \in Nat /\ m >= 1 /\ Head(agenda) \in Item
    BY <1>1, <1>4, FirstItem
<1>6. /\ agenda' \in Seq(Item')
      /\ \A i \in DOMAIN agenda' : i + 1 \in 2..m /\ agenda'[i] = agenda[i + 1]
      /\ \A i, j \in DOMAIN agenda' :
            (agenda[i] = agenda[j] /\ agenda[i].do \in Leaves)' => i = j
      /\ Descending'
    BY <1>1, <1>4, Popped
<1>7. PICK b : b = Head(agenda).node
    OBVIOUS
<1>8. /\ agenda[1].do = "leave block" /\ agenda[1].node = b
      /\ agenda[1] = Visit("leave block", b) /\ b \in Block
    BY <1>1, <1>5, <1>7, ItemsAre
<1>9. b \notin Range(blocks) /\ Visit("block", b) \in visited
    BY <1>2, <1>5, <1>8 DEF EnteredOnce
<1>10. blocks' \in Seq(Block) /\ IsInjective(blocks') /\ Range(blocks)' = Range(blocks) \cup {b}
    <2>1. blocks \in Seq(Block) /\ IsInjective(blocks)
        BY <1>2 DEF AgendaOK, EnteredOnce
    <2>2. PICK bs : bs = blocks'
        OBVIOUS
    <2>3. bs = Append(blocks, b)
        BY <2>2, <1>1, <1>7
    <2>5. b \in Block /\ b \notin Range(blocks)
        BY <1>8, <1>9
    <2>4. bs \in Seq(Block) /\ IsInjective(bs) /\ Range(bs) = Range(blocks) \cup {b}
        <3>1. Append(blocks, b) \in Seq(Block) /\ Longer(blocks, Append(blocks, b), b)
            BY ONLY <2>1, <2>5, AppendIsLonger
        <3>2. DOMAIN blocks = 1..Len(blocks) /\ Len(blocks) \in Nat
            BY ONLY <2>1, SeqDomain
        <3>3. Longer(blocks, bs, b) /\ bs \in Seq(Block)
            BY <3>1, <2>3
        <3> QED
            BY ONLY <3>2, <3>3, <2>1, <2>5, Appended
    <2> QED
        BY <2>2, <2>4 DEF Range
<1>11. AgendaOK'
    BY <1>1, <1>2, <1>3, <1>6, <1>10 DEF AgendaOK
<1>12. EnteredOnce'
    <2>1. ASSUME NEW i \in DOMAIN agenda'
          PROVE  /\ agenda'[i].do = "leave expr" =>
                    Visit("expr", agenda'[i].node) \in visited /\ agenda'[i].node \notin Range(order)
                 /\ agenda'[i].do = "leave block" =>
                    Visit("block", agenda'[i].node) \in visited /\ agenda'[i].node \notin Range(blocks)'
        <3>1. PICK d : d = agenda[i + 1]
            OBVIOUS
        <3>2. agenda'[i] = d /\ i + 1 \in DOMAIN agenda /\ i + 1 # 1
            BY <3>1, <1>5, <1>6
        <3>3. ASSUME d.do = "leave block" PROVE d.node # b
            <4>1. d = Visit("leave block", d.node)
                BY <3>1, <3>2, <3>3, <1>5, ElementIn, ItemsAre
            <4>2. ASSUME d = agenda[1] PROVE FALSE
                BY ONLY <4>2, <3>1, <3>2, <3>3, <1>2, <1>5 DEF EnteredOnce, Leaves
            <4> QED
                BY <4>1, <4>2, <1>8
        <3> QED
            BY <3>1, <3>2, <3>3, <1>2, <1>10 DEF EnteredOnce
    <2> QED
        BY <2>1, <1>1, <1>2, <1>6, <1>9, <1>10 DEF EnteredOnce
<1>13. LeftOrEntered'
    <2>1. \A v : agenda[1] # Visit("expr", v) /\ agenda[1] # Visit("leave expr", v)
        <3>1. agenda[1].do = "leave block"
            BY <1>8
        <3>2. \A v : Visit("expr", v).do = "expr" /\ Visit("leave expr", v).do = "leave expr"
            BY VisitIs
        <3> QED
            BY ONLY <3>1, <3>2
    <2>2. ASSUME NEW v \in Value, Visit("expr", v) \in visited', v \notin Range(order)'
          PROVE  \E k \in 2..m : agenda[k] = Visit("leave expr", v)
        <3>1. PICK k \in DOMAIN agenda : agenda[k] = Visit("leave expr", v)
            BY <1>1, <1>2, <2>2 DEF LeftOrEntered
        <3>2. k # 1
            BY <3>1, <2>1
        <3>3. k \in 2..m
            BY ONLY <3>2, <1>5, k \in DOMAIN agenda
        <3> QED
            BY <3>1, <3>3
    <2>3. \A v : agenda[1] \notin Visits(v)
        BY <2>1 DEF Visits
    <2> QED
        BY ONLY <2>2, <2>3, <1>1, <1>4, Walks, PoppedLeft
<1>14. OperandsFirst'
    <2>1. order' = order /\ exprs' = exprs
        BY <1>1, <1>3
    <2> QED
        BY ONLY <2>1, <1>2 DEF OperandsFirst
<1> QED
    BY <1>6, <1>11, <1>12, <1>13, <1>14 DEF Walks

LEMMA LeaveExprKeeps ==
    ASSUME Finished, Walks, LeaveExpr
    PROVE  Walks'
<1>1. /\ agenda # << >> /\ Head(agenda).do = "leave expr" /\ agenda' = Tail(agenda)
      /\ order' = Append(order, Head(agenda).node)
      /\ UNCHANGED <<visited, blocks>> /\ UNCHANGED cpsVars
    BY DEF LeaveExpr
<1>2. AgendaOK /\ EnteredOnce /\ Descending /\ LeftOrEntered /\ OperandsFirst
    BY DEF Walks
<1>3. Item' = Item /\ Block' = Block /\ Value' = Value /\ exprs' = exprs
    BY <1>1, ItemsStay
<1>4. PICK m : m = Len(agenda)
    OBVIOUS
<1>5. /\ Head(agenda) = agenda[1] /\ 1 \in DOMAIN agenda /\ agenda \in Seq(Item)
      /\ DOMAIN agenda = 1..m /\ m \in Nat /\ m >= 1 /\ Head(agenda) \in Item
    BY <1>1, <1>4, FirstItem
<1>6. /\ agenda' \in Seq(Item')
      /\ \A i \in DOMAIN agenda' : i + 1 \in 2..m /\ agenda'[i] = agenda[i + 1]
      /\ \A i, j \in DOMAIN agenda' :
            (agenda[i] = agenda[j] /\ agenda[i].do \in Leaves)' => i = j
      /\ Descending'
    BY <1>1, <1>4, Popped
<1>7. PICK e : e = Head(agenda).node
    OBVIOUS
<1>8. /\ agenda[1].do = "leave expr" /\ agenda[1].node = e
      /\ agenda[1] = Visit("leave expr", e) /\ e \in DOMAIN exprs
    BY <1>1, <1>5, <1>7, ItemsAre
<1>9. e \notin Range(order) /\ Visit("expr", e) \in visited
    BY <1>2, <1>5, <1>8 DEF EnteredOnce
<1>10. /\ order' \in Seq(DOMAIN exprs) /\ IsInjective(order') /\ Range(order)' = Range(order) \cup {e}
       /\ \A k \in DOMAIN order : order'[k] = order[k]
       /\ DOMAIN order' = DOMAIN order \cup {Len(order) + 1} /\ order'[Len(order) + 1] = e
       /\ DOMAIN order = 1..Len(order) /\ Len(order) \in Nat
    <2>1. order \in Seq(DOMAIN exprs) /\ IsInjective(order)
        BY <1>2 DEF AgendaOK, EnteredOnce
    <2>2. PICK es : es = order'
        OBVIOUS
    <2>3. es = Append(order, e)
        BY <2>2, <1>1, <1>7
    <2>6. e \in DOMAIN exprs /\ e \notin Range(order)
        BY <1>8, <1>9
    <2>4. /\ es \in Seq(DOMAIN exprs) /\ IsInjective(es) /\ Range(es) = Range(order) \cup {e}
          /\ \A k \in DOMAIN order : es[k] = order[k]
          /\ DOMAIN es = DOMAIN order \cup {Len(order) + 1} /\ es[Len(order) + 1] = e
        <3>1. Append(order, e) \in Seq(DOMAIN exprs) /\ Longer(order, Append(order, e), e)
            BY ONLY <2>1, <2>6, AppendIsLonger
        <3>2. DOMAIN order = 1..Len(order) /\ Len(order) \in Nat
            BY ONLY <2>1, SeqDomain
        <3>3. Longer(order, es, e) /\ es \in Seq(DOMAIN exprs)
            BY <3>1, <2>3
        <3>4. Longer(order, es, e) /\ IsInjective(order) /\ e \notin Range(order)
            BY <3>3, <2>1, <2>6
        <3>5. /\ IsInjective(es) /\ Range(es) = Range(order) \cup {e}
              /\ \A k \in DOMAIN order : es[k] = order[k]
              /\ DOMAIN es = DOMAIN order \cup {Len(order) + 1} /\ es[Len(order) + 1] = e
            <4>1. IsInjective(es) /\ Range(es) = Range(order) \cup {e}
                BY ONLY <3>2, <3>4, Appended
            <4>2. /\ DOMAIN es = 1..(Len(order) + 1) /\ es[Len(order) + 1] = e
                  /\ \A k \in 1..Len(order) : es[k] = order[k]
                BY ONLY <3>4 DEF Longer
            <4> QED
                BY ONLY <3>2, <4>1, <4>2
        <3> QED
            BY ONLY <3>3, <3>5
    <2>5. DOMAIN order = 1..Len(order) /\ Len(order) \in Nat
        BY ONLY <2>1, SeqDomain
    <2> QED
        BY <2>2, <2>4, <2>5 DEF Range
<1>11. AgendaOK'
    BY <1>1, <1>2, <1>3, <1>6, <1>10 DEF AgendaOK
<1>12. EnteredOnce'
    <2>1. ASSUME NEW i \in DOMAIN agenda'
          PROVE  /\ agenda'[i].do = "leave expr" =>
                    Visit("expr", agenda'[i].node) \in visited /\ agenda'[i].node \notin Range(order)'
                 /\ agenda'[i].do = "leave block" =>
                    Visit("block", agenda'[i].node) \in visited /\ agenda'[i].node \notin Range(blocks)
        <3>1. PICK d : d = agenda[i + 1]
            OBVIOUS
        <3>2. agenda'[i] = d /\ i + 1 \in DOMAIN agenda /\ i + 1 # 1
            BY <3>1, <1>5, <1>6
        <3>3. ASSUME d.do = "leave expr" PROVE d.node # e
            <4>1. d = Visit("leave expr", d.node)
                BY <3>1, <3>2, <3>3, <1>5, ElementIn, ItemsAre
            <4>2. ASSUME d = agenda[1] PROVE FALSE
                BY ONLY <4>2, <3>1, <3>2, <3>3, <1>2, <1>5 DEF EnteredOnce, Leaves
            <4> QED
                BY <4>1, <4>2, <1>8
        <3> QED
            BY <3>1, <3>2, <3>3, <1>2, <1>10 DEF EnteredOnce
    <2> QED
        BY <2>1, <1>1, <1>2, <1>6, <1>9, <1>10 DEF EnteredOnce
<1>13. LeftOrEntered'
    <2>1. ASSUME NEW v, v \notin Range(order)'
          PROVE  agenda[1] \notin Visits(v)
        <3>1. agenda[1].do = "leave expr" /\ agenda[1].node = e /\ v # e
            BY <2>1, <1>8, <1>10
        <3> QED
            BY ONLY <3>1, VisitIs, ZenonT(60) DEF Visits
    <2>2. ASSUME NEW v \in Value, Visit("expr", v) \in visited', v \notin Range(order)'
          PROVE  \E k \in 2..m : agenda[k] = Visit("leave expr", v)
        <3>1. PICK k \in DOMAIN agenda : agenda[k] = Visit("leave expr", v)
            BY <1>1, <1>2, <1>10, <2>2 DEF LeftOrEntered
        <3>2. agenda[1] # Visit("leave expr", v)
            BY <2>1, <2>2 DEF Visits
        <3>4. k # 1
            BY <3>1, <3>2
        <3>3. k \in 2..m
            BY ONLY <3>4, <1>5, k \in DOMAIN agenda
        <3> QED
            BY <3>1, <3>3
    <2>3. Range(order) \subseteq Range(order)'
        BY <1>10
    <2> QED
        BY ONLY <2>1, <2>2, <2>3, <1>1, <1>4, Walks, PoppedLeft
<1>14. OperandsFirst'
    <2>1. ASSUME NEW k \in DOMAIN order', NEW v \in Range(exprs[order'[k]].args)
          PROVE  \E i \in 1..(k - 1) : order'[i] = v
        <3>1. CASE k \in DOMAIN order
            <4>1. PICK i \in 1..(k - 1) : order[i] = v
                BY <3>1, <2>1, <1>2, <1>10 DEF OperandsFirst
            <4>2. i \in DOMAIN order
                BY ONLY <3>1, <1>10, i \in 1..(k - 1)
            <4> QED
                BY <4>1, <4>2, <1>10
        <3>2. CASE k = Len(order) + 1
            <4>1. order'[k] = e
                BY <3>2, <1>10
            <4>2. v \in Range(order)
                <5>1. \A i \in 1..(1 - 1) : FALSE
                    OBVIOUS
                <5> QED
                    BY <5>1, <4>1, <2>1, <1>2, <1>5, <1>8 DEF LeftOrEntered
            <4>3. PICK i \in DOMAIN order : order[i] = v
                BY <4>2 DEF Range
            <4>4. i \in 1..(k - 1)
                BY ONLY <3>2, <1>10, i \in DOMAIN order
            <4> QED
                BY <4>3, <4>4, <1>10
        <3> QED
            BY <3>1, <3>2, <1>10
    <2> QED
        BY <2>1, <1>3 DEF OperandsFirst
<1> QED
    BY <1>6, <1>11, <1>12, <1>13, <1>14 DEF Walks

\* The visits of what x needs, then x.
LEMMA ThenLeave ==
    ASSUME NEW S, NEW vs \in Seq(S), NEW x, NEW ns, ns = vs \o <<x>>
    PROVE  /\ Len(vs) \in Nat /\ Len(ns) = Len(vs) + 1 /\ ns[Len(ns)] = x /\ ns \in Seq(S \cup {x})
           /\ \A i \in 1..Len(vs) : ns[i] = vs[i] /\ vs[i] \in S
OBVIOUS

Visiting == {i \in Item : i.do \notin Leaves}

LEMMA VisitBlockKeeps ==
    ASSUME Finished, Walks, VisitBlock
    PROVE  Walks'
<1>1. PICK b : b = Head(agenda).node
    OBVIOUS
<1>2. /\ agenda # << >> /\ Head(agenda) \notin visited /\ Head(agenda).do = "block"
      /\ agenda' = VisitAll("block", Successors(b)) \o VisitAll("expr", transfer[b].args)
                    \o <<Visit("leave block", b)>> \o Tail(agenda)
      /\ visited' = visited \cup {Head(agenda)}
      /\ UNCHANGED <<order, blocks>> /\ UNCHANGED cpsVars
    BY <1>1 DEF VisitBlock
<1>3. AgendaOK /\ EnteredOnce /\ Descending /\ LeftOrEntered /\ OperandsFirst
    BY DEF Walks
<1>4. Item' = Item /\ Block' = Block /\ Value' = Value /\ exprs' = exprs
    BY <1>2, ItemsStay
<1>5. PICK m : m = Len(agenda)
    OBVIOUS
<1>6. /\ Head(agenda) = agenda[1] /\ 1 \in DOMAIN agenda /\ agenda \in Seq(Item)
      /\ DOMAIN agenda = 1..m /\ m \in Nat /\ m >= 1 /\ Head(agenda) \in Item
    BY <1>2, <1>5, FirstItem
<1>7. /\ agenda[1].do = "block" /\ agenda[1] = Visit("block", b) /\ b \in Block
    BY <1>1, <1>2, <1>6, ItemsAre
<1>8. transfer[b].args \in Seq(Value) /\ Successors(b) \in Seq(Block)
    BY <1>7, FinishedTransfers
<1>9. PICK vs : vs = VisitAll("block", Successors(b)) \o VisitAll("expr", transfer[b].args)
    OBVIOUS
<1>10. vs \in Seq(Visiting)
    <2>1. PICK p, q : p = VisitAll("block", Successors(b)) /\ q = VisitAll("expr", transfer[b].args)
        OBVIOUS
    <2>2. p \in Seq([do : {"block"}, node : Block])
        BY <1>8, <2>1, VisitsAre
    <2>3. q \in Seq([do : {"expr"}, node : Value])
        BY <1>8, <2>1, VisitsAre
    <2>4. [do : {"block"}, node : Block] \subseteq Visiting
        BY DEF Item, Visiting, Leaves
    <2>5. [do : {"expr"}, node : Value] \subseteq Visiting
        BY DEF Item, Visiting, Leaves
    <2>6. p \in Seq(Visiting) /\ q \in Seq(Visiting)
        BY ONLY <2>2, <2>3, <2>4, <2>5, SeqWider
    <2>7. p \o q \in Seq(Visiting)
        BY ONLY <2>6, CatElements
    <2> QED
        BY <1>9, <2>1, <2>7
<1>11. PICK x : x = Visit("leave block", b)
    OBVIOUS
<1>12. PICK ns : ns = vs \o <<x>>
    OBVIOUS
<1>13. x \in Item /\ x.do = "leave block" /\ x.node = b
    BY <1>7, <1>11, ItemsAre, VisitIs, ZenonT(60)
<1>14. /\ Len(vs) \in Nat /\ Len(ns) = Len(vs) + 1 /\ ns[Len(ns)] = x /\ ns \in Seq(Visiting \cup {x})
       /\ \A i \in 1..Len(vs) : ns[i] = vs[i] /\ vs[i] \in Visiting
    BY ONLY <1>10, <1>12, ThenLeave
<1>15. ns \in Seq(Item)
    <2>1. Visiting \cup {x} \subseteq Item
        BY <1>13 DEF Visiting
    <2> QED
        BY ONLY <2>1, <1>14, SeqWider
<1>16. Gives(ns)
    BY <1>2, <1>9, <1>11, <1>12 DEF Gives
<1>28. agenda # << >>
    BY <1>2
<1> HIDE <1>9, <1>12, <1>11
<1>17. PICK n, t : n = Len(ns) /\ t = agenda'
    OBVIOUS
<1>18. /\ n \in Nat /\ t \in Seq(Item) /\ DOMAIN t = 1..(n + m - 1)
       /\ \A i \in 1..n : t[i] = ns[i]
       /\ \A i \in (n + 1)..(n + m - 1) : t[i] = agenda[i - n + 1]
    BY ONLY <1>28, <1>5, <1>15, <1>16, <1>17, Walks, AgendaAfter
<1>19. \A i \in 1..n : ns[i].do \in Leaves => i = n /\ ns[i] = x
    <2>1. \A i \in 1..n : i = n \/ i \in 1..Len(vs)
        BY ONLY <1>14, <1>17
    <2>2. \A i \in 1..Len(vs) : ns[i].do \notin Leaves
        BY ONLY <1>14 DEF Visiting
    <2> QED
        BY ONLY <2>1, <2>2, <1>14, <1>17
<1>20. \A i \in 1..n : ns[i].do # "leave expr"
    <2>1. "leave expr" \in Leaves
        BY DEF Leaves
    <2> QED
        BY ONLY <2>1, <1>13, <1>19
<1>21. \A k \in DOMAIN agenda : agenda[k].do # "leave expr"
    <2>1. ASSUME NEW k \in DOMAIN agenda, agenda[k].do = "leave expr"
          PROVE  FALSE
        <3>1. k # 1
            BY <2>1, <1>7
        <3>2. 1 < k
            BY ONLY <3>1, <1>6, k \in DOMAIN agenda
        <3>3. agenda[1].do \in {"expr", "leave expr"}
            BY ONLY <3>2, <2>1, <1>3, <1>6, k \in DOMAIN agenda, Zenon DEF Descending
        <3> QED
            BY ONLY <3>3, <1>7
    <2> QED
        BY <2>1
<1>22. b \notin Range(blocks) /\ \A k \in DOMAIN agenda : agenda[k] # x
    <2>1. Visit("block", b) \notin visited
        BY <1>2, <1>6, <1>7
    <2>2. b \notin Range(blocks)
        BY <2>1, <1>3 DEF EnteredOnce
    <2>3. ASSUME NEW k \in DOMAIN agenda, agenda[k] = x PROVE FALSE
        <3>1. agenda[k].do = "leave block" /\ agenda[k].node = b
            BY <2>3, <1>13
        <3> QED
            BY ONLY <3>1, <2>1, <1>3, k \in DOMAIN agenda DEF EnteredOnce
    <2> QED
        BY <2>2, <2>3
<1>23. AgendaOK'
    BY <1>7, <1>2, <1>3, <1>6, <1>4, <1>17, <1>18 DEF Leaves, AgendaOK
<1>24. EnteredOnce'
    <2>1. \A i, j \in DOMAIN agenda' : (agenda[i] = agenda[j] /\ agenda[i].do \in Leaves)' => i = j
        <3>1. /\ \A i \in 1..Len(ns) : ns[i].do \in Leaves => i = Len(ns) /\ ns[i] = x
              /\ Len(ns) > 0 => \A k \in DOMAIN agenda : agenda[k] # x
            BY ONLY <1>17, <1>19, <1>22
        <3> QED
            BY ONLY <3>1, <1>28, <1>15, <1>16, Walks, OnceKept
    <2>2. ASSUME NEW i \in DOMAIN t
          PROVE  /\ t[i].do = "leave expr" =>
                    Visit("expr", t[i].node) \in visited' /\ t[i].node \notin Range(order)
                 /\ t[i].do = "leave block" =>
                    Visit("block", t[i].node) \in visited' /\ t[i].node \notin Range(blocks)
        <3>1. CASE i \in 1..n
            <4>1. t[i] = ns[i]
                BY <3>1, <1>18
            <4>2. t[i].do \in Leaves => t[i] = x
                BY <4>1, <3>1, <1>19
            <4>3. Visit("block", b) \in visited'
                BY <1>2, <1>6, <1>7
            <4>4. "leave expr" \in Leaves /\ "leave block" \in Leaves
                BY DEF Leaves
            <4> QED
                BY ONLY <4>2, <4>3, <4>4, <1>13, <1>22
        <3>2. CASE i \in (n + 1)..(n + m - 1)
            <4>1. PICK k : k = i - n + 1
                OBVIOUS
            <4>2. k \in DOMAIN agenda /\ t[i] = agenda[k]
                BY ONLY <4>1, <3>2, <1>6, <1>18
            <4> QED
                BY <4>2, <1>2, <1>3 DEF EnteredOnce
        <3>3. i \in 1..n \/ i \in (n + 1)..(n + m - 1)
            BY ONLY <1>6, <1>18, i \in DOMAIN t
        <3> QED
            BY <3>1, <3>2, <3>3
    <2> QED
        BY <2>1, <2>2, <1>2, <1>3, <1>17 DEF EnteredOnce
<1>25. Descending'
    <2>1. \A k \in 2..m : k \in DOMAIN agenda
        BY ONLY <1>6
    <2> QED
        BY ONLY <2>1, <1>2, <1>5, <1>15, <1>16, <1>17, <1>20, <1>21, Walks, DescendingKept
<1>26. LeftOrEntered'
    <2>1. \A k \in 2..m : k \in DOMAIN agenda
        BY ONLY <1>6
    <2>2. ASSUME NEW v \in Value, Visit("expr", v) \in visited'
          PROVE  v \in Range(order)'
        <3>1. Visit("expr", v) # agenda[1]
            BY <1>7, VisitIs
        <3>2. Visit("expr", v) \in visited
            BY <3>1, <2>2, <1>2, <1>6
        <3>3. v \in Range(order)
            <4>1. \A i \in DOMAIN agenda : agenda[i] # Visit("leave expr", v)
                BY <1>21, VisitIs
            <4> QED
                BY <3>2, <4>1, <1>3 DEF LeftOrEntered
        <3> QED
            BY <3>3, <1>2
    <2>3. Range(order) \subseteq Range(order)'
        BY <1>2
    <2> QED
        BY ONLY <2>1, <2>2, <2>3, <1>2, <1>4, <1>5, <1>15, <1>16, <1>17, <1>20, <1>21, Walks, LeftKept
<1>27. OperandsFirst'
    <2>1. order' = order /\ exprs' = exprs
        BY <1>2, <1>4
    <2> QED
        BY ONLY <2>1, <1>3 DEF OperandsFirst
<1> QED
    BY <1>23, <1>24, <1>25, <1>26, <1>27 DEF Walks

LEMMA VisitExprKeeps ==
    ASSUME Finished, Walks, VisitExpr, pc' # "null"
    PROVE  Walks'
<1>1. PICK e : e = Head(agenda).node
    OBVIOUS
<1>2. /\ agenda # << >> /\ Head(agenda) \notin visited /\ Head(agenda).do = "expr"
      /\ e # Null
      /\ agenda' = VisitAll("expr", exprs[e].args) \o <<Visit("leave expr", e)>> \o Tail(agenda)
      /\ visited' = visited \cup {Head(agenda)}
      /\ UNCHANGED <<order, blocks>> /\ UNCHANGED cpsVars
    BY <1>1 DEF VisitExpr
<1>3. AgendaOK /\ EnteredOnce /\ Descending /\ LeftOrEntered /\ OperandsFirst
    BY DEF Walks
<1>4. Item' = Item /\ Block' = Block /\ Value' = Value /\ exprs' = exprs
    BY <1>2, ItemsStay
<1>5. PICK m : m = Len(agenda)
    OBVIOUS
<1>6. /\ Head(agenda) = agenda[1] /\ 1 \in DOMAIN agenda /\ agenda \in Seq(Item)
      /\ DOMAIN agenda = 1..m /\ m \in Nat /\ m >= 1 /\ Head(agenda) \in Item
    BY <1>2, <1>5, FirstItem
<1>7. /\ agenda[1].do = "expr" /\ agenda[1] = Visit("expr", e) /\ e \in Value
      /\ agenda[1].node = e
    BY <1>1, <1>2, <1>6, ItemsAre
<1>8. ExprsOK /\ e \in DOMAIN exprs
    BY <1>2, <1>7 DEF Value, Finished, Converts
<1>9. DOMAIN exprs = 1..Len(exprs) /\ Len(exprs) \in Nat /\ Null \notin DOMAIN exprs
    BY <1>8, ValuesAre
<1>34. e \in Nat /\ \A d \in DOMAIN exprs : d \in Nat
    BY ONLY <1>8, <1>9
<1>10. PICK us : us = exprs[e].args
    OBVIOUS
<1>11. /\ us \in Seq(Value) /\ Len(us) \in Nat /\ DOMAIN us = 1..Len(us)
       /\ \A i \in 1..Len(us) : us[i] \in (1..(e - 1)) \cup {Null}
    <2>1. us \in Seq(Nat \cup {Null}) /\ Range(us) \subseteq (1..(e - 1)) \cup {Null}
        <3>1. exprs[e] \in [kind : {"fn", "param", "const", "prim"}, args : Seq(Nat \cup {Null})]
            BY ONLY <1>8, ElementIn DEF ExprsOK
        <3>2. Range(exprs[e].args) \subseteq (1..(e - 1)) \cup {Null}
            BY ONLY <1>8 DEF ExprsOK
        <3> QED
            BY ONLY <3>1, <3>2, <1>10
    <2>2. DOMAIN us = 1..Len(us) /\ Len(us) \in Nat
        BY ONLY <2>1, SeqDomain
    <2>3. \A i \in 1..Len(us) : us[i] \in (1..(e - 1)) \cup {Null}
        BY ONLY <2>1, <2>2 DEF Range
    <2>4. (1..(e - 1)) \cup {Null} \subseteq Value
        BY ONLY <1>8, <1>9 DEF Value
    <2>7. PICK S : S = (1..(e - 1)) \cup {Null}
        OBVIOUS
    <2>8. us \in Seq(Nat \cup {Null}) /\ \A i \in 1..Len(us) : us[i] \in S
        BY ONLY <2>1, <2>3, <2>7
    <2>9. us \in Seq(S)
        BY ONLY <2>8
    <2>5. us \in Seq((1..(e - 1)) \cup {Null})
        BY ONLY <2>7, <2>9
    <2>6. us \in Seq(Value)
        BY ONLY <2>4, <2>5, SeqWider
    <2> QED
        BY <2>2, <2>3, <2>6
<1>12. PICK vs : vs = VisitAll("expr", us)
    OBVIOUS
<1>13. /\ Len(vs) = Len(us) /\ vs \in Seq([do : {"expr"}, node : Value])
       /\ \A i \in 1..Len(vs) : vs[i] = Visit("expr", us[i])
    <2>1. us \in Seq(Value)
        BY ONLY <1>11
    <2> QED
        <3>1. Len(vs) = Len(us)
            BY ONLY <2>1, <1>12, VisitsAre
        <3>2. vs \in Seq([do : {"expr"}, node : Value])
            BY ONLY <2>1, <1>12, VisitsAre
        <3>3. \A i \in 1..Len(us) : vs[i] = Visit("expr", us[i])
            <4>1. DOMAIN us = 1..Len(us)
                BY ONLY <1>11
            <4> QED
                BY ONLY <4>1, <1>12 DEF VisitAll
        <3> QED
            BY <3>1, <3>2, <3>3
<1>14. PICK x : x = Visit("leave expr", e)
    OBVIOUS
<1>15. x \in Item /\ x.do = "leave expr" /\ x.node = e
    BY <1>8, <1>14, ItemsAre, VisitIs
<1>16. PICK ns : ns = vs \o <<x>>
    OBVIOUS
<1>17. PICK n, t : n = Len(ns) /\ t = agenda'
    OBVIOUS
<1>18. /\ Len(vs) \in Nat /\ n = Len(vs) + 1 /\ ns[n] = x
       /\ ns \in Seq([do : {"expr"}, node : Value] \cup {x})
       /\ \A i \in 1..Len(vs) : ns[i] = vs[i]
    <2>1. PICK S : S = [do : {"expr"}, node : Value]
        OBVIOUS
    <2>2. vs \in Seq(S)
        BY ONLY <1>13, <2>1
    <2>3. /\ Len(vs) \in Nat /\ Len(ns) = Len(vs) + 1 /\ ns[Len(ns)] = x /\ ns \in Seq(S \cup {x})
          /\ \A i \in 1..Len(vs) : ns[i] = vs[i]
        BY ONLY <2>2, <1>16, ThenLeave
    <2> QED
        BY <2>1, <2>3, <1>17
<1>19. ns \in Seq(Item)
    <2>1. [do : {"expr"}, node : Value] \cup {x} \subseteq Item
        BY <1>15 DEF Item
    <2> QED
        BY ONLY <2>1, <1>18, SeqWider
<1>20. Gives(ns)
    BY <1>2, <1>10, <1>12, <1>14, <1>16 DEF Gives
<1>21. agenda # << >>
    BY <1>2
<1>22. /\ \A i \in 1..Len(vs) : ns[i] = Visit("expr", us[i]) /\ ns[i].do = "expr" /\ ns[i].node = us[i]
       /\ ns[n] = x /\ n = Len(vs) + 1 /\ Len(vs) = Len(us) /\ n \in Nat
       /\ \A i \in 1..n : i = n \/ i \in 1..Len(vs)
    <2>1. \A i \in 1..Len(vs) : ns[i] = Visit("expr", us[i])
        BY ONLY <1>13, <1>18
    <2>2. \A i \in 1..Len(vs) : ns[i].do = "expr" /\ ns[i].node = us[i]
        <3>1. ASSUME NEW i \in 1..Len(vs)
              PROVE  ns[i].do = "expr" /\ ns[i].node = us[i]
            <4>1. ns[i] = Visit("expr", us[i])
                BY <2>1
            <4> QED
                BY ONLY <4>1, VisitIs
        <3> QED
            BY <3>1
    <2>3. n \in Nat /\ \A i \in 1..n : i = n \/ i \in 1..Len(vs)
        BY ONLY <1>18
    <2> QED
        BY ONLY <1>13, <1>18, <2>1, <2>2, <2>3
<1> HIDE <1>10, <1>12, <1>14, <1>16
<1>23. /\ n \in Nat /\ t \in Seq(Item) /\ DOMAIN t = 1..(n + m - 1)
       /\ \A i \in 1..n : t[i] = ns[i]
       /\ \A i \in (n + 1)..(n + m - 1) : t[i] = agenda[i - n + 1]
    BY ONLY <1>21, <1>5, <1>19, <1>20, <1>17, Walks, AgendaAfter
<1>24. Visit("expr", e) \notin visited /\ Visit("expr", e) \in visited'
    BY <1>2, <1>6, <1>7
<1>25. e \notin Range(order) /\ \A k \in DOMAIN agenda : agenda[k] # x
    <2>1. e \notin Range(order)
        BY ONLY <1>24, <1>3 DEF EnteredOnce
    <2>2. ASSUME NEW k \in DOMAIN agenda, agenda[k] = x PROVE FALSE
        <3>1. agenda[k].do = "leave expr" /\ agenda[k].node = e
            BY <2>2, <1>15
        <3> QED
            BY ONLY <3>1, <1>24, <1>3, k \in DOMAIN agenda DEF EnteredOnce
    <2> QED
        BY <2>1, <2>2
<1>26. AgendaOK'
    BY <1>7, <1>2, <1>3, <1>6, <1>4, <1>17, <1>23 DEF Leaves, AgendaOK
<1>27. EnteredOnce'
    <2>1. \A i, j \in DOMAIN agenda' : (agenda[i] = agenda[j] /\ agenda[i].do \in Leaves)' => i = j
        <3>1. "expr" \notin Leaves
            BY DEF Leaves
        <3>2. /\ \A i \in 1..Len(ns) : ns[i].do \in Leaves => i = Len(ns) /\ ns[i] = x
              /\ Len(ns) > 0 => \A k \in DOMAIN agenda : agenda[k] # x
            BY ONLY <3>1, <1>17, <1>22, <1>25
        <3> QED
            BY ONLY <3>2, <1>21, <1>19, <1>20, Walks, OnceKept
    <2>2. ASSUME NEW i \in DOMAIN t
          PROVE  /\ t[i].do = "leave expr" =>
                    Visit("expr", t[i].node) \in visited' /\ t[i].node \notin Range(order)
                 /\ t[i].do = "leave block" =>
                    Visit("block", t[i].node) \in visited' /\ t[i].node \notin Range(blocks)
        <3>1. CASE i \in 1..n
            <4>1. t[i] = ns[i]
                BY <3>1, <1>23
            <4>2. t[i].do = "expr" \/ t[i] = x
                BY ONLY <4>1, <3>1, <1>22
            <4> QED
                BY ONLY <4>2, <1>15, <1>24, <1>25
        <3>2. CASE i \in (n + 1)..(n + m - 1)
            <4>1. PICK k : k = i - n + 1
                OBVIOUS
            <4>2. k \in DOMAIN agenda /\ t[i] = agenda[k]
                BY ONLY <4>1, <3>2, <1>6, <1>23
            <4> QED
                BY <4>2, <1>2, <1>3 DEF EnteredOnce
        <3>3. i \in 1..n \/ i \in (n + 1)..(n + m - 1)
            BY ONLY <1>6, <1>23, i \in DOMAIN t
        <3> QED
            BY <3>1, <3>2, <3>3
    <2> QED
        BY <2>1, <2>2, <1>2, <1>3, <1>17 DEF EnteredOnce
<1>28. \A k \in 2..m : k \in DOMAIN agenda
    BY ONLY <1>6
<1>29. \A k \in 2..m : agenda[k].do = "leave expr" =>
            e \in Nat /\ agenda[k].node \in Nat /\ e < agenda[k].node
    <2>1. ASSUME NEW k \in 2..m, agenda[k].do = "leave expr"
          PROVE  e < agenda[k].node /\ agenda[k].node \in DOMAIN exprs
        <3>1. 1 < k
            BY ONLY k \in 2..m, <1>6
        <3>2. agenda[1].node = Null \/ agenda[1].node < agenda[k].node
            BY ONLY <3>1, <2>1, <1>28, <1>3, <1>6, k \in 2..m, Zenon DEF Descending
        <3>3. agenda[k] \in Item
            BY ONLY <1>6, <1>28, k \in 2..m, ElementIn
        <3>4. agenda[k].node \in DOMAIN exprs
            BY <3>3, <2>1, ItemsAre
        <3> QED
            BY ONLY <3>2, <3>4, <1>2, <1>7
    <2> QED
        BY ONLY <2>1, <1>34
<1>30. \A i \in 1..n, k \in 2..m : agenda[k].do = "leave expr" => Older(ns[i], agenda[k])
    <2>1. ASSUME NEW i \in 1..n, NEW k \in 2..m, agenda[k].do = "leave expr"
          PROVE  Older(ns[i], agenda[k])
        <3>1. CASE i = n
            BY ONLY <3>1, <2>1, <1>15, <1>22, <1>29, k \in 2..m DEF Older
        <3>2. CASE i \in 1..Len(vs)
            <4>1. us[i] \in (1..(e - 1)) \cup {Null}
                BY ONLY <3>2, <1>11, <1>22
            <4>2. us[i] = Null \/ us[i] < agenda[k].node
                <5>1. e \in Nat /\ agenda[k].node \in Nat /\ e < agenda[k].node
                    BY ONLY <2>1, <1>29, <1>34, k \in 2..m
                <5> QED
                    BY ONLY <4>1, <5>1
            <4> QED
                BY ONLY <4>2, <3>2, <1>22 DEF Older
        <3> QED
            BY ONLY <3>1, <3>2, <1>22, i \in 1..n
    <2> QED
        BY <2>1
<1>31. Descending'
    <2>1. ASSUME NEW i \in 1..n, NEW j \in 1..n, i < j, ns[j].do = "leave expr"
          PROVE  Older(ns[i], ns[j])
        <3>1. j = n /\ i \in 1..Len(vs)
            <4>1. "expr" # "leave expr"
                OBVIOUS
            <4>2. j = n
                BY ONLY <4>1, <2>1, <1>22, j \in 1..n
            <4>3. n \in Nat /\ n = Len(vs) + 1 /\ i < n
                BY ONLY <4>2, <2>1, <1>22
            <4> QED
                BY ONLY <4>2, <4>3, i \in 1..n
        <3>2. us[i] \in (1..(e - 1)) \cup {Null}
            BY ONLY <3>1, <1>11, <1>22
        <3>3. us[i] = Null \/ us[i] < e
            BY ONLY <3>2, <1>34, <1>8, <1>9
        <3> QED
            BY ONLY <3>1, <3>3, <1>15, <1>22 DEF Older
    <2>2. /\ \A i, j \in 1..Len(ns) : i < j /\ ns[j].do = "leave expr" => Older(ns[i], ns[j])
          /\ \A i \in 1..Len(ns), k \in 2..Len(agenda) :
                agenda[k].do = "leave expr" => Older(ns[i], agenda[k])
        BY ONLY <2>1, <1>5, <1>17, <1>30
    <2> QED
        BY ONLY <2>2, <1>21, <1>19, <1>20, Walks, DescendingKept
<1>32. LeftOrEntered'
    <2>1. ASSUME NEW v \in Value, Visit("expr", v) \in visited'
          PROVE  \/ v \in Range(order)' \/ Visit("leave expr", v) \in Range(ns)
                 \/ \E k \in 2..m : agenda[k] = Visit("leave expr", v)
        <3> USE <1>19
        <3>1. CASE v = e
            <4>1. x = Visit("leave expr", v)
                BY <3>1, <1>14
            <4>2. n \in DOMAIN ns /\ ns[n] = x
                <5>1. n = Len(vs) + 1 /\ Len(vs) \in Nat /\ ns[n] = x
                    BY ONLY <1>18
                <5> QED
                    BY ONLY <5>1, <1>17, ns \in Seq(Item), SeqDomain
            <4> QED
                BY <4>1, <4>2 DEF Range
        <3>2. CASE v # e
            <4>1. Visit("expr", v) # Visit("expr", e)
                BY ONLY <3>2, VisitIs
            <4>2. Visit("expr", v) \in visited
                BY <4>1, <2>1, <1>2, <1>6, <1>7
            <4>3. v \in Range(order) \/ \E k \in DOMAIN agenda : agenda[k] = Visit("leave expr", v)
                BY ONLY <4>2, <1>3, v \in Value DEF LeftOrEntered
            <4>4. ASSUME NEW k \in DOMAIN agenda, agenda[k] = Visit("leave expr", v)
                  PROVE  k \in 2..m
                <5>1. agenda[k].do = "leave expr"
                    BY ONLY <4>4, VisitIs
                <5>2. k # 1
                    BY ONLY <5>1, <1>7
                <5> QED
                    BY ONLY <5>2, <1>6, k \in DOMAIN agenda
            <4> QED
                BY <4>3, <4>4, <1>2
        <3> QED
            BY <3>1, <3>2
    <2>2. ASSUME NEW j \in 1..n, ns[j].do = "leave expr", NEW v \in Range(exprs[ns[j].node].args)
          PROVE  \E i \in 1..(j - 1) : ns[i] \in Visits(v)
        <3>1. j = n /\ ns[j].node = e
            BY ONLY <2>2, <1>15, <1>22, j \in 1..n
        <3>2. v \in Range(us)
            BY <2>2, <3>1, <1>10
        <3>3. PICK i \in 1..Len(us) : us[i] = v
            BY ONLY <3>2, <1>11 DEF Range
        <3>4. i \in 1..(j - 1) /\ ns[i] = Visit("expr", v)
            <4>1. i \in 1..(n - 1) /\ i \in 1..Len(vs)
                <5>1. n = Len(vs) + 1 /\ Len(vs) = Len(us) /\ Len(vs) \in Nat
                    BY ONLY <1>18, <1>22
                <5> QED
                    BY ONLY <5>1, i \in 1..Len(us)
            <4>2. ns[i] = Visit("expr", us[i])
                BY ONLY <4>1, <1>22
            <4> QED
                BY <4>1, <4>2, <3>1, <3>3
        <3> QED
            BY ONLY <3>4 DEF Visits
    <2>3. ASSUME NEW v, agenda[1] \in Visits(v)
          PROVE  \E i \in 1..n : ns[i] \in Visits(v)
        <3>1. agenda[1] = Visit("expr", v)
            BY ONLY <2>3, <1>7, VisitIs DEF Visits
        <3>2. v = e
            BY ONLY <3>1, <1>7, VisitIs
        <3>3. ns[n] \in Visits(v)
            BY <3>2, <1>14, <1>22 DEF Visits
        <3> QED
            <4>1. n \in 1..n
                BY ONLY <1>18
            <4> QED
                BY ONLY <3>3, <4>1
    <2>4. /\ \A v \in Value : Visit("expr", v) \in visited' =>
                \/ v \in Range(order)' \/ Visit("leave expr", v) \in Range(ns)
                \/ \E k \in 2..Len(agenda) : agenda[k] = Visit("leave expr", v)
          /\ \A j \in 1..Len(ns) : ns[j].do = "leave expr" =>
                \A v \in Range(exprs[ns[j].node].args) :
                    v \in Range(order)' \/ \E i \in 1..(j - 1) : ns[i] \in Visits(v)
        BY ONLY <2>1, <2>2, <1>5, <1>17
    <2>5. \A j \in 2..Len(agenda) : agenda[j].do = "leave expr" =>
                \A v \in Range(exprs[agenda[j].node].args) : agenda[1] \in Visits(v) =>
                    \/ v \in Range(order)' \/ \E i \in 1..Len(ns) : ns[i] \in Visits(v)
                    \/ \E k \in 2..(j - 1) : agenda[k] \in Visits(v)
        BY ONLY <2>3, <1>17
    <2>6. Range(order) \subseteq Range(order)'
        BY <1>2
    <2> QED
        BY ONLY <2>4, <2>5, <2>6, <1>4, <1>21, <1>19, <1>20, Walks, LeftKept
<1>33. OperandsFirst'
    <2>1. order' = order /\ exprs' = exprs
        BY <1>2, <1>4
    <2> QED
        BY ONLY <2>1, <1>3 DEF OperandsFirst
<1> QED
    BY <1>26, <1>27, <1>31, <1>32, <1>33 DEF Walks

LEMMA WalkStarts ==
    ASSUME Converts, agenda' = <<Visit("block", Entry)>>, visited = {}, order = << >>, blocks = << >>,
           UNCHANGED <<cpsVars, visited, order, blocks>>
    PROVE  Walks'
<1>1. Item' = Item /\ Block' = Block /\ Value' = Value /\ exprs' = exprs
    BY ItemsStay
<1>2. PICK x : x = Visit("block", Entry)
    OBVIOUS
<1>3. x \in Item /\ x.do = "block"
    BY <1>2, ItemsAre, VisitIs DEF Converts, BlocksOK
<1>4. PICK t : t = agenda'
    OBVIOUS
<1>5. t = <<x>>
    BY <1>2, <1>4
<1>6. DOMAIN t = {1} /\ t[1] = x /\ t \in Seq(Item)
    BY ONLY <1>3, <1>5
<1>7. DOMAIN order = {} /\ DOMAIN blocks = {} /\ Range(order) = {} /\ Range(blocks) = {}
    BY DEF Range
<1>8. AgendaOK'
    BY <1>1, <1>4, <1>6 DEF AgendaOK
<1>9. EnteredOnce'
    <2>1. /\ IsInjective(order') /\ IsInjective(blocks') /\ Range(order)' = {} /\ Range(blocks)' = {}
        BY <1>7 DEF IsInjective
    <2>2. \A i \in DOMAIN t : t[i].do = "block" /\ i = 1
        BY ONLY <1>3, <1>6
    <2>3. "block" \notin Leaves
        BY DEF Leaves
    <2> QED
        BY <1>4, <2>1, <2>2, <2>3 DEF EnteredOnce, Leaves
<1>10. \A i \in DOMAIN agenda' : agenda'[i].do = "block"
    BY ONLY <1>3, <1>4, <1>6
<1>11. Descending'
    BY <1>10 DEF Descending
<1>12. LeftOrEntered'
    BY <1>10 DEF LeftOrEntered
<1>13. OperandsFirst'
    BY <1>7 DEF OperandsFirst
<1> QED
    BY <1>8, <1>9, <1>11, <1>12, <1>13 DEF Walks

-----------------------------------------------------------------------------
(* The schedule and the phis.                                              *)

LEMMA ScheduleStarts ==
    ASSUME Walks, sched = << >>
    PROVE  Schedules
<1>1. DOMAIN sched = {}
    OBVIOUS
<1>2. Cardinality(DOMAIN sched) = 0 /\ IsFiniteSet(DOMAIN sched)
    BY ONLY <1>1, FS_EmptySet
<1>3. order \in Seq(DOMAIN exprs)
    BY DEF Walks, AgendaOK
<1>4. Len(order) \in Nat
    BY ONLY <1>3
<1>5. {order[j] : j \in (Len(order) - 0 + 1)..Len(order)} = {}
    BY ONLY <1>4
<1> QED
    BY ONLY <1>1, <1>2, <1>4, <1>5 DEF Schedules

\* schedule_late takes the expressions from the last of the postorder: all the uses
\* of the next one are in the schedule.
LEMMA UsesScheduled ==
    ASSUME Walks, Schedules, NEW m, m = Cardinality(DOMAIN sched), m < Len(order),
           NEW e, e = order[Len(order) - m]
    PROVE  /\ UseExprs(e) \subseteq DOMAIN sched /\ e \notin DOMAIN sched
           /\ DOMAIN sched \cup {e} = {order[j] : j \in (Len(order) - (m + 1) + 1)..Len(order)}
<1>1. order \in Seq(DOMAIN exprs) /\ IsInjective(order) /\ OperandsFirst
    BY DEF Walks, AgendaOK, EnteredOnce
<1>2. PICK n : n = Len(order)
    OBVIOUS
<1>3. n \in Nat /\ DOMAIN order = 1..n
    BY ONLY <1>1, <1>2
<1>4. m \in 0..n /\ m < n /\ DOMAIN sched = {order[j] : j \in (n - m + 1)..n}
    BY <1>2 DEF Schedules
<1>5. n - m \in DOMAIN order /\ order[n - m] = e
    BY <1>2, <1>3, <1>4
<1>6. \A i, j \in DOMAIN order : order[i] = order[j] => i = j
    BY <1>1 DEF IsInjective
<1>7. ASSUME NEW u \in UseExprs(e)
      PROVE  u \in DOMAIN sched
    <2>1. PICK k \in DOMAIN order : order[k] = u
        BY DEF UseExprs, Range
    <2>2. e \in Range(exprs[order[k]].args)
        BY <2>1 DEF UseExprs
    <2>3. PICK i \in 1..(k - 1) : order[i] = e
        BY ONLY <2>2, <1>1, k \in DOMAIN order DEF OperandsFirst
    <2>4. i \in DOMAIN order
        BY ONLY <1>3, i \in 1..(k - 1), k \in DOMAIN order
    <2>5. i = n - m
        BY ONLY <1>5, <1>6, <2>3, <2>4
    <2>6. k \in (n - m + 1)..n
        BY ONLY <2>5, <1>3, <1>4, i \in 1..(k - 1), k \in DOMAIN order
    <2> QED
        BY <2>1, <2>6, <1>4
<1>8. ASSUME e \in DOMAIN sched PROVE FALSE
    <2>1. PICK j \in (n - m + 1)..n : order[j] = e
        BY <1>4, <1>8
    <2>2. j \in DOMAIN order /\ j # n - m
        BY ONLY <1>3, <1>4, j \in (n - m + 1)..n
    <2> QED
        BY ONLY <2>1, <2>2, <1>5, <1>6
<1>9. DOMAIN sched \cup {e} = {order[j] : j \in (n - (m + 1) + 1)..n}
    <2>1. (n - (m + 1) + 1)..n = ((n - m + 1)..n) \cup {n - m}
        BY ONLY <1>3, <1>4
    <2> QED
        BY ONLY <2>1, <1>4, <1>5
<1> QED
    BY <1>2, <1>7, <1>8, <1>9

LEMMA ScheduleKeeps ==
    ASSUME Walks, Schedules, ScheduleExpr
    PROVE  Schedules' /\ pc' = pc
<1>1. PICK m : m = Cardinality(DOMAIN sched)
    OBVIOUS
<1>2. m < Len(order) /\ UNCHANGED <<order, exprs, transfer, blocks>>
    BY <1>1 DEF ScheduleExpr, cpsVars, walkVars
<1>3. PICK e : e = order[Len(order) - m]
    OBVIOUS
<1>4. /\ UseExprs(e) \subseteq DOMAIN sched /\ e \notin DOMAIN sched
      /\ DOMAIN sched \cup {e} = {order[j] : j \in (Len(order) - (m + 1) + 1)..Len(order)}
    BY <1>1, <1>2, <1>3, UsesScheduled
<1>6. DOMAIN sched' = DOMAIN sched \cup {e} /\ pc' = pc
    BY <1>1, <1>3, <1>4 DEF ScheduleExpr
<1>7. Cardinality(DOMAIN sched') = m + 1 /\ IsFiniteSet(DOMAIN sched') /\ m \in 0..Len(order) /\ Len(order) \in Nat
    <2>1. order \in Seq(DOMAIN exprs)
        BY DEF Walks, AgendaOK
    <2>2. Len(order) \in Nat
        BY ONLY <2>1
    <2>3. m \in 0..Len(order) /\ IsFiniteSet(DOMAIN sched)
        BY <1>1 DEF Schedules
    <2>6. /\ Cardinality(DOMAIN sched \cup {e}) = Cardinality(DOMAIN sched) + 1
          /\ IsFiniteSet(DOMAIN sched \cup {e})
        BY ONLY <2>3, <1>4, FS_AddElement
    <2> QED
        BY <2>2, <2>3, <2>6, <1>1, <1>6
<1>8. m + 1 \in 0..Len(order)
    BY ONLY <1>2, <1>7
<1> QED
    BY <1>2, <1>4, <1>6, <1>7, <1>8 DEF Schedules

\* A transfer that leads to a block with a parameter passes it one value.
LEMMA ValuePassed ==
    ASSUME Finished, NEW b \in Block, params[b] # << >>, NEW p \in Preds(b)
    PROVE  /\ Passed(p) # None /\ Len(Passed(p)) = 1 /\ Len(params[b]) = 1
           /\ Passed(p)[1] = IF transfer[p].form = "call" THEN CallResult(p) ELSE transfer[p].args[1]
<1>1. p \in Block /\ b \in Range(Successors(p))
    BY DEF Preds
<1>2. BlocksOK
    BY DEF Finished, Converts
<1>3. PICK t : t = transfer[p]
    OBVIOUS
<1>4. TransferOK(t) /\ t # None
    <2>1. TransferOK(t)
        BY <1>1, <1>3, FinishedTransfers
    <2>2. t \in Transfer
        BY <2>1 DEF TransferOK
    <2> QED
        BY ONLY <2>1, <2>2, NodesAssumption
<1>5. Successors(p) = t.conts /\ Return \notin Range(t.conts) /\ b \in Range(t.conts)
    BY <1>1, <1>3 DEF Range, Successors
<1>6. DOMAIN params = 1..Len(params) /\ params \in Seq(Seq(DOMAIN exprs)) /\ p \in Nat
    BY <1>1, <1>2, BlocksAre DEF BlocksOK, Block
<1>7. Len(params[b]) # 0
    BY <1>6
<1>8. b \notin Arms
    BY <1>7 DEF Arms
<1>9. ASSUME \E c, d \in Arms : t.conts = <<c, d>>
      PROVE  FALSE
    BY <1>9, <1>5, <1>8 DEF Range
<1>10. \/ t.form = "goto" /\ Len(t.args) = 1
       \/ t.form = "call"
    BY ONLY <1>4, <1>9 DEF TransferOK
<1>11. \E c \in Joins \cup {Return} : t.conts = <<c>>
    BY ONLY <1>4, <1>9 DEF TransferOK
<1>12. Len(params[b]) = 1 /\ Successors(p) # << >>
    BY <1>11, <1>5 DEF Range, Joins
<1>13. CASE t.form = "goto"
    BY <1>4, <1>3, <1>12, <1>13, <1>10, NodesAssumption DEF TransferOK, Transfer, Passed
<1>14. CASE t.form = "call"
    <2>1. Passed(p) = <<CallResult(p)>>
        BY <1>3, <1>12, <1>14 DEF Passed
    <2>2. CallResult(p) \in Int
        BY <1>6 DEF CallResult
    <2>3. <<CallResult(p)>> \in Seq(Int \cup {Null})
        BY <2>2
    <2> QED
        <3>1. /\ <<CallResult(p)>> # None /\ Len(<<CallResult(p)>>) = 1
              /\ <<CallResult(p)>>[1] = CallResult(p)
            BY ONLY <2>3, NodesAssumption
        <3>2. transfer[p].form = "call"
            BY <1>3, <1>14
        <3> QED
            BY ONLY <3>1, <3>2, <2>1, <1>12
<1> QED
    BY <1>10, <1>13, <1>14

\* What the parts of the invariant refer to when the conversion is over.
LEMMA FlowStays ==
    ASSUME UNCHANGED cpsVars
    PROVE  /\ Block' = Block /\ \A b : Passed(b)' = Passed(b) /\ Preds(b)' = Preds(b)
           /\ transfer' = transfer /\ params' = params
BY DEF cpsVars, Block, Passed, Preds, Successors, CallResult

LEMMA PatchKeeps ==
    ASSUME Finished, Fills, PatchPhis
    PROVE  PhisComplete' /\ Fills' /\ pc' = "done"
<1>1. PICK B : B = {b \in Block : HasPhis(b) /\ params[b] # << >>}
    OBVIOUS
<1>2. /\ filled = Block /\ UNCHANGED cpsVars /\ UNCHANGED <<filled, inputs>>
      /\ IF \A b \in B : \A p \in Preds(b) : inputs[p] # None /\ Len(inputs[p]) = Len(params[b])
         THEN pc' = "done" /\ phis' = [b \in B |-> [p \in Preds(b) |-> inputs[p][1]]]
         ELSE pc' = "no_input"
    BY <1>1 DEF PatchPhis
<1>3. \A b : \A p \in Preds(b) : p \in Block
    BY DEF Preds
<1>4. ASSUME NEW b \in B, NEW p \in Preds(b)
      PROVE  /\ inputs[p] # None /\ Len(inputs[p]) = Len(params[b])
             /\ inputs[p][1] = IF transfer[p].form = "call" THEN CallResult(p) ELSE transfer[p].args[1]
    BY <1>1, <1>2, <1>3, ValuePassed DEF Fills
<1>5. pc' = "done" /\ phis' = [b \in B |-> [p \in Preds(b) |-> inputs[p][1]]]
    BY <1>2, <1>4
<1>6. /\ Block' = Block /\ transfer' = transfer
      /\ \A b : Passed(b)' = Passed(b) /\ Preds(b)' = Preds(b)
    BY <1>2, FlowStays
<1>7. \A b \in B : \A p \in Preds(b) :
        phis'[b][p] = IF transfer[p].form = "call" THEN CallResult(p) ELSE transfer[p].args[1]
    BY <1>4, <1>5
<1>8. DOMAIN phis' = B
    BY <1>5
<1>9. PhisComplete'
    BY <1>5, <1>6, <1>7, <1>8 DEF PhisComplete, CallResult
<1>10. Fills'
    BY <1>2, <1>6 DEF Fills
<1> QED
    BY <1>5, <1>9, <1>10

LEMMA FillKeeps ==
    ASSUME Fills, NEW b \in Block, Fill(b)
    PROVE  pc' \in {"fill", "missing"} /\ (pc' = "fill" => Fills')
BY FlowStays DEF Fill, Fills

-----------------------------------------------------------------------------
(* The compiler.                                                           *)

LEMMA CompileStarts == CompileInit => CompileInv
<1> SUFFICES ASSUME CompileInit PROVE CompileInv
    OBVIOUS
<1>1. Converts
    BY ConversionStarts DEF CompileInit
<1>2. Walks
    BY NothingVisited DEF CompileInit
<1> QED
    BY <1>1, <1>2 DEF CompileInit, CompileInv, Walked, PhisComplete

LEMMA WalkKept ==
    ASSUME CompileInv, VisitedBefore \/ VisitBlock \/ LeaveBlock \/ VisitExpr \/ LeaveExpr
    PROVE  CompileInv'
<1>1. /\ pc = "walk" /\ pc' \in {"walk", "null"} /\ UNCHANGED cpsVars
      /\ UNCHANGED <<sched, filled>>
    BY DEF VisitedBefore, VisitBlock, LeaveBlock, VisitExpr, LeaveExpr, llvmVars
<1>2. Finished /\ Walks
    BY <1>1 DEF CompileInv, Finished
<1>3. Converts' /\ stack' = << >>
    BY <1>1, <1>2, ConvertedStays DEF Finished, cpsVars
<1>4. ASSUME pc' # "null" PROVE Walks'
    BY <1>2, <1>4, VisitedBeforeKeeps, VisitBlockKeeps, LeaveBlockKeeps, VisitExprKeeps, LeaveExprKeeps
<1> QED
    BY <1>1, <1>3, <1>4 DEF CompileInv, Walked, PhisComplete

LEMMA ScheduleKept ==
    ASSUME CompileInv, BeginSchedule \/ ScheduleExpr \/ PrintDef
    PROVE  CompileInv'
<1>1. /\ pc \in {"walk", "schedule"} /\ agenda = << >> /\ filled = {} /\ Finished /\ Walks
      /\ UNCHANGED cpsVars /\ UNCHANGED walkVars /\ UNCHANGED filled
    BY DEF BeginSchedule, ScheduleExpr, PrintDef, llvmVars, CompileInv, Finished, Walked
<1>2. Converts' /\ stack' = << >> /\ Walks' /\ agenda' = << >> /\ filled' = {}
    BY <1>1, ConvertedStays, WalkStays DEF Finished, cpsVars, walkVars
<1>3. CASE BeginSchedule
    <2>1. sched = << >> /\ pc' = "schedule" /\ UNCHANGED <<sched, order>>
        BY <1>3 DEF BeginSchedule, CompileInv, walkVars
    <2>2. Schedules
        BY <1>1, <2>1, ScheduleStarts
    <2>3. Schedules'
        BY <2>1, <2>2 DEF Schedules
    <2> QED
        BY <1>2, <2>1, <2>3 DEF CompileInv, Walked, PhisComplete
<1>4. CASE ScheduleExpr
    BY <1>4, <1>1, ScheduleKeeps, <1>2 DEF ScheduleExpr, CompileInv, Walked, PhisComplete
<1>5. CASE PrintDef
    BY <1>5, <1>2 DEF PrintDef, CompileInv, Walked, PhisComplete
<1> QED
    BY <1>3, <1>4, <1>5

LEMMA LlvmKept ==
    ASSUME CompileInv, Declare \/ PatchPhis \/ \E b \in Block : Fill(b)
    PROVE  CompileInv'
<1>1. /\ pc \in {"declare", "fill"} /\ agenda = << >> /\ Finished /\ Walks
      /\ UNCHANGED cpsVars /\ UNCHANGED walkVars
    BY DEF Declare, PatchPhis, Fill, CompileInv, Finished, Walked
<1>2. Converts' /\ stack' = << >> /\ Walks' /\ agenda' = << >>
    BY <1>1, ConvertedStays, WalkStays DEF Finished, cpsVars, walkVars
<1>3. CASE Declare
    BY <1>3, <1>1, FlowStays, <1>2 DEF Declare, CompileInv, Fills, Walked, PhisComplete
<1>4. CASE PatchPhis
    BY <1>4, <1>1, PatchKeeps, <1>2 DEF PatchPhis, CompileInv, Walked
<1>5. ASSUME NEW b \in Block, Fill(b) PROVE CompileInv'
    BY <1>5, FillKeeps, <1>2 DEF Fill, CompileInv, Walked, PhisComplete
<1> QED
    BY <1>3, <1>4, <1>5

LEMMA CompileInvKept == CompileInv /\ [Next]_vars => CompileInv'
<1> SUFFICES ASSUME CompileInv, [Next]_vars
             PROVE  CompileInv'
    OBVIOUS
<1>1. CASE ConvertStep
    BY <1>1, ConversionKeeps, NothingVisitedNext DEF ConvertStep, walkVars, llvmVars, CompileInv, Walked,
        PhisComplete
<1>2. CASE BeginWalk
    BY <1>2, ConvertedStays, WalkStarts DEF BeginWalk, llvmVars, CompileInv, cpsVars, Walked, PhisComplete
<1>3. CASE VisitedBefore \/ VisitBlock \/ LeaveBlock \/ VisitExpr \/ LeaveExpr
    BY <1>3, WalkKept
<1>4. CASE BeginSchedule \/ ScheduleExpr \/ PrintDef
    BY <1>4, ScheduleKept
<1>5. CASE Declare \/ PatchPhis \/ \E b \in Block : Fill(b)
    BY <1>5, LlvmKept
<1>6. CASE UNCHANGED vars
    BY <1>6, ConvertedStays, WalkStays, FlowStays DEF vars, llvmVars, cpsVars, walkVars, CompileInv,
        Schedules, Fills, PhisComplete, CallResult
<1> QED
    BY <1>1, <1>2, <1>3, <1>4, <1>5, <1>6 DEF Next

\* The conversion leaves a transfer of the right shape in every block, the visit
\* enters everything once and leaves an expression after its operands, the schedule
\* is made from the end of that postorder, and a block's input to the phis of the
\* next is what its transfer passes.
THEOREM CompileInvariant == Spec => []CompileInv
<1> QED
    BY CompileStarts, CompileInvKept, PTL DEF Spec

\* schedule_late never looks up the block of an expression that it has not put in
\* one: the postorder lists operands before their uses, and everything once.
THEOREM UsesAreScheduledFirst == Spec => []UsesScheduledFirst
<1>1. CompileInv => UsesScheduledFirst
    BY DEF CompileInv, UsesScheduledFirst, Walked, Walks, EnteredOnce
<1> QED
    BY <1>1, CompileInvariant, PTL

\* llvm_patch_phis finds a value of every predecessor for every phi, the one that
\* the predecessor's transfer passes.
THEOREM PhisAreComplete == Spec => []PhisComplete
<1>1. CompileInv => PhisComplete
    BY DEF CompileInv
<1> QED
    BY <1>1, CompileInvariant, PTL

-----------------------------------------------------------------------------
(* Which values can be used where.  Two records are kept of the conversion:  *)
(* roots[v] are the parameters that the value v comes from, live[b] those    *)
(* that block b and what it can go to may use.                               *)

Marks(a) == {a.alt, a.join} \ {None}

\* Where the j-th activation goes on, now and when those inside it are done.
UsedAt(j) == {current} \cup UNION {Marks(stack[i]) : i \in 1..j}

HasAt(roots, live, j, v) == \A b \in UsedAt(j) : roots[v] \subseteq live[b]

\* A transfer from p to c leaves all of live[c] usable.
Leads(live, p, c) == live[c] \subseteq live[p] \cup Range(params[c])

\* The arguments that will be operands.
ArgsUsed(a) == a.form = "if" => Len(a.args) \in {0, 1} /\ a.alt = None

ScopeAt(roots, live, j) ==
    \A n \in stack[j].scope :
        defs[n] # None /\ (j > 1 => stack[j - 1].oname # n) => HasAt(roots, live, j, defs[n])

ArgsAt(roots, live, j) ==
    ArgsUsed(stack[j]) => \A v \in Range(stack[j].args) : HasAt(roots, live, j, v)

ContAt(live, j) ==
    stack[j].k.cont \notin {None, Return} =>
        \A p \in UsedAt(j) : Leads(live, p, stack[j].k.cont)

\* A name that already has the value it is given again.
GivenIn(j) == IF stack[j].join = None THEN UsedAt(j) ELSE {stack[j].join}
GivenAt(roots, live, j) ==
    \A n \in NameT : stack[j].k.name = n /\ defs[n] # None =>
        \A b \in GivenIn(j) : roots[defs[n]] \subseteq live[b]

JoinAt(live, j) ==
    stack[j].alt # None /\ stack[j].join # None => Leads(live, stack[j].alt, stack[j].join)

AvailableAt(roots, live, j) ==
    /\ ScopeAt(roots, live, j) /\ ArgsAt(roots, live, j) /\ ContAt(live, j)
    /\ GivenAt(roots, live, j) /\ JoinAt(live, j)

\* A name is given its value by one `val`, and between two activations that give a
\* name a value there is no conditional.
GivenOnce ==
    \A i, j \in DOMAIN stack : i < j =>
        /\ stack[i].oname # None => stack[j].k.name # stack[i].oname
        /\ stack[i].k.name # None /\ stack[j].k.name = stack[i].k.name =>
            \A m \in (i + 1)..j : Marks(stack[m]) = {}

Available(roots, live) == GivenOnce /\ \A j \in DOMAIN stack : AvailableAt(roots, live, j)

-----------------------------------------------------------------------------
(* The stack after a return and after a call, field by field.              *)

SameButArgs(a, b) ==
    /\ a.form = b.form /\ a.k = b.k /\ a.oname = b.oname /\ a.scope = b.scope
    /\ a.alt = b.alt /\ a.join = b.join

Shortened(v) ==
    /\ Len(stack) \in Nat \ {0} /\ DOMAIN stack = 1..Len(stack)
    /\ DOMAIN stack' = 1..(Len(stack) - 1)
    /\ \A j \in 2..Len(stack) :
        /\ SameButArgs(stack'[j - 1], stack[j])
        /\ j > 2 => stack'[j - 1].args = stack[j].args
        /\ j = 2 => stack'[j - 1].args = Append(stack[j].args, v)

Lengthened(a, e) ==
    /\ Len(stack) \in Nat \ {0} /\ DOMAIN stack = 1..Len(stack)
    /\ DOMAIN stack' = 1..(Len(stack) + 1)
    /\ stack'[1] = e /\ stack'[2] = a
    /\ \A j \in 2..Len(stack) : stack'[j + 1] = stack[j]

LEMMA ReturnShortens ==
    ASSUME StackOK, stack # << >>, NEW v, stack' = Returned(v)
    PROVE  Shortened(v)
<1>1. stack \in Seq(Activation) /\ Len(stack) \in Nat \ {0} /\ DOMAIN stack = 1..Len(stack)
    BY DEF StackOK
<1>2. CASE Len(stack) = 1
    BY <1>2, <1>1 DEF Returned, Shortened
<1>3. CASE Len(stack) > 1
    <2>1. PICK b : b = WithArg(stack[2], v)
        OBVIOUS
    <2>2. PICK s : s = Returned(v)
        OBVIOUS
    <2>3. /\ s \in Seq(Activation \cup {b}) /\ Len(s) = Len(stack) - 1
          /\ DOMAIN s = 1..Len(s) /\ s[1] = b
          /\ \A j \in 2..Len(s) : s[j] = stack[j + 1]
        <3>1. stack \in Seq(Activation) /\ Len(stack) > 1
            BY <1>1, <1>3
        <3> QED
            BY ONLY <3>1, <2>1, <2>2, ReturnedStack, ZenonT(60)
    <2>4. PICK a : a = stack[2]
        OBVIOUS
    <2>5. a \in Activation
        BY <1>1, <1>3, <2>4
    <2>6. SameButArgs(b, a) /\ b.args = Append(a.args, v)
        BY <2>1, <2>4, <2>5 DEF WithArg, Activation, SameButArgs
    <2>7. ASSUME NEW j \in 2..Len(stack)
          PROVE  /\ SameButArgs(s[j - 1], stack[j])
                 /\ j > 2 => s[j - 1].args = stack[j].args
                 /\ j = 2 => s[j - 1].args = Append(stack[j].args, v)
        BY <2>3, <2>4, <2>6, <1>1 DEF SameButArgs
    <2>8. stack' = s
        BY <2>2
    <2> QED
        BY <1>1, <2>3, <2>7, <2>8 DEF Shortened
<1> QED
    BY <1>1, <1>2, <1>3

LEMMA CallLengthens ==
    ASSUME StackOK, stack # << >>, NEW a, NEW e, stack' = Calls(a, e)
    PROVE  Lengthened(a, e)
BY CalledStack DEF StackOK, Lengthened

\* The records of the values, blocks and names that are there do not change.
RecordsKept(roots, live, r, l) ==
    /\ \A v \in Value : r[v] = roots[v]
    /\ \A b \in Block : l[b] = live[b] /\ params'[b] = params[b]
    /\ \A n \in NameT : defs[n] # None => defs'[n] = defs[n]

\* Where the j-th activation goes on after the step, at least as much is usable as
\* where the i-th one did before.
Covers(live, l, i, j) == \A b \in UsedAt(j)' : \E p \in UsedAt(i) : live[p] \subseteq l[b]

LEMMA UsedBlocks ==
    ASSUME BlocksOK, StackOK
    PROVE  \A j \in DOMAIN stack :
                /\ UsedAt(j) \subseteq Block /\ current \in UsedAt(j)
                /\ \A i \in 1..j : UsedAt(i) \subseteq UsedAt(j)
<1>1. \A j \in DOMAIN stack : stack[j] \in Activation
    BY DEF StackOK
<1>2. \A j \in DOMAIN stack : Marks(stack[j]) \subseteq Block
    BY <1>1 DEF Marks, Activation, Joins, Arms
<1>3. current \in Block
    BY DEF BlocksOK
<1>4. ASSUME NEW j \in DOMAIN stack
      PROVE  UsedAt(j) \subseteq Block /\ current \in UsedAt(j)
    BY SeqDomain, <1>2, <1>3 DEF StackOK, UsedAt
<1>5. ASSUME NEW j \in DOMAIN stack, NEW i \in 1..j
      PROVE  UsedAt(i) \subseteq UsedAt(j)
    BY SeqDomain DEF StackOK, UsedAt
<1> QED
    BY <1>4, <1>5

LEMMA ShortCovers ==
    ASSUME BlocksOK, StackOK, NEW v, Shortened(v),
           NEW roots, NEW live, NEW r, NEW l, RecordsKept(roots, live, r, l),
           NEW p \in UsedAt(1), live[p] \subseteq l[current']
    PROVE  \A j \in 2..Len(stack) : Covers(live, l, j, j - 1)
<1> SUFFICES ASSUME NEW j \in 2..Len(stack), NEW b \in UsedAt(j - 1)'
             PROVE  \E q \in UsedAt(j) : live[q] \subseteq l[b]
    BY DEF Covers
<1>1. Len(stack) \in Nat /\ DOMAIN stack = 1..Len(stack) /\ j \in DOMAIN stack /\ 1 \in 1..j
    BY DEF Shortened
<1>2. CASE b = current'
    BY <1>1, <1>2, UsedBlocks
<1>3. CASE b # current'
    <2>1. PICK i \in 1..(j - 1) : b \in Marks(stack'[i])
        BY <1>3 DEF UsedAt
    <2>2. i + 1 \in 2..Len(stack) /\ (i + 1) - 1 = i /\ i + 1 \in 1..j
        BY <1>1
    <2>3. \A k \in 2..Len(stack) : Marks(stack'[k - 1]) = Marks(stack[k])
        BY DEF Shortened, SameButArgs, Marks
    <2>4. b \in Marks(stack[i + 1])
        BY <2>1, <2>2, <2>3
    <2>5. b \in UsedAt(j)
        BY <2>2, <2>4 DEF UsedAt
    <2>6. b \in Block
        BY <2>5, <1>1, UsedBlocks
    <2> QED
        BY <2>5, <2>6 DEF RecordsKept
<1> QED
    BY <1>2, <1>3

LEMMA LongCovers ==
    ASSUME BlocksOK, StackOK, NEW a, NEW e, Lengthened(a, e), Marks(e) = {},
           NEW roots, NEW live, NEW r, NEW l, RecordsKept(roots, live, r, l),
           \A b \in Marks(a) \cup {current'} : \E p \in UsedAt(1) : live[p] \subseteq l[b]
    PROVE  /\ Covers(live, l, 1, 1)
           /\ \A j \in DOMAIN stack : Covers(live, l, j, j + 1)
<1>1. Len(stack) \in Nat \ {0} /\ DOMAIN stack = 1..Len(stack) /\ stack'[1] = e /\ stack'[2] = a
    BY DEF Lengthened
<1>2. ASSUME NEW b \in UsedAt(1)'
      PROVE  b = current'
    BY <1>1 DEF UsedAt
<1>3. ASSUME NEW j \in DOMAIN stack, NEW b \in UsedAt(j + 1)'
      PROVE  \E q \in UsedAt(j) : live[q] \subseteq l[b]
    <2>1. CASE b \in Marks(a) \cup {current'}
        BY <2>1, <1>1, UsedBlocks
    <2>2. CASE b \notin Marks(a) \cup {current'}
        <3>1. PICK i \in 1..(j + 1) : b \in Marks(stack'[i])
            BY <2>2 DEF UsedAt
        <3>2. i # 1 /\ i # 2
            BY <3>1, <2>2, <1>1
        <3>3. i - 1 \in 2..Len(stack) /\ i - 1 \in 1..j /\ (i - 1) + 1 = i
            BY <3>2, <1>1
        <3>4. stack'[i] = stack[i - 1]
            BY <3>3 DEF Lengthened
        <3>5. b \in UsedAt(j)
            BY <3>1, <3>3, <3>4 DEF UsedAt
        <3>6. b \in Block
            BY <3>5, UsedBlocks
        <3> QED
            BY <3>5, <3>6 DEF RecordsKept
    <2> QED
        BY <2>1, <2>2
<1>4. \A b \in UsedAt(1)' : \E p \in UsedAt(1) : live[p] \subseteq l[b]
    BY <1>2
<1> QED
    BY <1>3, <1>4 DEF Covers

LEMMA Lifted ==
    ASSUME NEW roots, NEW live, NEW r, NEW l, RecordsKept(roots, live, r, l),
           NEW i, NEW j, Covers(live, l, i, j), UsedAt(i) \subseteq Block
    PROVE  /\ \A v \in Value : HasAt(roots, live, i, v) => HasAt(r, l, j, v)'
           /\ \A c \in Block :
                (\A p \in UsedAt(i) : Leads(live, p, c)) => \A p \in UsedAt(j)' : Leads(l, p, c)'
BY DEF HasAt, Covers, RecordsKept, Leads

\* What is usable in activation j is so in the place of it after a step, unless the
\* step has just given it.
LEMMA AvailableLifted ==
    ASSUME ExprsOK, BlocksOK, NamesOK, StackOK,
           NEW roots, NEW live, NEW r, NEW l, RecordsKept(roots, live, r, l),
           NEW i \in DOMAIN stack, NEW j, Covers(live, l, i, j), AvailableAt(roots, live, i),
           SameButArgs(stack'[j], stack[i])
    PROVE  /\ \A n \in stack[i].scope :
                defs[n] # None /\ (i > 1 => stack[i - 1].oname # n) => HasAt(r, l, j, defs[n])'
           /\ ArgsUsed(stack[i]) => \A v \in Range(stack[i].args) : HasAt(r, l, j, v)'
           /\ ContAt(l, j)'
           /\ \A n \in NameT : stack[i].k.name = n /\ defs[n] # None =>
                \A b \in GivenIn(j)' : r[defs'[n]] \subseteq l[b]
           /\ JoinAt(l, j)'
<1>1. PICK a : a = stack[i]
    OBVIOUS
<1>2. a \in Activation /\ UsedAt(i) \subseteq Block
    BY <1>1, UsedBlocks DEF StackOK
<1>3. PICK d : d = stack'[j]
    OBVIOUS
<1>4. d.k = a.k /\ d.alt = a.alt /\ d.join = a.join
    BY <1>1, <1>3 DEF SameButArgs
<1>5. /\ \A v \in Value : HasAt(roots, live, i, v) => HasAt(r, l, j, v)'
      /\ \A c \in Block :
            (\A p \in UsedAt(i) : Leads(live, p, c)) => \A p \in UsedAt(j)' : Leads(l, p, c)'
    BY <1>2, Lifted
<1>6. \A n \in NameT : defs[n] # None => defs[n] \in Value
    BY SeqDomain DEF NamesOK, NameT, Value
<1>7. a.scope \subseteq NameT /\ Range(a.args) \subseteq Value
    BY <1>2, RangeWithin DEF Activation
<1>8. ASSUME NEW n \in a.scope, defs[n] # None, i > 1 => stack[i - 1].oname # n,
             NEW b \in UsedAt(j)'
      PROVE  r[defs'[n]] \subseteq l[b]
    BY <1>6, <1>7, <1>8, <1>1, <1>5 DEF RecordsKept, AvailableAt, ScopeAt, HasAt
<1>9. ArgsUsed(a) => \A v \in Range(a.args) : HasAt(r, l, j, v)'
    BY <1>1, <1>5, <1>7 DEF AvailableAt, ArgsAt
<1>10. ASSUME d.k.cont \notin {None, Return}, NEW p \in UsedAt(j)'
       PROVE  l[d.k.cont] \subseteq l[p] \cup Range(params'[d.k.cont])
    BY <1>2, <1>4, <1>10, <1>1, <1>5 DEF Activation, Cont, Joins, AvailableAt, ContAt, Leads
<1>11. ASSUME NEW n \in NameT, a.k.name = n, defs[n] # None, NEW b \in GivenIn(j)'
       PROVE  r[defs'[n]] \subseteq l[b]
    <2>1. PICK v \in Value : v = defs[n]
        BY <1>6, <1>11
    <2>2. defs'[n] = v
        BY <2>1, <1>11 DEF RecordsKept
    <2>3. \A p \in GivenIn(i) : roots[v] \subseteq live[p]
        BY <1>1, <1>11, <2>1 DEF AvailableAt, GivenAt
    <2>4. CASE a.join = None
        <3>1. b \in UsedAt(j)'
            BY <1>3, <1>4, <1>11, <2>4 DEF GivenIn
        <3>2. HasAt(roots, live, i, v)
            BY <1>1, <2>3, <2>4 DEF GivenIn, HasAt
        <3> QED
            BY <3>1, <3>2, <2>2, <1>5 DEF HasAt
    <2>5. CASE a.join # None
        <3>1. b = a.join
            BY <1>3, <1>4, <1>11, <2>5 DEF GivenIn
        <3>2. b \in Block
            BY <3>1, <2>5, <1>2 DEF Activation, Joins
        <3>3. roots[v] \subseteq live[b]
            BY <3>1, <2>3, <2>5, <1>1 DEF GivenIn
        <3> QED
            BY <3>2, <3>3, <2>2 DEF RecordsKept
    <2> QED
        BY <2>4, <2>5
<1>12. ASSUME d.alt # None, d.join # None
       PROVE  l[d.join] \subseteq l[d.alt] \cup Range(params'[d.join])
    BY <1>2, <1>4, <1>12, <1>1 DEF Activation, Joins, Arms, AvailableAt, JoinAt, Leads, RecordsKept
<1>13. ContAt(l, j)'
    BY <1>3, <1>10 DEF ContAt, Leads
<1>14. JoinAt(l, j)'
    BY <1>3, <1>12 DEF JoinAt, Leads
<1>15. \A n \in stack[i].scope :
            defs[n] # None /\ (i > 1 => stack[i - 1].oname # n) => HasAt(r, l, j, defs[n])'
    BY <1>1, <1>8 DEF HasAt
<1> QED
    BY <1>1, <1>9, <1>11, <1>13, <1>14, <1>15

\* What the stack says about its first two activations and about the others.
LEMMA StackFacts ==
    ASSUME StackOK, stack # << >>
    PROVE  /\ Len(stack) \in Nat \ {0} /\ DOMAIN stack = 1..Len(stack) /\ Top = stack[1]
           /\ \A j \in DOMAIN stack : stack[j] \in Activation
           /\ \A j \in 2..Len(stack) :
                /\ Waits(stack[j - 1], stack[j]) /\ NamedBut(stack[j - 1], stack[j])
                /\ \A n \in stack[j].scope : stack[j - 1].oname # n => defs[n] # None
BY DEF StackOK, Top, NamedBut

\* An activation that suggests a name is the value of a `val`.
LEMMA Suggested ==
    ASSUME NEW c \in Activation, NEW a \in Activation, Waits(c, a), c.oname # None
    PROVE  /\ a.form = "expr" /\ Marks(a) = {} /\ c.k = NextCont(c.oname)
           /\ c.k.name = c.oname /\ c.oname \in NameT
BY DEF Waits, Marks, NextCont, Activation

\* Arguments that are used are those of an activation without blocks of its own.
LEMMA UsedWithoutMarks ==
    ASSUME NEW c \in Activation, NEW a \in Activation, Waits(c, a), NEW b, NEW v,
           SameButArgs(b, a), b.args = Append(a.args, v), ArgsUsed(b)
    PROVE  Marks(a) = {} /\ Marks(b) = {} /\ ArgsUsed(a)
           /\ Range(b.args) = Range(a.args) \cup {v}
<1>1. a.args \in Seq(Value)
    BY DEF Activation
<1>2. Len(b.args) = Len(a.args) + 1 /\ Range(b.args) = Range(a.args) \cup {v}
    <2>1. PICK s \in Seq(Value) : s = a.args
        BY <1>1
    <2>2. /\ Len(Append(s, v)) = Len(s) + 1 /\ Append(s, v)[Len(s) + 1] = v
          /\ \A j \in 1..Len(s) : Append(s, v)[j] = s[j]
        BY AppendElements
    <2>3. DOMAIN Append(s, v) = 1..(Len(s) + 1) /\ DOMAIN s = 1..Len(s) /\ Len(s) \in Nat
        OBVIOUS
    <2>4. DOMAIN Append(s, v) = DOMAIN s \cup {Len(s) + 1}
        BY <2>3
    <2>5. Range(Append(s, v)) = Range(s) \cup {v}
        <3>1. PICK t : t = Append(s, v)
            OBVIOUS
        <3>2. \A j \in DOMAIN s : t[j] = s[j]
            BY <2>2, <2>3, <3>1
        <3>3. DOMAIN t = DOMAIN s \cup {Len(s) + 1} /\ t[Len(s) + 1] = v
            BY <2>2, <2>4, <3>1
        <3> QED
            BY ONLY <3>1, <3>2, <3>3 DEF Range
    <2> QED
        BY <2>1, <2>2, <2>5
<1>3. a.alt = None /\ a.join = None
    BY <1>1, <1>2 DEF ArgsUsed, SameButArgs, Waits
<1>4. ArgsUsed(a)
    BY <1>1, <1>2, <1>3 DEF ArgsUsed, SameButArgs
<1> QED
    BY <1>2, <1>3, <1>4 DEF Marks, SameButArgs

LEMMA PopAvailable ==
    ASSUME ExprsOK, BlocksOK, NamesOK, StackOK, stack # << >>, types' = types,
           NEW v, stack' = Returned(v),
           NEW roots, NEW live, Available(roots, live),
           NEW r, NEW l, RecordsKept(roots, live, r, l),
           NEW p \in UsedAt(1), live[p] \subseteq l[current'], r[v] \subseteq l[current'],
           \A n \in NameT : defs'[n] # None =>
                /\ defs[n] = None => Top.k.name = n
                /\ Top.k.name = n => r[defs'[n]] \subseteq l[current']
    PROVE  Available(r, l)'
<1>1. /\ Len(stack) \in Nat \ {0} /\ DOMAIN stack = 1..Len(stack) /\ Top = stack[1]
      /\ \A j \in DOMAIN stack : stack[j] \in Activation
    BY StackFacts
<1>2. Shortened(v)
    BY ReturnShortens
<1>3. DOMAIN stack' = 1..(Len(stack) - 1) /\ NameT' = NameT
    BY <1>2 DEF Shortened, NameT
<1>4. GivenOnce'
    <2> SUFFICES ASSUME NEW i \in DOMAIN stack', NEW j \in DOMAIN stack', i < j
                 PROVE  /\ stack'[i].oname # None => stack'[j].k.name # stack'[i].oname
                        /\ stack'[i].k.name # None /\ stack'[j].k.name = stack'[i].k.name =>
                            \A m \in (i + 1)..j : Marks(stack'[m]) = {}
        BY DEF GivenOnce
    <2>1. \A m \in 1..j : m + 1 \in 2..Len(stack) /\ (m + 1) - 1 = m
        BY <1>1, <1>3
    <2>2. \A m \in 1..j : SameButArgs(stack'[m], stack[m + 1])
        BY <2>1, <1>2 DEF Shortened
    <2>3. i \in 1..j /\ j \in 1..j /\ i + 1 < j + 1 /\ i + 1 \in DOMAIN stack /\ j + 1 \in DOMAIN stack
        BY <1>1, <1>3, <2>1
    <2>4. /\ stack[i + 1].oname # None => stack[j + 1].k.name # stack[i + 1].oname
          /\ stack[i + 1].k.name # None /\ stack[j + 1].k.name = stack[i + 1].k.name =>
                \A m \in (i + 2)..(j + 1) : Marks(stack[m]) = {}
        <3>1. PICK f, g : f = i + 1 /\ g = j + 1
            OBVIOUS
        <3>2. f \in DOMAIN stack /\ g \in DOMAIN stack /\ f < g /\ (f + 1)..g = (i + 2)..(j + 1)
            BY <2>3, <3>1
        <3>3. /\ stack[f].oname # None => stack[g].k.name # stack[f].oname
              /\ stack[f].k.name # None /\ stack[g].k.name = stack[f].k.name =>
                    \A m \in (f + 1)..g : Marks(stack[m]) = {}
            BY <3>2, Zenon DEF Available, GivenOnce
        <3> QED
            BY <3>1, <3>2, <3>3, Zenon
    <2>5. \A m \in (i + 1)..j : m \in 1..j /\ m + 1 \in (i + 2)..(j + 1)
        BY <2>3, <1>3
    <2>6. \A m \in 1..j : Marks(stack'[m]) = Marks(stack[m + 1])
        BY <2>2 DEF SameButArgs, Marks
    <2> QED
        BY <2>2, <2>3, <2>4, <2>5, <2>6 DEF SameButArgs
<1>5. ASSUME NEW i \in DOMAIN stack'
      PROVE  AvailableAt(r, l, i)'
    <2>1. PICK j \in 2..Len(stack) : j = i + 1
        BY <1>1, <1>3
    <2>2. i = j - 1 /\ j \in DOMAIN stack /\ j - 1 \in DOMAIN stack /\ i \in Nat
        BY <1>1, <1>3, <2>1
    <2>3. PICK a \in Activation : a = stack[j]
        BY <1>1, <2>2
    <2>4. PICK c \in Activation : c = stack[j - 1]
        BY <1>1, <2>2
    <2>5. PICK d : d = stack'[i]
        OBVIOUS
    <2>6. Waits(c, a) /\ \A n \in a.scope : c.oname # n => defs[n] # None
        BY <2>3, <2>4, StackFacts
    <2>7. SameButArgs(d, a) /\ (j > 2 => d.args = a.args) /\ (j = 2 => d.args = Append(a.args, v))
        BY <1>2, <2>2, <2>3, <2>5 DEF Shortened
    <2>8. Covers(live, l, j, i)
        BY <1>2, <2>2, ShortCovers
    <2>9. /\ \A n \in a.scope : defs[n] # None /\ c.oname # n => HasAt(r, l, i, defs[n])'
          /\ ArgsUsed(a) => \A w \in Range(a.args) : HasAt(r, l, i, w)'
          /\ ContAt(l, i)'
          /\ \A n \in NameT : a.k.name = n /\ defs[n] # None =>
                \A b \in GivenIn(i)' : r[defs'[n]] \subseteq l[b]
          /\ JoinAt(l, i)'
        BY <2>2, <2>3, <2>4, <2>5, <2>7, <2>8, AvailableLifted DEF Available
    <2>10. \A m \in 1..i : Marks(stack'[m]) = Marks(stack[m + 1])
        BY <2>1, <2>2, <1>2 DEF Shortened, SameButArgs, Marks
    <2>11. ASSUME j = 2
           PROVE  c = Top /\ UsedAt(i)' \subseteq {current'} \cup Marks(a)
        BY <2>11, <2>3, <2>4, <2>2, <2>10, <1>1 DEF UsedAt
    <2>12. ScopeAt(r, l, i)'
        <3> SUFFICES ASSUME NEW n \in d.scope, defs'[n] # None, i > 1 => stack'[i - 1].oname # n,
                            NEW b \in UsedAt(i)'
                     PROVE  r[defs'[n]] \subseteq l[b]
            BY <2>5 DEF ScopeAt, HasAt
        <3>1. n \in a.scope /\ n \in NameT
            BY <2>7 DEF SameButArgs, Activation
        <3>2. CASE c.oname # n
            BY <3>1, <3>2, <2>6, <2>9 DEF HasAt
        <3>3. CASE c.oname = n
            <4>1. j = 2
                BY <1>2, <2>2, <2>4, <3>3, <2>1 DEF Shortened, SameButArgs
            <4>2. Marks(a) = {} /\ c.k.name = n
                BY <2>6, <3>1, <3>3, Suggested, NodesAssumption, SeqDomain DEF NameT, NamesOK
            <4>3. b = current'
                BY <2>11, <4>1, <4>2
            <4> QED
                BY <2>11, <3>1, <4>1, <4>2, <4>3
        <3> QED
            BY <3>2, <3>3
    <2>13. ArgsAt(r, l, i)'
        <3> SUFFICES ASSUME ArgsUsed(d), NEW w \in Range(d.args), NEW b \in UsedAt(i)'
                     PROVE  r[w] \subseteq l[b]
            BY <2>5 DEF ArgsAt, HasAt, ArgsUsed
        <3>1. CASE j > 2
            BY <3>1, <2>7, <2>9 DEF ArgsUsed, SameButArgs, HasAt
        <3>2. CASE j = 2
            <4>1. Marks(a) = {} /\ ArgsUsed(a) /\ Range(d.args) = Range(a.args) \cup {v}
                BY <3>2, <2>6, <2>7, UsedWithoutMarks
            <4>2. CASE w = v
                BY <4>1, <4>2, <3>2, <2>11
            <4>3. CASE w \in Range(a.args)
                BY <4>1, <4>3, <2>9 DEF HasAt
            <4> QED
                BY <4>1, <4>2, <4>3
        <3> QED
            BY <3>1, <3>2
    <2>14. GivenAt(r, l, i)'
        <3> SUFFICES ASSUME NEW n \in NameT, d.k.name = n, defs'[n] # None, NEW b \in GivenIn(i)'
                     PROVE  r[defs'[n]] \subseteq l[b]
            BY <1>3, <2>5 DEF GivenAt
        <3>1. a.k.name = n
            BY <2>7 DEF SameButArgs
        <3>2. CASE defs[n] # None
            BY <3>1, <3>2, <2>9
        <3>3. CASE defs[n] = None
            <4>1. Top.k.name = n /\ n # None
                BY <3>3, NodesAssumption, SeqDomain DEF NameT, NamesOK
            <4>2. \A m \in 2..j : Marks(stack[m]) = {}
                <5>1. 1 \in DOMAIN stack /\ 1 < j /\ 1 + 1 = 2
                    BY <1>1, <2>1
                <5>2. stack[1].k.name # None /\ stack[j].k.name = stack[1].k.name
                    BY <4>1, <3>1, <2>3, <1>1
                <5> QED
                    BY <5>1, <5>2, <2>2 DEF Available, GivenOnce
            <4>3. \A m \in 1..i : Marks(stack'[m]) = {}
                <5>1. \A m \in 1..i : m + 1 \in 2..j
                    BY <2>1, <2>2
                <5> QED
                    BY <5>1, <4>2, <2>10
            <4>4. UsedAt(i)' = {current'}
                BY <4>3 DEF UsedAt
            <4>5. a.join = None
                BY <4>2, <2>3 DEF Marks
            <4>6. b = current'
                BY <4>4, <4>5, <2>5, <2>7 DEF GivenIn, SameButArgs
            <4> QED
                BY <4>1, <4>6
        <3> QED
            BY <3>2, <3>3
    <2> QED
        BY <2>9, <2>12, <2>13, <2>14 DEF AvailableAt
<1> QED
    BY <1>4, <1>5 DEF Available

LEMMA PushAvailable ==
    ASSUME ExprsOK, BlocksOK, NamesOK, StackOK, stack # << >>, NameT \subseteq NameT',
           NEW a, NEW e, stack' = Calls(a, e), a.k = Top.k, a.oname = Top.oname,
           Marks(e) = {}, e.args = << >>, e.scope = Top.scope,
           \A n \in a.scope : n \in Top.scope \/ e.oname = n,
           ArgsUsed(a) => a.args = << >> \/ (a.args = Top.args /\ ArgsUsed(Top)),
           NEW roots, NEW live, Available(roots, live),
           NEW r, NEW l, RecordsKept(roots, live, r, l),
           \A b \in Marks(a) \cup {current'} : \E p \in UsedAt(1) : live[p] \subseteq l[b],
           \A n \in NameT : defs[n] = None /\ defs'[n] # None => Top.oname = n /\ a.join # None,
           \A n \in NameT' \ NameT : defs'[n] = None,
           e.oname # None => e.oname \notin NameT,
           e.k.name \in NameT => e.k = Top.k /\ Marks(a) = {},
           e.k.cont \notin {None, Return} => Leads(l, current, e.k.cont)',
           a.join = None => Top.join = None,
           a.join # None =>
                /\ \A n \in NameT : Top.k.name = n /\ defs'[n] # None => r[defs'[n]] \subseteq l[a.join]
                /\ a.alt # None => Leads(l, a.alt, a.join)'
    PROVE  Available(r, l)'
<1>1. /\ Len(stack) \in Nat \ {0} /\ DOMAIN stack = 1..Len(stack) /\ Top = stack[1]
      /\ \A j \in DOMAIN stack : stack[j] \in Activation
    BY StackFacts
<1>2. Lengthened(a, e)
    BY CallLengthens
<1>3. /\ DOMAIN stack' = 1..(Len(stack) + 1) /\ stack'[1] = e /\ stack'[2] = a
      /\ \A j \in 2..Len(stack) : stack'[j + 1] = stack[j]
    BY <1>2 DEF Lengthened
<1>4. PICK f \in Activation : f = Top
    BY <1>1
<1>5. /\ \A n \in NameT : defs[n] # None => defs[n] \in Value /\ defs'[n] = defs[n]
      /\ None \notin NameT
    BY SeqDomain, NodesAssumption DEF NamesOK, NameT, Value, RecordsKept
<1>6. /\ Covers(live, l, 1, 1)
      /\ \A j \in DOMAIN stack : Covers(live, l, j, j + 1)
    BY <1>2, LongCovers
<1>7. 1 \in DOMAIN stack /\ 1 + 1 = 2 /\ UsedAt(1) \subseteq Block
    BY <1>1, UsedBlocks
<1>8. UsedAt(1)' = {current'}
    BY <1>3 DEF UsedAt
<1>9. AvailableAt(roots, live, 1)
    BY <1>7 DEF Available
<1>10. /\ \A n \in f.scope : defs[n] # None /\ n \in NameT
       /\ f.k.name \in NameT \cup {None}
       /\ f.k.cont \notin {None, Return} => f.k.cont \in Block
       /\ Range(f.args) \subseteq Value
    BY <1>4, TopFacts, RangeWithin DEF Activation, Named, Cont, Joins
<1>11. ASSUME NEW j \in {1, 2}
       PROVE  /\ \A n \in f.scope, b \in UsedAt(j)' : r[defs'[n]] \subseteq l[b]
              /\ ArgsUsed(f) => \A v \in Range(f.args), b \in UsedAt(j)' : r[v] \subseteq l[b]
              /\ f.k.cont \notin {None, Return} =>
                    \A b \in UsedAt(j)' : l[f.k.cont] \subseteq l[b] \cup Range(params'[f.k.cont])
              /\ f.join = None => \A n \in NameT : f.k.name = n /\ defs[n] # None =>
                    \A b \in UsedAt(j)' : r[defs'[n]] \subseteq l[b]
    <2>1. Covers(live, l, 1, j)
        BY <1>6, <1>7
    <2>2. /\ \A v \in Value : HasAt(roots, live, 1, v) => HasAt(r, l, j, v)'
          /\ \A c \in Block :
                (\A p \in UsedAt(1) : Leads(live, p, c)) => \A p \in UsedAt(j)' : Leads(l, p, c)'
        BY <1>7, <2>1, Lifted
    <2>3. /\ \A v \in Value : HasAt(roots, live, 1, v) => \A b \in UsedAt(j)' : r[v] \subseteq l[b]
          /\ \A c \in Block : (\A p \in UsedAt(1) : Leads(live, p, c)) =>
                \A b \in UsedAt(j)' : l[c] \subseteq l[b] \cup Range(params'[c])
        BY <2>2 DEF HasAt, Leads
    <2>4. \A n \in f.scope, b \in UsedAt(j)' : r[defs'[n]] \subseteq l[b]
        <3>1. \A n \in f.scope : HasAt(roots, live, 1, defs[n])
            BY <1>4, <1>1, <1>9, <1>10 DEF AvailableAt, ScopeAt
        <3>2. \A n \in f.scope : defs'[n] = defs[n] /\ defs[n] \in Value
            BY <1>5, <1>10
        <3> QED
            BY ONLY <2>3, <3>1, <3>2
    <2>5. ArgsUsed(f) => \A v \in Range(f.args), b \in UsedAt(j)' : r[v] \subseteq l[b]
        BY <1>4, <1>1, <1>9, <1>10, <2>3 DEF AvailableAt, ArgsAt
    <2>6. f.k.cont \notin {None, Return} =>
                \A b \in UsedAt(j)' : l[f.k.cont] \subseteq l[b] \cup Range(params'[f.k.cont])
        BY <1>4, <1>1, <1>9, <1>10, <2>3 DEF AvailableAt, ContAt
    <2>7. f.join = None => \A n \in NameT : f.k.name = n /\ defs[n] # None =>
                \A b \in UsedAt(j)' : r[defs'[n]] \subseteq l[b]
        <3>1. f.join = None => \A n \in NameT : f.k.name = n /\ defs[n] # None =>
                HasAt(roots, live, 1, defs[n])
            BY <1>4, <1>1, <1>9 DEF AvailableAt, GivenAt, GivenIn, HasAt
        <3> QED
            BY ONLY <2>3, <3>1, <1>5
    <2> QED
        BY <2>4, <2>5, <2>6, <2>7
<1>12. AvailableAt(r, l, 1)'
    <2>1. ScopeAt(r, l, 1)'
        BY <1>3, <1>4, <1>11 DEF ScopeAt, HasAt
    <2>2. ArgsAt(r, l, 1)'
        BY <1>3 DEF ArgsAt, Range
    <2>3. ContAt(l, 1)'
        BY <1>3, <1>8 DEF ContAt, Leads
    <2>4. GivenAt(r, l, 1)'
        <3> SUFFICES ASSUME NEW n \in NameT', e.k.name = n, defs'[n] # None, NEW b \in GivenIn(1)'
                     PROVE  r[defs'[n]] \subseteq l[b]
            BY <1>3 DEF GivenAt
        <3>1. n \in NameT /\ e.k = Top.k /\ Marks(a) = {}
            OBVIOUS
        <3>2. f.join = None /\ a.join = None /\ e.join = None
            BY <3>1, <1>4 DEF Marks
        <3>3. defs[n] # None
            BY <3>1, <3>2
        <3>4. b \in UsedAt(1)'
            BY <1>3, <3>2 DEF GivenIn
        <3> QED
            BY <3>1, <3>2, <3>3, <3>4, <1>4, <1>11
    <2>5. JoinAt(l, 1)'
        BY <1>3 DEF JoinAt, Marks
    <2> QED
        BY <2>1, <2>2, <2>3, <2>4, <2>5 DEF AvailableAt
<1>13. AvailableAt(r, l, 2)'
    <2>1. ScopeAt(r, l, 2)'
        <3> SUFFICES ASSUME NEW n \in a.scope, e.oname # n, NEW b \in UsedAt(2)'
                     PROVE  r[defs'[n]] \subseteq l[b]
            BY <1>3 DEF ScopeAt, HasAt
        <3> QED
            BY <1>4, <1>11
    <2>2. ArgsAt(r, l, 2)'
        <3> SUFFICES ASSUME ArgsUsed(a), NEW v \in Range(a.args), NEW b \in UsedAt(2)'
                     PROVE  r[v] \subseteq l[b]
            BY <1>3 DEF ArgsAt, HasAt, ArgsUsed
        <3>1. a.args # << >>
            BY DEF Range
        <3> QED
            BY <1>4, <1>11, <3>1
    <2>3. ContAt(l, 2)'
        BY <1>3, <1>4, <1>11 DEF ContAt, Leads
    <2>4. GivenAt(r, l, 2)'
        <3> SUFFICES ASSUME NEW n \in NameT', a.k.name = n, defs'[n] # None, NEW b \in GivenIn(2)'
                     PROVE  r[defs'[n]] \subseteq l[b]
            BY <1>3 DEF GivenAt
        <3>1. n \in NameT
            OBVIOUS
        <3>2. CASE a.join = None
            BY <1>3, <1>4, <3>1, <3>2, <1>11 DEF GivenIn
        <3>3. CASE a.join # None
            BY <1>3, <3>1, <3>3 DEF GivenIn
        <3> QED
            BY <3>2, <3>3
    <2>5. JoinAt(l, 2)'
        BY <1>3 DEF JoinAt, Leads
    <2> QED
        BY <2>1, <2>2, <2>3, <2>4, <2>5 DEF AvailableAt
<1>14. ASSUME NEW i \in 2..Len(stack)
       PROVE  AvailableAt(r, l, i + 1)'
    <2>1. PICK d \in Activation : d = stack[i]
        BY <1>1
    <2>2. stack'[i + 1] = d /\ (i + 1) - 1 = i /\ i > 1 /\ i + 1 > 1 /\ i \in DOMAIN stack
        BY <1>1, <1>3, <2>1
    <2>3. stack'[i].oname = stack[i - 1].oname
        BY <1>1, <1>3, <2>2
    <2>4. PICK c : c = stack[i - 1]
        OBVIOUS
    <2>5. \A n \in d.scope : c.oname # n => defs[n] # None
        BY <2>1, <2>4, StackFacts
    <2>6. /\ \A n \in d.scope : defs[n] # None /\ c.oname # n => HasAt(r, l, i + 1, defs[n])'
          /\ ArgsUsed(d) => \A w \in Range(d.args) : HasAt(r, l, i + 1, w)'
          /\ ContAt(l, i + 1)'
          /\ \A n \in NameT : d.k.name = n /\ defs[n] # None =>
                \A b \in GivenIn(i + 1)' : r[defs'[n]] \subseteq l[b]
          /\ JoinAt(l, i + 1)'
        BY <2>2, <2>1, <1>6, <2>4, AvailableLifted DEF Available, SameButArgs
    <2>7. ScopeAt(r, l, i + 1)'
        <3> SUFFICES ASSUME NEW n \in d.scope, c.oname # n, NEW b \in UsedAt(i + 1)'
                     PROVE  r[defs'[n]] \subseteq l[b]
            BY <2>2, <2>3, <2>4 DEF ScopeAt, HasAt
        <3> QED
            BY <2>5, <2>6 DEF HasAt
    <2>8. ArgsAt(r, l, i + 1)'
        BY <2>2, <2>6 DEF ArgsAt, HasAt, ArgsUsed
    <2>9. GivenAt(r, l, i + 1)'
        <3> SUFFICES ASSUME NEW n \in NameT', d.k.name = n, defs'[n] # None, NEW b \in GivenIn(i + 1)'
                     PROVE  r[defs'[n]] \subseteq l[b]
            BY <2>2 DEF GivenAt
        <3>1. n \in NameT
            OBVIOUS
        <3>2. defs[n] # None
            BY <3>1, <1>5, <1>1, <2>1, <2>2, <1>7 DEF Available, GivenOnce
        <3> QED
            BY <3>1, <3>2, <2>6
    <2> QED
        BY <2>6, <2>7, <2>8, <2>9 DEF AvailableAt
<1>15. GivenOnce'
    <2> SUFFICES ASSUME NEW i \in DOMAIN stack', NEW j \in DOMAIN stack', i < j
                 PROVE  /\ stack'[i].oname # None => stack'[j].k.name # stack'[i].oname
                        /\ stack'[i].k.name # None /\ stack'[j].k.name = stack'[i].k.name =>
                            \A m \in (i + 1)..j : Marks(stack'[m]) = {}
        BY DEF GivenOnce
    <2>1. \A m \in 2..(Len(stack) + 1) : /\ m - 1 \in DOMAIN stack
                                         /\ stack'[m].k = stack[m - 1].k
                                         /\ stack'[m].oname = stack[m - 1].oname
                                         /\ m > 2 => stack'[m] = stack[m - 1]
        <3> TAKE m \in 2..(Len(stack) + 1)
        <3>1. CASE m = 2
            BY <3>1, <1>1, <1>3
        <3>2. CASE m > 2
            BY <3>2, <1>1, <1>3
        <3> QED
            BY <3>1, <3>2, <1>1
    <2>2. j \in 2..(Len(stack) + 1) /\ j - 1 \in DOMAIN stack
        BY <1>1, <1>3
    <2>3. stack'[j].k.name \in NameT \cup {None} /\ stack'[j].k = stack[j - 1].k
        BY <2>1, <2>2, <1>1 DEF Activation, Cont
    <2>4. ASSUME i > 1
          PROVE  /\ stack'[i].oname # None => stack'[j].k.name # stack'[i].oname
                 /\ stack'[i].k.name # None /\ stack'[j].k.name = stack'[i].k.name =>
                     \A m \in (i + 1)..j : Marks(stack'[m]) = {}
        <3>1. i \in 2..(Len(stack) + 1) /\ i - 1 < j - 1 /\ i - 1 \in DOMAIN stack
            BY <2>4, <1>1, <1>3
        <3>2. /\ stack[i - 1].oname # None => stack[j - 1].k.name # stack[i - 1].oname
              /\ stack[i - 1].k.name # None /\ stack[j - 1].k.name = stack[i - 1].k.name =>
                    \A m \in i..(j - 1) : Marks(stack[m]) = {}
            <4>1. (i - 1) + 1 = i
                BY <3>1
            <4> QED
                BY <3>1, <2>2, <4>1 DEF Available, GivenOnce
        <3>3. \A m \in (i + 1)..j : m \in 2..(Len(stack) + 1) /\ m > 2 /\ m - 1 \in i..(j - 1)
            BY <3>1, <2>2
        <3> QED
            BY <2>1, <2>2, <3>1, <3>2, <3>3
    <2>5. ASSUME i = 1
          PROVE  /\ stack'[i].oname # None => stack'[j].k.name # stack'[i].oname
                 /\ stack'[i].k.name # None /\ stack'[j].k.name = stack'[i].k.name =>
                     \A m \in (i + 1)..j : Marks(stack'[m]) = {}
        <3>1. e.oname # None => stack'[j].k.name # e.oname
            BY <2>3
        <3>2. ASSUME e.k.name # None, stack'[j].k.name = e.k.name, NEW m \in 2..j
              PROVE  Marks(stack'[m]) = {}
            <4>1. e.k = Top.k /\ Marks(a) = {}
                BY <2>3, <3>2
            <4>2. CASE m = 2
                BY <4>1, <4>2, <1>3
            <4>3. CASE m > 2
                <5>1. m \in 2..(Len(stack) + 1) /\ 1 < j - 1 /\ m - 1 \in 2..(j - 1) /\ 1 + 1 = 2
                    BY <4>3, <2>2
                <5>2. stack[1].k.name # None /\ stack[j - 1].k.name = stack[1].k.name
                    BY <4>1, <3>2, <2>3, <1>1
                <5>3. Marks(stack[m - 1]) = {}
                    BY <5>1, <5>2, <2>2, <1>7 DEF Available, GivenOnce
                <5> QED
                    BY <5>1, <5>3, <4>3, <2>1
            <4> QED
                BY <4>2, <4>3, <2>2
        <3>3. i + 1 = 2
            BY <2>5
        <3> QED
            BY <2>5, <3>1, <3>2, <3>3, <1>3
    <2>6. i = 1 \/ i > 1
        BY <1>1, <1>3
    <2> QED
        BY <2>4, <2>5, <2>6
<1>16. ASSUME NEW j \in DOMAIN stack'
       PROVE  AvailableAt(r, l, j)'
    <2>1. CASE j \in {1, 2}
        BY <2>1, <1>12, <1>13
    <2>2. CASE j \notin {1, 2}
        <3>1. j - 1 \in 2..Len(stack) /\ (j - 1) + 1 = j
            BY <2>2, <1>1, <1>3
        <3>2. AvailableAt(r, l, (j - 1) + 1)'
            BY <3>1, <1>14
        <3> QED
            BY <3>1, <3>2
    <2> QED
        BY <2>1, <2>2
<1> QED
    BY <1>15, <1>16 DEF Available

-----------------------------------------------------------------------------
(* What the records say of values, blocks and transfers.                   *)

ValuesRooted(roots) ==
    /\ roots[Null] = {}
    /\ \A e \in DOMAIN exprs : \A v \in Range(exprs[e].args) : roots[v] \subseteq roots[e]
    /\ \A b \in Block : \A v \in Range(params[b]) : v \in roots[v]

LeadsFrom(roots, live, p, t) ==
    /\ \A c \in Range(t.conts) \ {Return} : Leads(live, p, c)
    /\ \A v \in Range(t.args) : roots[v] \subseteq live[p]

BlocksLead(roots, live) ==
    /\ live[Entry] \subseteq Range(params[Entry])
    /\ \A b \in Block : \A v \in Range(params[b]) : roots[v] \subseteq live[b]
    /\ \A p \in Block : transfer[p] # None => LeadsFrom(roots, live, p, transfer[p])

ParamsOnce == \A a, b \in Block : Range(params[a]) \cap Range(params[b]) # {} => a = b

Recorded(roots, live) == ValuesRooted(roots) /\ BlocksLead(roots, live) /\ Available(roots, live)

\* The record of values with one more that comes from X.
Root(roots, X) == [v \in Value' |-> IF v \in Value THEN roots[v] ELSE X]

LEMMA ParamsAre ==
    ASSUME BlocksOK
    PROVE  Entry \in Block /\ \A b \in Block : Range(params[b]) \subseteq DOMAIN exprs
<1>1. Entry \in Block /\ \A b \in Block : params[b] \in Seq(DOMAIN exprs)
    BY DEF BlocksOK, Block
<1>2. \A b \in Block : Range(params[b]) \subseteq DOMAIN exprs
    BY <1>1, RangeWithin
<1> QED
    BY <1>1, <1>2

LEMMA ValueAdded ==
    ASSUME ExprsOK, NEW x, x.args \in Seq(Value), exprs' = Append(exprs, x),
           NEW roots, NEW X, NEW r, r = Root(roots, X), roots[Null] = {},
           \A v \in Range(x.args) : roots[v] \subseteq X,
           \A e \in DOMAIN exprs : \A v \in Range(exprs[e].args) : roots[v] \subseteq roots[e]
    PROVE  /\ \A v \in Value : r[v] = roots[v]
           /\ r[Len(exprs) + 1] = X /\ r[Null] = {}
           /\ Value \subseteq Value' /\ DOMAIN exprs' = DOMAIN exprs \cup {Len(exprs) + 1}
           /\ Len(exprs) + 1 \notin Value
           /\ \A e \in DOMAIN exprs' : \A v \in Range(exprs'[e].args) : r[v] \subseteq r[e]
<1>1. /\ DOMAIN exprs = 1..Len(exprs) /\ Len(exprs) \in Nat /\ Null \notin Nat
      /\ \A e \in DOMAIN exprs : Range(exprs[e].args) \subseteq (1..(e - 1)) \cup {Null}
    BY Zenon, ValuesAre, NodesAssumption DEF ExprsOK
<1>2. /\ DOMAIN exprs' = 1..(Len(exprs) + 1) /\ exprs'[Len(exprs) + 1] = x
      /\ \A e \in DOMAIN exprs : exprs'[e] = exprs[e]
    BY <1>1 DEF ExprsOK
<1>3. DOMAIN exprs' = DOMAIN exprs \cup {Len(exprs) + 1} /\ Len(exprs) + 1 \notin Value
    BY <1>1, <1>2 DEF Value
<1>4. Value' = Value \cup {Len(exprs) + 1}
    BY <1>3 DEF Value
<1>5. (\A v \in Value : r[v] = roots[v]) /\ r[Len(exprs) + 1] = X
    BY <1>3, <1>4 DEF Root
<1>6. Null \in Value /\ r[Null] = {}
    BY <1>5 DEF Value
<1>7. ASSUME NEW e \in DOMAIN exprs
      PROVE  Range(exprs[e].args) \subseteq Value
    <2>1. 1..(e - 1) \subseteq DOMAIN exprs
        BY <1>1
    <2>2. Range(exprs[e].args) \subseteq (1..(e - 1)) \cup {Null}
        BY <1>1
    <2> QED
        BY <2>1, <2>2 DEF Value
<1>8. Range(x.args) \subseteq Value
    BY RangeWithin
<1>9. ASSUME NEW e \in DOMAIN exprs', NEW v \in Range(exprs'[e].args)
      PROVE  r[v] \subseteq r[e]
    BY <1>2, <1>7, <1>9, <1>5, <1>8, <1>3 DEF Value
<1> QED
    BY <1>3, <1>4, <1>5, <1>6, <1>9

LEMMA BlocksStillLead ==
    ASSUME BlocksOK, Block \subseteq Block',
           NEW roots, NEW live, BlocksLead(roots, live), NEW r, NEW l,
           RecordsKept(roots, live, r, l), DOMAIN exprs \subseteq Value,
           \A b \in Block' \ Block : \A v \in Range(params'[b]) : r[v] \subseteq l[b],
           \A p \in Block' : \/ transfer'[p] = None
                             \/ p \in Block /\ transfer'[p] = transfer[p]
                             \/ LeadsFrom(r, l, p, transfer[p])'
    PROVE  BlocksLead(r, l)'
<1>1. Entry \in Block /\ \A b \in Block : Range(params[b]) \subseteq Value
    BY ParamsAre
<1>2. l[Entry] \subseteq Range(params'[Entry])
    BY <1>1 DEF BlocksLead, RecordsKept
<1>3. ASSUME NEW b \in Block', NEW v \in Range(params'[b])
      PROVE  r[v] \subseteq l[b]
    BY <1>1, <1>3 DEF BlocksLead, RecordsKept
<1>4. ASSUME NEW p \in Block', transfer'[p] # None
      PROVE  LeadsFrom(r, l, p, transfer[p])'
    <2>1. CASE p \in Block /\ transfer'[p] = transfer[p]
        <3>1. PICK t : t = transfer[p]
            OBVIOUS
        <3>2. TransferOK(t) /\ LeadsFrom(roots, live, p, t)
            BY <2>1, <3>1, <1>4 DEF BlocksOK, BlocksLead
        <3>3. Range(t.args) \subseteq Value /\ Range(t.conts) \ {Return} \subseteq Block
            BY <3>2 DEF TransferOK, Joins, Arms, Range
        <3>4. \A c \in Range(t.conts) \ {Return} : l[c] \subseteq l[p] \cup Range(params'[c])
            BY <2>1, <3>2, <3>3 DEF LeadsFrom, Leads, RecordsKept
        <3>5. \A v \in Range(t.args) : r[v] \subseteq l[p]
            BY <2>1, <3>2, <3>3 DEF LeadsFrom, RecordsKept
        <3> QED
            BY <2>1, <3>1, <3>4, <3>5 DEF LeadsFrom, Leads
    <2> QED
        BY <2>1, <1>4
<1> QED
    BY <1>2, <1>3, <1>4 DEF BlocksLead

Allocates(x) == x.args \in Seq(Value) /\ exprs' = Append(exprs, x)

LEMMA NewValueRooted ==
    ASSUME ExprsOK, BlocksOK, NEW x, Allocates(x),
           NEW roots, ValuesRooted(roots), NEW X, NEW r, r = Root(roots, X),
           \A v \in Range(x.args) : roots[v] \subseteq X,
           \A b \in Block' : \/ b \in Block /\ params'[b] = params[b]
                             \/ Range(params'[b]) \subseteq {Len(exprs) + 1} \cap X
    PROVE  /\ ValuesRooted(r)' /\ \A v \in Value : r[v] = roots[v]
           /\ r[Len(exprs) + 1] = X
<1>1. /\ \A v \in Value : r[v] = roots[v]
      /\ r[Len(exprs) + 1] = X /\ r[Null] = {}
      /\ \A e \in DOMAIN exprs' : \A v \in Range(exprs'[e].args) : r[v] \subseteq r[e]
    BY ValueAdded DEF ValuesRooted, Allocates
<1>2. \A b \in Block : Range(params[b]) \subseteq Value
    BY ParamsAre DEF Value
<1>3. ASSUME NEW b \in Block', NEW v \in Range(params'[b])
      PROVE  v \in r[v]
    BY <1>1, <1>2, <1>3 DEF ValuesRooted
<1> QED
    BY <1>1, <1>3 DEF ValuesRooted

\* A name that is given v has it, unless it had a value; the others keep theirs.
LEMMA NameGiven ==
    ASSUME NamesOK, NEW n \in NameT \cup {None}, NEW v, defs' = Define(defs, n, v)
    PROVE  \A m \in NameT :
                \/ defs'[m] = defs[m]
                \/ m = n /\ defs[m] = None /\ defs'[m] = v
BY SeqDomain DEF NamesOK, NameT, Define

\* What can be used in the current block.
LEMMA UsableNow ==
    ASSUME Converts, stack # << >>, NEW roots, NEW live, Available(roots, live)
    PROVE  /\ \A n \in Top.scope : defs[n] # None /\ roots[defs[n]] \subseteq live[current]
           /\ ArgsUsed(Top) => \A v \in Range(Top.args) : roots[v] \subseteq live[current]
           /\ Top.k.cont \notin {None, Return} => Leads(live, current, Top.k.cont)
           /\ \A n \in NameT : Top.join = None /\ Top.k.name = n /\ defs[n] # None =>
                roots[defs[n]] \subseteq live[current]
BY TopFacts, StackFacts, UsedBlocks DEF Converts, Available, AvailableAt, ScopeAt, ArgsAt, ContAt, GivenAt,
    GivenIn, HasAt, Named

LEMMA ContinueRecorded ==
    ASSUME Converts, stack # << >>, Top.form \in {"expr", "prim"}, DOMAIN exprs \subseteq Value,
           NEW v, Continue(Top.k, v), UNCHANGED <<params, types, current>>,
           NEW roots, NEW live, Recorded(roots, live),
           NEW r, \A w \in Value : r[w] = roots[w], ValuesRooted(r)', r[v] \subseteq live[current]
    PROVE  Recorded(r, live)'
<1>1. ExprsOK /\ BlocksOK /\ NamesOK /\ StackOK
    BY DEF Converts
<1>2. /\ Top \in Activation /\ Top.join = None /\ Top.k \in Cont
    BY <1>1, TopFacts DEF Resumed, Activation
<1>3. BlocksLead(roots, live) /\ Available(roots, live)
    BY DEF Recorded
<1>4. Block' = Block /\ stack' = Returned(v) /\ current' = current
    BY DEF Block, Continue
<1>5. None \notin NameT /\ current \in Block /\ 1 \in DOMAIN stack
    BY <1>1, StackFacts, SeqDomain, NodesAssumption DEF NamesOK, NameT, BlocksOK
<1>6. \A n \in NameT : defs[n] # None => defs[n] \in Value
    BY <1>1, SeqDomain DEF NamesOK, NameT, Value
<1>7. /\ \A n \in NameT : \/ defs'[n] = defs[n]
                          \/ Top.k.name = n /\ defs[n] = None /\ defs'[n] = v
      /\ \A p \in Block :
            \/ transfer'[p] = transfer[p]
            \/ /\ p = current /\ Top.k.cont # None
               /\ transfer'[p] = Goto(v, Top.k.cont)
    <2>1. CASE IsTrivial(Top.k)
        BY <2>1, <1>1, SeqDomain DEF Continue, BlocksOK, Block, IsTrivial
    <2>2. CASE ~IsTrivial(Top.k)
        <3>1. transfer' = transfer /\ defs' = Define(defs, Top.k.name, v)
            BY <2>2 DEF Continue
        <3>2. Top.k.name \in NameT \cup {None}
            BY <1>2 DEF Cont
        <3> QED
            BY <1>1, <3>1, <3>2, NameGiven
    <2> QED
        BY <2>1, <2>2
<1>8. RecordsKept(roots, live, r, live)
    BY <1>7 DEF RecordsKept
<1>9. BlocksLead(r, live)'
    <2>1. ASSUME NEW p \in Block', transfer'[p] # transfer[p]
          PROVE  LeadsFrom(r, live, p, transfer[p])'
        <3>1. PICK c : c = Top.k.cont
            OBVIOUS
        <3>2. PICK t : t = Goto(v, c)
            OBVIOUS
        <3>3. p = current /\ c # None /\ transfer'[p] = t
            BY <2>1, <3>1, <3>2, <1>4, <1>7
        <3>4. Range(t.args) = {v} /\ Range(t.conts) = {c}
            BY ONLY <3>2 DEF Goto, Range
        <3>5. c # Return => Leads(live, current, c)
            BY <3>1, <3>3, <1>3, UsableNow
        <3>6. \A d \in Range(t.conts) \ {Return} : live[d] \subseteq live[p] \cup Range(params'[d])
            BY <3>3, <3>4, <3>5 DEF Leads
        <3> QED
            BY <3>3, <3>4, <3>6 DEF LeadsFrom, Leads
    <2> QED
        BY <2>1, <1>1, <1>3, <1>4, <1>8, BlocksStillLead
<1>10. Available(r, live)'
    <2>1. current \in UsedAt(1)
        BY <1>1, <1>5, UsedBlocks
    <2>2. ASSUME NEW n \in NameT, defs'[n] # None
          PROVE  /\ defs[n] = None => Top.k.name = n
                 /\ Top.k.name = n => r[defs'[n]] \subseteq live[current']
        BY <2>2, <1>2, <1>3, <1>4, <1>6, UsableNow, <1>7
    <2>3. r[v] \subseteq live[current'] /\ live[current] \subseteq live[current']
        BY <1>4
    <2> QED
        BY <2>1, <2>2, <2>3, <1>1, <1>3, <1>4, <1>8, PopAvailable
<1> QED
    BY <1>9, <1>10 DEF Recorded

LEMMA IdRecorded ==
    ASSUME Converts, NEW n \in NameT, Id(n), NEW roots, NEW live, Recorded(roots, live)
    PROVE  Recorded(roots, live)'
BY UsableNow, ContinueRecorded DEF Id, InForm, Recorded, ValuesRooted, Block, Value

\* An expression without parameters of its own comes from what its operands do.
LEMMA AddedRecorded ==
    ASSUME Converts, stack # << >>, Top.form \in {"expr", "prim"},
           NEW x, x.args \in Seq(Value), exprs' = Append(exprs, x),
           Continue(Top.k, Len(exprs) + 1), UNCHANGED <<params, types, current>>,
           NEW roots, NEW live, Recorded(roots, live),
           \A v \in Range(x.args) : roots[v] \subseteq live[current]
    PROVE  \E r : Recorded(r, live)'
<1>1. PICK X : X = live[current]
    OBVIOUS
<1>2. PICK r : r = Root(roots, X)
    OBVIOUS
<1>3. ExprsOK /\ BlocksOK /\ Block' = Block /\ ValuesRooted(roots)
    BY DEF Converts, Block, Recorded
<1>4. /\ ValuesRooted(r)' /\ \A v \in Value : r[v] = roots[v]
      /\ r[Len(exprs) + 1] = X
    BY <1>1, <1>2, <1>3, NewValueRooted DEF Allocates
<1>5. DOMAIN exprs \subseteq Value /\ r[Len(exprs) + 1] \subseteq live[current]
    BY <1>1, <1>4 DEF Value
<1>6. Recorded(r, live)'
    BY <1>4, <1>5, ContinueRecorded
<1> QED
    BY <1>6

LEMMA ConstRecorded ==
    ASSUME Converts, Const, NEW roots, NEW live, Recorded(roots, live)
    PROVE  \E r : Recorded(r, live)'
<1>1. PICK x : x = [kind |-> "const", args |-> << >>]
    OBVIOUS
<1>2. x.args \in Seq(Value) /\ Range(x.args) = {}
    BY <1>1 DEF Range
<1>3. /\ stack # << >> /\ Top.form = "expr" /\ exprs' = Append(exprs, x)
      /\ Continue(Top.k, Len(exprs) + 1) /\ UNCHANGED <<params, types, current>>
    BY <1>1 DEF Const, InForm
<1> QED
    BY <1>2, <1>3, AddedRecorded

LEMMA ApplyRecorded ==
    ASSUME Converts, Apply, NEW roots, NEW live, Recorded(roots, live)
    PROVE  \E r : Recorded(r, live)'
BY TopFacts, UsableNow, AddedRecorded DEF Apply, InForm, Converts, Activation, Recorded, ArgsUsed

\* to_cps of a part of the innermost expression: nothing is allocated.
LEMMA PartRecorded ==
    ASSUME Converts, stack # << >>, Top.form \in {"expr", "prim", "call"},
           UNCHANGED <<exprs, params, transfer, current>>, NameT \subseteq NameT',
           \A n \in NameT : defs'[n] = defs[n], \A n \in NameT' \ NameT : defs'[n] = None,
           NEW a, NEW e, stack' = Calls(a, e), a.k = Top.k, a.oname = Top.oname,
           a.alt = None, a.join = None, \A n \in a.scope : n \in Top.scope \/ e.oname = n,
           ArgsUsed(a) => a.args = << >> \/ (a.args = Top.args /\ ArgsUsed(Top)),
           e.alt = None, e.join = None, e.args = << >>, e.scope = Top.scope,
           e.oname # None => e.oname \notin NameT,
           e.k = Top.k \/ (e.k.cont = None /\ e.k.name \notin NameT),
           NEW roots, NEW live, Recorded(roots, live)
    PROVE  Recorded(roots, live)'
<1>1. ExprsOK /\ BlocksOK /\ NamesOK /\ StackOK
    BY DEF Converts
<1>2. Top.join = None /\ Marks(a) = {} /\ Marks(e) = {}
    BY <1>1, TopFacts DEF Resumed, Marks
<1>3. ValuesRooted(roots) /\ BlocksLead(roots, live) /\ Available(roots, live)
    BY DEF Recorded
<1>4. Block' = Block
    BY DEF Block
<1>5. RecordsKept(roots, live, roots, live)
    BY DEF RecordsKept
<1>6. ValuesRooted(roots)'
    BY <1>3, <1>4 DEF ValuesRooted
<1>7. BlocksLead(roots, live)'
    BY <1>1, <1>3, <1>4, <1>5, BlocksStillLead DEF Value
<1>8. current \in UsedAt(1)
    BY <1>1, StackFacts, UsedBlocks
<1>9. \A b \in Marks(a) \cup {current'} : \E p \in UsedAt(1) : live[p] \subseteq live[b]
    BY <1>2, <1>8
<1>10. e.k.cont \notin {None, Return} => Leads(live, current, e.k.cont)'
    BY <1>3, UsableNow DEF Leads
<1>11. Available(roots, live)'
    BY <1>1, <1>2, <1>3, <1>5, <1>9, <1>10, PushAvailable
<1> QED
    BY <1>6, <1>7, <1>11 DEF Recorded

LEMMA ValRecorded ==
    ASSUME Converts, NEW t \in Type, Val(t), NEW roots, NEW live, Recorded(roots, live)
    PROVE  Recorded(roots, live)'
<1>1. PICK n : n = Len(types) + 1
    OBVIOUS
<1>2. PICK a : a = [Top EXCEPT !.scope = @ \cup {n}]
    OBVIOUS
<1>3. PICK e : e = Expr(NextCont(n), n, t, Top.scope)
    OBVIOUS
<1>4. /\ stack # << >> /\ Top.form = "expr" /\ stack' = Calls(a, e)
      /\ types' = Append(types, t) /\ defs' = Append(defs, None)
      /\ UNCHANGED <<exprs, params, transfer, current>>
    BY <1>1, <1>2, <1>3 DEF Val, InForm
<1>5. Top \in Activation /\ Resumed(Top) /\ NamesOK
    BY <1>4, TopFacts DEF Converts
<1>6. /\ a.k = Top.k /\ a.oname = Top.oname /\ a.alt = None /\ a.join = None
      /\ a.scope = Top.scope \cup {n} /\ a.args = Top.args /\ a.form = Top.form
    BY <1>2, <1>4, <1>5 DEF Activation, Resumed
<1>7. /\ e.alt = None /\ e.join = None /\ e.args = << >> /\ e.scope = Top.scope
      /\ e.oname = n /\ e.k.cont = None /\ e.k.name = n
    BY <1>3 DEF Expr, NextCont
<1>8. /\ NameT = 1..Len(types) /\ NameT' = 1..(Len(types) + 1) /\ Len(types) \in Nat
      /\ \A m \in NameT : defs'[m] = defs[m] /\ defs'[n] = None
    BY <1>1, <1>4, <1>5, SeqDomain DEF NamesOK, NameT
<1>9. NameT \subseteq NameT' /\ n \notin NameT /\ \A m \in NameT' \ NameT : m = n
    BY <1>1, <1>8
<1>10. (\A m \in NameT : defs'[m] = defs[m]) /\ (\A m \in NameT' \ NameT : defs'[m] = None)
    BY <1>4, <1>5, <1>8, <1>1, SeqDomain DEF NamesOK
<1>11. ArgsUsed(a) => a.args = Top.args /\ ArgsUsed(Top)
    BY <1>4, <1>6 DEF ArgsUsed
<1> QED
    BY <1>4, <1>6, <1>7, <1>9, <1>10, <1>11, PartRecorded

\* The parts of an expression that are in its scope.
LEMMA ScopedRecorded ==
    ASSUME Converts, stack # << >>, Top.form \in {"expr", "prim", "call"},
           UNCHANGED <<exprs, params, transfer, defs, types, current>>,
           NEW a, NEW f, a = [Top EXCEPT !.form = f, !.args = << >>] \/ (a = Top /\ Top.form # "expr"),
           NEW k, k = Top.k \/ k = NextCont(None), NEW t, NEW e, e = Expr(k, None, t, Top.scope),
           stack' = Calls(a, e), NEW roots, NEW live, Recorded(roots, live)
    PROVE  Recorded(roots, live)'
<1>1. Top \in Activation /\ Resumed(Top) /\ NamesOK
    BY TopFacts DEF Converts
<1>2. /\ a.k = Top.k /\ a.oname = Top.oname /\ a.alt = None /\ a.join = None
      /\ a.scope = Top.scope /\ (a.args = << >> \/ a = Top)
    BY <1>1 DEF Activation, Resumed
<1>3. /\ e.alt = None /\ e.join = None /\ e.args = << >> /\ e.scope = Top.scope
      /\ e.oname = None /\ e.k = k
    BY DEF Expr
<1>4. NameT' = NameT /\ None \notin NameT
    BY <1>1, SeqDomain, NodesAssumption DEF NamesOK, NameT
<1>5. k = Top.k \/ (k.cont = None /\ k.name \notin NameT)
    BY <1>4 DEF NextCont
<1> QED
    BY <1>2, <1>3, <1>4, <1>5, PartRecorded

LEMMA PartsRecorded ==
    ASSUME Converts, Prim \/ If \/ Call \/ Operand,
           NEW roots, NEW live, Recorded(roots, live)
    PROVE  Recorded(roots, live)'
BY ScopedRecorded DEF Prim, If, Call, Operand, InForm

\* What a conditional whose blocks are there has.
LEMMA BranchedNow ==
    ASSUME Converts, stack # << >>, Top.form = "if", Len(Top.args) \in {2, 3},
           NEW roots, NEW live, Recorded(roots, live)
    PROVE  /\ Top \in Activation /\ Branched(Top) /\ current \in UsedAt(1)
           /\ Top.alt \in Arms \cup {None} /\ Top.join \in Joins \cup {None}
           /\ \A b \in Block : b \in {Top.alt, Top.join} => b \in UsedAt(1)
           /\ Top.k.cont \notin {None, Return} => \A p \in UsedAt(1) : Leads(live, p, Top.k.cont)
           /\ Top.alt # None /\ Top.join # None => Leads(live, Top.alt, Top.join)
           /\ Top.join # None => \A n \in NameT :
                Top.k.name = n /\ defs[n] # None => roots[defs[n]] \subseteq live[Top.join]
<1>1. BlocksOK /\ StackOK /\ Available(roots, live)
    BY DEF Converts, Recorded
<1>2. Top \in Activation /\ Resumed(Top) /\ Top = stack[1] /\ 1 \in DOMAIN stack
    BY <1>1, TopFacts, StackFacts
<1>3. Branched(Top) /\ Top.alt \in Arms \cup {None} /\ Top.join \in Joins \cup {None}
    BY <1>2, SMTT(30) DEF Resumed, Activation
<1>4. AvailableAt(roots, live, 1)
    BY <1>1, <1>2 DEF Available
<1>5. None \notin Block
    BY <1>1, BlocksAre DEF BlocksOK
<1>6. current \in UsedAt(1) /\ \A b \in Block : b \in {Top.alt, Top.join} => b \in UsedAt(1)
    BY <1>2, <1>5 DEF UsedAt, Marks
<1> QED
    BY <1>2, <1>3, <1>4, <1>6 DEF AvailableAt, ContAt, JoinAt, GivenAt, GivenIn

\* A step that allocates nothing and sets no transfer and no name.
LEMMA NothingRecorded ==
    ASSUME Converts, UNCHANGED <<exprs, params, transfer, defs>>,
           NEW roots, NEW live, Recorded(roots, live), Available(roots, live)'
    PROVE  Recorded(roots, live)'
BY BlocksStillLead DEF Converts, Recorded, Block, ValuesRooted, RecordsKept, Value

LEMMA JoinRecorded ==
    ASSUME Converts, Join, NEW roots, NEW live, Recorded(roots, live)
    PROVE  Recorded(roots, live)'
<1>1. ExprsOK /\ BlocksOK /\ NamesOK /\ StackOK
    BY DEF Converts
<1>2. /\ stack # << >> /\ Top.form = "if" /\ Len(Top.args) = 3
      /\ UNCHANGED <<exprs, params, transfer, defs, types>>
    BY DEF Join, InForm
<1>3. /\ Top \in Activation /\ Branched(Top) /\ current \in UsedAt(1)
      /\ Top.join \in Joins \cup {None}
      /\ Top.join \in Block => Top.join \in UsedAt(1)
      /\ Top.join # None => \A n \in NameT :
            Top.k.name = n /\ defs[n] # None => roots[defs[n]] \subseteq live[Top.join]
    BY <1>2, BranchedNow
<1>4. RecordsKept(roots, live, roots, live) /\ Available(roots, live)
    BY <1>2 DEF RecordsKept, Recorded
<1>5. CASE Top.join = None
    <2>1. stack' = Returned(Null) /\ current' = current
        BY <1>5 DEF Join
    <2>2. \A n \in NameT : Top.k.name # n
        BY <1>3, <1>5, <1>1, SeqDomain, NodesAssumption DEF Branched, IsTrivial, Activation, NamesOK, NameT,
            Cont
    <2>3. roots[Null] \subseteq live[current'] /\ live[current] \subseteq live[current']
        BY <2>1 DEF Recorded, ValuesRooted
    <2>4. Available(roots, live)'
        BY <1>1, <1>2, <1>3, <1>4, <2>1, <2>2, <2>3, PopAvailable
    <2> QED
        BY <1>2, <2>4, NothingRecorded
<1>6. CASE Top.join # None
    <2>1. PICK b : b = Top.join
        OBVIOUS
    <2>2. PICK v : v = params[b][1]
        OBVIOUS
    <2>3. stack' = Returned(v) /\ current' = b
        BY <1>6, <2>1, <2>2 DEF Join
    <2>4. b \in Block /\ b \in UsedAt(1)
        BY <1>3, <1>6, <2>1 DEF Joins
    <2>5. v \in Range(params[b])
        BY <1>1, <1>3, <1>6, <2>1, <2>2 DEF Joins, BlocksOK, Block, Range
    <2>6. roots[v] \subseteq live[current']
        BY <2>3, <2>4, <2>5 DEF Recorded, BlocksLead
    <2>7. \A n \in NameT : defs'[n] # None =>
                /\ defs[n] = None => Top.k.name = n
                /\ Top.k.name = n => roots[defs'[n]] \subseteq live[current']
        BY <1>2, <1>3, <1>6, <2>1, <2>3
    <2>8. Available(roots, live)'
        BY <1>1, <1>2, <1>4, <2>3, <2>4, <2>6, <2>7, PopAvailable
    <2> QED
        BY <1>2, <2>8, NothingRecorded
<1> QED
    BY <1>5, <1>6

LEMMA AlternativeRecorded ==
    ASSUME Converts, Alternative, NEW roots, NEW live, Recorded(roots, live)
    PROVE  Recorded(roots, live)'
<1>1. ExprsOK /\ BlocksOK /\ NamesOK /\ StackOK
    BY DEF Converts
<1>2. PICK a, e : /\ a = [Top EXCEPT !.alt = None]
                  /\ e = Expr(BranchCont(Top), None, Top.type, Top.scope)
    OBVIOUS
<1>3. /\ stack # << >> /\ Top.form = "if" /\ Len(Top.args) = 2
      /\ UNCHANGED <<exprs, params, transfer, defs, types>>
      /\ current' = Top.alt /\ stack' = Calls(a, e)
    BY <1>2 DEF Alternative, InForm, BranchCont
<1>4. /\ Top \in Activation /\ Branched(Top) /\ Top.join \in Joins \cup {None}
      /\ \A b \in Block : b \in {Top.alt, Top.join} => b \in UsedAt(1)
      /\ Top.k.cont \notin {None, Return} => \A p \in UsedAt(1) : Leads(live, p, Top.k.cont)
      /\ Top.alt # None /\ Top.join # None => Leads(live, Top.alt, Top.join)
      /\ Top.join # None => \A n \in NameT :
            Top.k.name = n /\ defs[n] # None => roots[defs[n]] \subseteq live[Top.join]
    BY <1>3, BranchedNow
<1>5. Top.alt \in Block /\ None \notin NameT /\ None \notin Block /\ NameT' = NameT
    BY <1>1, <1>3, TopFacts, BlocksAre, SeqDomain, NodesAssumption DEF Resumed, NamesOK, NameT, BlocksOK, Arms
<1>6. /\ a.k = Top.k /\ a.oname = Top.oname /\ a.scope = Top.scope /\ a.alt = None
      /\ a.join = Top.join /\ ~ArgsUsed(a)
    <2>1. /\ a.k = Top.k /\ a.oname = Top.oname /\ a.scope = Top.scope /\ a.alt = None
          /\ a.join = Top.join /\ a.form = Top.form /\ a.args = Top.args
        BY <1>2, <1>4 DEF Activation
    <2> QED
        BY <2>1, <1>3 DEF ArgsUsed
<1>7. /\ e.k = BranchCont(Top) /\ e.oname = None /\ e.scope = Top.scope /\ e.args = << >>
      /\ Marks(e) = {}
    BY <1>2 DEF Expr, Marks
<1>8. Marks(a) = {Top.join} \ {None}
    BY <1>6 DEF Marks
<1>9. \A b \in Marks(a) \cup {current'} : \E p \in UsedAt(1) : live[p] \subseteq live[b]
    BY <1>3, <1>4, <1>5, <1>8 DEF Joins
<1>10. e.k.name \in NameT => e.k = Top.k /\ Marks(a) = {}
    BY <1>5, <1>7, <1>8 DEF BranchCont, Trivial
<1>11. e.k.cont \notin {None, Return} => Leads(live, current, e.k.cont)'
    BY <1>3, <1>4, <1>5, <1>7 DEF BranchCont, Leads, Trivial
<1>12. RecordsKept(roots, live, roots, live) /\ Available(roots, live)
    BY <1>3 DEF RecordsKept, Recorded
<1>13. a.join # None => \A n \in NameT : Top.k.name = n /\ defs'[n] # None =>
            roots[defs'[n]] \subseteq live[a.join]
    BY <1>3, <1>4, <1>6
<1>14. /\ \A n \in NameT : defs[n] = None /\ defs'[n] # None => Top.oname = n /\ a.join # None
       /\ \A n \in NameT' \ NameT : defs'[n] = None
       /\ NameT \subseteq NameT' /\ \A n \in a.scope : n \in Top.scope \/ e.oname = n
    BY <1>3, <1>5, <1>6
<1>15. Available(roots, live)'
    BY <1>1, <1>3, <1>6, <1>7, <1>9, <1>10, <1>11, <1>12, <1>13, <1>14, PushAvailable
<1> QED
    BY <1>3, <1>15, NothingRecorded

-----------------------------------------------------------------------------
(* The steps that make blocks.                                             *)

LEMMA SeqSet ==
    ASSUME NEW S, NEW s \in Seq(S), NEW x \in S, NEW i
    PROVE  [s EXCEPT ![i] = x] \in Seq(S)
<1>1. DOMAIN s = 1..Len(s) /\ Len(s) \in Nat /\ s \in [1..Len(s) -> S]
    OBVIOUS
<1>2. [s EXCEPT ![i] = x] \in [1..Len(s) -> S]
    BY <1>1
<1> QED
    BY <1>1, <1>2

\* The current block gets its transfer t; new blocks have none.
LEMMA TransferGiven ==
    ASSUME BlocksOK, NEW t, NEW ns \in Seq({None}), NEW u, u = [transfer EXCEPT ![current] = t],
           transfer' = u \o ns, NEW T, params' \in Seq(T), Len(params') = Len(params) + Len(ns)
    PROVE  /\ \A b \in Block \ {current} : transfer'[b] = transfer[b]
           /\ transfer'[current] = t
           /\ \A b \in Block' \ Block : transfer'[b] = None
<1>1. PICK S : S = Transfer \cup {None, t}
    OBVIOUS
<1>2. /\ transfer \in Seq(S) /\ Len(transfer) = Len(params) /\ t \in S /\ None \in S
      /\ Block = 1..Len(params) /\ Len(params) \in Nat /\ current \in Block
    BY <1>1, BlocksAre DEF BlocksOK
<1>3. /\ u \in Seq(S) /\ Len(u) = Len(params) /\ u[current] = t
      /\ \A b \in Block \ {current} : u[b] = transfer[b]
    BY ONLY <1>2, u = [transfer EXCEPT ![current] = t]
<1>4. ns \in Seq(S) /\ Len(ns) \in Nat /\ \A j \in 1..Len(ns) : ns[j] = None
    BY <1>2
<1>5. PICK w : w = u \o ns
    OBVIOUS
<1>6. /\ w \in Seq(S) /\ \A b \in 1..Len(u) : w[b] = u[b]
      /\ \A b \in (Len(u) + 1)..(Len(u) + Len(ns)) : w[b] = ns[b - Len(u)]
    BY ONLY <1>3, <1>4, <1>5, CatElements
<1>7. ASSUME NEW b \in 1..(Len(params) + Len(ns)), b \notin Block
      PROVE  w[b] = None
    <2>1. b \in (Len(u) + 1)..(Len(u) + Len(ns)) /\ b - Len(u) \in 1..Len(ns)
        BY <1>2, <1>3, <1>4, <1>7
    <2> QED
        BY <2>1, <1>4, <1>6
<1>8. \A b \in Block : w[b] = u[b]
    BY <1>2, <1>3, <1>6
<1>9. Block' \subseteq 1..(Len(params) + Len(ns))
    BY BlocksAreNext
<1> QED
    BY <1>2, <1>3, <1>5, <1>7, <1>8, <1>9

\* A block for the value that is to come, in ps after the blocks without parameters.
LEMMA JoinElements ==
    ASSUME BlocksOK, NEW ps \in Seq(Seq(DOMAIN exprs)), Len(ps) >= Len(params),
           \A b \in Block : ps[b] = params[b], \A b \in DOMAIN ps \ Block : Len(ps[b]) = 0,
           NEW n, AddJoin(ps, n), NEW join, join = Len(ps) + 1
    PROVE  /\ Block' = DOMAIN ps \cup {join} /\ Block \subseteq DOMAIN ps /\ join \notin DOMAIN ps
           /\ Len(params') = join
           /\ \A b \in Block : params'[b] = params[b]
           /\ \A b \in DOMAIN ps \ Block : Range(params'[b]) = {}
           /\ Range(params'[join]) = {Len(exprs) + 1}
<1>1. PICK z : z = <<Len(exprs) + 1>>
    OBVIOUS
<1>2. Range(z) = {Len(exprs) + 1}
    BY ONLY <1>1 DEF Range
<1>3. params' = Append(ps, z)
    BY <1>1 DEF AddJoin
<1>4. /\ DOMAIN ps = 1..Len(ps) /\ Len(ps) \in Nat
      /\ Block = 1..Len(params) /\ Len(params) \in Nat
    BY SeqDomain, BlocksAre DEF BlocksOK
<1>5. /\ Len(params') = join /\ params'[join] = z /\ DOMAIN params' = 1..join
      /\ \A b \in 1..Len(ps) : params'[b] = ps[b]
    BY ONLY <1>3, <1>4, AppendElements, SeqDomain, ps \in Seq(Seq(DOMAIN exprs)), join = Len(ps) + 1
<1>6. Block \subseteq DOMAIN ps /\ join \notin DOMAIN ps /\ 1..join = DOMAIN ps \cup {join}
    BY <1>4
<1>7. ASSUME NEW b \in DOMAIN ps, Len(ps[b]) = 0
      PROVE  Range(ps[b]) = {}
    BY <1>7 DEF Range
<1> QED
    BY <1>2, <1>4, <1>5, <1>6, <1>7 DEF Block

\* What blocks made in the current block may use.
With(live, join, X) ==
    [b \in Block' |-> IF b \in Block THEN live[b]
                      ELSE IF b = join THEN live[current] \cup X ELSE live[current]]

\* The block `join` is added after those of ps, for the value v that is known as n.
NewJoin(ps, n, join, v) ==
    /\ ps \in Seq(Seq(DOMAIN exprs)) /\ Len(ps) >= Len(params)
    /\ \A b \in Block : ps[b] = params[b]
    /\ \A b \in DOMAIN ps \ Block : Len(ps[b]) = 0
    /\ n \in NameT \cup {None} /\ AddJoin(ps, n)
    /\ join = Len(ps) + 1 /\ v = Len(exprs) + 1

NewRecords(roots, live, join, v, r, l) == r = Root(roots, {v}) /\ l = With(live, join, {v})

LEMMA JoinRecords ==
    ASSUME ExprsOK, BlocksOK, NamesOK, NEW roots, NEW live, Recorded(roots, live),
           NEW ps, NEW n, NEW join, NEW v, NewJoin(ps, n, join, v),
           NEW r, NEW l, NewRecords(roots, live, join, v, r, l)
    PROVE  /\ ValuesRooted(r)' /\ RecordsKept(roots, live, r, l) /\ Block \subseteq Block'
           /\ r[v] = {v} /\ l[join] = live[current] \cup {v} /\ Range(params'[join]) = {v}
           /\ \A b \in DOMAIN ps \ Block : l[b] = live[current]
           /\ \A m \in NameT : defs'[m] = defs[m] \/ (m = n /\ defs[m] = None /\ defs'[m] = v)
           /\ \A b \in Block' \ Block : \A w \in Range(params'[b]) : r[w] \subseteq l[b]
<1>0. /\ ps \in Seq(Seq(DOMAIN exprs)) /\ Len(ps) >= Len(params)
      /\ \A b \in Block : ps[b] = params[b]
      /\ \A b \in DOMAIN ps \ Block : Len(ps[b]) = 0
      /\ n \in NameT \cup {None} /\ AddJoin(ps, n)
      /\ join = Len(ps) + 1 /\ v = Len(exprs) + 1
      /\ r = Root(roots, {v}) /\ l = With(live, join, {v})
    BY DEF NewJoin, NewRecords
<1>1. /\ Block' = DOMAIN ps \cup {join} /\ Block \subseteq DOMAIN ps /\ join \notin DOMAIN ps
      /\ \A b \in Block : params'[b] = params[b]
      /\ \A b \in DOMAIN ps \ Block : Range(params'[b]) = {}
      /\ Range(params'[join]) = {v}
    BY <1>0, JoinElements
<1>2. ValuesRooted(r)' /\ (\A w \in Value : r[w] = roots[w]) /\ r[v] = {v}
    <2>1. PICK x : x = [kind |-> "param", args |-> << >>]
        OBVIOUS
    <2>2. exprs' = Append(exprs, x)
        BY <1>0, <2>1 DEF AddJoin
    <2>3. x.args \in Seq(Value) /\ Range(x.args) = {}
        BY ONLY <2>1 DEF Range
    <2>6. PICK X : X = {v}
        OBVIOUS
    <2>4. \A b \in Block' : \/ b \in Block /\ params'[b] = params[b]
                            \/ Range(params'[b]) \subseteq {Len(exprs) + 1} \cap X
        BY <1>0, <1>1, <2>6
    <2>5. ValuesRooted(roots)
        BY DEF Recorded
    <2> QED
        <3>1. (\A w \in Range(x.args) : roots[w] \subseteq X) /\ r = Root(roots, X)
            BY <1>0, <2>3, <2>6
        <3>2. ValuesRooted(r)' /\ (\A w \in Value : r[w] = roots[w]) /\ r[Len(exprs) + 1] = X
            <4>1. Allocates(x)
                BY <2>2, <2>3 DEF Allocates
            <4> QED
                BY ONLY <3>1, <4>1, <2>4, <2>5, ExprsOK, BlocksOK, NewValueRooted
        <3> QED
            BY <1>0, <3>2, <2>6
<1>3. \A m \in NameT : defs'[m] = defs[m] \/ (m = n /\ defs[m] = None /\ defs'[m] = v)
    BY <1>0, NameGiven DEF AddJoin
<1>4. /\ \A b \in Block : l[b] = live[b] /\ params'[b] = params[b]
      /\ l[join] = live[current] \cup {v}
      /\ \A b \in DOMAIN ps \ Block : l[b] = live[current]
    BY <1>0, <1>1 DEF With
<1>5. RecordsKept(roots, live, r, l)
    BY <1>2, <1>3, <1>4 DEF RecordsKept
<1>6. \A b \in Block' \ Block : \A w \in Range(params'[b]) : r[w] \subseteq l[b]
    BY <1>1, <1>2, <1>4
<1> QED
    BY <1>1, <1>2, <1>3, <1>4, <1>5, <1>6

\* A step that gives the current block a transfer.
LEMMA TransferRecorded ==
    ASSUME BlocksOK, Block \subseteq Block', DOMAIN exprs \subseteq Value,
           NEW roots, NEW live, BlocksLead(roots, live), NEW r, NEW l, RecordsKept(roots, live, r, l),
           \A b \in Block' \ Block : \A v \in Range(params'[b]) : r[v] \subseteq l[b],
           NEW p, p = current, NEW t, LeadsFrom(r, l, p, t)',
           \A b \in Block \ {current} : transfer'[b] = transfer[b],
           transfer'[current] = t, \A b \in Block' \ Block : transfer'[b] = None
    PROVE  BlocksLead(r, l)'
BY BlocksStillLead DEF LeadsFrom, Leads

LEMMA CallToRecorded ==
    ASSUME Converts, CallTo, NEW roots, NEW live, Recorded(roots, live)
    PROVE  \E r, l : Recorded(r, l)'
<1>1. ExprsOK /\ BlocksOK /\ NamesOK /\ StackOK /\ DOMAIN exprs \subseteq Value
    BY DEF Converts, Value
<1>2. stack # << >> /\ Top.form = "call" /\ types' = types
    BY DEF CallTo, InForm
<1>3. /\ Top \in Activation /\ Top.k \in Cont /\ Top.join = None
      /\ Range(Top.args) \subseteq Value
    BY <1>1, <1>2, TopFacts, RangeWithin DEF Activation, Resumed
<1>4. /\ ValuesRooted(roots) /\ BlocksLead(roots, live) /\ Available(roots, live)
    BY DEF Recorded
<1>5. /\ \A v \in Range(Top.args) : roots[v] \subseteq live[current]
      /\ Top.k.cont \notin {None, Return} => Leads(live, current, Top.k.cont)
      /\ \A n \in NameT : Top.k.name = n /\ defs[n] # None => roots[defs[n]] \subseteq live[current]
    BY <1>2, <1>3, <1>4, UsableNow DEF ArgsUsed
<1>6. None \notin NameT /\ current \in Block /\ current \in UsedAt(1)
    BY <1>1, <1>2, StackFacts, UsedBlocks, SeqDomain, NodesAssumption DEF NamesOK, NameT, BlocksOK
<1>7. PICK p : p = current
    OBVIOUS
<1>8. CASE IsTrivial(Top.k)
    <2>1. PICK c : c = Top.k.cont
        OBVIOUS
    <2>2. PICK t : t = [form |-> "call", args |-> Top.args, conts |-> <<c>>]
        OBVIOUS
    <2>3. /\ transfer' = [transfer EXCEPT ![current] = t] /\ stack' = Returned(Null)
          /\ UNCHANGED <<exprs, params, defs, current>>
        BY <1>8, <2>1, <2>2 DEF CallTo
    <2>4. Range(t.conts) = {c} /\ t.args = Top.args
        BY ONLY <2>2 DEF Range
    <2>5. c # None /\ Block' = Block /\ DOMAIN transfer = Block /\ Top.k.name \notin NameT
        BY <1>3, <1>8, <2>1, <1>1, <1>6, <2>3, SeqDomain DEF IsTrivial, Cont, BlocksOK, Block
    <2>6. RecordsKept(roots, live, roots, live)
        BY <2>3 DEF RecordsKept
    <2>7. LeadsFrom(roots, live, p, t)'
        BY <1>5, <1>7, <2>1, <2>3, <2>5, <2>4 DEF Leads, LeadsFrom
    <2>8. BlocksLead(roots, live)'
        <3>1. (\A b \in Block \ {current} : transfer'[b] = transfer[b]) /\ transfer'[current] = t
            BY <1>6, <2>3, <2>5
        <3> QED
            BY <3>1, <1>1, <1>4, <1>7, <2>5, <2>6, <2>7, TransferRecorded
    <2>9. Available(roots, live)'
        <3>1. roots[Null] \subseteq live[current'] /\ live[current] \subseteq live[current']
            BY <1>4, <2>3 DEF ValuesRooted
        <3> QED
            BY <3>1, <1>1, <1>2, <1>4, <1>6, <2>3, <2>5, <2>6, PopAvailable
    <2>10. ValuesRooted(roots)'
        BY <1>4, <2>3, <2>5 DEF ValuesRooted
    <2>11. Recorded(roots, live)'
        BY <2>8, <2>9, <2>10 DEF Recorded
    <2> QED
        BY <2>11
<1>9. CASE ~IsTrivial(Top.k)
    <2>1. PICK ret : ret = Len(params) + 1
        OBVIOUS
    <2>2. PICK t : t = [form |-> "call", args |-> Top.args, conts |-> <<ret>>]
        OBVIOUS
    <2>3. PICK v : v = Len(exprs) + 1
        OBVIOUS
    <2>4. PICK n : n = Top.k.name
        OBVIOUS
    <2>5. PICK ps : ps = params
        OBVIOUS
    <2>6. PICK r : r = Root(roots, {v})
        OBVIOUS
    <2>7. PICK l : l = With(live, ret, {v})
        OBVIOUS
    <2>8. PICK u : u = [transfer EXCEPT ![current] = t]
        OBVIOUS
    <2>9. /\ AddJoin(ps, n) /\ transfer' = Append(u, None)
          /\ current' = ret /\ stack' = Returned(v)
        BY <1>9, <2>1, <2>2, <2>3, <2>4, <2>5, <2>8 DEF CallTo
    <2>10. /\ ps \in Seq(Seq(DOMAIN exprs)) /\ Len(ps) >= Len(params) /\ ret = Len(ps) + 1
           /\ (\A b \in Block : ps[b] = params[b]) /\ DOMAIN ps \ Block = {}
           /\ n \in NameT \cup {None}
        BY <1>1, BlocksAre, <1>3, <2>1, <2>4, <2>5 DEF BlocksOK, Block, Cont
    <2>11. /\ ValuesRooted(r)' /\ RecordsKept(roots, live, r, l) /\ Block \subseteq Block'
           /\ r[v] = {v} /\ l[ret] = live[current] \cup {v} /\ Range(params'[ret]) = {v}
           /\ \A m \in NameT : defs'[m] = defs[m] \/ (m = n /\ defs[m] = None /\ defs'[m] = v)
           /\ \A b \in Block' \ Block : \A w \in Range(params'[b]) : r[w] \subseteq l[b]
        <3>1. NewJoin(ps, n, ret, v)
            BY <2>3, <2>9, <2>10 DEF NewJoin
        <3>2. NewRecords(roots, live, ret, v, r, l)
            BY <2>6, <2>7 DEF NewRecords
        <3>3. ExprsOK /\ BlocksOK /\ NamesOK /\ Recorded(roots, live)
            BY <1>1
        <3> QED
            BY ONLY <3>1, <3>2, <3>3, JoinRecords
    <2>12. /\ \A b \in Block \ {current} : transfer'[b] = transfer[b]
           /\ transfer'[current] = t
           /\ \A b \in Block' \ Block : transfer'[b] = None
        <3>1. PICK ns : ns = <<None>>
            OBVIOUS
        <3>2. ns \in Seq({None}) /\ Len(ns) = 1
            BY ONLY <3>1
        <3>3. transfer' = u \o ns
            <4>1. PICK S : S = Transfer \cup {None, t}
                OBVIOUS
            <4>2. transfer \in Seq(S) /\ t \in S
                BY <1>1, <4>1 DEF BlocksOK
            <4>3. u \in Seq(S)
                BY <4>2, <2>8, SeqSet
            <4>4. Append(u, None) = u \o <<None>>
                BY ONLY <4>3
            <4> QED
                BY <2>9, <3>1, <4>4
        <3>4. params' \in Seq(Seq(DOMAIN exprs')) /\ Len(params') = Len(params) + Len(ns)
            BY <1>1, <1>2, <2>9, <2>10, JoinAdded, <2>1, <3>2
        <3> QED
            BY ONLY <3>2, <3>3, <3>4, <2>8, <1>1, TransferGiven
    <2>13. LeadsFrom(r, l, p, t)'
        <3>1. Range(t.conts) = {ret} /\ t.args = Top.args
            BY ONLY <2>2 DEF Range
        <3>2. l[p] = live[p] /\ \A w \in Range(Top.args) : r[w] = roots[w]
            BY <1>3, <1>6, <1>7, <2>11 DEF RecordsKept
        <3>3. l[ret] \subseteq l[p] \cup Range(params'[ret])
            BY <3>2, <1>7, <2>11
        <3> QED
            BY <3>1, <3>2, <3>3, <1>5, <1>7 DEF LeadsFrom, Leads
    <2>14. BlocksLead(r, l)'
        BY <1>1, <1>4, <1>7, <2>11, <2>12, <2>13, TransferRecorded
    <2>15. Available(r, l)'
        <3>1. live[current] \subseteq l[current'] /\ r[v] \subseteq l[current']
            BY <2>9, <2>11
        <3>2. ASSUME NEW m \in NameT, defs'[m] # None
              PROVE  /\ defs[m] = None => Top.k.name = m
                     /\ Top.k.name = m => r[defs'[m]] \subseteq l[current']
            BY <1>1, <3>2, SeqDomain, <2>11, <3>1, <1>5, <2>4 DEF NamesOK, NameT, Value, RecordsKept
        <3> QED
            BY <3>1, <3>2, <1>1, <1>2, <1>4, <1>6, <2>9, <2>11, PopAvailable
    <2>16. Recorded(r, l)'
        BY <2>11, <2>14, <2>15 DEF Recorded
    <2> QED
        BY <2>16
<1> QED
    BY <1>8, <1>9

\* The blocks of a conditional are made, and its first branch comes next.
LEMMA BranchAvailable ==
    ASSUME Converts, stack # << >>, Top.form = "if", Len(Top.args) = 1,
           types' = types, NEW roots, NEW live, Recorded(roots, live),
           NEW r, NEW l, RecordsKept(roots, live, r, l),
           NEW alt, NEW join, alt # None, current' # None, join = None <=> IsTrivial(Top.k),
           NEW a, a = WithBlocks(Top, alt, join),
           NEW k, k = BranchCont(a), NEW e, e = Expr(k, None, Top.type, Top.scope),
           stack' = Calls(a, e),
           \A b \in {current', alt, join} \ {None} : live[current] \subseteq l[b],
           join # None =>
                /\ \A p \in {current', alt} : l[join] \subseteq l[p] \cup Range(params'[join])
                /\ \A n \in NameT :
                    \/ defs'[n] = defs[n]
                    \/ Top.oname = n /\ r[defs'[n]] \subseteq l[join],
           join = None => defs' = defs
    PROVE  Available(r, l)'
<1>1. ExprsOK /\ BlocksOK /\ NamesOK /\ StackOK /\ Available(roots, live)
    BY DEF Converts, Recorded
<1>2. Top \in Activation /\ Top.join = None /\ Top.k \in Cont /\ 1 \in DOMAIN stack
    BY <1>1, TopFacts, StackFacts DEF Resumed, Activation
<1>3. /\ a.k = Top.k /\ a.oname = Top.oname /\ a.scope = Top.scope /\ a.alt = alt
      /\ a.join = join /\ a.form = Top.form /\ a.args = Top.args
    <2>1. PICK p : p = Top
        OBVIOUS
    <2>2. a = [p EXCEPT !.alt = alt, !.join = join] /\ p \in Activation
        BY <1>2, <2>1 DEF WithBlocks
    <2>3. /\ a.k = p.k /\ a.oname = p.oname /\ a.scope = p.scope /\ a.alt = alt
          /\ a.join = join /\ a.form = p.form /\ a.args = p.args
        BY ONLY <2>2 DEF Activation
    <2> QED
        BY <2>1, <2>3
<1>4. /\ e.k = k /\ e.oname = None /\ e.scope = Top.scope /\ e.args = << >> /\ Marks(e) = {}
    BY DEF Expr, Marks
<1>5. ~ArgsUsed(a) /\ Marks(a) = {alt, join} \ {None}
    BY <1>3 DEF ArgsUsed, Marks
<1>6. NameT' = NameT /\ None \notin NameT
    BY <1>1, SeqDomain, NodesAssumption DEF NamesOK, NameT
<1>7. current \in UsedAt(1)
    BY <1>1, <1>2, UsedBlocks
<1>8. \A b \in Marks(a) \cup {current'} : \E p \in UsedAt(1) : live[p] \subseteq l[b]
    BY <1>5, <1>7
<1>9. /\ Top.k.cont \notin {None, Return} => Leads(live, current, Top.k.cont)
      /\ \A n \in NameT : Top.k.name = n /\ defs[n] # None => roots[defs[n]] \subseteq live[current]
    BY <1>1, <1>2, UsableNow
<1>10. e.k.name \notin NameT
    BY <1>2, <1>3, <1>4, <1>6 DEF BranchCont, Cont, IsTrivial, Trivial
<1>11. ASSUME e.k.cont \notin {None, Return}
       PROVE  l[e.k.cont] \subseteq l[current'] \cup Range(params'[e.k.cont])
    BY <1>2, <1>3, <1>4, <1>11, <1>9 DEF BranchCont, Cont, Joins, Leads, RecordsKept, Trivial
<1>12. \A n \in NameT : defs[n] = None /\ defs'[n] # None => Top.oname = n /\ a.join # None
    BY <1>3
<1>13. ASSUME join # None, NEW n \in NameT, Top.k.name = n, defs'[n] # None
       PROVE  r[defs'[n]] \subseteq l[join]
    BY <1>1, <1>13, SeqDomain, <1>9 DEF NamesOK, NameT, Value, RecordsKept
<1>14. e.k.cont \notin {None, Return} => Leads(l, current, e.k.cont)'
    BY <1>11 DEF Leads
<1>15. a.join # None =>
            /\ \A n \in NameT : Top.k.name = n /\ defs'[n] # None => r[defs'[n]] \subseteq l[a.join]
            /\ a.alt # None => Leads(l, a.alt, a.join)'
    BY <1>3, <1>13 DEF Leads
<1>16. /\ NameT \subseteq NameT' /\ \A n \in NameT' \ NameT : defs'[n] = None
       /\ \A n \in a.scope : n \in Top.scope \/ e.oname = n
       /\ e.oname # None => e.oname \notin NameT
    BY <1>3, <1>4, <1>6
<1> QED
    BY <1>1, <1>2, <1>3, <1>4, <1>5, <1>8, <1>10, <1>12, <1>14, <1>15, <1>16, PushAvailable,
       SMTT(60)

LEMMA BranchRecorded ==
    ASSUME Converts, Branch, NEW roots, NEW live, Recorded(roots, live)
    PROVE  \E r, l : Recorded(r, l)'
<1>1. ExprsOK /\ BlocksOK /\ NamesOK /\ StackOK /\ DOMAIN exprs \subseteq Value
    BY DEF Converts, Value
<1>2. stack # << >> /\ Top.form = "if" /\ Len(Top.args) = 1 /\ types' = types
    BY DEF Branch, InForm
<1>3. /\ Top \in Activation /\ Top.alt = None /\ Top.join = None /\ Top.oname \in NameT \cup {None}
      /\ Range(Top.args) \subseteq Value
    BY <1>1, <1>2, TopFacts, RangeWithin DEF Activation, Resumed
<1>4. /\ ValuesRooted(roots) /\ BlocksLead(roots, live) /\ Available(roots, live)
    BY DEF Recorded
<1>5. \A v \in Range(Top.args) : roots[v] \subseteq live[current]
    BY <1>2, <1>3, <1>4, UsableNow DEF ArgsUsed
<1>6. PICK n \in Nat : n = Len(params)
    BY <1>1, BlocksAre DEF BlocksOK
<1>7. PICK ps : ps = params \o <<<< >>, << >>>>
    OBVIOUS
<1>8. /\ ps \in Seq(Seq(DOMAIN exprs)) /\ Len(ps) = n + 2 /\ Len(ps) >= Len(params)
      /\ Block = 1..n /\ DOMAIN ps \ Block = {n + 1, n + 2}
      /\ \A b \in Block : ps[b] = params[b]
      /\ \A b \in DOMAIN ps \ Block : Len(ps[b]) = 0
    BY <1>1, <1>6, <1>7, ArmsAdded
<1>9. PICK t : t = [form |-> "if", args |-> Top.args, conts |-> <<n + 1, n + 2>>]
    OBVIOUS
<1>10. PICK u : u = [transfer EXCEPT ![current] = t]
    OBVIOUS
<1>11. PICK join : join = IF IsTrivial(Top.k) THEN None ELSE n + 3
    OBVIOUS
<1>12. n + 3 # None /\ n + 2 # None /\ n + 1 # None
    BY NodesAssumption
<1>13. PICK alt : alt = n + 2
    OBVIOUS
<1>14. PICK a : a = WithBlocks(Top, alt, join)
    OBVIOUS
<1>15. PICK k : k = BranchCont(a)
    OBVIOUS
<1>16. PICK e : e = Expr(k, None, Top.type, Top.scope)
    OBVIOUS
<1>17. /\ current' = n + 1 /\ stack' = Calls(a, e)
       /\ IF join = None
          THEN params' = ps /\ transfer' = u \o <<None, None>> /\ UNCHANGED <<exprs, defs>>
          ELSE AddJoin(ps, Top.oname) /\ transfer' = Append(u \o <<None, None>>, None)
    <2>1. n + 1 = Len(params) + 1 /\ n + 2 = (Len(params) + 1) + 1
        BY <1>6
    <2>2. (Len(params) + 1) + 1 + 1 = n + 3
        BY <1>6
    <2>3. a.join = join /\ a.k = Top.k
        BY <1>3, <1>14 DEF WithBlocks, Activation
    <2>4. BranchCont(a) = IF IsTrivial(Top.k) THEN Top.k ELSE Trivial(join)
        BY <1>11, <1>12, <2>3 DEF BranchCont
    <2> QED
        BY <2>1, <2>2, <2>4, <1>7, <1>9, <1>10, <1>11, <1>13, <1>14, <1>15, <1>16 DEF Branch, WithBlocks
<1>18. PICK ns : ns = IF join = None THEN <<None, None>> ELSE <<None, None, None>>
    OBVIOUS
<1>19. ns \in Seq({None}) /\ Len(ns) = IF join = None THEN 2 ELSE 3
    <2>1. CASE join = None
        <3>1. ns = <<None, None>>
            BY <1>18, <2>1
        <3> QED
            BY ONLY <3>1, <2>1
    <2>2. CASE join # None
        <3>1. ns = <<None, None, None>>
            BY <1>18, <2>2
        <3> QED
            BY ONLY <3>1, <2>2
    <2> QED
        BY <2>1, <2>2
<1>20. transfer' = u \o ns
    <2>1. PICK S : S = Transfer \cup {None, t}
        OBVIOUS
    <2>2. transfer \in Seq(S) /\ t \in S /\ None \in S
        BY <1>1, <2>1 DEF BlocksOK
    <2>3. u \in Seq(S)
        BY <2>2, <1>10, SeqSet
    <2>4. Append(u \o <<None, None>>, None) = u \o <<None, None, None>>
        BY ONLY <2>2, <2>3
    <2> QED
        BY <2>4, <1>17, <1>18
<1>21. PICK p : p = current
    OBVIOUS
<1>22. p \in Block /\ Range(t.conts) = {n + 1, n + 2} /\ t.args = Top.args
    <2>1. Range(t.conts) = {n + 1, n + 2} /\ t.args = Top.args
        BY ONLY <1>9 DEF Range
    <2> QED
        BY <2>1, <1>1, <1>21 DEF BlocksOK
<1> HIDE <1>7, <1>9, <1>14
\* The records after the step, with or without a join.
<1>23. PICK r, l :
        /\ ValuesRooted(r)' /\ RecordsKept(roots, live, r, l) /\ Block \subseteq Block'
        /\ \A b \in Block' \ Block : \A w \in Range(params'[b]) : r[w] \subseteq l[b]
        /\ \E T : params' \in Seq(T) /\ Len(params') = Len(params) + Len(ns)
        /\ l[n + 1] = live[current] /\ l[n + 2] = live[current]
        /\ join # None =>
            /\ live[current] \subseteq l[join]
            /\ l[join] \subseteq live[current] \cup Range(params'[join])
            /\ \A m \in NameT : defs'[m] = defs[m] \/ (Top.oname = m /\ r[defs'[m]] \subseteq l[join])
        /\ join = None => defs' = defs
    <2>1. CASE join = None
        <3>1. params' = ps /\ exprs' = exprs /\ defs' = defs
            BY <2>1, <1>17
        <3>2. PICK l : l = [b \in Block' |-> IF b \in Block THEN live[b] ELSE live[current]]
            OBVIOUS
        <3>3. Block' = DOMAIN ps /\ Block \subseteq Block' /\ Block' \ Block = {n + 1, n + 2}
            <4>1. DOMAIN ps = 1..(n + 2)
                BY <1>8, SeqDomain
            <4> QED
                BY <3>1, <4>1, <1>8 DEF Block
        <3>4. /\ \A b \in Block : l[b] = live[b] /\ params'[b] = params[b]
              /\ l[n + 1] = live[current] /\ l[n + 2] = live[current]
            BY <3>1, <3>2, <3>3, <1>8
        <3>5. \A b \in Block' \ Block : Range(params'[b]) = {}
            <4>1. \A b \in DOMAIN ps : ps[b] \in Seq(DOMAIN exprs)
                BY <1>8
            <4>2. \A s \in Seq(DOMAIN exprs) : Len(s) = 0 => Range(s) = {}
                BY DEF Range
            <4> QED
                BY <3>1, <3>3, <4>1, <4>2, <1>8
        <3>6. ValuesRooted(roots)'
            <4>1. \A b \in Block' : \A v \in Range(params'[b]) : v \in roots[v]
                BY <3>4, <3>5, <1>4 DEF ValuesRooted
            <4>2. /\ roots[Null] = {}
                  /\ \A x \in DOMAIN exprs' : \A v \in Range(exprs'[x].args) : roots[v] \subseteq roots[x]
                BY <3>1, <1>4 DEF ValuesRooted
            <4> QED
                BY <4>1, <4>2 DEF ValuesRooted
        <3>7. RecordsKept(roots, live, roots, l)
            BY <3>1, <3>4 DEF RecordsKept
        <3>8. params' \in Seq(Seq(DOMAIN exprs)) /\ Len(params') = Len(params) + Len(ns)
            BY <2>1, <3>1, <1>6, <1>8, <1>19
        <3>9. \A b \in Block' \ Block : \A w \in Range(params'[b]) : roots[w] \subseteq l[b]
            BY <3>5
        <3> QED
            BY <2>1, <3>1, <3>3, <3>4, <3>6, <3>7, <3>8, <3>9
    <2>2. CASE join # None
        <3>1. PICK o : o = Top.oname
            OBVIOUS
        <3>2. PICK v : v = Len(exprs) + 1
            OBVIOUS
        <3>3. join = n + 3 /\ AddJoin(ps, o)
            BY <2>2, <3>1, <1>11, <1>17
        <3>4. NewJoin(ps, o, join, v)
            BY <3>1, <3>2, <3>3, <1>3, <1>8 DEF NewJoin
        <3>5. PICK r, l : NewRecords(roots, live, join, v, r, l)
            BY DEF NewRecords
        <3>6. /\ ValuesRooted(r)' /\ RecordsKept(roots, live, r, l) /\ Block \subseteq Block'
              /\ r[v] = {v} /\ l[join] = live[current] \cup {v} /\ Range(params'[join]) = {v}
              /\ \A b \in DOMAIN ps \ Block : l[b] = live[current]
              /\ \A m \in NameT : defs'[m] = defs[m] \/ (m = o /\ defs[m] = None /\ defs'[m] = v)
              /\ \A b \in Block' \ Block : \A w \in Range(params'[b]) : r[w] \subseteq l[b]
            <4>1. ExprsOK /\ BlocksOK /\ NamesOK /\ Recorded(roots, live)
                BY <1>1
            <4> QED
                BY ONLY <3>4, <3>5, <4>1, JoinRecords
        <3>7. params' \in Seq(Seq(DOMAIN exprs')) /\ Len(params') = Len(params) + Len(ns)
            <4>1. o \in NameT \cup {None} /\ join = Len(ps) + 1
                BY <3>4 DEF NewJoin
            <4>2. params' \in Seq(Seq(DOMAIN exprs')) /\ Len(params') = join
                BY <3>3, <4>1, <1>1, <1>2, <1>8, JoinAdded
            <4> QED
                BY <2>2, <3>3, <4>2, <1>6, <1>19
        <3>8. l[n + 1] = live[current] /\ l[n + 2] = live[current]
            BY <3>6, <1>8
        <3>9. \A m \in NameT : defs'[m] = defs[m] \/ (Top.oname = m /\ r[defs'[m]] \subseteq l[join])
            BY <3>1, <3>6
        <3> QED
            BY <2>2, <3>6, <3>7, <3>8, <3>9
    <2> QED
        BY <2>1, <2>2
<1>24. /\ \A b \in Block \ {current} : transfer'[b] = transfer[b]
       /\ transfer'[current] = t
       /\ \A b \in Block' \ Block : transfer'[b] = None
    BY <1>1, <1>10, <1>19, <1>20, <1>23, TransferGiven
<1>25. LeadsFrom(r, l, p, t)'
    <2>1. l[p] = live[p] /\ \A w \in Range(Top.args) : r[w] = roots[w]
        BY <1>3, <1>22, <1>23 DEF RecordsKept
    <2>2. l[n + 1] = l[p] /\ l[n + 2] = l[p]
        BY <2>1, <1>21, <1>23
    <2> QED
        BY <2>1, <2>2, <1>5, <1>21, <1>22 DEF LeadsFrom, Leads
<1>26. BlocksLead(r, l)'
    BY <1>1, <1>4, <1>21, <1>23, <1>24, <1>25, TransferRecorded
<1>27. Available(r, l)'
    <2>1. join = None <=> IsTrivial(Top.k)
        BY <1>11, <1>12
    <2>2. alt # None /\ current' # None
        BY <1>12, <1>13, <1>17
    <2>3. \A b \in {current', alt, join} \ {None} : live[current] \subseteq l[b]
        BY <1>13, <1>17, <1>23
    <2>4. join # None =>
            /\ \A q \in {current', alt} : l[join] \subseteq l[q] \cup Range(params'[join])
            /\ \A m \in NameT : defs'[m] = defs[m] \/ (Top.oname = m /\ r[defs'[m]] \subseteq l[join])
        BY <1>13, <1>17, <1>23
    <2>5. a = WithBlocks(Top, alt, join) /\ stack' = Calls(a, e)
        BY <1>14, <1>17
    <2>6. RecordsKept(roots, live, r, l) /\ (join = None => defs' = defs)
        BY <1>23
    <2> QED
        BY <2>1, <2>2, <2>3, <2>4, <2>5, <2>6, <1>2, <1>15, <1>16, BranchAvailable
<1>28. Recorded(r, l)'
    BY <1>23, <1>26, <1>27 DEF Recorded
<1> QED
    BY <1>28

-----------------------------------------------------------------------------
(* The records are kept over the whole conversion.                         *)

\* A parameter belongs to one block; some records say what can be used where.
Traced == ParamsOnce /\ \E roots, live : Recorded(roots, live)

LEMMA ParamsStayOnce ==
    ASSUME ExprsOK, BlocksOK, ParamsOnce, NEW join,
           \A b \in Block' :
                \/ b \in Block /\ params'[b] = params[b]
                \/ Range(params'[b]) = {}
                \/ b = join /\ Range(params'[b]) = {Len(exprs) + 1}
    PROVE  ParamsOnce'
<1>1. \A b \in Block : Len(exprs) + 1 \notin Range(params[b])
    BY ValuesAre, ParamsAre
<1> SUFFICES ASSUME NEW a \in Block', NEW b \in Block', Range(params'[a]) \cap Range(params'[b]) # {}
             PROVE  a = b
    BY DEF ParamsOnce
<1>2. PICK v : v \in Range(params'[a]) /\ v \in Range(params'[b])
    OBVIOUS
<1>3. CASE v = Len(exprs) + 1
    BY <1>1, <1>2, <1>3
<1>4. CASE v # Len(exprs) + 1
    <2>1. ASSUME NEW c \in Block', v \in Range(params'[c])
          PROVE  c \in Block /\ params'[c] = params[c]
        <3>1. Range(params'[c]) # {} /\ Range(params'[c]) # {Len(exprs) + 1}
            BY ONLY <2>1, <1>4
        <3> QED
            BY <3>1
    <2> QED
        BY <1>2, <2>1 DEF ParamsOnce
<1> QED
    BY <1>3, <1>4

LEMMA ParamsOnceKept ==
    ASSUME Converts, ParamsOnce, ToCpsNext
    PROVE  ParamsOnce'
<1>1. ExprsOK /\ BlocksOK /\ NamesOK /\ StackOK
    BY DEF Converts
<1>2. CASE params' = params
    BY <1>2 DEF Block, ParamsOnce
<1>3. CASE CallTo /\ params' # params
    <2>1. stack # << >> /\ Top.form = "call"
        BY <1>3 DEF CallTo, InForm
    <2>2. PICK ps : ps = params
        OBVIOUS
    <2>3. AddJoin(ps, Top.k.name)
        BY <1>3, <2>2 DEF CallTo
    <2>4. /\ ps \in Seq(Seq(DOMAIN exprs)) /\ Len(ps) >= Len(params)
          /\ (\A b \in Block : ps[b] = params[b]) /\ DOMAIN ps \ Block = {}
        BY <1>1, BlocksAre, <2>2 DEF BlocksOK, Block
    <2>5. PICK join : join = Len(ps) + 1
        OBVIOUS
    <2>6. /\ Block' = DOMAIN ps \cup {join}
          /\ \A b \in Block : params'[b] = params[b]
          /\ Range(params'[join]) = {Len(exprs) + 1}
        BY <1>1, <2>3, <2>4, <2>5, JoinElements
    <2>7. DOMAIN ps = Block
        BY <2>2 DEF Block
    <2> QED
        BY <1>1, <2>6, <2>7, ParamsStayOnce
<1>4. CASE Branch
    <2>1. PICK n \in Nat : n = Len(params)
        BY <1>1, BlocksAre DEF BlocksOK
    <2>2. PICK ps : ps = params \o <<<< >>, << >>>>
        OBVIOUS
    <2>3. /\ ps \in Seq(Seq(DOMAIN exprs)) /\ Len(ps) = n + 2 /\ Len(ps) >= Len(params)
          /\ Block = 1..n /\ DOMAIN ps \ Block = {n + 1, n + 2}
          /\ \A b \in Block : ps[b] = params[b]
          /\ \A b \in DOMAIN ps \ Block : Len(ps[b]) = 0
        BY <1>1, <2>1, <2>2, ArmsAdded
    <2>4. params' = ps \/ AddJoin(ps, Top.oname)
        BY <1>4, <2>2 DEF Branch
    <2>5. CASE params' = ps
        <3>1. \A b \in DOMAIN ps \ Block : Range(ps[b]) = {}
            BY <2>3 DEF Range
        <3>2. Block' = DOMAIN ps
            BY <2>5 DEF Block
        <3> QED
            BY <3>1, <3>2, <2>3, <2>5, <1>1, ParamsStayOnce
    <2>6. CASE AddJoin(ps, Top.oname)
        <3>1. PICK join : join = Len(ps) + 1
            OBVIOUS
        <3>2. /\ Block' = DOMAIN ps \cup {join}
              /\ \A b \in Block : params'[b] = params[b]
              /\ \A b \in DOMAIN ps \ Block : Range(params'[b]) = {}
              /\ Range(params'[join]) = {Len(exprs) + 1}
            BY <1>1, <2>3, <2>6, <3>1, JoinElements
        <3> QED
            BY <1>1, <3>2, ParamsStayOnce
    <2> QED
        BY <2>4, <2>5, <2>6
<1>5. \/ params' = params \/ Branch \/ CallTo
    BY DEF ToCpsNext, Id, Const, Val, Prim, If, Call, Operand, Apply, Alternative, Join
<1> QED
    BY <1>2, <1>3, <1>4, <1>5

LEMMA TracedKept ==
    ASSUME Converts, Traced, ToCpsNext
    PROVE  Traced'
<1>1. ParamsOnce'
    BY ParamsOnceKept DEF Traced
<1>2. PICK roots, live : Recorded(roots, live)
    BY DEF Traced
<1>3. \E r, l : Recorded(r, l)'
    <2>1. CASE \E n \in NameT : Id(n)
        BY <1>2, <2>1, IdRecorded
    <2>2. CASE \E t \in Type : Val(t)
        BY <1>2, <2>2, ValRecorded
    <2>3. CASE Const \/ Apply
        BY <1>2, <2>3, ConstRecorded, ApplyRecorded
    <2>4. CASE Prim \/ If \/ Call \/ Operand
        BY <1>2, <2>4, PartsRecorded
    <2>5. CASE CallTo \/ Branch
        BY <1>2, <2>5, CallToRecorded, BranchRecorded
    <2>6. CASE Alternative \/ Join
        BY <1>2, <2>6, AlternativeRecorded, JoinRecorded
    <2> QED
        BY <2>1, <2>2, <2>3, <2>4, <2>5, <2>6 DEF ToCpsNext
<1> QED
    BY <1>1, <1>3 DEF Traced

LEMMA TracedStays ==
    ASSUME Traced, UNCHANGED cpsVars
    PROVE  Traced'
<1>1. UNCHANGED <<exprs, params, transfer, defs, types, current, stack, nodes>>
    BY DEF cpsVars
<1>2. Block' = Block /\ NameT' = NameT
    BY <1>1 DEF Block, NameT
<1>3. ParamsOnce'
    BY <1>1, <1>2 DEF Traced, ParamsOnce
<1>4. PICK roots, live : Recorded(roots, live)
    BY DEF Traced
<1>5. ValuesRooted(roots)'
    BY <1>1, <1>2, <1>4 DEF Recorded, ValuesRooted
<1>6. BlocksLead(roots, live)'
    BY <1>1, <1>2, <1>4 DEF Recorded, BlocksLead, LeadsFrom, Leads
<1>7. GivenOnce'
    BY <1>1, <1>4 DEF Recorded, Available, GivenOnce
<1>8. ASSUME NEW j \in DOMAIN stack, AvailableAt(roots, live, j)
      PROVE  AvailableAt(roots, live, j)'
    BY <1>1, <1>8, <1>2 DEF UsedAt, GivenIn, HasAt, AvailableAt, ScopeAt, ArgsAt, ContAt, JoinAt, Leads,
        GivenAt
<1>9. Available(roots, live)'
    BY <1>1, <1>4, <1>7, <1>8 DEF Recorded, Available
<1>10. Recorded(roots, live)'
    BY <1>5, <1>6, <1>9 DEF Recorded
<1> QED
    BY <1>3, <1>10 DEF Traced

LEMMA TracedStarts ==
    ASSUME Init
    PROVE  Traced
<1>1. /\ ExprsOK /\ BlocksOK /\ StackOK
      /\ exprs = [x \in 1..4 |-> [kind |-> IF x = 1 THEN "fn" ELSE "param", args |-> << >>]]
      /\ params = <<<<2, 3, 4>>>> /\ transfer = <<None>> /\ current = 1
      /\ defs = <<1, 2, 3, 4>>
    BY ConversionStarts DEF Converts, Init
<1>2. PICK t \in Base : stack = <<Expr(Trivial(Return), None, t, 1..4)>>
    BY DEF Init
<1>3. PICK a : a = Expr(Trivial(Return), None, t, 1..4)
    OBVIOUS
<1>4. /\ a.k.cont = Return /\ a.k.name = None /\ a.scope = 1..4 /\ a.args = << >>
      /\ a.alt = None /\ a.join = None /\ a.oname = None /\ a.form = "expr"
    BY ONLY <1>3 DEF Expr, Trivial
<1>5. PICK roots : roots = [v \in (1..4) \cup {Null} |-> IF v \in 2..4 THEN {v} ELSE {}]
    OBVIOUS
<1>6. PICK live : live = [b \in {1} |-> 2..4]
    OBVIOUS
<1>7. Null \notin 1..4 /\ DOMAIN exprs = 1..4 /\ \A x \in 1..4 : Range(exprs[x].args) = {}
    <2>1. Null \notin 1..4
        BY NodesAssumption
    <2>2. DOMAIN exprs = 1..4 /\ \A x \in 1..4 : exprs[x].args = << >>
        BY ONLY <1>1
    <2> QED
        BY ONLY <2>1, <2>2 DEF Range
<1>8. Block = {1} /\ Range(params[1]) = 2..4
    <2>1. PICK p : p = <<2, 3, 4>>
        OBVIOUS
    <2>2. Range(p) = 2..4
        BY ONLY <2>1 DEF Range
    <2> QED
        BY <1>1, <2>1, <2>2 DEF Block
<1>9. stack = <<a>> /\ DOMAIN stack = {1} /\ stack[1] = a
    BY <1>2, <1>3
<1>10. NameT = 1..4 /\ \A n \in 1..4 : defs[n] = n
    <2>1. Len(defs) = 4
        BY ONLY <1>1
    <2>2. DOMAIN types = 1..4
        BY <2>1, ConversionStarts, SeqDomain DEF Converts, NamesOK
    <2>3. \A n \in 1..4 : defs[n] = n
        BY ONLY <1>1
    <2> QED
        BY <2>2, <2>3 DEF NameT
<1> HIDE <1>3
<1>11. \A v \in (1..4) \cup {Null} : roots[v] \subseteq live[1] /\ (v \in 2..4 => v \in roots[v])
    BY ONLY <1>5, <1>6
<1>12. ParamsOnce
    BY <1>8 DEF ParamsOnce
<1>13. ValuesRooted(roots)
    <2>1. roots[Null] = {}
        BY ONLY <1>5, <1>7
    <2> QED
        BY <2>1, <1>7, <1>8, <1>11 DEF ValuesRooted
<1>14. BlocksLead(roots, live)
    <2>1. live[1] \subseteq 2..4
        BY ONLY <1>6
    <2>2. transfer[1] = None
        BY ONLY <1>1
    <2>3. \A v \in 2..4 : v \in (1..4) \cup {Null}
        OBVIOUS
    <2> QED
        BY <2>1, <2>2, <2>3, <1>8, <1>11 DEF BlocksLead, Entry
<1>15. Available(roots, live)
    <2>1. UsedAt(1) = {1}
        <3>1. Marks(a) = {}
            BY ONLY <1>4 DEF Marks
        <3> QED
            BY ONLY <3>1, <1>1, <1>9 DEF UsedAt
    <2>2. ScopeAt(roots, live, 1)
        BY <2>1, <1>4, <1>9, <1>10, <1>11 DEF ScopeAt, HasAt
    <2>3. ArgsAt(roots, live, 1)
        <3>1. Range(a.args) = {}
            BY ONLY <1>4 DEF Range
        <3> QED
            BY <3>1, <1>9 DEF ArgsAt
    <2>4. ContAt(live, 1) /\ JoinAt(live, 1)
        BY <1>4, <1>9 DEF ContAt, JoinAt
    <2>5. GivenAt(roots, live, 1)
        BY NodesAssumption, <1>4, <1>9, <1>10 DEF GivenAt
    <2>6. GivenOnce
        BY <1>9 DEF GivenOnce
    <2> QED
        BY <2>2, <2>3, <2>4, <2>5, <2>6, <1>9 DEF Available, AvailableAt
<1> QED
    BY <1>12, <1>13, <1>14, <1>15 DEF Traced, Recorded

-----------------------------------------------------------------------------
(* What a transfer needs.                                                  *)

Smaller == {p \in Nat \X Nat : p[1] < p[2]}

LEMMA SmallerWellFounded == IsWellFoundedOn(Smaller, Nat)
BY Zenon, NatLessThanWellFounded DEF OpToRel, Smaller

LEMMA SmallestOf ==
    ASSUME NEW S \in SUBSET Nat, S # {}
    PROVE  \E m \in S : \A k \in S : ~(k < m)
<1>1. PICK m \in S : \A k \in S : <<k, m>> \notin Smaller
    BY SmallerWellFounded, WFMin, Zenon
<1>2. ASSUME NEW k \in S
      PROVE  ~(k < m)
    <2> DEFINE p == <<k, m>>
    <2>1. p \in Nat \X Nat /\ p[1] = k /\ p[2] = m
        OBVIOUS
    <2>2. p \notin Smaller
        BY <1>1
    <2> HIDE DEF p
    <2>3. ~(p[1] < p[2])
        BY <2>1, <2>2 DEF Smaller
    <2> QED
        BY <2>1, <2>3
<1> QED
    BY <1>2

WithOperands(vs) == vs \cup UNION {Operands(v) : v \in vs}

\* f[n] are the values that n rounds of adding operands give.
Rounds(f, vs, N) == f = [n \in 0..N |-> IF n = 0 THEN vs ELSE WithOperands(f[n - 1])]

LEMMA RoundsExist ==
    ASSUME NEW vs, NEW N \in Nat
    PROVE  \E f : Rounds(f, vs, N)
<1> DEFINE Bad == {n \in Nat : ~ \E f : Rounds(f, vs, n)}
<1> SUFFICES ASSUME Bad # {}
             PROVE  FALSE
    OBVIOUS
<1>1. PICK m \in Bad : \A k \in Bad : ~(k < m)
    BY SmallestOf
<1>2. CASE m = 0
    <2>1. PICK f : f = [n \in 0..0 |-> vs]
        OBVIOUS
    <2>2. f = [n \in 0..0 |-> IF n = 0 THEN vs ELSE WithOperands(f[n - 1])]
        BY <2>1
    <2>3. Rounds(f, vs, 0)
        BY <2>2 DEF Rounds
    <2> QED
        BY <2>3, <1>2
<1>3. CASE m # 0
    <2>1. m \in Nat /\ m - 1 \in Nat /\ m - 1 < m
        BY <1>3
    <2>2. PICK g : Rounds(g, vs, m - 1)
        BY <2>1, <1>1
    <2>3. PICK f : f = [n \in 0..m |-> IF n < m THEN g[n] ELSE WithOperands(g[m - 1])]
        OBVIOUS
    <2>4. ASSUME NEW n \in 0..m
          PROVE  f[n] = IF n = 0 THEN vs ELSE WithOperands(f[n - 1])
        BY <2>1, <2>2, <2>3, <1>3 DEF Rounds
    <2>5. DOMAIN f = 0..m /\ f = [n \in 0..m |-> f[n]]
        BY <2>3
    <2>6. Rounds(f, vs, m)
        BY <2>4, <2>5 DEF Rounds
    <2> QED
        BY <2>6
<1> QED
    BY <1>2, <1>3

LEMMA NeedsAre ==
    ASSUME NEW vs, Len(exprs) \in Nat
    PROVE  \E f : Rounds(f, vs, Len(exprs)) /\ Needs(vs) = f[Len(exprs)]
<1> DEFINE more == CHOOSE f : Rounds(f, vs, Len(exprs))
<1>1. Rounds(more, vs, Len(exprs))
    BY RoundsExist, Zenon
<1>2. Needs(vs) = more[Len(exprs)]
    BY Zenon DEF Needs, Rounds, WithOperands
<1> HIDE DEF more
<1> QED
    BY <1>1, <1>2

\* What contains some values and the operands of what it contains has all they need.
LEMMA NeedsWithin ==
    ASSUME NEW vs, Len(exprs) \in Nat, NEW R, vs \subseteq R,
           \A v \in R : Operands(v) \subseteq R
    PROVE  Needs(vs) \subseteq R
<1>1. PICK f : Rounds(f, vs, Len(exprs)) /\ Needs(vs) = f[Len(exprs)]
    BY NeedsAre
<1>2. PICK N \in Nat : N = Len(exprs)
    OBVIOUS
<1>3. \A n \in 0..N : f[n] = IF n = 0 THEN vs ELSE WithOperands(f[n - 1])
    BY <1>1, <1>2 DEF Rounds
<1> DEFINE Bad == {n \in 0..N : ~(f[n] \subseteq R)}
<1>4. ASSUME Bad # {}
      PROVE  FALSE
    <2>1. Bad \in SUBSET Nat
        OBVIOUS
    <2>2. PICK m \in Bad : \A k \in Bad : ~(k < m)
        BY <1>4, <2>1, SmallestOf
    <2>3. m # 0
        BY <1>3, <2>2
    <2>4. m - 1 \in 0..N /\ m - 1 < m
        BY <2>3
    <2>5. f[m - 1] \subseteq R
        BY <2>2, <2>4
    <2>6. f[m] = WithOperands(f[m - 1])
        BY <1>3, <2>2, <2>3
    <2>7. f[m] \subseteq R
        BY <2>5, <2>6 DEF WithOperands
    <2> QED
        BY <2>2, <2>7
<1>5. N \in 0..N
    OBVIOUS
<1> QED
    BY <1>1, <1>2, <1>4, <1>5

LEMMA OperandsAre ==
    ASSUME ExprsOK
    PROVE  \A e \in DOMAIN exprs : Range(exprs[e].args) \subseteq Value
<1>1. DOMAIN exprs = 1..Len(exprs) /\ Len(exprs) \in Nat
    BY ValuesAre
<1>2. \A e \in DOMAIN exprs : Range(exprs[e].args) \subseteq (1..(e - 1)) \cup {Null}
    BY Zenon DEF ExprsOK
<1>3. \A e \in DOMAIN exprs : 1..(e - 1) \subseteq DOMAIN exprs
    BY <1>1
<1> QED
    BY <1>2, <1>3 DEF Value

LEMMA NeedsLive ==
    ASSUME ExprsOK, BlocksOK, NEW roots, NEW live, ValuesRooted(roots), BlocksLead(roots, live),
           NEW b \in Block, transfer[b] # None
    PROVE  \A v \in Needs(Range(transfer[b].args)) : roots[v] \subseteq live[b]
<1>1. PICK R : R = {v \in Value : roots[v] \subseteq live[b]}
    OBVIOUS
<1>2. PICK vs : vs = Range(transfer[b].args)
    OBVIOUS
<1>3. vs \subseteq R
    BY <1>2, <1>1 DEF BlocksOK, TransferOK, BlocksLead, LeadsFrom
<1>4. ASSUME NEW v \in R
      PROVE  Operands(v) \subseteq R
    BY <1>1, <1>4, OperandsAre DEF Operands, Value, ValuesRooted
<1>5. Len(exprs) \in Nat
    BY ValuesAre
<1>6. Needs(vs) \subseteq R
    BY <1>3, <1>4, <1>5, NeedsWithin
<1> QED
    BY <1>1, <1>2, <1>6

\* What a block needs is there on every path to it: where a parameter begins to be
\* usable is the block that has it.
LEMMA UsableDominates ==
    ASSUME BlocksOK, ParamsOnce, NEW roots, NEW live, ValuesRooted(roots), BlocksLead(roots, live),
           NEW a \in Block, NEW b \in Block, NEW v \in Range(params[a]), v \in live[b]
    PROVE  Flow!Dominates(a, b)
<1>1. CASE a = b
    BY <1>1 DEF Flow!Dominates
<1>2. CASE a # b
    <2>1. PICK S : S = {x \in Block : v \notin live[x]} \cup {a}
        OBVIOUS
    <2>2. Flow!Block = Block /\ Flow!Entry = Entry
        BY DEF Flow!Block, Flow!Entry, FlowSucc, Entry
    <2>3. Entry \in S
        BY <2>1 DEF BlocksOK, BlocksLead, ParamsOnce
    <2>4. b \notin S /\ S \subseteq Block
        BY <2>1, <1>2
    <2>5. ASSUME NEW p \in S \ {a}, NEW c \in Flow!Succs(p)
          PROVE  c \in S
        <3>1. p \in Block /\ v \notin live[p]
            BY <2>1, <2>5
        <3>2. FlowSucc[p] = << >> \/ FlowSucc[p] = Successors(p)
            BY <3>1 DEF FlowSucc
        <3>3. FlowSucc[p] = Successors(p) /\ \E k \in DOMAIN FlowSucc[p] : c = FlowSucc[p][k]
            BY <2>5, <3>2 DEF Flow!Succs
        <3>4. c \in Range(Successors(p))
            BY <3>3 DEF Range
        <3>5. /\ transfer[p] # None /\ Return \notin Range(transfer[p].conts)
              /\ c \in Range(transfer[p].conts)
            BY <3>4 DEF Successors, Range
        <3>6. c \in Block
            <4>1. TransferOK(transfer[p])
                BY <3>1, <3>5 DEF BlocksOK
            <4>2. Joins \subseteq Block /\ Arms \subseteq Block
                BY DEF Joins, Arms
            <4>3. \E d, e \in Block \cup {Return} : \/ transfer[p].conts = <<d>>
                                                    \/ transfer[p].conts = <<d, e>>
                BY <4>1, <4>2 DEF TransferOK
            <4> QED
                BY <3>5, <4>3 DEF Range
        <3>7. live[c] \subseteq live[p] \cup Range(params[c])
            BY <3>1, <3>5 DEF BlocksLead, LeadsFrom, Leads
        <3>8. v \in live[c] => c = a
            BY <3>1, <3>6, <3>7 DEF ParamsOnce
        <3> QED
            BY <2>1, <3>6, <3>8
    <2>6. \E T \in SUBSET Flow!Block :
            Flow!Entry \in T /\ b \notin T /\ \A p \in T \ {a} : Flow!Succs(p) \subseteq T
        BY <2>2, <2>3, <2>4, <2>5
    <2> QED
        BY <2>6 DEF Flow!Dominates
<1> QED
    BY <1>1, <1>2

LEMMA TracedDominates ==
    ASSUME Converts, Traced
    PROVE  OperandsDominate
<1> SUFFICES ASSUME stack = << >>, NEW b \in Block
             PROVE  /\ transfer[b] # None
                    /\ \A a \in Block : Range(params[a]) \cap Needs(Range(transfer[b].args)) # {} =>
                        Flow!Dominates(a, b)
    BY DEF OperandsDominate
<1>1. ExprsOK /\ BlocksOK /\ TransfersOK
    BY DEF Converts
<1>2. transfer[b] # None
    BY <1>1 DEF TransfersOK
<1>3. PICK roots, live : Recorded(roots, live)
    BY DEF Traced
<1>4. ValuesRooted(roots) /\ BlocksLead(roots, live) /\ ParamsOnce
    BY <1>3 DEF Recorded, Traced
<1>5. ASSUME NEW a \in Block, NEW v \in Range(params[a]), v \in Needs(Range(transfer[b].args))
      PROVE  Flow!Dominates(a, b)
    BY <1>1, <1>2, <1>4, <1>5, NeedsLive, UsableDominates DEF ValuesRooted
<1> QED
    BY <1>2, <1>5

TracedInv == CompileInv /\ Traced

LEMMA TracedInvKept == TracedInv /\ [Next]_vars => TracedInv'
<1> SUFFICES ASSUME CompileInv, Traced, [Next]_vars
             PROVE  CompileInv' /\ Traced'
    BY DEF TracedInv
<1>1. CompileInv' /\ Converts
    BY CompileInvKept DEF CompileInv
<1>2. ToCpsNext \/ UNCHANGED cpsVars
    BY DEF Next, ConvertStep, BeginWalk, VisitedBefore, VisitBlock, LeaveBlock, VisitExpr, LeaveExpr,
           BeginSchedule, ScheduleExpr, PrintDef, Declare, PatchPhis, Fill, vars
<1> QED
    BY <1>1, <1>2, TracedKept, TracedStays

\* The branches of a conditional and the blocks of calls leave a name with a value
\* that is there wherever the program can use the name: a block needs parameters
\* only of blocks on every path to it, and every block has its transfer.
THEOREM OperandsDominateAlways == Spec => []OperandsDominate
<1>1. CompileInit => TracedInv
    BY CompileStarts, TracedStarts DEF TracedInv, CompileInit
<1>2. TracedInv => OperandsDominate
    BY TracedDominates DEF TracedInv, CompileInv
<1> QED
    BY <1>1, <1>2, TracedInvKept, PTL DEF Spec

-----------------------------------------------------------------------------
LEMMA SuccessorsAreBlocks ==
    ASSUME BlocksOK, NEW p \in Block
    PROVE  Range(Successors(p)) \subseteq Block
BY DEF Successors, Range, BlocksOK, Joins, Arms, TransferOK

-----------------------------------------------------------------------------
(* The tasks of ControlFlow on the stack of activations.                   *)

LEMMA CatAssociates ==
    ASSUME NEW S, NEW r \in Seq(S), NEW s \in Seq(S), NEW t \in Seq(S)
    PROVE  r \o (s \o t) = (r \o s) \o t /\ s \o t \in Seq(S) /\ << >> \o t = t
OBVIOUS

Flattens(f, s) ==
    f = [i \in 1..Len(s) |-> IF i = 1 THEN s[i] ELSE f[i - 1] \o s[i]]

LEMMA FlattensExists ==
    ASSUME NEW S, NEW s \in Seq(Seq(S)), s # << >>
    PROVE  \E f : Flattens(f, s) /\ FlattenSeq(s) = f[Len(s)]
<1>1. Len(s) \in Nat \ {0}
    OBVIOUS
<1> DEFINE OK(f, n) == \A i \in 1..n : f[i] = IF i = 1 THEN s[i] ELSE f[i - 1] \o s[i]
           Bad == {n \in Nat : ~ \E f : DOMAIN f = 1..n /\ f = [i \in 1..n |-> f[i]] /\ OK(f, n)}
<1>2. Bad = {}
    <2> SUFFICES ASSUME Bad # {}
                 PROVE  FALSE
        OBVIOUS
    <2>1. PICK m \in Bad : \A k \in Bad : ~(k < m)
        BY SmallestOf
    <2>2. CASE m = 0
        <3>1. PICK f : f = [i \in 1..0 |-> s]
            OBVIOUS
        <3>2. DOMAIN f = 1..0 /\ f = [i \in 1..0 |-> f[i]] /\ OK(f, 0)
            BY <3>1
        <3> QED
            BY <2>1, <2>2, <3>2
    <2>3. CASE m # 0
        <3>1. m \in Nat /\ m - 1 \in Nat /\ m - 1 < m
            BY <2>1, <2>3
        <3>2. PICK g : OK(g, m - 1)
            BY <2>1, <3>1
        <3>3. PICK f : f = [i \in 1..m |-> IF i < m THEN g[i]
                                           ELSE IF m = 1 THEN s[1] ELSE g[m - 1] \o s[m]]
            OBVIOUS
        <3>4. ASSUME NEW i \in 1..m
              PROVE  f[i] = IF i = 1 THEN s[i] ELSE f[i - 1] \o s[i]
            <4>1. CASE i < m /\ i = 1
                <5>1. i \in 1..(m - 1)
                    BY <4>1, <3>1
                <5>2. g[i] = s[i]
                    BY <4>1, <5>1, <3>2
                <5> QED
                    BY <4>1, <5>2, <3>3
            <4>2. CASE i < m /\ i # 1
                <5>1. i \in 1..(m - 1) /\ i - 1 \in 1..m /\ i - 1 < m
                    BY <4>2, <3>1
                <5>2. g[i] = g[i - 1] \o s[i]
                    BY <4>2, <5>1, <3>2
                <5> QED
                    BY <4>2, <5>1, <5>2, <3>3
            <4>3. CASE i = m
                BY <3>1, <4>3, <3>3
            <4> QED
                BY <4>1, <4>2, <4>3, <3>1
        <3>5. DOMAIN f = 1..m /\ f = [i \in 1..m |-> f[i]]
            BY <3>3
        <3> QED
            BY <2>1, <3>4, <3>5
    <2> QED
        BY <2>1, <2>2, <2>3
<1>3. PICK f : DOMAIN f = 1..Len(s) /\ f = [i \in 1..Len(s) |-> f[i]] /\ OK(f, Len(s))
    BY <1>1, <1>2
<1>4. Flattens(f, s)
    BY <1>3 DEF Flattens
<1>5. \E g : g = [i \in 1..Len(s) |-> IF i = 1 THEN s[i] ELSE g[i - 1] \o s[i]]
    BY <1>4 DEF Flattens
<1>6. PICK h : h = CHOOSE g : g = [i \in 1..Len(s) |-> IF i = 1 THEN s[i] ELSE g[i - 1] \o s[i]]
    OBVIOUS
<1>7. Flattens(h, s)
    BY <1>5, <1>6, Zenon DEF Flattens
<1>8. FlattenSeq(s) = h[Len(s)]
    BY <1>1, <1>6, Zenon DEF FlattenSeq
<1> QED
    BY <1>7, <1>8

LEMMA FlattensAre ==
    ASSUME NEW S, NEW s \in Seq(Seq(S)), NEW f, Flattens(f, s), NEW i \in 1..Len(s)
    PROVE  f[i] \in Seq(S)
<1>1. \A j \in 1..Len(s) : s[j] \in Seq(S)
    OBVIOUS
<1> DEFINE Bad == {j \in 1..Len(s) : f[j] \notin Seq(S)}
<1> SUFFICES ASSUME Bad # {}
             PROVE  FALSE
    OBVIOUS
<1>2. PICK m \in Bad : \A k \in Bad : ~(k < m)
    <2>1. Bad \in SUBSET Nat
        OBVIOUS
    <2> QED
        BY <2>1, SmallestOf
<1>3. m \in 1..Len(s) /\ f[m] = IF m = 1 THEN s[m] ELSE f[m - 1] \o s[m]
    BY <1>2 DEF Flattens
<1>4. m # 1 => m - 1 \in 1..Len(s) /\ m - 1 < m
    BY <1>3
<1>5. m # 1 => f[m - 1] \in Seq(S)
    BY <1>2, <1>4
<1>6. f[m] \in Seq(S)
    BY <1>1, <1>3, <1>5, CatAssociates
<1> QED
    BY <1>2, <1>6

LEMMA FlattenCons ==
    ASSUME NEW S, NEW s \in Seq(Seq(S)), s # << >>
    PROVE  /\ FlattenSeq(s) = s[1] \o FlattenSeq(Tail(s))
           /\ FlattenSeq(Tail(s)) \in Seq(S) /\ s[1] \in Seq(S)
<1>1. PICK t : t = Tail(s)
    OBVIOUS
<1>2. /\ t \in Seq(Seq(S)) /\ Len(t) = Len(s) - 1 /\ \A i \in 1..(Len(s) - 1) : t[i] = s[i + 1]
      /\ Len(s) \in Nat \ {0} /\ \A i \in 1..Len(s) : s[i] \in Seq(S)
    BY <1>1
<1>3. PICK f : Flattens(f, s) /\ FlattenSeq(s) = f[Len(s)]
    BY FlattensExists
<1>4. f[1] = s[1] /\ s[1] \in Seq(S) /\ \A i \in 2..Len(s) : f[i] = f[i - 1] \o s[i]
    <2>1. 1 \in 1..Len(s) /\ \A i \in 2..Len(s) : i \in 1..Len(s) /\ i # 1
        BY <1>2
    <2> QED
        BY <2>1, <1>2, <1>3 DEF Flattens
<1>5. CASE Len(s) = 1
    <2>1. t = << >> /\ Len(<< >>) = 0
        BY <1>2, <1>5
    <2>2. FlattenSeq(t) = << >>
        BY ONLY <2>1, Zenon DEF FlattenSeq
    <2>3. s[1] \o << >> = s[1]
        BY <1>4
    <2> QED
        BY <1>1, <1>3, <1>4, <1>5, <2>2, <2>3
<1>6. CASE Len(s) # 1
    <2>1. t # << >>
        BY <1>2, <1>6
    <2>2. PICK g : Flattens(g, t) /\ FlattenSeq(t) = g[Len(t)]
        BY <1>2, <2>1, FlattensExists
    <2>3. \A i \in 1..Len(t) : g[i] \in Seq(S)
        BY <1>2, <2>2, FlattensAre
    <2>4. g[1] = t[1] /\ \A i \in 2..Len(t) : g[i] = g[i - 1] \o t[i]
        <3>1. 1 \in 1..Len(t) /\ \A i \in 2..Len(t) : i \in 1..Len(t) /\ i # 1
            BY <1>2, <1>6
        <3> QED
            BY <2>2, <3>1 DEF Flattens
    <2> DEFINE Bad == {i \in Nat : i \in 1..Len(t) /\ f[i + 1] # s[1] \o g[i]}
    <2>5. Bad = {}
        <3> SUFFICES ASSUME Bad # {}
                     PROVE  FALSE
            OBVIOUS
        <3>1. PICK m \in Bad : \A k \in Bad : ~(k < m)
            BY SmallestOf
        <3>2. m \in 1..Len(t) /\ m + 1 \in 2..Len(s) /\ (m + 1) - 1 = m /\ t[m] = s[m + 1]
            BY <3>1, <1>2
        <3>3. f[m + 1] = f[m] \o t[m]
            BY <3>2, <1>4
        <3>4. CASE m = 1
            BY <3>1, <3>3, <3>4, <1>4, <2>4
        <3>5. CASE m # 1
            <4>1. m - 1 \in 1..Len(t) /\ m - 1 < m /\ (m - 1) + 1 = m /\ m \in 2..Len(t)
                BY <3>2, <3>5
            <4>2. f[m] = s[1] \o g[m - 1]
                <5>1. PICK k \in Nat : k = m - 1 /\ k \in 1..Len(t) /\ k < m
                    BY <4>1
                <5>2. f[k + 1] = s[1] \o g[k]
                    BY <3>1, <5>1
                <5> QED
                    BY <4>1, <5>1, <5>2
            <4>3. g[m] = g[m - 1] \o t[m] /\ g[m - 1] \in Seq(S) /\ t[m] \in Seq(S)
                <5>1. t[m] \in Seq(S)
                    BY <3>2, <1>2
                <5> QED
                    BY <5>1, <4>1, <2>3, <2>4
            <4>4. s[1] \o (g[m - 1] \o t[m]) = (s[1] \o g[m - 1]) \o t[m]
                <5>1. PICK r, p, q : r = s[1] /\ p = g[m - 1] /\ q = t[m]
                    OBVIOUS
                <5>2. r \in Seq(S) /\ p \in Seq(S) /\ q \in Seq(S)
                    BY <5>1, <4>3, <1>4
                <5>3. r \o (p \o q) = (r \o p) \o q
                    BY ONLY <5>2
                <5> QED
                    BY ONLY <5>1, <5>3, Zenon
            <4> QED
                BY <3>1, <3>3, <4>2, <4>3, <4>4
        <3> QED
            BY <3>4, <3>5
    <2>6. Len(t) \in 1..Len(t) /\ Len(t) + 1 = Len(s)
        BY <1>2, <1>6
    <2>7. f[Len(s)] = s[1] \o g[Len(t)]
        <3>1. PICK k \in Nat : k = Len(t)
            BY <1>2
        <3>2. f[k + 1] = s[1] \o g[k]
            BY <2>5, <2>6, <3>1
        <3> QED
            BY <2>6, <3>1, <3>2
    <2> QED
        BY <1>1, <1>3, <1>4, <2>2, <2>3, <2>6, <2>7
<1> QED
    BY <1>5, <1>6

\* The l-th activation is the first one from the j-th on with a trivial continuation.
Nearest(j, l) ==
    l \in j..Len(stack) /\ IsTrivial(stack[l].k) /\ \A i \in j..(l - 1) : ~IsTrivial(stack[i].k)

LEMMA GoalOf ==
    ASSUME NEW j \in Int, NEW l, Nearest(j, l), Len(stack) \in Nat
    PROVE  Goal(j) = stack[l].k.cont
<1>1. PICK m : m = CHOOSE x \in j..Len(stack) :
                    IsTrivial(stack[x].k) /\ \A i \in j..(x - 1) : ~IsTrivial(stack[i].k)
    OBVIOUS
<1>2. Nearest(j, m)
    BY <1>1, Zenon DEF Nearest
<1>3. m = l
    BY <1>2 DEF Nearest
<1> QED
    BY <1>1, <1>3 DEF Goal

LEMMA GoalOfNext ==
    ASSUME NEW j \in Int, NEW l
    PROVE  Nearest(j, l)' /\ Len(stack') \in Nat => Goal(j)' = stack'[l].k.cont
<1>1. Nearest(j, l) /\ Len(stack) \in Nat => Goal(j) = stack[l].k.cont
    BY GoalOf
<1>2. (Nearest(j, l) /\ Len(stack) \in Nat)' => (Goal(j) = stack[l].k.cont)'
    BY <1>1, PTL
<1> QED
    BY <1>2

LEMMA HasNearest ==
    ASSUME StackOK, NEW j \in DOMAIN stack
    PROVE  \E l \in DOMAIN stack : Nearest(j, l) /\ Goal(j) = stack[l].k.cont
<1>1. /\ Len(stack) \in Nat /\ DOMAIN stack = 1..Len(stack)
      /\ stack[Len(stack)].k = Trivial(Return)
    BY StackFacts DEF StackOK
<1> DEFINE S == {l \in Nat : l \in j..Len(stack) /\ IsTrivial(stack[l].k)}
<1>2. Len(stack) \in S
    BY <1>1, NodesAssumption DEF Trivial, IsTrivial
<1>3. PICK m \in S : \A k \in S : ~(k < m)
    BY <1>2, SmallestOf
<1>4. ASSUME NEW i \in j..(m - 1)
      PROVE  ~IsTrivial(stack[i].k)
    BY <1>1, <1>3
<1>5. Nearest(j, m) /\ m \in DOMAIN stack
    BY <1>1, <1>3, <1>4 DEF Nearest
<1> QED
    BY <1>1, <1>5, GoalOf

\* The goals of activations with the same continuations.
LEMMA GoalMoved ==
    ASSUME StackOK, NEW d \in Int, NEW j \in DOMAIN stack, NEW h, h = j + d, Len(stack') \in Nat,
           \A i \in j..Len(stack) : i + d \in 1..Len(stack') /\ stack'[i + d].k = stack[i].k
    PROVE  Goal(h)' = Goal(j)
<1>1. Len(stack) \in Nat /\ DOMAIN stack = 1..Len(stack)
    BY StackFacts
<1>2. PICK l \in DOMAIN stack : Nearest(j, l) /\ Goal(j) = stack[l].k.cont
    BY HasNearest
<1>3. l \in j..Len(stack) /\ IsTrivial(stack[l].k) /\ \A i \in j..(l - 1) : ~IsTrivial(stack[i].k)
    BY <1>2 DEF Nearest
<1>4. /\ h \in Int /\ l + d \in h..Len(stack')
      /\ stack'[l + d].k = stack[l].k
    BY <1>1, <1>3
<1>5. ASSUME NEW i \in h..(l + d - 1)
      PROVE  ~IsTrivial(stack'[i].k)
    <2>1. PICK m \in Int : m = i - d
        BY <1>1
    <2>2. m \in j..(l - 1) /\ m \in j..Len(stack) /\ m + d = i
        BY <2>1, <1>1, <1>3
    <2> QED
        BY <1>3, <2>2
<1>6. Nearest(h, l + d)'
    BY <1>3, <1>4, <1>5 DEF Nearest
<1>7. Goal(h)' = stack'[l + d].k.cont
    BY <1>4, <1>6, GoalOfNext
<1> QED
    BY <1>2, <1>4, <1>7

LEMMA GoalHere ==
    ASSUME StackOK, NEW j \in DOMAIN stack
    PROVE  /\ IsTrivial(stack[j].k) => Goal(j) = stack[j].k.cont
           /\ ~IsTrivial(stack[j].k) => j + 1 \in DOMAIN stack /\ Goal(j) = Goal(j + 1)
<1>1. Len(stack) \in Nat /\ DOMAIN stack = 1..Len(stack)
    BY StackFacts
<1>2. PICK l \in DOMAIN stack : Nearest(j, l) /\ Goal(j) = stack[l].k.cont
    BY HasNearest
<1>3. l \in j..Len(stack) /\ IsTrivial(stack[l].k) /\ \A i \in j..(l - 1) : ~IsTrivial(stack[i].k)
    BY <1>2 DEF Nearest
<1>4. CASE IsTrivial(stack[j].k)
    <2>1. Nearest(j, j)
        BY <1>1, <1>4 DEF Nearest
    <2> QED
        BY <1>1, <1>4, <2>1, GoalOf
<1>5. CASE ~IsTrivial(stack[j].k)
    BY <1>3, <1>5, <1>1, <1>2, GoalOf DEF Nearest
<1> QED
    BY <1>4, <1>5

LEMMA GoalHereNext ==
    ASSUME NEW j
    PROVE  StackOK' /\ j \in DOMAIN stack'
           => /\ IsTrivial(stack'[j].k) => Goal(j)' = stack'[j].k.cont
              /\ ~IsTrivial(stack'[j].k) => j + 1 \in DOMAIN stack' /\ Goal(j)' = Goal(j + 1)'
<1>1. StackOK /\ j \in DOMAIN stack
      => /\ IsTrivial(stack[j].k) => Goal(j) = stack[j].k.cont
         /\ ~IsTrivial(stack[j].k) => j + 1 \in DOMAIN stack /\ Goal(j) = Goal(j + 1)
    BY GoalHere
<1>2. (StackOK /\ j \in DOMAIN stack)'
      => (/\ IsTrivial(stack[j].k) => Goal(j) = stack[j].k.cont
          /\ ~IsTrivial(stack[j].k) => j + 1 \in DOMAIN stack /\ Goal(j) = Goal(j + 1))'
    BY <1>1, PTL
<1> QED
    BY <1>2 DEF IsTrivial

-----------------------------------------------------------------------------
LEMMA OpenIs ==
    ASSUME Len(stack) \in Nat, NEW j \in 1..Len(stack), ~Tailed(stack[j]),
           \A i \in 1..(j - 1) : Tailed(stack[i])
    PROVE  Open <=> (stack[j].form = "if" => Len(stack[j].args) = 1 /\ stack[j].alt = None)
<1>1. PICK n : n = SelectInSeq(stack, LAMBDA a : ~Tailed(a))
    OBVIOUS
<1>2. PICK I : I = {i \in 1..Len(stack) : ~Tailed(stack[i])}
    OBVIOUS
<1>3. n = IF I # {} THEN Min(I) ELSE 0
    BY <1>1, <1>2, Zenon DEF SelectInSeq
<1>4. j \in I /\ \A i \in I : j <= i
    <2>1. ASSUME NEW i \in I
          PROVE  j <= i
        <3>1. i \in 1..Len(stack) /\ ~Tailed(stack[i])
            BY <1>2
        <3>2. i \notin 1..(j - 1)
            BY <3>1
        <3> QED
            BY ONLY <3>1, <3>2, j \in 1..Len(stack), Len(stack) \in Nat
    <2> QED
        BY <1>2, <2>1
<1>5. Min(I) = j
    <2>1. j \in Int /\ \A i \in I : i \in Int
        BY <1>2
    <2>2. Min(I) \in I /\ \A y \in I : Min(I) <= y
        BY <1>4, Zenon DEF Min
    <2>3. PICK m : m = Min(I)
        OBVIOUS
    <2>4. m \in Int /\ j <= m /\ m <= j
        BY <1>4, <2>1, <2>2, <2>3
    <2> QED
        BY <2>1, <2>3, <2>4
<1>6. n = j /\ j # 0
    BY <1>3, <1>4, <1>5
<1> QED
    BY <1>1, <1>6 DEF Open

LEMMA NotOpen ==
    ASSUME Len(stack) \in Nat, \A i \in 1..Len(stack) : Tailed(stack[i])
    PROVE  ~Open
BY DEF SelectInSeq, Open

LEMMA OpenIsNext ==
    ASSUME NEW j
    PROVE  /\ Len(stack') \in Nat /\ j \in 1..Len(stack') /\ ~Tailed(stack'[j])
           /\ \A i \in 1..(j - 1) : Tailed(stack'[i])
           => (Open' <=> (stack'[j].form = "if" => Len(stack'[j].args) = 1 /\ stack'[j].alt = None))
<1>1. /\ Len(stack) \in Nat /\ j \in 1..Len(stack) /\ ~Tailed(stack[j])
      /\ \A i \in 1..(j - 1) : Tailed(stack[i])
      => (Open <=> (stack[j].form = "if" => Len(stack[j].args) = 1 /\ stack[j].alt = None))
    BY OpenIs
<1>2. (/\ Len(stack) \in Nat /\ j \in 1..Len(stack) /\ ~Tailed(stack[j])
       /\ \A i \in 1..(j - 1) : Tailed(stack[i]))'
      => (Open <=> (stack[j].form = "if" => Len(stack[j].args) = 1 /\ stack[j].alt = None))'
    BY <1>1, PTL
<1> QED
    BY <1>2 DEF Tailed

LEMMA NotOpenNext ==
    (Len(stack) \in Nat /\ \A i \in 1..Len(stack) : Tailed(stack[i]))' => ~Open'
<1>1. (Len(stack) \in Nat /\ \A i \in 1..Len(stack) : Tailed(stack[i])) => ~Open
    BY NotOpen
<1> QED
    BY <1>1, PTL

-----------------------------------------------------------------------------
Tasks == [at : Nat, to : Nat \cup {Return, None}]
Lefts == [j \in DOMAIN stack |-> Left(j)]

\* What is left below the innermost activation.
Below == FlattenSeq(Tail(Lefts))

Current == IF Open THEN <<FlowTask(current, Goal(1))>> ELSE << >>

LEMMA LeftsAre ==
    ASSUME BlocksOK, StackOK
    PROVE  Lefts \in Seq(Seq(Tasks)) /\ \A j \in DOMAIN stack : Goal(j) \in Nat \cup {Return}
<1>1. Len(stack) \in Nat /\ DOMAIN stack = 1..Len(stack) /\ \A j \in DOMAIN stack : stack[j] \in Activation
    BY SeqDomain DEF StackOK
<1>2. Joins \subseteq Nat /\ Arms \subseteq Nat
    BY BlocksAre DEF BlocksOK, Joins, Arms
<1>3. ASSUME NEW j \in DOMAIN stack
      PROVE  /\ stack[j].alt \in Nat \cup {None} /\ stack[j].join \in Nat \cup {None}
             /\ stack[j].k.cont \in Nat \cup {Return, None}
             /\ IsTrivial(stack[j].k) => stack[j].k.cont \in Nat \cup {Return}
    BY <1>1, <1>2 DEF Activation, Cont, IsTrivial
<1>4. ASSUME NEW j \in DOMAIN stack
      PROVE  Goal(j) \in Nat \cup {Return}
    BY HasNearest, <1>3 DEF Nearest
<1>5. ASSUME NEW j \in DOMAIN stack
      PROVE  Left(j) \in Seq(Tasks)
    <2>1. PICK a, g : a = stack[j] /\ g = Goal(j)
        OBVIOUS
    <2>2. PICK to : to = IF a.join = None THEN a.k.cont ELSE a.join
        OBVIOUS
    <2>3. to \in Nat \cup {Return, None} /\ g \in Nat \cup {Return, None}
        BY <2>1, <2>2, <1>3, <1>4
    <2>4. a.alt # None => FlowTask(a.alt, to) \in Tasks
        BY <2>1, <2>3, <1>3 DEF FlowTask, Tasks
    <2>5. a.join # None => FlowTask(a.join, g) \in Tasks
        BY <2>1, <2>3, <1>3 DEF FlowTask, Tasks
    <2>6. PICK p : p = IF a.alt = None THEN << >> ELSE <<FlowTask(a.alt, to)>>
        OBVIOUS
    <2>7. PICK q : q = IF a.join = None THEN << >> ELSE <<FlowTask(a.join, g)>>
        OBVIOUS
    <2>8. p \in Seq(Tasks) /\ q \in Seq(Tasks)
        BY <2>4, <2>5, <2>6, <2>7
    <2>9. Left(j) = p \o q
        BY <2>1, <2>2, <2>6, <2>7 DEF Left
    <2> QED
        BY <2>8, <2>9, CatAssociates
<1> QED
    BY <1>1, <1>4, <1>5 DEF Lefts

LEMMA TodoIs ==
    ASSUME BlocksOK, StackOK, stack # << >>
    PROVE  /\ FlowTodo = Current \o (Left(1) \o Below)
           /\ Left(1) \in Seq(Tasks) /\ Below \in Seq(Tasks)
<1>1. Len(stack) \in Nat \ {0} /\ DOMAIN stack = 1..Len(stack)
    BY StackFacts
<1>2. Lefts \in Seq(Seq(Tasks)) /\ Lefts # << >> /\ Lefts[1] = Left(1)
    BY <1>1, LeftsAre DEF Lefts
<1>3. /\ FlattenSeq(Lefts) = Left(1) \o Below
      /\ Left(1) \in Seq(Tasks) /\ Below \in Seq(Tasks)
    BY <1>2, FlattenCons DEF Below
<1> QED
    BY <1>3 DEF FlowTodo, Current, Lefts

LEMMA LeftMoved ==
    ASSUME StackOK, NEW d \in Int, NEW j \in DOMAIN stack, NEW h, h = j + d, Len(stack') \in Nat,
           \A i \in j..Len(stack) : i + d \in 1..Len(stack') /\ stack'[i + d].k = stack[i].k,
           stack'[h].alt = stack[j].alt, stack'[h].join = stack[j].join
    PROVE  Left(h)' = Left(j)
<1>1. Goal(h)' = Goal(j)
    BY GoalMoved
<1>2. j \in j..Len(stack)
    BY StackFacts
<1>3. stack'[h].k = stack[j].k
    BY <1>2
<1> QED
    BY <1>1, <1>3 DEF Left

LEMMA StackLength ==
    ASSUME StackOK'
    PROVE  /\ \A v : Shortened(v) => Len(stack') = Len(stack) - 1
           /\ \A a, e : Lengthened(a, e) => Len(stack') = Len(stack) + 1
<1>1. PICK m \in Nat : m = Len(stack') /\ DOMAIN stack' = 1..m
    BY SeqDomain DEF StackOK
<1>2. ASSUME NEW n \in Nat, DOMAIN stack' = 1..n
      PROVE  m = n
    <2>1. \A i \in Nat : i \in 1..m <=> i \in 1..n
        BY <1>1, <1>2
    <2> QED
        BY ONLY <2>1, m \in Nat, n \in Nat
<1>3. ASSUME NEW v, Shortened(v)
      PROVE  Len(stack') = Len(stack) - 1
    <2>1. Len(stack) - 1 \in Nat /\ DOMAIN stack' = 1..(Len(stack) - 1)
        BY <1>3 DEF Shortened
    <2> QED
        BY <1>1, <1>2, <2>1
<1>4. ASSUME NEW a, NEW e, Lengthened(a, e)
      PROVE  Len(stack') = Len(stack) + 1
    BY <1>4, <1>1, <1>2 DEF Lengthened
<1> QED
    BY <1>3, <1>4

\* What is left after a return and after a call.
LEMMA TodoShort ==
    ASSUME BlocksOK, StackOK, StackOK', NEW v, Shortened(v)
    PROVE  FlowTodo' = Current' \o Below
<1>1. /\ Len(stack) \in Nat \ {0} /\ DOMAIN stack = 1..Len(stack)
      /\ DOMAIN stack' = 1..(Len(stack) - 1) /\ stack' \in Seq(Activation')
      /\ \A j \in 2..Len(stack) : SameButArgs(stack'[j - 1], stack[j])
    BY DEF Shortened, StackOK
<1>2. Len(stack') = Len(stack) - 1
    BY StackLength
<1>3. ASSUME NEW h \in 1..(Len(stack) - 1)
      PROVE  Left(h)' = Left(h + 1)
    <2>1. PICK j, d : j = h + 1 /\ d = -1
        OBVIOUS
    <2>2. j \in DOMAIN stack /\ h = j + d /\ d \in Int /\ Len(stack') \in Nat
        BY <1>1, <1>2, <2>1
    <2>3. ASSUME NEW i \in j..Len(stack)
          PROVE  i + d \in 1..Len(stack') /\ SameButArgs(stack'[i + d], stack[i])
        BY <1>1, <2>1, <1>2
    <2>4. j \in j..Len(stack)
        BY <1>1, <2>2
    <2>5. Left(h)' = Left(j)
        BY <2>2, <2>3, <2>4, LeftMoved DEF SameButArgs
    <2> QED
        BY <2>1, <2>5
<1>4. Lefts \in Seq(Seq(Tasks)) /\ Len(Lefts) = Len(stack)
    BY <1>1, LeftsAre DEF Lefts
<1>5. PICK t : t = Tail(Lefts)
    OBVIOUS
<1>6. t \in Seq(Seq(Tasks)) /\ Len(t) = Len(stack) - 1 /\ \A i \in 1..(Len(stack) - 1) : t[i] = Left(i + 1)
    BY <1>1, <1>4, <1>5 DEF Lefts
<1>7. PICK u : u = Lefts'
    OBVIOUS
<1>8. u = [j \in 1..(Len(stack) - 1) |-> Left(j)']
    BY <1>1, <1>7 DEF Lefts
<1>9. u = t
    BY <1>1, <1>6, <1>3, <1>8
<1>10. FlowTodo' = Current' \o FlattenSeq(u)
    BY <1>7 DEF FlowTodo, Current, Lefts
<1> QED
    BY <1>5, <1>9, <1>10 DEF Below

LEMMA LeftsAreNext == (BlocksOK /\ StackOK)' => (Lefts \in Seq(Seq(Tasks)))'
<1>1. BlocksOK /\ StackOK => Lefts \in Seq(Seq(Tasks))
    BY LeftsAre
<1> QED
    BY <1>1, PTL
LEMMA TodoLong ==
    ASSUME BlocksOK, BlocksOK', StackOK, StackOK', NEW a, NEW e, Lengthened(a, e), a.k = stack[1].k
    PROVE  /\ FlowTodo' = Current' \o (Left(1)' \o (Left(2)' \o Below))
           /\ Left(1)' \in Seq(Tasks) /\ Left(2)' \in Seq(Tasks)
           /\ Goal(2)' = Goal(1) /\ (a.alt = stack[1].alt /\ a.join = stack[1].join => Left(2)' = Left(1))
           /\ IsTrivial(e.k) => Goal(1)' = e.k.cont
           /\ ~IsTrivial(e.k) => Goal(1)' = Goal(1)
<1>1. /\ Len(stack) \in Nat \ {0} /\ DOMAIN stack = 1..Len(stack)
      /\ DOMAIN stack' = 1..(Len(stack) + 1) /\ stack' \in Seq(Activation')
      /\ stack'[1] = e /\ stack'[2] = a
      /\ \A j \in 2..Len(stack) : stack'[j + 1] = stack[j]
    BY DEF Lengthened, StackOK
<1>2. Len(stack') = Len(stack) + 1
    BY StackLength
<1>3. \A i \in 1..Len(stack) : i + 1 \in 1..Len(stack') /\ stack'[i + 1].k = stack[i].k
    <2> TAKE i \in 1..Len(stack)
    <2>1. i + 1 \in 1..Len(stack')
        BY <1>1, <1>2
    <2>2. CASE i = 1
        BY <2>1, <2>2, <1>1
    <2>3. CASE i # 1
        BY <1>1, <2>3, <2>1
    <2> QED
        BY <2>2, <2>3
<1>4. ASSUME NEW h \in 3..Len(stack')
      PROVE  Left(h)' = Left(h - 1)
    <2>1. PICK j, d : j = h - 1 /\ d = 1
        OBVIOUS
    <2>2. j \in DOMAIN stack /\ j \in 2..Len(stack) /\ h = j + 1 /\ h = j + d /\ d \in Int
        BY <1>1, <1>2, <2>1
    <2>3. \A i \in j..Len(stack) : i + d \in 1..Len(stack') /\ stack'[i + d].k = stack[i].k
        BY <1>1, <1>3, <2>1, <2>2
    <2>4. stack'[h] = stack[j]
        BY <1>1, <2>2
    <2>5. Left(h)' = Left(j)
        BY <1>1, <1>2, <2>2, <2>3, <2>4, LeftMoved
    <2> QED
        BY <2>1, <2>5
<1>5. Goal(2)' = Goal(1) /\ (a.alt = stack[1].alt /\ a.join = stack[1].join => Left(2)' = Left(1))
    <2>1. PICK j, d, h : j = 1 /\ d = 1 /\ h = 2
        OBVIOUS
    <2>2. j \in DOMAIN stack /\ h = j + d /\ d \in Int /\ Len(stack') \in Nat
        BY <1>1, <1>2, <2>1
    <2>3. \A i \in j..Len(stack) : i + d \in 1..Len(stack') /\ stack'[i + d].k = stack[i].k
        BY <1>3, <2>1
    <2>4. Goal(h)' = Goal(j)
        BY <2>2, <2>3, GoalMoved
    <2>5. ASSUME a.alt = stack[1].alt, a.join = stack[1].join
          PROVE  Left(h)' = Left(j)
        <3>1. stack'[h].alt = stack[j].alt /\ stack'[h].join = stack[j].join
            BY <1>1, <2>1, <2>5
        <3> QED
            BY <2>2, <2>3, <3>1, LeftMoved
    <2> QED
        BY <2>1, <2>4, <2>5
<1>6. /\ IsTrivial(e.k) => Goal(1)' = e.k.cont
      /\ ~IsTrivial(e.k) => Goal(1)' = Goal(1)
    BY <1>1, GoalHereNext, <1>5
<1>7. /\ Lefts \in Seq(Seq(Tasks)) /\ Len(Lefts) = Len(stack)
      /\ \A j \in 1..Len(stack) : Lefts[j] = Left(j)
    BY <1>1, LeftsAre DEF Lefts
<1>8. PICK u : u = Lefts'
    OBVIOUS
<1>9. u \in Seq(Seq(Tasks)) /\ u = [j \in 1..(Len(stack) + 1) |-> Left(j)']
    BY <1>1, <1>8, LeftsAreNext DEF Lefts
<1>10. PICK t, w : t = Tail(u) /\ w = Tail(t)
    OBVIOUS
<1>11. /\ t \in Seq(Seq(Tasks)) /\ Len(t) = Len(stack) /\ \A i \in 1..Len(stack) : t[i] = u[i + 1]
       /\ Len(u) = Len(stack) + 1
    BY <1>1, <1>9, <1>10
<1>12. w \in Seq(Seq(Tasks)) /\ Len(w) = Len(stack) - 1 /\ \A i \in 1..(Len(stack) - 1) : w[i] = t[i + 1]
    BY <1>1, <1>10, <1>11
<1>13. PICK z : z = Tail(Lefts)
    OBVIOUS
<1>14. z \in Seq(Seq(Tasks)) /\ Len(z) = Len(stack) - 1 /\ \A i \in 1..(Len(stack) - 1) : z[i] = Lefts[i + 1]
    BY <1>1, <1>7, <1>13
<1>15. w = z
    <2>1. ASSUME NEW i \in 1..(Len(stack) - 1)
          PROVE  w[i] = z[i]
        <3>1. PICK h : h = i + 2
            OBVIOUS
        <3>2. /\ h \in 3..Len(stack') /\ h \in 1..(Len(stack) + 1) /\ (i + 1) + 1 = h /\ h - 1 = i + 1
              /\ i + 1 \in 1..Len(stack)
            BY <1>1, <1>2, <3>1
        <3>3. w[i] = u[h] /\ z[i] = Left(h - 1)
            BY <1>7, <1>11, <1>12, <1>14, <3>2
        <3>4. u[h] = Left(h)'
            BY <1>9, <3>2
        <3> QED
            BY <1>4, <3>2, <3>3, <3>4
    <2>2. Len(stack) - 1 \in Nat
        BY <1>1
    <2>3. w = [i \in 1..(Len(stack) - 1) |-> w[i]] /\ z = [i \in 1..(Len(stack) - 1) |-> z[i]]
        BY ONLY <2>2, <1>12, <1>14
    <2> QED
        BY <2>1, <2>3
<1>16. u[1] = Left(1)' /\ t[1] = Left(2)' /\ u # << >> /\ t # << >>
    <2>1. 1 \in 1..(Len(stack) + 1) /\ 2 \in 1..(Len(stack) + 1) /\ 1 \in 1..Len(stack) /\ 1 + 1 = 2
        BY <1>1
    <2>2. u[1] = Left(1)' /\ t[1] = Left(2)'
        BY <1>9, <1>11, <2>1
    <2> QED
        BY <2>2, <1>1, <1>11
<1>17. /\ FlattenSeq(u) = Left(1)' \o FlattenSeq(t) /\ FlattenSeq(t) = Left(2)' \o FlattenSeq(w)
       /\ Left(1)' \in Seq(Tasks) /\ Left(2)' \in Seq(Tasks)
    BY <1>9, <1>10, <1>11, <1>16, FlattenCons
<1>18. FlowTodo' = Current' \o FlattenSeq(u)
    BY <1>8 DEF FlowTodo, Current, Lefts
<1>19. FlattenSeq(w) = Below
    BY <1>13, <1>15 DEF Below
<1> QED
    BY <1>5, <1>6, <1>17, <1>18, <1>19

-----------------------------------------------------------------------------
LEMMA BranchesPass ==
    ASSUME NEW a, Branched(a)
    PROVE  IsTrivial(BranchCont(a))
BY DEF Branched, BranchCont, IsTrivial, Trivial

\* An activation that leaves its value to the caller leaves it to one that goes on
\* in the current block.
LEMMA ReturnWaits ==
    ASSUME StackOK, StackOK', stack # << >>, NEW v, Shortened(v), ~IsTrivial(Top.k)
    PROVE  stack' # << >> /\ Open' /\ Goal(1)' = Goal(1)
<1>1. /\ Len(stack) \in Nat \ {0} /\ DOMAIN stack = 1..Len(stack) /\ Top = stack[1]
      /\ \A j \in DOMAIN stack : stack[j] \in Activation
      /\ \A j \in 2..Len(stack) : Waits(stack[j - 1], stack[j])
    BY StackFacts
<1>2. 2 \in DOMAIN stack /\ 2 \in 2..Len(stack) /\ Goal(1) = Goal(2)
    BY <1>1, GoalHere
<1>3. DOMAIN stack' = 1..(Len(stack) - 1) /\ \A j \in 2..Len(stack) : SameButArgs(stack'[j - 1], stack[j])
    BY DEF Shortened
<1>4. 1 \in DOMAIN stack' /\ DOMAIN stack' = 1..Len(stack') /\ Len(stack') \in Nat
    <2>1. stack' \in Seq(Activation')
        BY DEF StackOK
    <2>2. DOMAIN stack' = 1..Len(stack') /\ Len(stack') \in Nat
        BY <2>1, SeqDomain
    <2>3. 1 \in 1..(Len(stack) - 1)
        BY <1>1, <1>2
    <2> QED
        BY <2>2, <2>3, <1>3
<1>5. PICK a, b, c : a = stack[2] /\ b = stack'[1] /\ c = stack[1]
    OBVIOUS
<1>6. SameButArgs(b, a) /\ b.args = Append(a.args, v) /\ Waits(c, a) /\ ~IsTrivial(c.k) /\ a \in Activation
    BY <1>1, <1>2, <1>5 DEF Shortened
<1>7. b.form = "if" => Len(b.args) = 1 /\ b.alt = None
    <2> SUFFICES ASSUME b.form = "if"
                 PROVE  Len(b.args) = 1 /\ b.alt = None
        OBVIOUS
    <2>1. a.form = "if" /\ b.alt = a.alt
        BY <1>6 DEF SameButArgs
    <2>2. Len(a.args) = 0 /\ a.alt = None
        BY <1>6, <2>1, BranchesPass DEF Waits
    <2>3. a.args \in Seq(Value)
        BY <1>6 DEF Activation
    <2> QED
        BY <1>6, <2>1, <2>2, <2>3
<1>8. ~Tailed(b)
    <2>1. Len(b.args) = 1 => ~(Len(b.args) >= 2)
        OBVIOUS
    <2> QED
        BY <1>7, <2>1, Zenon DEF Tailed
<1>9. Open'
    BY <1>4, <1>5, <1>8, <1>7, OpenIsNext
<1>10. Goal(1)' = Goal(2)
    <2>1. PICK h, j, d : h = 1 /\ j = 2 /\ d = -1
        OBVIOUS
    <2>2. j \in DOMAIN stack /\ h = j + d /\ d \in Int
        BY <1>2, <2>1
    <2>3. ASSUME NEW i \in j..Len(stack)
          PROVE  i + d \in 1..Len(stack') /\ stack'[i + d].k = stack[i].k
        BY <1>1, <2>1, <1>3, <1>4 DEF SameButArgs
    <2>4. Goal(h)' = Goal(j)
        BY <2>2, <2>3, <1>4, GoalMoved
    <2> QED
        BY <2>1, <2>4
<1> QED
    BY <1>2, <1>4, <1>9, <1>10

\* If the conversion goes on in a block that has passed its value on, the caller
\* still replaces that transfer, by one to the same place.
LEMMA ReturnPasses ==
    ASSUME BlocksOK, StackOK, StackOK', stack # << >>, NEW v, Shortened(v), IsTrivial(Top.k),
           Open'
    PROVE  stack' # << >> /\ Goal(1)' = Top.k.cont
<1>1. /\ Len(stack) \in Nat \ {0} /\ DOMAIN stack = 1..Len(stack) /\ Top = stack[1]
      /\ \A j \in DOMAIN stack : stack[j] \in Activation
      /\ \A j \in 2..Len(stack) : Waits(stack[j - 1], stack[j])
    BY StackFacts
<1>2. /\ DOMAIN stack' = 1..(Len(stack) - 1) /\ DOMAIN stack' = 1..Len(stack') /\ Len(stack') \in Nat
      /\ \A j \in 2..Len(stack) : SameButArgs(stack'[j - 1], stack[j])
    BY SeqDomain DEF Shortened, StackOK
<1>3. PICK k : k = Top.k
    OBVIOUS
<1> DEFINE Not == {j \in Nat : j \in 1..Len(stack') /\ ~Tailed(stack'[j])}
<1>4. Not # {}
    BY <1>2, NotOpenNext
<1>5. PICK m \in Not : \A i \in Not : ~(i < m)
    BY <1>4, SmallestOf
<1>6. /\ m \in Nat /\ m \in 1..Len(stack') /\ ~Tailed(stack'[m])
      /\ \A i \in 1..(m - 1) : Tailed(stack'[i])
    BY <1>2, <1>5
<1> HIDE DEF Not
<1>7. stack'[m].form = "if" => Len(stack'[m].args) = 1 /\ stack'[m].alt = None
    BY <1>2, <1>6, OpenIsNext
<1>8. ASSUME NEW i \in 2..Len(stack)
      PROVE  /\ i - 1 \in DOMAIN stack' /\ i \in DOMAIN stack /\ Waits(stack[i - 1], stack[i])
             /\ SameButArgs(stack'[i - 1], stack[i])
             /\ Len(stack'[i - 1].args) = Len(stack[i].args) + (IF i = 2 THEN 1 ELSE 0)
             /\ Len(stack[i].args) \in Nat
    <2>1. i - 1 \in DOMAIN stack' /\ i \in DOMAIN stack /\ i >= 2 /\ stack[i].args \in Seq(Value)
        BY <1>1, <1>2 DEF Activation
    <2>2. CASE i = 2
        BY <2>2, <1>1, <1>2, <2>1 DEF Shortened
    <2>3. CASE i # 2
        BY <2>1, <2>3, <1>1, <1>2 DEF Shortened
    <2> QED
        BY <2>2, <2>3
<1>10. None \notin Arms
    BY BlocksAre DEF BlocksOK, Arms
<1>11. ASSUME NEW i \in 2..Len(stack), Tailed(stack'[i - 1])
      PROVE  stack[i].k = stack[i - 1].k
    <2>1. /\ Waits(stack[i - 1], stack[i]) /\ stack[i].form = "if" /\ stack[i].alt = None
          /\ stack[i].join = None
        BY <1>8, <1>11 DEF SameButArgs, Tailed
    <2>2. PICK x, y : x = Len(stack[i].args) /\ y = Len(stack'[i - 1].args)
        OBVIOUS
    <2>3. y >= 2 /\ y = x + (IF i = 2 THEN 1 ELSE 0) /\ x \in Nat
        BY <1>8, <1>11, <2>2 DEF Tailed
    <2>4. x # 0
        BY ONLY <2>3
    <2> QED
        BY <2>1, <2>2, <2>4, <1>10 DEF Waits, BranchCont
<1>12. \A i \in 1..m : stack[i].k = k
    <2> DEFINE Bad == {i \in Nat : i \in 1..m /\ stack[i].k # k}
    <2> SUFFICES ASSUME Bad # {}
                 PROVE  FALSE
        BY <1>6
    <2>1. PICK i \in Bad : \A j \in Bad : ~(j < i)
        BY SmallestOf
    <2>2. i \in 1..m /\ stack[i].k # k /\ i # 1
        BY <2>1, <1>1, <1>3
    <2>3. i - 1 \in 1..m /\ i - 1 \in Nat /\ i - 1 < i
        BY <2>2, <1>6
    <2>4. stack[i - 1].k = k
        BY <2>1, <2>3
    <2>5. i \in 2..Len(stack) /\ i - 1 \in 1..(m - 1)
        BY <2>2, <1>1, <1>2, <1>6
    <2> QED
        BY <2>2, <2>4, <2>5, <1>6, <1>11
<1>13. PICK a, b, c : a = stack[m + 1] /\ b = stack'[m] /\ c = stack[m]
    OBVIOUS
<1>14. PICK i \in 2..Len(stack) : i = m + 1 /\ i - 1 = m
    BY <1>1, <1>2, <1>6
<1>15. /\ Waits(c, a) /\ SameButArgs(b, a) /\ c.k = k /\ IsTrivial(k) /\ m \in 1..m
       /\ Len(b.args) = Len(a.args) + (IF m = 1 THEN 1 ELSE 0) /\ Len(a.args) \in Nat
    <2>1. i = 2 <=> m = 1
        BY <1>6, <1>14
    <2>2. m \in 1..m
        BY <1>6
    <2> QED
        BY <2>1, <2>2, <1>3, <1>8, <1>12, <1>13, <1>14
<1>16. a.k = k
    <2>1. \A n : c.k # NextCont(n)
        BY <1>15 DEF NextCont, IsTrivial
    <2>2. a.form # "if"
        <3> SUFFICES ASSUME a.form = "if"
                     PROVE  FALSE
            OBVIOUS
        <3>1. Len(b.args) = 1 /\ b.alt = None
            BY <1>7, <1>13, <1>15 DEF SameButArgs
        <3>2. a.alt = None
            BY <3>1, <1>15 DEF SameButArgs
        <3>3. Len(a.args) # 2
            <4>1. PICK x, y, z : x = Len(a.args) /\ y = Len(b.args) /\ z = IF m = 1 THEN 1 ELSE 0
                OBVIOUS
            <4>2. y = 1 /\ y = x + z /\ x \in Nat /\ z \in {0, 1}
                BY <3>1, <4>1, <1>15
            <4>3. x # 2
                BY ONLY <4>2
            <4> QED
                BY <4>1, <4>3
        <3> QED
            BY <3>2, <3>3, <2>1, <1>10, <1>15 DEF Waits
    <2> QED
        BY <2>1, <2>2, <1>15 DEF Waits
<1>17. stack'[1].k = k
    <2>1. CASE m = 1
        BY <2>1, <1>13, <1>15, <1>16 DEF SameButArgs
    <2>2. CASE m # 1
        <3>1. 2 \in 1..m /\ 2 \in 2..Len(stack) /\ 2 - 1 = 1
            BY <2>2, <1>1, <1>2, <1>6
        <3>2. stack'[2 - 1].k = stack[2].k
            BY <3>1, <1>2 DEF SameButArgs
        <3> QED
            BY <3>1, <3>2, <1>12
    <2> QED
        BY <2>1, <2>2
<1>18. 1 \in DOMAIN stack' /\ stack' # << >>
    BY <1>2, <1>6
<1> QED
    BY <1>3, <1>17, <1>18, GoalHereNext

-----------------------------------------------------------------------------
(* There are fewer blocks than nodes.                                      *)

\* The blocks that an activation is still to make itself.
Cost(a) ==
    IF a.form = "if" /\ a.alt = None /\ Len(a.args) <= 1 THEN 3
    ELSE IF a.form = "call" THEN 1 ELSE 0

\* c[j] are the blocks that the j-th activation and the ones below it still make.
Budget(c) ==
    /\ c \in [1..(Len(stack) + 1) -> Nat] /\ Len(params) + c[1] <= nodes
    /\ \A j \in 1..Len(stack) : c[j] >= c[j + 1] + Cost(stack[j])

Budgeted == nodes \in Nat /\ nodes <= 3 * MaxNodes + 1 /\ \E c : Budget(c)

LEMMA Costs ==
    /\ \A a : Cost(a) \in 0..3
    /\ \A a, b, v : a.args \in Seq(Value) /\ SameButArgs(b, a) /\ b.args \in {a.args, Append(a.args, v)}
            => Cost(b) <= Cost(a)
BY DEF Cost, SameButArgs

LEMMA BudgetShort ==
    ASSUME Budgeted, StackOK, StackOK', NEW v, Shortened(v), nodes' = nodes,
           Len(params) \in Nat, Len(params') \in Nat, Len(params') <= Len(params) + Cost(Top)
    PROVE  Budgeted'
<1>1. PICK c : Budget(c)
    BY DEF Budgeted
<1>2. /\ Len(stack) \in Nat \ {0} /\ DOMAIN stack = 1..Len(stack) /\ Top = stack[1]
      /\ Len(stack') = Len(stack) - 1
      /\ \A j \in DOMAIN stack : stack[j].args \in Seq(Value)
    <2>1. Len(stack) \in Nat \ {0}
        BY DEF Shortened
    <2>2. stack # << >>
        BY <2>1
    <2>3. /\ DOMAIN stack = 1..Len(stack) /\ Top = stack[1]
          /\ \A j \in DOMAIN stack : stack[j] \in Activation
        BY <2>2, StackFacts
    <2>4. Len(stack') = Len(stack) - 1
        BY StackLength
    <2> QED
        BY <2>1, <2>3, <2>4 DEF Activation
<1>3. PICK d : d = [j \in 1..(Len(stack') + 1) |-> c[j + 1]]
    OBVIOUS
<1>4. \A j \in 1..(Len(stack) + 1) : c[j] \in Nat
    BY <1>1 DEF Budget
<1>5. d \in [1..(Len(stack') + 1) -> Nat]
    BY <1>2, <1>4, <1>3
<1>6. ASSUME NEW i \in 1..Len(stack')
      PROVE  d[i] >= d[i + 1] + Cost(stack'[i])
    <2>1. PICK j : j = i + 1
        OBVIOUS
    <2>2. j \in 2..Len(stack) /\ j \in 1..Len(stack) /\ j - 1 = i /\ j + 1 \in 1..(Len(stack) + 1)
        BY <1>2, <2>1
    <2>3. d[i] = c[j] /\ d[i + 1] = c[j + 1]
        BY <1>2, <1>3, <2>1, <2>2
    <2>4. c[j] >= c[j + 1] + Cost(stack[j])
        BY <1>1, <2>2 DEF Budget
    <2>5. /\ SameButArgs(stack'[i], stack[j])
          /\ stack'[i].args \in {stack[j].args, Append(stack[j].args, v)}
        BY <2>2 DEF Shortened
    <2>6. Cost(stack'[i]) <= Cost(stack[j]) /\ Cost(stack[j]) \in Nat /\ Cost(stack'[i]) \in Nat
        <3>1. PICK a, b : a = stack[j] /\ b = stack'[i]
            OBVIOUS
        <3>2. a.args \in Seq(Value) /\ SameButArgs(b, a) /\ b.args \in {a.args, Append(a.args, v)}
            BY <1>2, <2>2, <2>5, <3>1
        <3>3. Cost(b) <= Cost(a)
            BY ONLY <3>2, Costs, Zenon
        <3> QED
            BY <3>1, <3>3, Costs
    <2>7. c[j] \in Nat /\ c[j + 1] \in Nat
        BY <1>4, <2>2
    <2> QED
        BY <2>3, <2>4, <2>6, <2>7
<1>7. Len(params') + d[1] <= nodes'
    <2>1. /\ 1 \in 1..Len(stack) /\ 1 \in 1..(Len(stack) + 1) /\ 1 + 1 \in 1..(Len(stack) + 1)
          /\ d[1] = c[1 + 1]
        BY <1>2, <1>3
    <2>2. c[1] >= c[1 + 1] + Cost(Top) /\ Len(params) + c[1] <= nodes
        BY <1>1, <1>2, <2>1 DEF Budget
    <2>3. c[1] \in Nat /\ c[1 + 1] \in Nat /\ Cost(Top) \in Nat /\ nodes \in Nat
        BY <1>4, <2>1, Costs DEF Budgeted
    <2> QED
        BY <2>1, <2>2, <2>3
<1>8. Budget(d)'
    BY <1>5, <1>6, <1>7 DEF Budget, Cost
<1> QED
    BY <1>8 DEF Budgeted

LEMMA BudgetLong ==
    ASSUME Budgeted, StackOK, StackOK', stack # << >>, NEW a, NEW e, Lengthened(a, e), e.form = "expr",
           Len(params) \in Nat, Len(params') \in Nat, nodes' \in Nat, nodes' <= 3 * MaxNodes + 1,
           Len(params') + Cost(a) + nodes <= Len(params) + Cost(Top) + nodes'
    PROVE  Budgeted'
<1>1. PICK c : Budget(c)
    BY DEF Budgeted
<1>2. /\ Len(stack) \in Nat \ {0} /\ DOMAIN stack = 1..Len(stack) /\ Top = stack[1]
      /\ Len(stack') = Len(stack) + 1
    BY StackFacts, StackLength
<1>3. /\ stack'[1] = e /\ stack'[2] = a /\ \A j \in 2..Len(stack) : stack'[j + 1] = stack[j]
    BY DEF Lengthened
<1>4. PICK d : d = [j \in 1..(Len(stack') + 1) |-> IF j <= 2 THEN c[2] + Cost(a) ELSE c[j - 1]]
    OBVIOUS
<1>5. /\ \A j \in 1..(Len(stack) + 1) : c[j] \in Nat
      /\ 1 \in 1..(Len(stack) + 1) /\ 2 \in 1..(Len(stack) + 1) /\ Cost(a) \in Nat /\ Cost(Top) \in Nat
    <2>1. 1 \in 1..(Len(stack) + 1) /\ 2 \in 1..(Len(stack) + 1)
        BY <1>2
    <2>2. \A j \in 1..(Len(stack) + 1) : c[j] \in Nat
        BY <1>1 DEF Budget
    <2> QED
        BY <2>1, <2>2, Costs
<1>6. ASSUME NEW j \in 1..(Len(stack') + 1)
      PROVE  d[j] \in Nat
    <2>1. j > 2 => j - 1 \in 1..(Len(stack) + 1)
        BY <1>2
    <2>2. j <= 2 => d[j] = c[2] + Cost(a)
        BY <1>4
    <2>3. j > 2 => d[j] = c[j - 1]
        BY <1>2, <1>4
    <2>4. c[2] + Cost(a) \in Nat
        BY <1>5
    <2>5. j <= 2 \/ j > 2
        BY <1>2
    <2> QED
        BY <1>5, <2>1, <2>2, <2>3, <2>4, <2>5
<1>7. d[1] = c[2] + Cost(a) /\ d[2] = c[2] + Cost(a) /\ d[3] = c[2]
    BY <1>2, <1>4
<1>8. ASSUME NEW i \in 1..Len(stack')
      PROVE  d[i] >= d[i + 1] + Cost(stack'[i])
    <2>1. CASE i = 1
        BY <2>1, <1>3, <1>5, <1>7 DEF Cost
    <2>2. CASE i = 2
        BY <2>2, <1>3, <1>5, <1>7
    <2>3. CASE i > 2
        <3>1. PICK j : j = i - 1
            OBVIOUS
        <3>2. j \in 2..Len(stack) /\ j \in 1..Len(stack) /\ j + 1 = i /\ (i + 1) - 1 = i
            BY <1>2, <2>3, <3>1
        <3>3. d[i] = c[j] /\ d[i + 1] = c[j + 1]
            BY <1>2, <1>4, <2>3, <3>1, <3>2
        <3>4. c[j] >= c[j + 1] + Cost(stack[j]) /\ stack'[i] = stack[j]
            BY <1>1, <1>3, <3>2 DEF Budget
        <3> QED
            BY <3>3, <3>4
    <2> QED
        BY <2>1, <2>2, <2>3, <1>2
<1>9. Len(params') + d[1] <= nodes'
    <2>1. c[1] >= c[2] + Cost(Top) /\ Len(params) + c[1] <= nodes
        BY <1>2, <1>1 DEF Budget
    <2>2. c[1] \in Nat /\ c[2] \in Nat /\ nodes \in Nat
        BY <1>5 DEF Budgeted
    <2>3. /\ Len(params') + Cost(a) + nodes <= Len(params) + Cost(Top) + nodes'
          /\ Len(params) \in Nat /\ Len(params') \in Nat /\ nodes' \in Nat
        OBVIOUS
    <2>4. PICK x, y, p, q, u, w, m, l : /\ x = Cost(a) /\ y = Cost(Top) /\ p = Len(params) /\ q = Len(params')
                                      /\ u = c[1] /\ w = c[2] /\ m = nodes /\ l = nodes'
        OBVIOUS
    <2>5. /\ x \in Nat /\ y \in Nat /\ p \in Nat /\ q \in Nat /\ u \in Nat /\ w \in Nat /\ m \in Nat /\ l \in Nat
          /\ u >= w + y /\ p + u <= m /\ q + x + m <= p + y + l
        BY <1>5, <2>1, <2>2, <2>3, <2>4
    <2>6. q + (w + x) <= l
        BY ONLY <2>5
    <2> QED
        BY <2>4, <2>6, <1>7
<1>10. Budget(d)'
    BY <1>4, <1>6, <1>8, <1>9 DEF Budget, Cost
<1> QED
    BY <1>10 DEF Budgeted

\* A call of to_cps for a part of the expression.
CallsPart(a, e) ==
    /\ stack' = Calls(a, e)
    /\ a.k = Top.k /\ a.alt = Top.alt /\ a.join = Top.join
    /\ e.form = "expr" /\ e.alt = None /\ e.join = None
    /\ e.k = Top.k \/ ~IsTrivial(e.k)

LEMMA PartIs ==
    ASSUME Converts, nodes \in Nat, Prim \/ If \/ Call \/ Operand \/ \E t \in Type : Val(t)
    PROVE  /\ stack # << >> /\ Top.form \in {"expr", "prim", "call"} /\ UNCHANGED <<params, transfer, current>>
           /\ \E a, e : /\ CallsPart(a, e)
                        /\ \E n \in 0..3 : Cost(a) <= Cost(Top) + n /\ nodes' = nodes + n
                                            /\ (n = 0 \/ nodes' <= MaxNodes)
<1>1. stack # << >> /\ Top.form \in {"expr", "prim", "call"} /\ UNCHANGED <<params, transfer, current>>
    BY DEF Prim, If, Call, Operand, Val, InForm
<1>2. Top \in Activation
    BY <1>1, TopFacts DEF Converts
<1>3. \A b : Cost(b) \in 0..3
    BY Costs
<1>4. ~IsTrivial(NextCont(None)) /\ \A n : ~IsTrivial(NextCont(n))
    BY DEF IsTrivial, NextCont
<1>5. ASSUME NEW f \in {"prim", "call", "if"}, NEW n \in {2, 3}, Node(n), f = "if" => n = 3, NEW k,
             k = Top.k \/ ~IsTrivial(k), NEW t, NEW s, NEW o,
             stack' = Calls([Top EXCEPT !.form = f, !.args = << >>], Expr(k, o, t, s))
      PROVE  \E a, e : /\ CallsPart(a, e)
                       /\ \E m \in 0..3 : Cost(a) <= Cost(Top) + m /\ nodes' = nodes + m
                                           /\ (m = 0 \/ nodes' <= MaxNodes)
    <2>1. PICK a, e : a = [Top EXCEPT !.form = f, !.args = << >>] /\ e = Expr(k, o, t, s)
        OBVIOUS
    <2>2. CallsPart(a, e) /\ a.form = f
        BY <1>2, <1>5, <2>1 DEF CallsPart, Expr, Activation
    <2>3. Cost(a) <= n
        BY <2>2, <1>3, <1>5 DEF Cost
    <2>4. Cost(a) <= Cost(Top) + n
        <3>1. PICK x, y : x = Cost(a) /\ y = Cost(Top)
            OBVIOUS
        <3>2. x \in 0..3 /\ y \in 0..3 /\ x <= n
            BY <1>3, <2>3, <3>1
        <3>3. x <= y + n
            BY ONLY <3>2, n \in {2, 3}
        <3> QED
            BY <3>1, <3>3
    <2>5. n \in 0..3 /\ nodes' = nodes + n /\ nodes' <= MaxNodes
        BY <1>5 DEF Node
    <2> QED
        BY <2>2, <2>4, <2>5
<1>6. CASE Prim
    BY <1>6, <1>1, <1>4, <1>5 DEF Prim
<1>7. CASE If
    BY <1>7, <1>1, <1>4, <1>5 DEF If
<1>8. CASE Call
    BY <1>8, <1>1, <1>5 DEF Call
<1>9. CASE Operand
    BY <1>9, <1>4, <1>3, <1>1 DEF Operand, CallsPart, Expr
<1>10. ASSUME NEW t \in Type, Val(t)
       PROVE  \E a, e : /\ CallsPart(a, e)
                        /\ \E m \in 0..3 : Cost(a) <= Cost(Top) + m /\ nodes' = nodes + m
                                            /\ (m = 0 \/ nodes' <= MaxNodes)
    <2>1. PICK a, e, n : /\ a = [Top EXCEPT !.scope = @ \cup {n}] /\ e = Expr(NextCont(n), n, t, Top.scope)
                         /\ stack' = Calls(a, e)
        BY <1>10 DEF Val
    <2>2. CallsPart(a, e) /\ a.form = Top.form /\ a.args = Top.args
        BY <1>2, <1>4, <2>1 DEF CallsPart, Expr, Activation
    <2>3. Cost(a) = Cost(Top)
        BY <2>2 DEF Cost, CallsPart
    <2>4. Node(2)
        BY <1>10 DEF Val
    <2>5. Cost(a) <= Cost(Top) + 2 /\ 2 \in 0..3
        BY <1>3, <2>3
    <2> QED
        BY <2>2, <2>4, <2>5 DEF Node
<1> QED
    BY <1>1, <1>6, <1>7, <1>8, <1>9, <1>10

LEMMA LengthsAre ==
    ASSUME BlocksOK
    PROVE  Len(params) \in Nat /\ Block = 1..Len(params)
BY BlocksAre DEF BlocksOK

LEMMA LengthsAreNext == BlocksOK' => Len(params') \in Nat /\ Block' = 1..Len(params')
<1>1. BlocksOK => Len(params) \in Nat /\ Block = 1..Len(params)
    BY LengthsAre
<1>2. BlocksOK' => (Len(params) \in Nat /\ Block = 1..Len(params))'
    BY <1>1, PTL
<1> QED
    BY <1>2

\* A step that ends the innermost activation.
LEMMA Ends ==
    ASSUME Converts, Converts', stack # << >>, NEW v, stack' = Returned(v)
    PROVE  /\ BlocksOK /\ StackOK /\ BlocksOK' /\ StackOK' /\ Shortened(v)
           /\ Len(params) \in Nat /\ Len(params') \in Nat
BY ReturnShortens, LengthsAre, LengthsAreNext DEF Converts

LEMMA EndBudgeted ==
    ASSUME Converts, Converts', Budgeted, stack # << >>, NEW v, stack' = Returned(v), nodes' = nodes,
           Len(params') <= Len(params) + Cost(Top)
    PROVE  Budgeted'
BY Ends, BudgetShort

LEMMA PartBudgeted ==
    ASSUME Converts, Converts', Budgeted, Prim \/ If \/ Call \/ Operand \/ \E t \in Type : Val(t)
    PROVE  Budgeted'
<1>1. nodes \in Nat /\ nodes <= 3 * MaxNodes + 1
    BY DEF Budgeted
<1>2. /\ stack # << >> /\ UNCHANGED params
      /\ \E a, e : /\ CallsPart(a, e)
                   /\ \E n \in 0..3 : Cost(a) <= Cost(Top) + n /\ nodes' = nodes + n
                                       /\ (n = 0 \/ nodes' <= MaxNodes)
    BY <1>1, PartIs
<1>3. PICK a, e : /\ CallsPart(a, e)
                  /\ \E n \in 0..3 : Cost(a) <= Cost(Top) + n /\ nodes' = nodes + n
                                      /\ (n = 0 \/ nodes' <= MaxNodes)
    BY <1>2
<1>4. PICK n \in 0..3 : Cost(a) <= Cost(Top) + n /\ nodes' = nodes + n /\ (n = 0 \/ nodes' <= MaxNodes)
    BY <1>3
<1>5. StackOK /\ StackOK' /\ Len(params) \in Nat /\ params' = params
    BY <1>2, LengthsAre DEF Converts
<1>6. Lengthened(a, e) /\ e.form = "expr"
    BY <1>2, <1>3, <1>5, CallLengthens DEF CallsPart
<1>7. nodes' \in Nat /\ nodes' <= 3 * MaxNodes + 1
    BY <1>1, <1>4, NodesAssumption
<1>8. Len(params') + Cost(a) + nodes <= Len(params) + Cost(Top) + nodes'
    <2>1. PICK x, y, p : x = Cost(a) /\ y = Cost(Top) /\ p = Len(params)
        OBVIOUS
    <2>2. x \in 0..3 /\ y \in 0..3 /\ p \in Nat /\ p = Len(params') /\ x <= y + n
        BY <2>1, <1>4, <1>5, Costs
    <2>3. p + x + nodes <= p + y + nodes'
        BY ONLY <2>2, <1>1, <1>4
    <2> QED
        BY <2>1, <2>2, <2>3
<1> QED
    BY <1>2, <1>5, <1>6, <1>7, <1>8, BudgetLong

LEMMA JoinIsOne ==
    ASSUME NEW ps \in Seq(Seq(Nat)), NEW n, AddJoin(ps, n)
    PROVE  Len(params') = Len(ps) + 1
BY DEF AddJoin

-----------------------------------------------------------------------------
\* What a conditional makes when its condition is there: m blocks after n others.
Branches(n, m, a, e) ==
    /\ stack # << >> /\ Top.form = "if" /\ Len(Top.args) = 1 /\ Top.alt = None /\ Top.join = None
    /\ n \in Nat /\ n = Len(params) /\ m = (IF IsTrivial(Top.k) THEN 2 ELSE 3) /\ Len(params') = n + m
    /\ nodes' = nodes /\ current' = n + 1 /\ Lengthened(a, e)
    /\ a.form = "if" /\ Len(a.args) = 1 /\ a.k = Top.k /\ a.alt = n + 2
    /\ a.join = IF IsTrivial(Top.k) THEN None ELSE n + 3
    /\ e.form = "expr" /\ e.alt = None /\ e.join = None
    /\ e.k = IF IsTrivial(Top.k) THEN Top.k ELSE Trivial(n + 3)
    /\ \A b \in Block \ {current} : transfer'[b] = transfer[b]
    /\ \A b \in Block' \ Block : transfer'[b] = None
    /\ \A c : c = current => Successors(c)' = <<n + 1, n + 2>>

LEMMA BranchMakes ==
    ASSUME Converts, Branch
    PROVE  \E n, m, a, e : Branches(n, m, a, e)
<1>1. /\ ExprsOK /\ BlocksOK /\ NamesOK /\ StackOK /\ StackOK'
      /\ ExprsOK' /\ BlocksOK'
    BY ConversionKeeps DEF ToCpsNext, Converts
<1>2. stack # << >> /\ Top.form = "if" /\ Len(Top.args) = 1 /\ types' = types
    BY DEF Branch, InForm
<1>3. /\ Top \in Activation /\ Top.alt = None /\ Top.join = None /\ Top.oname \in NameT \cup {None}
      /\ Top.args \in Seq(Value)
    BY <1>1, <1>2, TopFacts DEF Activation, Resumed
<1>4. PICK n \in Nat : n = Len(params)
    BY <1>1, BlocksAre DEF BlocksOK
<1>5. PICK ps : ps = params \o <<<< >>, << >>>>
    OBVIOUS
<1>6. /\ ps \in Seq(Seq(DOMAIN exprs)) /\ Len(ps) = n + 2 /\ Len(ps) >= Len(params)
      /\ Block = 1..n /\ \A b \in Block : ps[b] = params[b]
      /\ \A b \in DOMAIN ps \ Block : Len(ps[b]) = 0
    BY <1>1, <1>4, <1>5, ArmsAdded
<1>7. PICK t, u : /\ t = [form |-> "if", args |-> Top.args, conts |-> <<n + 1, n + 2>>]
                  /\ u = [transfer EXCEPT ![current] = t]
    OBVIOUS
<1>8. PICK join, alt : join = (IF IsTrivial(Top.k) THEN None ELSE n + 3) /\ alt = n + 2
    OBVIOUS
<1>9. PICK a : a = WithBlocks(Top, alt, join)
    OBVIOUS
<1>10. PICK k : k = IF IsTrivial(Top.k) THEN Top.k ELSE Trivial(join)
    OBVIOUS
<1>11. PICK e : e = Expr(k, None, Top.type, Top.scope)
    OBVIOUS
<1>12. n + 3 # None /\ n + 2 # None /\ n + 1 # None
    BY NodesAssumption
<1>13. /\ current' = n + 1 /\ stack' = Calls(a, e)
       /\ IF join = None
          THEN params' = ps /\ transfer' = u \o <<None, None>> /\ UNCHANGED exprs
          ELSE AddJoin(ps, Top.oname) /\ transfer' = Append(u \o <<None, None>>, None)
    <2>1. n + 1 = Len(params) + 1 /\ n + 2 = (Len(params) + 1) + 1
        BY <1>4
    <2>2. (Len(params) + 1) + 1 + 1 = n + 3
        BY <1>4
    <2> QED
        BY <2>1, <2>2, <1>5, <1>7, <1>8, <1>9, <1>10, <1>11 DEF Branch, WithBlocks
<1>14. PICK ns : ns = IF join = None THEN <<None, None>> ELSE <<None, None, None>>
    OBVIOUS
<1>15. ns \in Seq({None}) /\ Len(ns) = IF join = None THEN 2 ELSE 3
    <2>1. CASE join = None
        <3>1. ns = <<None, None>>
            BY <1>14, <2>1
        <3> QED
            BY ONLY <3>1, <2>1
    <2>2. CASE join # None
        <3>1. ns = <<None, None, None>>
            BY <1>14, <2>2
        <3> QED
            BY ONLY <3>1, <2>2
    <2> QED
        BY <2>1, <2>2
<1>16. transfer' = u \o ns
    <2>1. PICK S : S = Transfer \cup {None, t}
        OBVIOUS
    <2>2. transfer \in Seq(S) /\ t \in S /\ None \in S
        BY <1>1, <2>1 DEF BlocksOK
    <2>3. u \in Seq(S)
        BY <2>2, <1>7, SeqSet
    <2>4. Append(u \o <<None, None>>, None) = u \o <<None, None, None>>
        BY ONLY <2>2, <2>3
    <2> QED
        BY <2>4, <1>13, <1>14
<1>17. params' \in Seq(Seq(DOMAIN exprs')) /\ Len(params') = Len(params) + Len(ns)
    <2>1. CASE join = None
        BY <2>1, <1>4, <1>6, <1>13, <1>15
    <2>2. CASE join # None
        <3>1. PICK r : r = Len(ps) + 1
            OBVIOUS
        <3>2. AddJoin(ps, Top.oname)
            BY <1>13, <2>2
        <3>3. params' \in Seq(Seq(DOMAIN exprs')) /\ Len(params') = r
            BY <1>1, <1>2, <1>3, <1>6, <3>1, <3>2, JoinAdded
        <3> QED
            BY <2>2, <3>1, <3>3, <1>4, <1>6, <1>15
    <2> QED
        BY <2>1, <2>2
<1>18. /\ \A b \in Block \ {current} : transfer'[b] = transfer[b]
       /\ transfer'[current] = t
       /\ \A b \in Block' \ Block : transfer'[b] = None
    <2>1. u = [transfer EXCEPT ![current] = t]
        BY <1>7
    <2> QED
        BY ONLY <1>1, <1>15, <1>16, <1>17, <2>1, TransferGiven
<1>21. /\ Block' = Block \cup {n + 1, n + 2} \cup ({join} \ {None})
       /\ n + 1 \notin Block /\ alt \notin Block /\ join \notin Block
       /\ alt # n + 1 /\ join # n + 1 /\ alt \in Block'
       /\ n + 1 # Return /\ n + 2 # Return
    <2>1. None \notin Block
        BY <1>1, BlocksAre DEF BlocksOK
    <2>2. Block' = 1..Len(params')
        BY <1>17, BlocksAreNext
    <2>3. n + 1 # Return /\ n + 2 # Return
        BY NodesAssumption
    <2>4. CASE join = None
        <3>1. Len(params') = n + 2
            BY <2>4, <1>4, <1>15, <1>17
        <3>2. Block' = 1..(n + 2) /\ {join} \ {None} = {} /\ join \notin Block /\ join # n + 1
            BY <2>1, <2>2, <2>4, <3>1, <1>12
        <3> QED
            BY <1>6, <1>8, <2>3, <3>2
    <2>5. CASE join # None
        <3>1. join = n + 3
            BY <1>8, <2>5
        <3>2. Len(params') = n + 3
            BY <2>5, <1>4, <1>15, <1>17
        <3> QED
            BY <1>6, <1>8, <1>12, <2>2, <2>3, <3>1, <3>2
    <2> QED
        BY <2>4, <2>5
<1>22. Lengthened(a, e)
    BY <1>1, <1>2, <1>13, CallLengthens
<1>23. /\ a.alt = alt /\ a.join = join /\ a.form = "if" /\ Len(a.args) = 1 /\ a.k = Top.k
       /\ e.form = "expr" /\ e.alt = None /\ e.join = None /\ e.k = k
    BY <1>3, <1>9, <1>2, <1>11 DEF WithBlocks, Activation, Expr
<1>24. \A c : c = current => Successors(c)' = <<n + 1, n + 2>>
    <2>1. t \in Transfer /\ t.conts = <<n + 1, n + 2>>
        BY <1>1, <1>3, ValuesAre, SeqWider, <1>7 DEF Transfer
    <2>2. transfer'[current] = t /\ t # None
        BY <2>1, <1>18, NodesAssumption
    <2>3. Range(<<n + 1, n + 2>>) = {n + 1, n + 2}
        BY DEF Range
    <2> QED
        BY <1>21, <2>1, <2>2, <2>3 DEF Successors
<1>25. PICK m : m = IF IsTrivial(Top.k) THEN 2 ELSE 3
    OBVIOUS
<1>26. Len(ns) = m /\ Len(params') = n + m
    BY <1>4, <1>8, <1>12, <1>15, <1>17, <1>25
<1>27. k = IF IsTrivial(Top.k) THEN Top.k ELSE Trivial(n + 3)
    BY <1>8, <1>10
<1>28. nodes' = nodes
    BY DEF Branch
<1>29. Branches(n, m, a, e)
    BY <1>2, <1>3, <1>4, <1>8, <1>13, <1>18, <1>22, <1>23, <1>24, <1>25, <1>26, <1>27, <1>28 DEF Branches
<1> QED
    BY <1>29

\* What a call with a block for its result makes.
CallMakes(n, v) ==
    /\ n \in Nat /\ n = Len(params) /\ Len(params') = n + 1 /\ current' = n + 1
    /\ nodes' = nodes /\ stack # << >> /\ Top.alt = None /\ Top.join = None /\ Shortened(v)
    /\ \A b \in Block \ {current} : transfer'[b] = transfer[b]
    /\ transfer'[n + 1] = None
    /\ \A c : c = current => Successors(c)' = <<n + 1>>

LEMMA CallIsNext ==
    ASSUME Converts, CallTo, ~IsTrivial(Top.k)
    PROVE  \E n, v : CallMakes(n, v)
<1>1. /\ ExprsOK /\ BlocksOK /\ NamesOK /\ StackOK
      /\ ExprsOK' /\ BlocksOK'
    BY ConversionKeeps DEF ToCpsNext, Converts
<1>2. stack # << >> /\ Top.form = "call" /\ Len(Top.args) = 2 /\ types' = types
    BY DEF CallTo, InForm
<1>3. /\ Top \in Activation /\ Top.k \in Cont /\ Top.alt = None /\ Top.join = None
      /\ Top.args \in Seq(Value)
    BY <1>1, <1>2, TopFacts DEF Activation, Resumed
<1>4. DOMAIN transfer = Block /\ current \in Block /\ Block = 1..Len(params) /\ Len(params) \in Nat
    BY <1>1, SeqDomain, BlocksAre DEF BlocksOK, Block
<1>5. Value \subseteq Int \cup {Null} /\ Top.args \in Seq(Int \cup {Null})
    BY <1>1, <1>3, ValuesAre, SeqWider
<1> DEFINE goal == \E n, v : CallMakes(n, v)
<1>7. goal
    <2>1. PICK ret : ret = Len(params) + 1
        OBVIOUS
    <2>2. PICK t : t = [form |-> "call", args |-> Top.args, conts |-> <<ret>>]
        OBVIOUS
    <2>3. PICK u, v : u = [transfer EXCEPT ![current] = t] /\ v = Len(exprs) + 1
        OBVIOUS
    <2>4. PICK ps, n : ps = params /\ n = Top.k.name
        OBVIOUS
    <2>5. /\ AddJoin(ps, n) /\ transfer' = Append(u, None)
          /\ current' = ret /\ stack' = Returned(v)
        BY <1>7, <2>1, <2>2, <2>3, <2>4 DEF CallTo
    <2>6. /\ ps \in Seq(Seq(DOMAIN exprs)) /\ Len(ps) >= Len(params) /\ ret = Len(ps) + 1
          /\ (\A b \in Block : ps[b] = params[b]) /\ DOMAIN ps \ Block = {}
          /\ n \in NameT \cup {None}
        BY <1>1, <1>3, <1>4, <2>1, <2>4 DEF Block, Cont, BlocksOK
    <2>7. params' \in Seq(Seq(DOMAIN exprs')) /\ Len(params') = ret
        BY <1>1, <1>2, <2>5, <2>6, JoinAdded
    <2>8. Block' = Block \cup {ret} /\ ret \notin Block /\ ret \in Nat /\ ret # Return
        BY <1>4, <2>1, <2>7, BlocksAreNext, NodesAssumption
    <2>9. /\ \A b \in Block \ {current} : transfer'[b] = transfer[b]
          /\ transfer'[current] = t
        <3>1. PICK ns : ns = <<None>>
            OBVIOUS
        <3>2. ns \in Seq({None}) /\ Len(ns) = 1
            BY ONLY <3>1
        <3>3. transfer' = u \o ns
            <4>1. PICK S : S = Transfer \cup {None, t}
                OBVIOUS
            <4>2. transfer \in Seq(S) /\ t \in S
                BY <1>1, <4>1 DEF BlocksOK
            <4>3. u \in Seq(S)
                BY <4>2, <2>3, SeqSet
            <4>4. Append(u, None) = u \o <<None>>
                BY ONLY <4>3
            <4> QED
                BY <2>5, <3>1, <4>4
        <3>4. Len(params') = Len(params) + Len(ns)
            BY <2>1, <2>7, <3>2
        <3>5. u = [transfer EXCEPT ![current] = t]
            BY <2>3
        <3> QED
            BY ONLY <3>2, <3>3, <3>4, <3>5, <2>7, <1>1, TransferGiven
    <2>10. Shortened(v)
        BY <1>1, <1>2, <2>5, ReturnShortens
    <2>11. \A c : c = current => Successors(c)' = <<ret>>
        <3>1. <<ret>> \in Seq(Nat \cup {Return})
            BY <2>8
        <3>2. t \in Transfer
            BY <1>5, <2>2, <3>1 DEF Transfer
        <3>3. transfer'[current] = t /\ t # None /\ t.conts = <<ret>>
            BY <2>2, <2>9, <3>2, NodesAssumption
        <3>4. Range(<<ret>>) = {ret}
            BY DEF Range
        <3> QED
            BY <2>8, <3>3, <3>4 DEF Successors
    <2>12. nodes' = nodes
        BY DEF CallTo
    <2>13. transfer'[ret] = None
        <3>1. transfer' = Append(u, None) /\ u \in Seq(Transfer \cup {None, t}) /\ Len(u) = Len(params)
            <4>1. PICK S : S = Transfer \cup {None, t}
                OBVIOUS
            <4>2. transfer \in Seq(S) /\ t \in S
                BY <1>1, <4>1 DEF BlocksOK
            <4>3. u \in Seq(S)
                BY <4>2, <2>3, SeqSet
            <4>4. Len(transfer) = Len(params)
                BY <1>1 DEF BlocksOK
            <4>5. DOMAIN u = DOMAIN transfer
                BY <2>3
            <4>6. Len(u) = Len(transfer)
                BY ONLY <4>2, <4>3, <4>5
            <4> QED
                BY <2>5, <4>1, <4>3, <4>4, <4>6
        <3> QED
            BY ONLY <3>1, <2>1
    <2> QED
        BY <1>2, <1>3, <1>4, <2>1, <2>5, <2>7, <2>9, <2>10, <2>11, <2>12, <2>13 DEF CallMakes
<1> QED
    BY <1>7

\* A call whose result goes to a block or to Return.
LEMMA CallIsTail ==
    ASSUME Converts, CallTo, IsTrivial(Top.k)
    PROVE  /\ stack # << >> /\ Top.alt = None /\ Top.join = None /\ Shortened(Null)
           /\ UNCHANGED <<params, current, nodes>>
           /\ \A b \in Block \ {current} : transfer'[b] = transfer[b]
           /\ transfer'[current] # None /\ transfer'[current].conts = <<Top.k.cont>>
<1>1. /\ ExprsOK /\ BlocksOK /\ NamesOK /\ StackOK
      /\ ExprsOK' /\ BlocksOK'
    BY ConversionKeeps DEF ToCpsNext, Converts
<1>2. stack # << >> /\ Top.form = "call" /\ Len(Top.args) = 2 /\ types' = types
    BY DEF CallTo, InForm
<1>3. /\ Top \in Activation /\ Top.k \in Cont /\ Top.alt = None /\ Top.join = None
      /\ Top.args \in Seq(Value)
    BY <1>1, <1>2, TopFacts DEF Activation, Resumed
<1>4. DOMAIN transfer = Block /\ current \in Block /\ Block = 1..Len(params) /\ Len(params) \in Nat
    BY <1>1, SeqDomain, BlocksAre DEF BlocksOK, Block
<1>5. Value \subseteq Int \cup {Null} /\ Top.args \in Seq(Int \cup {Null})
    BY <1>1, <1>3, ValuesAre, SeqWider
<1>7. /\ UNCHANGED <<params, current, nodes>>
      /\ \A b \in Block \ {current} : transfer'[b] = transfer[b]
      /\ transfer'[current] # None /\ transfer'[current].conts = <<Top.k.cont>>
    <2>1. PICK t : t = [form |-> "call", args |-> Top.args, conts |-> <<Top.k.cont>>]
        OBVIOUS
    <2>2. /\ transfer' = [transfer EXCEPT ![current] = t] /\ stack' = Returned(Null)
          /\ UNCHANGED <<params, current>>
        BY <2>1 DEF CallTo
    <2>3. t # None /\ t.conts = <<Top.k.cont>>
        <3>1. Top.k.cont \in Nat \cup {Return}
            BY <1>1, <1>3, BlocksAre DEF Cont, IsTrivial, BlocksOK
        <3>2. <<Top.k.cont>> \in Seq(Nat \cup {Return})
            BY <3>1
        <3>3. t \in Transfer
            BY <1>5, <2>1, <3>2 DEF Transfer
        <3> QED
            BY <2>1, <3>3, NodesAssumption
    <2>4. (\A b \in Block \ {current} : transfer'[b] = transfer[b]) /\ transfer'[current'] = t
        BY <1>4, <2>2
    <2>5. nodes' = nodes
        BY DEF CallTo
    <2> QED
        BY <2>2, <2>3, <2>4, <2>5
<1>8. Shortened(Null)
    BY <1>1, <1>2, ReturnShortens DEF CallTo
<1> QED
    BY <1>2, <1>3, <1>7, <1>8

LEMMA BranchBudgeted ==
    ASSUME Converts, Converts', Budgeted, Branch
    PROVE  Budgeted'
<1>1. BlocksOK /\ StackOK /\ StackOK' /\ Len(params) \in Nat /\ Len(params') \in Nat
    BY LengthsAre, LengthsAreNext DEF Converts
<1>2. PICK n, m, a, e : Branches(n, m, a, e)
    BY BranchMakes
<1>3. Cost(a) = 0 /\ Cost(Top) = 3
    BY <1>2, NodesAssumption DEF Branches, Cost
<1>4. nodes' \in Nat /\ nodes' <= 3 * MaxNodes + 1 /\ nodes' = nodes
    BY <1>2 DEF Branches, Budgeted
<1>5. Len(params') + Cost(a) + nodes <= Len(params) + Cost(Top) + nodes'
    BY <1>2, <1>1, <1>3, <1>4 DEF Branches
<1> QED
    BY <1>1, <1>2, <1>4, <1>5, BudgetLong DEF Branches

LEMMA BudgetKept ==
    ASSUME Converts, Converts', Budgeted, ToCpsNext
    PROVE  Budgeted'
<1>1. /\ ExprsOK /\ BlocksOK /\ StackOK /\ StackOK' /\ Len(params) \in Nat /\ Len(params') \in Nat
      /\ \A a : Cost(a) \in 0..3
    BY LengthsAre, LengthsAreNext, Costs DEF Converts
<1>2. CASE Const \/ Apply \/ \E n \in NameT : Id(n)
    BY <1>2, <1>1, EndBudgeted DEF Const, Apply, Id, InForm, Continue
<1>3. CASE Join
    BY <1>3, <1>1, EndBudgeted DEF Join, InForm
<1>4. CASE CallTo
    <2>1. stack # << >> /\ nodes' = nodes /\ \E v : stack' = Returned(v)
        BY <1>4 DEF CallTo, InForm
    <2>2. Cost(Top) = 1
        BY <1>4 DEF CallTo, InForm, Cost
    <2>3. Len(params') <= Len(params) + 1
        BY <1>4, <1>1, ValuesAre, SeqMonotonic, JoinIsOne DEF CallTo, BlocksOK
    <2> QED
        BY <2>1, <2>2, <2>3, EndBudgeted
<1>5. CASE Prim \/ If \/ Call \/ Operand \/ \E t \in Type : Val(t)
    BY <1>5, PartBudgeted
<1>6. CASE Alternative
    <2>1. PICK a, e : /\ a = [Top EXCEPT !.alt = None]
                      /\ e = Expr(BranchCont(Top), None, Top.type, Top.scope)
        OBVIOUS
    <2>2. /\ stack # << >> /\ Len(Top.args) = 2 /\ Top.form = "if" /\ UNCHANGED <<params, nodes>>
          /\ stack' = Calls(a, e)
        BY <1>6, <2>1 DEF Alternative, InForm, BranchCont
    <2>3. a.form = "if" /\ Len(a.args) = 2 /\ e.form = "expr"
        BY <1>1, <2>1, <2>2, TopFacts DEF Activation, Expr
    <2>4. Cost(a) = 0
        BY <2>3 DEF Cost
    <2>5. Lengthened(a, e)
        BY <1>1, <2>2, CallLengthens
    <2>6. nodes' \in Nat /\ nodes' <= 3 * MaxNodes + 1 /\ nodes' = nodes /\ Len(params') = Len(params)
        BY <2>2 DEF Budgeted
    <2>7. Len(params') + Cost(a) + nodes <= Len(params) + Cost(Top) + nodes'
        BY <1>1, <2>4, <2>6
    <2> QED
        BY <1>1, <2>2, <2>3, <2>5, <2>6, <2>7, BudgetLong
<1> QED
    BY <1>2, <1>3, <1>4, <1>5, <1>6, BranchBudgeted DEF ToCpsNext

LEMMA BudgetStarts ==
    ASSUME Init
    PROVE  Budgeted
<1>1. PICK t : stack = <<Expr(Trivial(Return), None, t, 1..4)>>
    BY DEF Init
<1>2. PICK a, p : a = Expr(Trivial(Return), None, t, 1..4) /\ p = <<2, 3, 4>>
    OBVIOUS
<1>3. stack = <<a>> /\ Len(stack) = 1 /\ stack[1] = a /\ params = <<p>> /\ nodes = 1
    BY <1>1, <1>2 DEF Init
<1>4. Len(params) = 1 /\ nodes \in Nat /\ nodes <= 3 * MaxNodes + 1
    BY <1>3, NodesAssumption
<1>5. Cost(a) = 0
    BY <1>2 DEF Cost, Expr
<1>6. PICK c : c = [j \in 1..(Len(stack) + 1) |-> 0]
    OBVIOUS
<1>7. Budget(c)
    BY <1>3, <1>4, <1>5, <1>6 DEF Budget
<1> QED
    BY <1>4, <1>7 DEF Budgeted

-----------------------------------------------------------------------------
(* The steps of ControlFlow.                                               *)

\* An activation that waits for no branch goes on in the current block.
LEMMA TopOpen ==
    ASSUME StackOK, stack # << >>
    PROVE  /\ Len(stack) \in Nat /\ 1 \in DOMAIN stack /\ Top = stack[1]
           /\ Top.form # "if" \/ Len(Top.args) = 1 => Open /\ Top.alt = None /\ Top.join = None
           /\ ~Tailed(Top) /\ Top.form = "if" /\ Len(Top.args) # 1 => ~Open
<1>1. Len(stack) \in Nat /\ 1 \in DOMAIN stack /\ 1 \in 1..Len(stack) /\ Top = stack[1] /\ Resumed(Top)
    BY StackFacts, TopFacts
<1>2. ~Tailed(Top) => (Open <=> (Top.form = "if" => Len(Top.args) = 1 /\ Top.alt = None))
    BY <1>1, OpenIs
<1>3. Top.form # "if" \/ Len(Top.args) = 1 => ~Tailed(Top) /\ Top.alt = None /\ Top.join = None
    <2>1. PICK a, l : a = Top /\ l = Len(Top.args)
        OBVIOUS
    <2>2. Resumed(a) /\ l = Len(a.args)
        BY <1>1, <2>1
    <2>3. a.form # "if" => ~Tailed(a) /\ a.alt = None /\ a.join = None
        BY <2>2, Zenon DEF Resumed, Tailed
    <2>4. l = 1 => ~Tailed(a)
        BY <2>2 DEF Tailed
    <2>5. l = 1 => a.alt = None /\ a.join = None
        BY ONLY <2>2 DEF Resumed
    <2> QED
        BY <2>1, <2>3, <2>4, <2>5
<1> QED
    BY <1>1, <1>2, <1>3

LEMMA TopOpenNext ==
    (StackOK /\ stack # << >>)'
    => /\ 1 \in DOMAIN stack' /\ Top' = stack'[1]
       /\ Top'.form # "if" => Open'
<1>1. StackOK /\ stack # << >>
      => /\ 1 \in DOMAIN stack /\ Top = stack[1]
         /\ Top.form # "if" => Open
    BY TopOpen
<1>2. (StackOK /\ stack # << >>)'
      => (/\ 1 \in DOMAIN stack /\ Top = stack[1]
          /\ Top.form # "if" => Open)'
    BY <1>1, PTL
<1> QED
    BY <1>2

\* The blocks after a step in which only the current one can get a transfer.
LEMMA SuccessorsTyped ==
    ASSUME BlocksOK
    PROVE  FlowSucc \in Seq(Seq(Nat)) /\ DOMAIN FlowSucc = Block /\ Len(FlowSucc) = Len(params)
<1>1. Block = 1..Len(params) /\ Len(params) \in Nat /\ Block \subseteq Nat
    BY LengthsAre
<1>2. ASSUME NEW b \in Block
      PROVE  Successors(b) \in Seq(Nat)
    <2>1. transfer[b] # None => TransferOK(transfer[b])
        BY DEF BlocksOK
    <2>2. Joins \subseteq Nat /\ Arms \subseteq Nat
        BY <1>1 DEF Joins, Arms
    <2>3. transfer[b] # None =>
            \E d, e \in Nat \cup {Return} : transfer[b].conts = <<d>> \/ transfer[b].conts = <<d, e>>
        BY <2>1, <2>2 DEF TransferOK
    <2>4. ASSUME transfer[b] # None, Return \notin Range(transfer[b].conts)
          PROVE  transfer[b].conts \in Seq(Nat)
        <3>1. PICK d, e \in Nat \cup {Return} : transfer[b].conts = <<d>> \/ transfer[b].conts = <<d, e>>
            BY <2>3, <2>4
        <3>2. Range(<<d>>) = {d} /\ Range(<<d, e>>) = {d, e}
            BY DEF Range
        <3>3. CASE transfer[b].conts = <<d>>
            BY <2>4, <3>2, <3>3
        <3>4. CASE transfer[b].conts = <<d, e>>
            <4>1. d \in Nat /\ e \in Nat
                BY <2>4, <3>2, <3>4
            <4>2. <<d, e>> \in Seq(Nat)
                BY ONLY <4>1
            <4> QED
                BY ONLY <3>4, <4>2
        <3> QED
            BY <3>1, <3>3, <3>4
    <2> QED
        BY <2>4 DEF Successors
<1>3. PICK f : f = FlowSucc
    OBVIOUS
<1>4. f = [b \in 1..Len(params) |-> f[b]] /\ \A b \in Block : f[b] \in Seq(Nat)
    BY <1>1, <1>2, <1>3 DEF FlowSucc
<1>5. f \in Seq(Seq(Nat)) /\ DOMAIN f = 1..Len(params) /\ Len(f) = Len(params)
    BY ONLY <1>1, <1>4
<1> QED
    BY <1>1, <1>3, <1>5

LEMMA SuccessorsTypedNext ==
    BlocksOK' => (FlowSucc \in Seq(Seq(Nat)) /\ DOMAIN FlowSucc = Block /\ Len(FlowSucc) = Len(params))'
<1>1. BlocksOK => FlowSucc \in Seq(Seq(Nat)) /\ DOMAIN FlowSucc = Block /\ Len(FlowSucc) = Len(params)
    BY SuccessorsTyped
<1> QED
    BY <1>1, PTL

LEMMA SuccStays ==
    ASSUME Block' = Block, \A b \in Block : FlowSucc'[b] = FlowSucc[b]
    PROVE  FlowSucc' = FlowSucc
BY DEF FlowSucc

LEMMA SuccGiven ==
    ASSUME BlocksOK, BlocksOK', NEW n \in Nat, NEW ss \in Seq(Nat), Len(params') = Len(params) + n,
           NEW c, c = current, FlowSucc'[c] = ss,
           \A b \in Block \ {c} : FlowSucc'[b] = FlowSucc[b],
           \A b \in Block' \ Block : FlowSucc'[b] = << >>
    PROVE  FlowSucc' = [FlowSucc EXCEPT ![c] = ss] \o [k \in 1..n |-> << >>]
<1>1. PICK f, g, m, z : f = FlowSucc /\ g = FlowSucc' /\ m = Len(params) /\ z = [k \in 1..n |-> << >>]
    OBVIOUS
<1>2. /\ m \in Nat /\ f \in Seq(Seq(Nat)) /\ Len(f) = m /\ g \in Seq(Seq(Nat)) /\ Len(g) = m + n
      /\ Block = 1..m /\ Block' = 1..(m + n) /\ c \in 1..m
    BY <1>1, LengthsAre, LengthsAreNext, SuccessorsTyped, SuccessorsTypedNext DEF BlocksOK
<1>3. /\ g[c] = ss /\ \A b \in 1..m : b # c => g[b] = f[b]
      /\ \A b \in (m + 1)..(m + n) : g[b] = << >>
    BY <1>2, <1>1
<1>4. z \in Seq(Seq(Nat)) /\ Len(z) = n /\ \A k \in 1..n : z[k] = << >>
    <2>1. << >> \in Seq(Nat)
        OBVIOUS
    <2> QED
        BY <1>1, <2>1
<1>5. PICK h : h = [f EXCEPT ![c] = ss]
    OBVIOUS
<1>6. h \in Seq(Seq(Nat)) /\ Len(h) = m /\ h[c] = ss /\ \A b \in 1..m : b # c => h[b] = f[b]
    BY <1>2, <1>5
<1>7. PICK r : r = h \o z
    OBVIOUS
<1>8. /\ r \in Seq(Seq(Nat)) /\ Len(r) = m + n
      /\ \A b \in 1..m : r[b] = h[b]
      /\ \A b \in (m + 1)..(m + n) : r[b] = z[b - m]
    <2>1. PICK S : S = Seq(Nat)
        OBVIOUS
    <2>5. h \in Seq(S) /\ z \in Seq(S)
        BY <1>4, <1>6, <2>1
    <2>6. r \in Seq(S) /\ Len(r) = Len(h) + Len(z)
        BY ONLY <2>5, <1>7
    <2>2. \A b \in 1..Len(h) : r[b] = h[b]
        BY ONLY <2>5, <1>7
    <2>3. \A b \in (Len(h) + 1)..(Len(h) + Len(z)) : r[b] = z[b - Len(h)]
        BY ONLY <2>5, <1>7
    <2> QED
        BY <2>1, <2>2, <2>3, <2>6, <1>4, <1>6
<1>9. \A b \in 1..(m + n) : r[b] = g[b]
    <2> TAKE b \in 1..(m + n)
    <2>1. CASE b \in 1..m
        BY <2>1, <1>3, <1>6, <1>8
    <2>2. CASE b \notin 1..m
        <3>1. b \in (m + 1)..(m + n) /\ b - m \in 1..n
            BY ONLY <2>2, <1>2, b \in 1..(m + n), n \in Nat
        <3> QED
            BY <3>1, <1>3, <1>4, <1>8
    <2> QED
        BY <2>1, <2>2
<1>10. r = g
    <2>1. r = [b \in 1..(m + n) |-> r[b]] /\ g = [b \in 1..(m + n) |-> g[b]]
        BY ONLY <1>2, <1>8, n \in Nat
    <2> QED
        BY <2>1, <1>9
<1> QED
    BY <1>1, <1>5, <1>7, <1>10

\* One step of ControlFlow, in terms of the conversion.
LEMMA FlowStep ==
    ASSUME BlocksOK, BlocksOK', StackOK, stack # << >>, Open, Top.alt = None, Top.join = None, Budgeted',
           NEW n \in Nat, NEW ss \in Seq(Nat), NEW tasks, Len(params') = Len(params) + n,
           NEW c, c = current, FlowSucc'[c] = ss,
           \A b \in Block \ {c} : FlowSucc'[b] = FlowSucc[b],
           \A b \in Block' \ Block : FlowSucc'[b] = << >>,
           FlowTodo' = tasks \o Below
    PROVE  /\ Flow!Transfer(ss, n) /\ Flow!Then(tasks) /\ Flow!To = Goal(1)
           /\ \A k : Flow!New(k) = Len(params) + k
<1>1. Top = stack[1]
    BY TopFacts
<1>2. Left(1) = << >> /\ Current = <<FlowTask(current, Goal(1))>>
    BY <1>1 DEF Left, Current
<1>3. FlowTodo = <<FlowTask(current, Goal(1))>> \o Below /\ Below \in Seq(Tasks)
    BY TodoIs, CatAssociates, <1>2
<1>4. current \in Nat /\ Goal(1) \in Nat \cup {Return}
    BY TopOpen, LengthsAre, LeftsAre DEF BlocksOK
<1>5. PICK x, y, z : x = FlowTask(current, Goal(1)) /\ y = Below /\ z = FlowTodo
    OBVIOUS
<1>6. x \in Tasks /\ x.at = current /\ x.to = Goal(1)
    BY <1>4, <1>5 DEF FlowTask, Tasks
<1>7. z # << >> /\ Head(z) = x /\ Tail(z) = y
    <2>1. z = <<x>> \o y /\ y \in Seq(Tasks)
        BY <1>3, <1>5
    <2> QED
        BY ONLY <2>1, <1>6
<1>8. Len(FlowSucc) = Len(params) /\ Len(params) + n <= 3 * MaxNodes + 1
    <2>1. PICK d : Budget(d)'
        BY DEF Budgeted
    <2>2. d \in [1..(Len(stack') + 1) -> Nat] /\ Len(params') + d[1] <= nodes'
        BY <2>1 DEF Budget
    <2>3. nodes' \in Nat /\ nodes' <= 3 * MaxNodes + 1 /\ Len(params') \in Nat
        BY LengthsAreNext DEF Budgeted
    <2>4. d[1] \in Nat
        BY <2>2
    <2>5. Len(params') <= 3 * MaxNodes + 1
        BY <2>2, <2>3, <2>4, NodesAssumption
    <2> QED
        BY <2>5, SuccessorsTyped
<1>9. FlowSucc' = [FlowSucc EXCEPT ![c] = ss] \o [k \in 1..n |-> << >>]
    BY SuccGiven
<1>10. Flow!At = c /\ Flow!To = Goal(1)
    BY <1>5, <1>6, <1>7 DEF Flow!At, Flow!To
<1>11. Flow!Transfer(ss, n)
    BY <1>5, <1>7, <1>8, <1>9, <1>10 DEF Flow!Transfer
<1>12. Flow!Then(tasks)
    BY <1>5, <1>7 DEF Flow!Then
<1> QED
    BY <1>8, <1>10, <1>11, <1>12 DEF Flow!New

Stays == FlowSucc' = FlowSucc /\ FlowTodo' = FlowTodo

\* A call of to_cps for a part of an expression goes on with the same task.
LEMMA PartFlows ==
    ASSUME Converts, Converts', Budgeted, Prim \/ If \/ Call \/ Operand \/ \E t \in Type : Val(t)
    PROVE  Stays
<1>1. BlocksOK /\ BlocksOK' /\ StackOK /\ StackOK' /\ nodes \in Nat
    BY DEF Converts, Budgeted
<1>2. /\ stack # << >> /\ Top.form \in {"expr", "prim", "call"} /\ UNCHANGED <<params, transfer, current>>
      /\ \E a, e : CallsPart(a, e)
    BY <1>1, PartIs
<1>3. PICK a, e : CallsPart(a, e)
    BY <1>2
<1>4. Lengthened(a, e)
    BY <1>1, <1>2, <1>3, CallLengthens DEF CallsPart
<1>5. /\ 1 \in DOMAIN stack /\ Top = stack[1] /\ Open /\ Top.alt = None /\ Top.join = None
    BY <1>1, <1>2, TopOpen
<1>6. stack' # << >> /\ stack'[1] = e
    BY <1>4 DEF Lengthened
<1>7. Open' /\ Top' = e
    BY <1>1, <1>6, TopOpenNext, <1>3 DEF CallsPart
<1>8. /\ FlowTodo' = Current' \o (Left(1)' \o (Left(2)' \o Below))
      /\ Left(2)' = Left(1) /\ Left(1) \in Seq(Tasks) /\ Below \in Seq(Tasks)
      /\ FlowTodo = Current \o (Left(1) \o Below)
      /\ IsTrivial(e.k) => Goal(1)' = e.k.cont
      /\ ~IsTrivial(e.k) => Goal(1)' = Goal(1)
    BY <1>1, <1>2, <1>3, <1>4, <1>5, TodoLong, TodoIs DEF CallsPart
<1>9. Goal(1)' = Goal(1)
    BY <1>1, <1>5, GoalHere, <1>3, <1>8 DEF CallsPart
<1>10. Current' = Current
    BY <1>2, <1>5, <1>7, <1>9 DEF Current
<1>11. FlowTodo' = FlowTodo
    <2>1. << >> \o << >> = << >>
        OBVIOUS
    <2>2. Left(1)' = << >>
        BY <2>1, <1>3, <1>6 DEF Left, CallsPart
    <2>3. << >> \o (Left(1) \o Below) = Left(1) \o Below
        BY <1>8, CatAssociates
    <2> QED
        BY <2>2, <2>3, <1>8, <1>10
<1>12. FlowSucc' = FlowSucc
    BY <1>2, <1>5, <1>7 DEF Block, Successors, FlowSucc
<1> QED
    BY <1>11, <1>12 DEF Stays

\* A value that is left to the caller, who goes on with the same task.
LEMMA ValueFlows ==
    ASSUME Converts, Converts', stack # << >>, Top.form # "if", NEW v, Shortened(v), ~IsTrivial(Top.k),
           UNCHANGED <<params, transfer, current>>
    PROVE  Stays
<1>1. BlocksOK /\ BlocksOK' /\ StackOK /\ StackOK'
    BY DEF Converts
<1>2. Open /\ Top = stack[1] /\ Top.alt = None /\ Top.join = None
    BY <1>1, TopOpen
<1>3. Open' /\ Goal(1)' = Goal(1)
    BY <1>1, ReturnWaits
<1>4. FlowTodo' = Current' \o Below /\ FlowTodo = Current \o (Left(1) \o Below) /\ Below \in Seq(Tasks)
    BY <1>1, TodoShort, TodoIs
<1>5. Left(1) = << >> /\ << >> \o Below = Below
    BY <1>2, <1>4, CatAssociates DEF Left
<1>6. Current' = Current
    BY <1>2, <1>3 DEF Current
<1>7. FlowSucc' = FlowSucc
    BY <1>2, <1>3 DEF Block, Successors, FlowSucc
<1> QED
    BY <1>4, <1>5, <1>6, <1>7 DEF Stays

\* A value, or the result of a call, that goes to a block or to Return: the end
\* of the task, unless the caller replaces the transfer.
LEMMA TailFlows ==
    ASSUME Converts, Converts', Budgeted', stack # << >>, Top.form # "if", NEW v, Shortened(v),
           IsTrivial(Top.k), UNCHANGED <<params, current>>,
           \A b \in Block \ {current} : transfer'[b] = transfer[b],
           transfer'[current] # None, transfer'[current].conts = <<Top.k.cont>>
    PROVE  Stays \/ Flow!Goto
<1>1. BlocksOK /\ BlocksOK' /\ StackOK /\ StackOK' /\ Block' = Block /\ current \in Block
    BY DEF Converts, BlocksOK, Block
<1>2. Open /\ 1 \in DOMAIN stack /\ Top = stack[1] /\ Top.alt = None /\ Top.join = None
    BY <1>1, TopOpen
<1>3. Goal(1) = Top.k.cont
    BY <1>1, <1>2, GoalHere
<1>4. FlowTodo' = Current' \o Below /\ FlowTodo = Current \o (Left(1) \o Below) /\ Below \in Seq(Tasks)
    BY <1>1, TodoShort, TodoIs
<1>5. Left(1) = << >> /\ << >> \o Below = Below
    BY <1>2, <1>4, CatAssociates DEF Left
<1>6. PICK c : c = current
    OBVIOUS
<1>7. \A b \in Block \ {c} : FlowSucc'[b] = FlowSucc[b]
    BY <1>6, <1>1 DEF Successors, FlowSucc
<1>8. CASE Open'
    <2>1. Goal(1)' = Goal(1)
        BY <1>1, <1>3, <1>8, ReturnPasses
    <2>2. Current' = Current
        BY <1>2, <1>8, <2>1 DEF Current
    <2>3. FlowSucc'[c] = FlowSucc[c]
        BY <1>1, <1>2, <1>6, <1>8 DEF FlowSucc
    <2>4. FlowSucc' = FlowSucc
        BY <1>1, <1>7, <2>3, SuccStays
    <2> QED
        BY <1>4, <1>5, <2>2, <2>4 DEF Stays
<1>9. CASE ~Open'
    <2>1. PICK ss : ss = IF Goal(1) = Return THEN << >> ELSE <<Goal(1)>>
        OBVIOUS
    <2>2. ss \in Seq(Nat)
        BY <1>1, <1>2, LeftsAre, <2>1
    <2>3. FlowSucc'[c] = ss
        BY <1>3, <1>6, <2>1, <1>1, <1>9 DEF Range, Successors, FlowSucc
    <2>4. FlowTodo' = << >> \o Below
        BY <1>4, <1>9 DEF Current
    <2>5. Len(params') = Len(params) + 0 /\ Block' \ Block = {}
        BY <1>1, LengthsAre
    <2>6. Flow!Transfer(ss, 0) /\ Flow!Then(<< >>) /\ Flow!To = Goal(1)
        BY <1>1, <1>2, <1>6, <1>7, <2>2, <2>3, <2>4, <2>5, FlowStep
    <2> QED
        BY <2>1, <2>6 DEF Flow!Goto
<1> QED
    BY <1>8, <1>9

LEMMA ContinueFlows ==
    ASSUME Converts, Converts', Budgeted', stack # << >>, Top.form \in {"expr", "prim"},
           NEW v \in Nat, Continue(Top.k, v), UNCHANGED <<params, current>>
    PROVE  Stays \/ Flow!Goto
<1>1. BlocksOK /\ StackOK
    BY DEF Converts
<1>2. stack' = Returned(v) /\ current' = current
    BY DEF Continue
<1>3. Shortened(v)
    BY <1>1, <1>2, ReturnShortens
<1>4. CASE ~IsTrivial(Top.k)
    BY <1>4, <1>3, ValueFlows DEF Continue
<1>5. CASE IsTrivial(Top.k)
    <2>1. PICK t : t = Goto(v, Top.k.cont)
        OBVIOUS
    <2>2. t.conts = <<Top.k.cont>> /\ t # None
        <3>1. Top.k.cont \in Nat \cup {Return}
            BY <1>1, <1>5, TopFacts, BlocksAre DEF Activation, Cont, IsTrivial, BlocksOK
        <3>2. <<v>> \in Seq(Int \cup {Null}) /\ <<Top.k.cont>> \in Seq(Nat \cup {Return})
            BY <3>1
        <3>3. t \in Transfer
            BY <2>1, <3>2 DEF Goto, Transfer
        <3> QED
            BY <2>1, <3>3, NodesAssumption DEF Goto
    <2>3. transfer' = [transfer EXCEPT ![current] = t]
        BY <1>5, <2>1 DEF Continue
    <2>4. DOMAIN transfer = Block /\ current \in Block
        BY <1>1, SeqDomain DEF BlocksOK, Block
    <2>5. transfer'[current] = t /\ \A p \in Block \ {current} : transfer'[p] = transfer[p]
        BY <2>3, <2>4
    <2> QED
        BY <1>3, <1>5, <2>2, <2>5, TailFlows
<1> QED
    BY <1>4, <1>5

LEMMA ValuesFlow ==
    ASSUME Converts, Converts', Budgeted', Const \/ Apply \/ \E n \in NameT : Id(n)
    PROVE  Stays \/ Flow!Goto
BY ValuesAre, ContinueFlows, TopFacts, SeqDomain DEF Converts, Const, Apply, InForm, Id, Named, NamesOK, NameT

LEMMA CallToFlows ==
    ASSUME Converts, Converts', Budgeted', CallTo
    PROVE  Stays \/ Flow!Goto \/ Flow!CallNext
<1>1. BlocksOK /\ BlocksOK' /\ StackOK /\ StackOK'
    BY DEF Converts
<1>2. stack # << >> /\ Top.form = "call"
    BY DEF CallTo, InForm
<1>3. CASE IsTrivial(Top.k)
    BY <1>2, <1>3, CallIsTail, TailFlows
<1>4. CASE ~IsTrivial(Top.k)
    <2>1. PICK n, v : CallMakes(n, v)
        BY <1>4, CallIsNext
    <2>2. Open /\ Top.alt = None /\ Top.join = None
        BY <1>1, <1>2, TopOpen
    <2>3. stack' # << >> /\ Open' /\ Goal(1)' = Goal(1)
        BY <1>1, <1>2, <1>4, <2>1, ReturnWaits DEF CallMakes
    <2>4. FlowTodo' = <<FlowTask(n + 1, Goal(1))>> \o Below
        BY <1>1, <2>1, TodoShort, <2>3 DEF CallMakes, Current, FlowTask
    <2>5. PICK c : c = current
        OBVIOUS
    <2>6. /\ n \in Nat /\ Block = 1..n /\ Block' = 1..(n + 1) /\ c \in Block
          /\ Len(params') = Len(params) + 1 /\ Len(params) = n /\ current' = n + 1
        BY <1>1, <2>1, <2>5, LengthsAre, LengthsAreNext DEF CallMakes, BlocksOK
    <2>7. c # current' /\ current' \notin Block
        BY <2>6
    <2>8. FlowSucc'[c] = <<n + 1>>
        BY <2>1, <2>5, <2>6, <2>7 DEF CallMakes, FlowSucc
    <2>9. \A b \in Block \ {c} : FlowSucc'[b] = FlowSucc[b]
        BY <2>1, <2>5, <2>6 DEF Successors, CallMakes, FlowSucc
    <2>10. \A b \in Block' \ Block : FlowSucc'[b] = << >>
        BY <2>6, <2>3 DEF FlowSucc
    <2>11. <<n + 1>> \in Seq(Nat)
        BY <2>6
    <2>12. PICK k, ss, ts : k = 1 /\ ss = <<n + 1>> /\ ts = <<FlowTask(n + 1, Goal(1))>>
        OBVIOUS
    <2>13. k \in Nat /\ ss \in Seq(Nat) /\ FlowTodo' = ts \o Below /\ Len(params') = Len(params) + k
           /\ FlowSucc'[c] = ss
        BY <2>4, <2>6, <2>8, <2>11, <2>12
    <2>14. /\ Flow!Transfer(ss, k) /\ Flow!Then(ts)
           /\ Flow!To = Goal(1) /\ \A j : Flow!New(j) = Len(params) + j
        BY <1>1, <1>2, <2>2, <2>5, <2>9, <2>10, <2>13, FlowStep
    <2> QED
        BY <2>6, <2>12, <2>14 DEF Flow!CallNext, Flow!Task, FlowTask
<1> QED
    BY <1>3, <1>4

LEMMA CatTwo ==
    ASSUME NEW S, NEW x \in S, NEW y \in S, NEW z \in S
    PROVE  /\ <<x>> \o << >> = <<x>> /\ <<x>> \o <<y>> = <<x, y>>
           /\ <<x>> \o <<y, z>> = <<x, y, z>>
<1>1. PICK r, t : r = <<x>> \o <<y>> /\ t = <<x, y>>
    OBVIOUS
<1>2. r \in Seq(S) /\ t \in Seq(S) /\ Len(r) = Len(t) /\ Len(t) = 2 /\ r[1] = t[1] /\ r[2] = t[2]
    BY <1>1
<1>3. PICK u, w : u = <<x>> \o <<y, z>> /\ w = <<x, y, z>>
    OBVIOUS
<1>4. /\ u \in Seq(S) /\ w \in Seq(S) /\ Len(u) = Len(w) /\ Len(w) = 3
      /\ u[1] = w[1] /\ u[2] = w[2] /\ u[3] = w[3]
    BY <1>3
<1>5. r = t
    BY <1>2, SeqEqual
<1>6. u = w
    BY <1>4, SeqEqual
<1>7. <<x>> \o << >> = <<x>>
    OBVIOUS
<1> QED
    BY <1>1, <1>3, <1>5, <1>6, <1>7

LEMMA BranchFlows ==
    ASSUME Converts, Converts', Budgeted', Branch
    PROVE  Flow!IfTail \/ Flow!IfJoin
<1>1. BlocksOK /\ BlocksOK' /\ StackOK /\ StackOK'
    BY DEF Converts
<1>2. PICK n, m, a, e : Branches(n, m, a, e)
    BY BranchMakes
<1>3. stack # << >> /\ Open /\ 1 \in DOMAIN stack /\ Top = stack[1] /\ Top.alt = None /\ Top.join = None
    BY <1>1, <1>2, TopOpen DEF Branches
<1>4. stack' # << >> /\ stack'[1] = e /\ stack'[2] = a /\ Lengthened(a, e)
    BY <1>2 DEF Branches, Lengthened
<1>5. Open'
    BY <1>1, <1>4, TopOpenNext, <1>2 DEF Branches
<1>6. PICK c : c = current
    OBVIOUS
<1>7. /\ n \in Nat /\ m \in {2, 3} /\ Block = 1..n /\ Block' = 1..(n + m) /\ c \in Block
      /\ Len(params') = Len(params) + m /\ Len(params) = n /\ current' = n + 1
    BY <1>1, <1>2, <1>6, LengthsAre, LengthsAreNext DEF Branches, BlocksOK
<1>8. FlowSucc'[c] = <<n + 1, n + 2>>
    BY <1>2, <1>6, <1>7 DEF Branches, FlowSucc
<1>9. \A b \in Block \ {c} : FlowSucc'[b] = FlowSucc[b]
    BY <1>2, <1>6, <1>7 DEF Successors, Branches, FlowSucc
<1>10. \A b \in Block' \ Block : FlowSucc'[b] = << >>
    BY <1>2 DEF FlowSucc, Successors, Branches
<1>11. <<n + 1, n + 2>> \in Seq(Nat)
    BY <1>7
<1>12. /\ FlowTodo' = Current' \o (Left(1)' \o (Left(2)' \o Below))
       /\ Goal(2)' = Goal(1) /\ Below \in Seq(Tasks)
       /\ IsTrivial(e.k) => Goal(1)' = e.k.cont
    BY <1>1, <1>2, <1>3, <1>4, TodoLong, TodoIs DEF Branches
<1>13. Left(1)' = << >>
    BY <1>2, <1>4 DEF Left, Branches
<1>14. n + 2 # None /\ n + 3 # None
    BY <1>7, NodesAssumption
<1>15. Goal(1) \in Nat \cup {Return}
    BY <1>1, <1>3, LeftsAre
<1>16. PICK g : g = Goal(1)
    OBVIOUS
<1>17. ASSUME NEW x \in Tasks, NEW y \in Tasks, NEW z \in Tasks
       PROVE  /\ <<x>> \o (<< >> \o ((<<y>> \o << >>) \o Below)) = <<x, y>> \o Below
              /\ <<x>> \o (<< >> \o ((<<y>> \o <<z>>) \o Below)) = <<x, y, z>> \o Below
    <2>1. <<y>> \o << >> = <<y>> /\ <<y>> \o <<z>> = <<y, z>>
        BY CatTwo
    <2>2. <<y>> \in Seq(Tasks) /\ <<y, z>> \in Seq(Tasks) /\ <<x>> \in Seq(Tasks)
        OBVIOUS
    <2>3. << >> \o (<<y>> \o Below) = <<y>> \o Below /\ << >> \o (<<y, z>> \o Below) = <<y, z>> \o Below
        BY <1>12, <2>2, CatAssociates
    <2>4. /\ <<x>> \o (<<y>> \o Below) = (<<x>> \o <<y>>) \o Below
          /\ <<x>> \o (<<y, z>> \o Below) = (<<x>> \o <<y, z>>) \o Below
        BY <1>12, <2>2, CatAssociates
    <2>5. <<x>> \o <<y>> = <<x, y>> /\ <<x>> \o <<y, z>> = <<x, y, z>>
        BY CatTwo
    <2> QED
        BY <2>1, <2>3, <2>4, <2>5
<1>20. PICK ss : ss = <<n + 1, n + 2>> /\ ss \in Seq(Nat) /\ FlowSucc'[c] = ss
    BY <1>8, <1>11
<1>21. ASSUME NEW ts, FlowTodo' = ts \o Below
       PROVE  /\ Flow!Transfer(ss, m) /\ Flow!Then(ts) /\ Flow!To = Goal(1)
              /\ Flow!New(1) = n + 1 /\ Flow!New(2) = n + 2 /\ Flow!New(3) = n + 3
    <2>1. m \in Nat /\ Len(params') = Len(params) + m
        BY <1>7
    <2>2. /\ Flow!Transfer(ss, m) /\ Flow!Then(ts) /\ Flow!To = Goal(1)
          /\ \A j : Flow!New(j) = Len(params) + j
        BY <1>1, <1>3, <1>6, <1>9, <1>10, <1>20, <1>21, <2>1, FlowStep
    <2> QED
        BY <2>2, <1>7
<1>18. CASE IsTrivial(Top.k)
    <2>1. PICK x, y : x = FlowTask(n + 1, g) /\ y = FlowTask(n + 2, g)
        OBVIOUS
    <2>2. x \in Tasks /\ y \in Tasks
        BY <1>7, <1>15, <1>16, <2>1 DEF FlowTask, Tasks
    <2>3. g = Top.k.cont
        BY <1>1, <1>3, <1>16, <1>18, GoalHere
    <2>4. Current' = <<x>>
        BY <1>2, <1>12, <1>18, <2>3, <1>5, <1>7, <2>1 DEF Branches, Current, FlowTask
    <2>5. Left(2)' = <<y>> \o << >>
        BY <1>2, <1>18, <1>4, <1>14, <2>1, <2>3 DEF Branches, Left, FlowTask
    <2>6. FlowTodo' = <<x, y>> \o Below
        <3>1. FlowTodo' = <<x>> \o (<< >> \o ((<<y>> \o << >>) \o Below))
            BY <1>12, <1>13, <2>4, <2>5
        <3> QED
            BY <3>1, <1>17, <2>2
    <2>7. m = 2
        BY <1>2, <1>18 DEF Branches
    <2>8. /\ Flow!Transfer(ss, m) /\ Flow!Then(<<x, y>>) /\ Flow!To = g
          /\ Flow!New(1) = n + 1 /\ Flow!New(2) = n + 2
        BY <1>16, <1>21, <2>6
    <2>9. Flow!IfTail
        BY <1>20, <2>1, <2>7, <2>8 DEF Flow!IfTail, Flow!Task, FlowTask
    <2> QED
        BY <2>9
<1>19. CASE ~IsTrivial(Top.k)
    <2>1. PICK x, y, z : x = FlowTask(n + 1, n + 3) /\ y = FlowTask(n + 2, n + 3) /\ z = FlowTask(n + 3, g)
        OBVIOUS
    <2>2. x \in Tasks /\ y \in Tasks /\ z \in Tasks
        BY <1>7, <1>15, <1>16, <2>1 DEF FlowTask, Tasks
    <2>3. Current' = <<x>>
        BY <1>2, <1>19, <1>12, <1>14, <1>5, <1>7, <2>1 DEF Branches, Trivial, IsTrivial, Current, FlowTask
    <2>4. Left(2)' = <<y>> \o <<z>>
        BY <1>2, <1>19, <1>12, <1>16, <1>4, <1>14, <2>1 DEF Branches, Left, FlowTask
    <2>5. FlowTodo' = <<x, y, z>> \o Below
        <3>1. FlowTodo' = <<x>> \o (<< >> \o ((<<y>> \o <<z>>) \o Below))
            BY <1>12, <1>13, <2>3, <2>4
        <3> QED
            BY <3>1, <1>17, <2>2
    <2>6. m = 3
        BY <1>2, <1>19 DEF Branches
    <2>7. /\ Flow!Transfer(ss, m) /\ Flow!Then(<<x, y, z>>) /\ Flow!To = g
          /\ Flow!New(1) = n + 1 /\ Flow!New(2) = n + 2 /\ Flow!New(3) = n + 3
        BY <1>16, <1>21, <2>5
    <2>8. Flow!IfJoin
        BY <1>20, <2>1, <2>6, <2>7 DEF Flow!IfJoin, Flow!Task, FlowTask
    <2> QED
        BY <2>8
<1> QED
    BY <1>18, <1>19

Doms == INSTANCE DominatorsProofs
    WITH succ <- FlowSucc, todo <- FlowTodo, MaxBlocks <- 3 * MaxNodes + 1, pc <- None, dfs <- None,
         visited <- None, order <- None, doms <- None, i <- None, changed <- None, preds <- None,
         new_idom <- None, finger <- None, asked <- None, answer <- None, nodes <- None,
         climb <- None, seen <- None, outcome <- None

\* The block of the task that comes next has no transfer.
LEMMA NextIsIdle ==
    ASSUME Doms!OneTransfer, NEW x, NEW s \in Seq(Tasks), x \in Tasks, FlowTodo = <<x>> \o s
    PROVE  FlowSucc[x.at] = << >>
<1>1. PICK z : z = FlowTodo
    OBVIOUS
<1>2. z = <<x>> \o s
    BY <1>1
<1>3. 1 \in DOMAIN z /\ z[1] = x
    BY ONLY <1>2, s \in Seq(Tasks), x \in Tasks
<1> QED
    BY <1>1, <1>3 DEF Doms!OneTransfer

\* A block that the conversion goes on in next.
LEMMA MovedTo ==
    ASSUME ~Open, Open', UNCHANGED <<params, transfer>>, FlowSucc[current'] = << >>, current' \in Block
    PROVE  FlowSucc' = FlowSucc
BY DEF Block, Successors, FlowSucc

LEMMA AlternativeFlows ==
    ASSUME Converts, Converts', Doms!OneTransfer, Alternative
    PROVE  Stays
<1>1. BlocksOK /\ BlocksOK' /\ StackOK /\ StackOK'
    BY DEF Converts
<1>2. PICK a, e : /\ a = [Top EXCEPT !.alt = None]
                  /\ e = Expr(BranchCont(Top), None, Top.type, Top.scope)
    OBVIOUS
<1>3. /\ stack # << >> /\ Top.form = "if" /\ Len(Top.args) = 2
      /\ UNCHANGED <<params, transfer>> /\ current' = Top.alt /\ stack' = Calls(a, e)
    BY <1>2 DEF Alternative, InForm, BranchCont
<1>4. Lengthened(a, e) /\ stack' # << >> /\ stack'[1] = e /\ stack'[2] = a
    BY <1>1, <1>3, CallLengthens DEF Lengthened
<1>5. /\ Top = stack[1] /\ 1 \in DOMAIN stack /\ Top \in Activation /\ Top.alt \in Arms /\ Branched(Top)
      /\ Top.alt # None /\ Top.alt \in Block /\ Block \subseteq Nat
    BY <1>1, <1>3, TopFacts, StackFacts, BlocksAre, LengthsAre DEF Resumed, BlocksOK
<1>6. /\ a.alt = None /\ a.join = Top.join /\ a.k = Top.k
      /\ e.form = "expr" /\ e.alt = None /\ e.join = None /\ e.k = BranchCont(Top)
    BY <1>2, <1>5 DEF Expr, Activation
<1>7. ~Open
    BY <1>5, <1>1, <1>3, TopOpen DEF Tailed
<1>8. Open'
    BY <1>1, <1>4, TopOpenNext, <1>6
<1>9. PICK x, r : /\ x = FlowTask(Top.alt, BranchCont(Top).cont)
                  /\ r = IF Top.join = None THEN << >> ELSE <<FlowTask(Top.join, Goal(1))>>
    OBVIOUS
<1>10. IsTrivial(BranchCont(Top))
    BY <1>5, BranchesPass
<1>11. Left(1) = <<x>> \o r
    BY <1>5, <1>9 DEF Left, FlowTask, BranchCont, Trivial
<1>12. /\ FlowTodo = << >> \o (Left(1) \o Below) /\ Below \in Seq(Tasks)
    BY <1>1, <1>3, <1>7, TodoIs DEF Current
<1>13. x \in Tasks /\ r \in Seq(Tasks)
    <2>1. Goal(1) \in Nat \cup {Return} /\ Joins \subseteq Nat /\ Top.join \in Joins \cup {None}
        BY <1>1, <1>5, LeftsAre, BlocksAre DEF BlocksOK, Activation
    <2>2. BranchCont(Top).cont \in Nat \cup {Return, None}
        BY <1>5, <2>1 DEF BranchCont, Activation, Cont, Trivial
    <2>3. Top.alt \in Nat /\ (Top.join # None => Top.join \in Nat)
        BY <1>5, <2>1
    <2>4. x \in Tasks
        BY <1>9, <2>2, <2>3 DEF FlowTask, Tasks
    <2>5. Top.join # None => FlowTask(Top.join, Goal(1)) \in Tasks
        BY <2>1, <2>3 DEF FlowTask, Tasks
    <2> QED
        BY <1>9, <2>4, <2>5
<1>14. /\ FlowTodo' = Current' \o (Left(1)' \o (Left(2)' \o Below))
       /\ Goal(2)' = Goal(1) /\ Goal(1)' = BranchCont(Top).cont
    BY <1>1, <1>4, <1>5, <1>6, <1>10, TodoLong
<1>15. Left(1)' = << >> /\ Left(2)' = r
    BY <1>13, CatAssociates, <1>4, <1>6, <1>9, <1>14 DEF Left
<1>16. Current' = <<x>>
    BY <1>3, <1>8, <1>9, <1>14 DEF Current
<1>17. FlowTodo = <<x>> \o (r \o Below) /\ FlowTodo' = FlowTodo /\ r \o Below \in Seq(Tasks)
    <2>1. <<x>> \in Seq(Tasks) /\ r \o Below \in Seq(Tasks)
        BY <1>12, <1>13, CatAssociates
    <2>2. (<<x>> \o r) \o Below = <<x>> \o (r \o Below)
        BY <1>12, <1>13, <2>1, CatAssociates
    <2>3. << >> \o (<<x>> \o (r \o Below)) = <<x>> \o (r \o Below) /\ << >> \o (r \o Below) = r \o Below
        BY <2>1, CatAssociates
    <2> QED
        BY <1>11, <1>12, <1>14, <1>15, <1>16, <2>1, <2>2, <2>3
<1>18. FlowSucc[current'] = << >>
    <2>1. PICK s : s = r \o Below
        OBVIOUS
    <2>2. s \in Seq(Tasks) /\ FlowTodo = <<x>> \o s
        BY <1>17, <2>1
    <2>3. FlowSucc[x.at] = << >>
        BY <1>13, <2>2, NextIsIdle
    <2> QED
        BY <1>3, <1>9, <2>3 DEF FlowTask
<1>19. FlowSucc' = FlowSucc
    BY <1>3, <1>5, <1>7, <1>8, <1>18, MovedTo
<1> QED
    BY <1>17, <1>19 DEF Stays

\* Both branches of a conditional that others wait for are there.
LEMMA JoinFlows ==
    ASSUME Converts, Converts', Doms!OneTransfer, Join, Top.join # None
    PROVE  Stays
<1>1. BlocksOK /\ BlocksOK' /\ StackOK /\ StackOK'
    BY DEF Converts
<1>2. PICK v : v = params[Top.join][1]
    OBVIOUS
<1>3. /\ stack # << >> /\ Top.form = "if" /\ Len(Top.args) = 3
      /\ UNCHANGED <<params, transfer>> /\ current' = Top.join /\ stack' = Returned(v)
    BY <1>2 DEF Join, InForm
<1>4. Shortened(v)
    BY <1>1, <1>3, ReturnShortens
<1>5. /\ Top = stack[1] /\ 1 \in DOMAIN stack /\ Top.alt = None /\ ~IsTrivial(Top.k)
      /\ Top.join \in Block /\ Block \subseteq Nat
    BY <1>1, <1>3, TopFacts, StackFacts, BlocksAre, LengthsAre DEF Resumed, BlocksOK, Activation, Branched
<1>6. ~Open
    BY <1>1, <1>3, TopOpen DEF Tailed
<1>7. Open' /\ Goal(1)' = Goal(1)
    BY <1>1, <1>3, <1>4, <1>5, ReturnWaits
<1>8. PICK x : x = FlowTask(Top.join, Goal(1))
    OBVIOUS
<1>9. FlowTodo' = <<x>> \o Below
    BY <1>1, <1>4, TodoShort, <1>3, <1>7, <1>8 DEF Current
<1>10. x \in Tasks /\ Below \in Seq(Tasks) /\ FlowTodo = <<x>> \o Below
    <2>1. FlowTodo = << >> \o (Left(1) \o Below) /\ Below \in Seq(Tasks)
        BY <1>1, <1>3, <1>6, TodoIs DEF Current
    <2>2. x \in Tasks
        BY <1>1, <1>5, <1>8, LeftsAre DEF FlowTask, Tasks
    <2>3. <<x>> \in Seq(Tasks)
        BY <2>2
    <2>4. Left(1) = << >> \o <<x>>
        BY <1>5, <1>8 DEF Left
    <2>5. << >> \o <<x>> = <<x>> /\ <<x>> \o Below \in Seq(Tasks)
        BY <2>1, <2>3, CatAssociates
    <2>6. << >> \o (<<x>> \o Below) = <<x>> \o Below
        BY <2>5, CatAssociates
    <2> QED
        BY <2>1, <2>2, <2>4, <2>5, <2>6
<1>11. FlowSucc[current'] = << >>
    BY <1>3, <1>8, <1>10, NextIsIdle DEF FlowTask
<1>12. FlowSucc' = FlowSucc
    BY <1>3, <1>5, <1>6, <1>7, <1>11, MovedTo
<1> QED
    BY <1>9, <1>10, <1>12 DEF Stays

\* The condition under which an activation goes on in the current block.
GoesOn(a) == a.form = "if" => Len(a.args) = 1 /\ a.alt = None

\* A conditional in whose place nothing follows leaves the rest as it is.
LEMMA OpenStays ==
    ASSUME BlocksOK, StackOK, StackOK', stack # << >>, NEW v, Shortened(v), Tailed(Top), IsTrivial(Top.k)
    PROVE  Open' <=> Open
<1>1. /\ Len(stack) \in Nat \ {0} /\ DOMAIN stack = 1..Len(stack) /\ Top = stack[1]
      /\ \A j \in DOMAIN stack : stack[j] \in Activation
      /\ \A j \in 2..Len(stack) : Waits(stack[j - 1], stack[j])
    BY StackFacts
<1>2. Len(stack') = Len(stack) - 1 /\ Len(stack') \in Nat
    <2>1. Len(stack') = Len(stack) - 1
        BY StackLength
    <2> QED
        BY <1>1, <2>1
<1>3. ASSUME NEW j \in 2..Len(stack)
      PROVE  /\ Tailed(stack'[j - 1]) <=> Tailed(stack[j])
             /\ GoesOn(stack'[j - 1]) <=> GoesOn(stack[j])
    <2>1. PICK a, b : a = stack[j] /\ b = stack'[j - 1]
        OBVIOUS
    <2>2. SameButArgs(b, a) /\ Len(a.args) \in Nat
        BY <1>1, <2>1 DEF Shortened, Activation
    <2>3. CASE j > 2
        BY <2>1, <2>3, <2>2 DEF Shortened, SameButArgs, Tailed, GoesOn
    <2>4. CASE j = 2
        <3>1. Len(b.args) = Len(a.args) + 1
            BY <1>1, <2>1, <2>4 DEF Shortened, Activation
        <3>2. Waits(Top, a)
            BY <1>1, <2>4, <2>1
        <3>3. CASE a.form # "if"
            BY <2>1, <2>2, <3>3 DEF SameButArgs, Tailed, GoesOn
        <3>4. CASE a.form = "if"
            <4>1. Top.k # NextCont(None)
                BY DEF NextCont, IsTrivial
            <4>2. (Len(a.args) = 1 /\ a.alt \in Arms) \/ Len(a.args) = 2
                BY <3>2, <3>4, <4>1 DEF Waits
            <4>3. a.alt \in Arms => a.alt # None
                BY BlocksAre DEF BlocksOK
            <4>4. PICK x, y : x = Len(a.args) /\ y = Len(b.args)
                OBVIOUS
            <4>5. y = x + 1 /\ b.form = "if" /\ a.alt = b.alt /\ a.join = b.join
                BY <2>2, <3>1, <3>4, <4>4 DEF SameButArgs
            <4>6. CASE x = 1 /\ a.alt # None
                BY <2>1, <3>4, <4>4, <4>5, <4>6 DEF GoesOn, Tailed
            <4>7. CASE x = 2
                <5>1. x >= 2 /\ y >= 2 /\ x # 1 /\ y # 1
                    BY ONLY <4>5, <4>7
                <5> QED
                    BY <2>1, <3>4, <4>4, <4>5, <5>1, Zenon DEF GoesOn, Tailed
            <4> QED
                BY <4>2, <4>3, <4>4, <4>6, <4>7
        <3> QED
            BY <3>3, <3>4
    <2> QED
        BY <2>3, <2>4
<1>4. CASE \A j \in 2..Len(stack) : Tailed(stack[j])
    BY <1>1, <1>4, <1>2, <1>3, NotOpen, NotOpenNext DEF Tailed
<1>5. CASE \E j \in 2..Len(stack) : ~Tailed(stack[j])
    <2> DEFINE Not == {j \in Nat : j \in 2..Len(stack) /\ ~Tailed(stack[j])}
    <2>1. PICK m \in Not : \A k \in Not : ~(k < m)
        <3>1. Not # {}
            BY <1>5
        <3> QED
            BY <3>1, SmallestOf
    <2>2. PICK n : n = m - 1
        OBVIOUS
    <2>3. /\ m \in 2..Len(stack) /\ m \in 1..Len(stack) /\ n \in 1..Len(stack') /\ ~Tailed(stack[m])
          /\ m = n + 1 /\ n \in Nat
        BY <1>1, <1>2, <2>1, <2>2
    <2>4. \A i \in 2..(m - 1) : Tailed(stack[i])
        <3> TAKE i \in 2..(m - 1)
        <3>1. i \in Nat /\ i < m /\ i \in 2..Len(stack)
            BY <2>3
        <3> QED
            BY <3>1, <2>1
    <2>5. \A i \in 1..(m - 1) : Tailed(stack[i])
        BY <2>3, <1>1, <2>4
    <2>6. \A i \in 1..(n - 1) : Tailed(stack'[i])
        <3> TAKE i \in 1..(n - 1)
        <3>1. i + 1 \in 2..(m - 1) /\ i + 1 \in 2..Len(stack) /\ (i + 1) - 1 = i
            BY <2>3
        <3>2. Tailed(stack'[(i + 1) - 1])
            BY <1>3, <2>4, <3>1
        <3> QED
            BY <3>1, <3>2
    <2>7. ~Tailed(stack'[n]) /\ (GoesOn(stack'[n]) <=> GoesOn(stack[m]))
        BY <2>2, <1>3, <2>3
    <2>8. Open <=> GoesOn(stack[m])
        BY <1>1, <2>3, <2>5, OpenIs DEF GoesOn
    <2>9. Open' <=> GoesOn(stack'[n])
        BY <1>2, <2>3, <2>6, <2>7, OpenIsNext DEF GoesOn
    <2> QED
        BY <2>7, <2>8, <2>9
<1> QED
    BY <1>4, <1>5

LEMMA TailedFlows ==
    ASSUME Converts, Converts', Join, Top.join = None
    PROVE  Stays
<1>1. BlocksOK /\ BlocksOK' /\ StackOK /\ StackOK'
    BY DEF Converts
<1>2. /\ stack # << >> /\ Top.form = "if" /\ Len(Top.args) = 3
      /\ UNCHANGED <<params, transfer, current>> /\ stack' = Returned(Null)
    BY DEF Join, InForm
<1>3. Shortened(Null)
    BY <1>1, <1>2, ReturnShortens
<1>4. Top = stack[1] /\ 1 \in DOMAIN stack /\ Top.alt = None /\ IsTrivial(Top.k) /\ Tailed(Top)
    BY <1>1, <1>2, TopFacts, StackFacts DEF Resumed, Branched, Tailed
<1>5. Open' <=> Open
    BY <1>1, <1>2, <1>3, <1>4, OpenStays
<1>6. Current' = Current
    BY <1>1, <1>2, <1>3, <1>4, ReturnPasses, GoalHere, <1>5 DEF Current
<1>7. FlowTodo' = Current' \o Below /\ FlowTodo = Current \o (Left(1) \o Below) /\ Below \in Seq(Tasks)
    BY <1>1, <1>2, <1>3, TodoShort, TodoIs
<1>8. Left(1) = << >> /\ << >> \o Below = Below
    BY <1>4, <1>7, CatAssociates DEF Left
<1>9. FlowSucc' = FlowSucc
    BY <1>2, <1>5 DEF Block, Successors, FlowSucc
<1> QED
    BY <1>6, <1>7, <1>8, <1>9 DEF Stays

LEMMA FlowKept ==
    ASSUME Converts, Budgeted, Doms!OneTransfer, ToCpsNext
    PROVE  Stays \/ Flow!Convert
<1>1. Converts'
    BY ConversionKeeps
<1>2. Budgeted'
    BY <1>1, BudgetKept
<1>3. CASE Const \/ Apply \/ \E n \in NameT : Id(n)
    BY <1>1, <1>2, <1>3, ValuesFlow DEF Flow!Convert
<1>4. CASE Prim \/ If \/ Call \/ Operand \/ \E t \in Type : Val(t)
    BY <1>1, <1>4, PartFlows
<1>5. CASE CallTo
    BY <1>1, <1>2, <1>5, CallToFlows DEF Flow!Convert
<1>6. CASE Branch
    BY <1>1, <1>2, <1>6, BranchFlows DEF Flow!Convert
<1>7. CASE Alternative
    BY <1>1, <1>7, AlternativeFlows
<1>8. CASE Join
    BY <1>1, <1>8, JoinFlows, TailedFlows
<1> QED
    BY <1>3, <1>4, <1>5, <1>6, <1>7, <1>8 DEF ToCpsNext

LEMMA FlowStarts ==
    ASSUME Init
    PROVE  Flow!FlowInit
<1>1. PICK t : stack = <<Expr(Trivial(Return), None, t, 1..4)>>
    BY DEF Init
<1>2. PICK a, p : a = Expr(Trivial(Return), None, t, 1..4) /\ p = <<2, 3, 4>>
    OBVIOUS
<1>3. stack = <<a>> /\ params = <<p>> /\ current = 1
    BY <1>1, <1>2 DEF Init
<1>4. a.form = "expr" /\ a.alt = None /\ a.join = None /\ a.k = Trivial(Return)
    BY <1>2 DEF Expr
<1>5. Len(stack) = 1 /\ 1 \in 1..Len(stack) /\ stack[1] = a /\ DOMAIN stack = {1}
    BY <1>3
<1>6. Open
    BY <1>4, <1>5, OpenIs DEF Tailed
<1>7. Goal(1) = Return
    BY <1>4, <1>5, NodesAssumption, GoalOf DEF Trivial, IsTrivial, Nearest
<1>8. FlowSucc = <<<< >>>>
    BY <1>3, <1>6 DEF Block, FlowSucc
<1>9. FlowTodo = <<FlowTask(1, Return)>>
    <2>1. PICK x : x = FlowTask(1, Return)
        OBVIOUS
    <2>2. Current = <<x>>
        BY <1>3, <1>6, <1>7, <2>1 DEF Current
    <2>3. Left(1) = << >> \o << >>
        BY <1>4, <1>5 DEF Left
    <2>4. PICK ls : ls = Lefts
        OBVIOUS
    <2>5. ls = <<<< >>>>
        BY <2>3, <1>5, <2>4 DEF Lefts
    <2>6. ls \in Seq(Seq(Nat)) /\ ls # << >> /\ ls[1] = << >> /\ Tail(ls) = << >>
        BY ONLY <2>5
    <2>7. FlattenSeq(ls) = << >> \o FlattenSeq(Tail(ls))
        BY <2>6, FlattenCons
    <2>8. FlattenSeq(<< >>) = << >>
        BY Zenon DEF FlattenSeq
    <2>9. FlowTodo = <<x>> \o (<< >> \o << >>)
        BY <2>2, <2>4, <2>6, <2>7, <2>8 DEF FlowTodo, Current, Lefts
    <2>10. <<x>> \o (<< >> \o << >>) = <<x>>
        OBVIOUS
    <2> QED
        BY <2>1, <2>9, <2>10
<1> QED
    BY <1>8, <1>9 DEF Flow!FlowInit, Flow!Task, Flow!Entry, FlowTask

LEMMA NothingOpen ==
    ASSUME stack = << >>
    PROVE  FlowSucc = [b \in Block |-> Successors(b)]
BY NotOpen DEF FlowSucc

-----------------------------------------------------------------------------
(* The conversion is one of ControlFlow.                                   *)

\* What holds besides Converts: the blocks fit, and ControlFlow's own invariant.
Reached == Budgeted /\ Doms!FlowInv

LEMMA FlowAssumptions == 3 * MaxNodes + 1 \in Nat \ {0} /\ Return \notin Nat /\ None \notin Nat
BY NodesAssumption

LEMMA FlowInvStays ==
    ASSUME Doms!FlowInv, Stays \/ Flow!Convert
    PROVE  Doms!FlowInv'
<1>1. [Doms!Convert]_(Doms!flowVars)
    BY DEF Stays, Flow!Convert, Flow!Goto, Flow!CallNext, Flow!IfTail, Flow!IfJoin, Flow!Transfer, Flow!Then,
        Flow!Task, Flow!New, Flow!At, Flow!To, Doms!Convert, Doms!Goto, Doms!CallNext, Doms!IfTail,
        Doms!IfJoin, Doms!Transfer, Doms!Then, Doms!Task, Doms!New, Doms!At, Doms!To, Doms!flowVars
<1> QED
    BY <1>1, FlowAssumptions, Doms!FlowInvKept

LEMMA ReachedKept ==
    ASSUME Converts, Reached, ToCpsNext
    PROVE  Reached' /\ (Stays \/ Flow!Convert)
BY ConversionKeeps, BudgetKept, FlowKept, FlowInvStays DEF Reached, Doms!FlowInv

LEMMA ReachedStays ==
    ASSUME Reached, UNCHANGED cpsVars
    PROVE  Reached' /\ Stays
<1>1. UNCHANGED <<params, transfer, current, stack, nodes>>
    BY DEF cpsVars
<1>2. Open' = Open
    BY <1>1 DEF Open, Tailed, SelectInSeq
<1>3. \A j : Goal(j)' = Goal(j)
    BY <1>1 DEF Goal, IsTrivial
<1>4. FlowTodo' = FlowTodo
    BY <1>1, <1>2, <1>3 DEF FlowTodo, Left
<1>5. FlowSucc' = FlowSucc
    BY <1>1, <1>2 DEF FlowSucc, Successors, Block
<1>6. Stays /\ Budgeted'
    BY <1>1, <1>4, <1>5 DEF Stays, Reached, Budgeted, Budget, Cost
<1> QED
    BY <1>6, FlowInvStays DEF Reached

LEMMA ReachedStarts ==
    ASSUME Init
    PROVE  Reached
BY FlowStarts, FlowAssumptions, Doms!FlowInvInit, BudgetStarts DEF Flow!FlowInit, Flow!Task, Flow!Entry,
    Doms!FlowInit, Doms!Task, Doms!Entry, Reached

\* The current block and its transfer, the continuations and the blocks that
\* to_cps makes from them go the way ControlFlow says.
THEOREM ConversionFlows == Spec => ConvertsFlow
<1>1. CompileInit => CompileInv /\ Reached /\ Flow!FlowInit
    BY CompileStarts, ReachedStarts, FlowStarts DEF CompileInit
<1>2. CompileInv /\ Reached /\ [Next]_vars
      => CompileInv' /\ Reached' /\ [Flow!Convert]_(Flow!flowVars)
    <2> SUFFICES ASSUME CompileInv, Reached, [Next]_vars
                 PROVE  CompileInv' /\ Reached' /\ [Flow!Convert]_(Flow!flowVars)
        OBVIOUS
    <2>1. CompileInv' /\ Converts
        BY CompileInvKept DEF CompileInv
    <2>2. ToCpsNext \/ UNCHANGED cpsVars
        BY DEF Next, vars, ConvertStep, BeginWalk, VisitedBefore, VisitBlock, LeaveBlock, VisitExpr,
            LeaveExpr, BeginSchedule, ScheduleExpr, PrintDef, Declare, PatchPhis, Fill
    <2>3. Reached' /\ (Stays \/ Flow!Convert)
        BY <2>1, <2>2, ReachedKept, ReachedStays
    <2> QED
        BY <2>1, <2>3 DEF Stays, Flow!flowVars
<1> QED
    BY <1>1, <1>2, PTL DEF Spec, ConvertsFlow, Flow!FlowSpec

\* Every block of a finished function can be reached from its entry.
LEMMA AllBlocksReached ==
    ASSUME Reached, stack = << >>
    PROVE  \A S \in SUBSET Block :
                Entry \in S /\ (\A p \in S : Range(Successors(p)) \subseteq S) => S = Block
<1>1. FlowSucc = [b \in Block |-> Successors(b)]
    BY NothingOpen
<1>2. FlowTodo = << >>
    <2>1. PICK s : s = [j \in DOMAIN stack |-> Left(j)]
        OBVIOUS
    <2>2. s = << >> /\ ~Open
        BY <2>1, NotOpen
    <2>3. FlattenSeq(<< >>) = << >>
        BY Zenon DEF FlattenSeq
    <2> QED
        BY <2>1, <2>2, <2>3 DEF FlowTodo
<1> SUFFICES ASSUME NEW S \in SUBSET Block, Entry \in S,
                    \A p \in S : Range(Successors(p)) \subseteq S
             PROVE  S = Block
    OBVIOUS
<1>3. Doms!Block = Block /\ Doms!Entry \in S
    BY <1>1 DEF Doms!Block, Doms!Entry, Entry
<1>4. \A p \in S : Doms!Succs(p) \subseteq S
    BY <1>1 DEF Doms!Succs, Range
<1>5. Doms!Reached
    BY DEF Reached, Doms!FlowInv
<1> QED
    BY <1>2, <1>3, <1>4, <1>5 DEF Doms!Reached

-----------------------------------------------------------------------------
(* The visit enters every block, and what its transfer has as operands.    *)

Met == visited \cup Range(agenda)

\* What a block that is entered leads to is on the agenda, if not entered.
MeetsAll(b) ==
    /\ \A c \in Range(Successors(b)) : Visit("block", c) \in Met
    /\ \A v \in Range(transfer[b].args) : Visit("expr", v) \in Met
    /\ b \in Range(blocks) \/ Visit("leave block", b) \in Range(agenda)

WalkMeets ==
    /\ Visit("block", Entry) \in Met /\ Visit("expr", Null) \notin visited
    /\ \A b \in Block : Visit("block", b) \in visited => MeetsAll(b)

LEMMA CatRange ==
    ASSUME NEW S, NEW s \in Seq(S), NEW t \in Seq(S)
    PROVE  Range(s) \subseteq Range(s \o t) /\ Range(t) \subseteq Range(s \o t)
<1>1. PICK w, m, n : w = s \o t /\ m = Len(s) /\ n = Len(t)
    OBVIOUS
<1>2. /\ m \in Nat /\ n \in Nat /\ DOMAIN s = 1..m /\ DOMAIN t = 1..n /\ DOMAIN w = 1..(m + n)
      /\ \A j \in 1..m : w[j] = s[j]
      /\ \A j \in (m + 1)..(m + n) : w[j] = t[j - m]
    BY <1>1
<1>3. \A j \in 1..m : j \in DOMAIN w /\ w[j] = s[j]
    BY ONLY <1>2
<1>4. ASSUME NEW j \in 1..n
      PROVE  m + j \in DOMAIN w /\ w[m + j] = t[j]
    <2>1. m + j \in (m + 1)..(m + n) /\ (m + j) - m = j /\ m + j \in 1..(m + n)
        BY ONLY <1>2, j \in 1..n
    <2> QED
        BY ONLY <2>1, <1>2
<1>5. \A x \in Range(s) : x \in Range(w)
    BY ONLY <1>2, <1>3 DEF Range
<1>6. ASSUME NEW x \in Range(t)
      PROVE  x \in Range(w)
    <2>1. PICK k \in DOMAIN t : x = t[k]
        BY DEF Range
    <2>2. k \in 1..n
        BY ONLY <1>2, <2>1
    <2>3. m + k \in DOMAIN w /\ w[m + k] = x
        BY ONLY <1>4, <2>1, <2>2
    <2> QED
        BY ONLY <2>3 DEF Range
<1> QED
    BY <1>1, <1>5, <1>6

LEMMA RangeAfter ==
    ASSUME Walks, agenda # << >>, NEW ns \in Seq(Item), Gives(ns)
    PROVE  /\ \A x \in Range(agenda) : x = Head(agenda) \/ x \in Range(agenda')
           /\ Range(ns) \subseteq Range(agenda')
<1>1. PICK n, m, t : n = Len(ns) /\ m = Len(agenda) /\ t = agenda'
    OBVIOUS
<1>2. /\ n \in Nat /\ m \in Nat /\ m >= 1 /\ DOMAIN agenda = 1..m /\ Head(agenda) = agenda[1]
      /\ DOMAIN t = 1..(n + m - 1)
      /\ \A i \in 1..n : t[i] = ns[i]
      /\ \A k \in 2..m : k + n - 1 \in DOMAIN t /\ t[k + n - 1] = agenda[k]
    BY <1>1, AgendaAfter
<1>3. ASSUME NEW x \in Range(agenda), x # Head(agenda)
      PROVE  x \in Range(t)
    BY <1>2, <1>3 DEF Range
<1>4. ASSUME NEW x \in Range(ns)
      PROVE  x \in Range(t)
    <2>1. PICK k \in DOMAIN ns : x = ns[k]
        BY DEF Range
    <2>2. k \in 1..n
        BY <1>1, <2>1
    <2>3. k \in DOMAIN t
        BY ONLY <1>2, <2>2
    <2> QED
        BY <1>2, <2>1, <2>2, <2>3 DEF Range
<1> QED
    BY <1>1, <1>3, <1>4

LEMMA MeetsKept ==
    ASSUME Walks, WalkMeets, agenda # << >>, NEW ns \in Seq(Item), Gives(ns), UNCHANGED cpsVars,
           visited \subseteq visited', Range(blocks) \subseteq Range(blocks'),
           Visit("expr", Null) \notin visited',
           Head(agenda).do \notin Leaves => Head(agenda) \in visited',
           Head(agenda).do = "leave block" => Head(agenda).node \in Range(blocks'),
           \A b \in Block : Visit("block", b) \in visited' \ visited =>
                /\ \A c \in Range(Successors(b)) : Visit("block", c) \in Range(ns)
                /\ \A v \in Range(transfer[b].args) : Visit("expr", v) \in Range(ns)
                /\ Visit("leave block", b) \in Range(ns)
    PROVE  WalkMeets'
<1>1. /\ \A x \in Range(agenda) : x = Head(agenda) \/ x \in Range(agenda')
      /\ Range(ns) \subseteq Range(agenda')
    BY RangeAfter
<1>2. Block' = Block /\ transfer' = transfer /\ \A b : Successors(b)' = Successors(b)
    BY DEF cpsVars, Block, Successors
<1>3. \A kind, n : kind \notin Leaves /\ Visit(kind, n) \in Met => Visit(kind, n) \in Met'
    BY VisitIs, <1>1 DEF Met
<1>4. "block" \notin Leaves /\ "expr" \notin Leaves
    BY DEF Leaves
<1>5. Visit("block", Entry) \in Met'
    BY <1>3, <1>4 DEF WalkMeets
<1>6. ASSUME NEW b \in Block, Visit("block", b) \in visited'
      PROVE  MeetsAll(b)'
    BY <1>3, <1>4, VisitIs, <1>1, <1>2, <1>6 DEF WalkMeets, MeetsAll, Met
<1> QED
    BY <1>2, <1>5, <1>6 DEF WalkMeets, Entry

LEMMA SameVisit ==
    \A j, k, m, n : Visit(j, m) = Visit(k, n) => j = k /\ m = n
<1> SUFFICES ASSUME NEW j, NEW k, NEW m, NEW n, Visit(j, m) = Visit(k, n)
             PROVE  j = k /\ m = n
    OBVIOUS
<1>1. /\ Visit(j, m).do = j /\ Visit(j, m).node = m
      /\ Visit(k, n).do = k /\ Visit(k, n).node = n
    BY VisitIs
<1> QED
    BY <1>1

LEMMA PoppedMeets ==
    ASSUME Walks, WalkMeets, VisitedBefore \/ LeaveBlock \/ LeaveExpr
    PROVE  WalkMeets'
<1>1. agenda # << >> /\ agenda' = Tail(agenda) /\ visited' = visited /\ UNCHANGED cpsVars
    BY DEF VisitedBefore, LeaveBlock, LeaveExpr
<1>2. PICK ns \in Seq(Item) : Range(ns) = {} /\ Gives(ns)
    BY <1>1, GivesNothing
<1>3. Head(agenda).do \notin Leaves => Head(agenda) \in visited
    BY DEF VisitedBefore, LeaveBlock, LeaveExpr, Leaves
<1>4. /\ Range(blocks) \subseteq Range(blocks')
      /\ Head(agenda).do = "leave block" => Head(agenda).node \in Range(blocks')
    <2>1. CASE LeaveBlock
        <3>1. PICK b : b = Head(agenda).node
            OBVIOUS
        <3>2. b \in Block
            BY <1>1, <2>1, FirstItem, <3>1, ItemsAre DEF LeaveBlock
        <3>3. blocks \in Seq(Block)
            BY DEF Walks, AgendaOK
        <3>4. blocks' = Append(blocks, b)
            BY <2>1, <3>1 DEF LeaveBlock
        <3>5. PICK t : t = Append(blocks, b)
            OBVIOUS
        <3>6. Longer(blocks, t, b) /\ Len(blocks) \in Nat /\ DOMAIN blocks = 1..Len(blocks)
            BY <3>2, <3>3, <3>5, AppendIsLonger, SeqDomain
        <3>7. Range(blocks) \subseteq Range(t) /\ b \in Range(t)
            BY <3>6 DEF Longer, Range
        <3> QED
            BY <3>1, <3>4, <3>5, <3>7
    <2>2. CASE VisitedBefore \/ LeaveExpr
        BY <2>2 DEF VisitedBefore, LeaveExpr, Walks, AgendaOK, Leaves
    <2> QED
        BY <2>1, <2>2, <1>1, <1>3 DEF VisitedBefore, LeaveExpr, LeaveBlock
<1> QED
    BY <1>1, <1>2, <1>3, <1>4, MeetsKept DEF WalkMeets

LEMMA VisitBlockMeets ==
    ASSUME Finished, Walks, WalkMeets, VisitBlock
    PROVE  WalkMeets'
<1>1. PICK b : b = Head(agenda).node
    OBVIOUS
<1>2. /\ agenda # << >> /\ Head(agenda) \notin visited /\ Head(agenda).do = "block"
      /\ agenda' = VisitAll("block", Successors(b)) \o VisitAll("expr", transfer[b].args)
                    \o <<Visit("leave block", b)>> \o Tail(agenda)
      /\ visited' = visited \cup {Head(agenda)} /\ blocks' = blocks /\ UNCHANGED cpsVars
    BY <1>1 DEF VisitBlock
<1>3. Head(agenda) \in Item /\ b \in Block /\ Head(agenda) = Visit("block", b)
    BY <1>2, FirstItem, <1>1, ItemsAre
<1>4. transfer[b].args \in Seq(Value) /\ Successors(b) \in Seq(Block)
    BY <1>3, FinishedTransfers
<1>5. PICK p, q, x : /\ p = VisitAll("block", Successors(b)) /\ q = VisitAll("expr", transfer[b].args)
                     /\ x = Visit("leave block", b)
    OBVIOUS
<1>6. p \in Seq(Item) /\ q \in Seq(Item) /\ x \in Item
    <2>1. p \in Seq([do : {"block"}, node : Block])
        BY <1>4, <1>5, VisitsAre
    <2>2. q \in Seq([do : {"expr"}, node : Value])
        BY <1>4, <1>5, VisitsAre
    <2>3. [do : {"block"}, node : Block] \subseteq Item /\ [do : {"expr"}, node : Value] \subseteq Item
        BY DEF Item
    <2>4. x \in Item
        BY <1>3, <1>5, ItemsAre
    <2> QED
        BY <2>1, <2>2, <2>3, <2>4, SeqWider
<1>7. PICK vs, ns : vs = p \o q /\ ns = vs \o <<x>>
    OBVIOUS
<1>8. /\ vs \in Seq(Item) /\ ns \in Seq(Item)
      /\ Range(p) \subseteq Range(ns) /\ Range(q) \subseteq Range(ns) /\ x \in Range(ns)
    <2>1. vs \in Seq(Item) /\ Range(p) \subseteq Range(vs) /\ Range(q) \subseteq Range(vs)
        BY <1>6, <1>7, CatRange
    <2>2. <<x>> \in Seq(Item) /\ x \in Range(<<x>>)
        BY <1>6 DEF Range
    <2>3. ns \in Seq(Item) /\ Range(vs) \subseteq Range(ns) /\ Range(<<x>>) \subseteq Range(ns)
        <3>1. vs \in Seq(Item) /\ <<x>> \in Seq(Item) /\ ns = vs \o <<x>>
            BY <1>7, <2>1, <2>2
        <3>2. vs \o <<x>> \in Seq(Item)
            BY ONLY <3>1, CatElements
        <3>3. Range(vs) \subseteq Range(vs \o <<x>>) /\ Range(<<x>>) \subseteq Range(vs \o <<x>>)
            BY ONLY <3>1, CatRange
        <3> QED
            BY ONLY <3>1, <3>2, <3>3
    <2> QED
        BY <2>1, <2>2, <2>3
<1>9. Gives(ns)
    BY <1>2, <1>5, <1>7 DEF Gives
<1>10. /\ \A c \in Range(Successors(b)) : Visit("block", c) \in Range(ns)
       /\ \A v \in Range(transfer[b].args) : Visit("expr", v) \in Range(ns)
       /\ Visit("leave block", b) \in Range(ns)
    BY <1>5, <1>8 DEF VisitAll, Range
<1>11. \A c : Visit("block", c) = Head(agenda) => c = b
    BY <1>3, VisitIs
<1>12. Visit("expr", Null) # Head(agenda)
    <2>1. "expr" # "block"
        OBVIOUS
    <2> QED
        BY ONLY <1>3, <2>1, SameVisit, Zenon
<1>13. /\ visited \subseteq visited' /\ Head(agenda) \in visited' /\ Visit("expr", Null) \notin visited'
       /\ \A c \in Block : Visit("block", c) \in visited' \ visited => c = b
    BY <1>2, <1>11, <1>12 DEF WalkMeets
<1> QED
    BY <1>2, <1>8, <1>9, <1>10, <1>13, MeetsKept

LEMMA VisitExprMeets ==
    ASSUME Finished, Walks, WalkMeets, VisitExpr, pc' # "null"
    PROVE  WalkMeets'
<1>1. PICK e : e = Head(agenda).node
    OBVIOUS
<1>2. /\ agenda # << >> /\ Head(agenda).do = "expr" /\ e # Null
      /\ agenda' = VisitAll("expr", exprs[e].args) \o <<Visit("leave expr", e)>> \o Tail(agenda)
      /\ visited' = visited \cup {Head(agenda)} /\ blocks' = blocks /\ UNCHANGED cpsVars
    BY <1>1 DEF VisitExpr
<1>3. Head(agenda) \in Item /\ e \in DOMAIN exprs /\ Head(agenda) = Visit("expr", e)
    BY <1>2, FirstItem, <1>1, ItemsAre DEF Value
<1>4. ExprsOK
    BY DEF Finished, Converts
<1>5. PICK us : us = exprs[e].args
    OBVIOUS
<1>6. us \in Seq(Value)
    <2>1. exprs[e] \in [kind : {"fn", "param", "const", "prim"}, args : Seq(Nat \cup {Null})]
        BY ONLY <1>3, <1>4, ElementIn DEF ExprsOK
    <2>2. us \in Seq(Nat \cup {Null})
        BY <1>5, <2>1
    <2>3. Range(us) \subseteq Value
        BY <1>3, <1>4, <1>5, OperandsAre
    <2>4. \A i \in 1..Len(us) : us[i] \in Range(us)
        BY ONLY <2>2 DEF Range
    <2>5. us \in Seq(Range(us))
        BY ONLY <2>2, <2>4
    <2> QED
        BY <2>3, <2>5, SeqWider
<1>7. PICK p, x : p = VisitAll("expr", us) /\ x = Visit("leave expr", e)
    OBVIOUS
<1>8. p \in Seq(Item) /\ x \in Item
    <2>1. p \in Seq([do : {"expr"}, node : Value])
        BY <1>6, <1>7, VisitsAre
    <2>2. [do : {"expr"}, node : Value] \subseteq Item
        BY DEF Item
    <2> QED
        BY <1>3, <1>7, <2>1, <2>2, SeqWider, ItemsAre
<1>9. PICK ns : ns = p \o <<x>>
    OBVIOUS
<1>10. ns \in Seq(Item) /\ Gives(ns)
    <2>1. <<x>> \in Seq(Item)
        BY <1>8
    <2> QED
        BY <1>2, <1>5, <1>7, <1>8, <1>9, <2>1, CatElements DEF Gives
<1>11. /\ \A c : Visit("block", c) # Head(agenda)
       /\ Visit("expr", Null) # Head(agenda)
    <2>1. "expr" # "block"
        OBVIOUS
    <2>2. e # Null /\ Head(agenda) = Visit("expr", e)
        BY <1>2, <1>3
    <2>3. \A c : Visit("block", c) # Head(agenda)
        BY ONLY <2>1, <2>2, SameVisit, Zenon
    <2>4. Visit("expr", Null) # Head(agenda)
        BY ONLY <2>2, SameVisit, Zenon
    <2> QED
        BY <2>3, <2>4
<1>12. /\ visited \subseteq visited' /\ Head(agenda) \in visited' /\ Visit("expr", Null) \notin visited'
       /\ \A c \in Block : Visit("block", c) \notin visited' \ visited
    BY <1>2, <1>11 DEF WalkMeets
<1> QED
    BY <1>2, <1>10, <1>12, MeetsKept

LEMMA MeetsStays ==
    ASSUME WalkMeets, UNCHANGED <<cpsVars, walkVars>>
    PROVE  WalkMeets'
BY DEF cpsVars, walkVars, Block, Met, Successors, MeetsAll, WalkMeets, Entry

LEMMA MeetsStarts ==
    ASSUME visited = {}, BeginWalk
    PROVE  WalkMeets'
BY DEF BeginWalk, Range, Met, WalkMeets, Entry

LEMMA MeetsKeeps ==
    ASSUME Finished, Walks, WalkMeets, pc' # "null",
           VisitedBefore \/ VisitBlock \/ LeaveBlock \/ VisitExpr \/ LeaveExpr
    PROVE  WalkMeets'
BY PoppedMeets, VisitBlockMeets, VisitExprMeets

\* At the end of the visit every block and every operand of a transfer is listed.
LEMMA EverythingVisited ==
    ASSUME Finished, Reached, Walks, WalkMeets, agenda = << >>
    PROVE  \A b \in Block : b \in Range(blocks) /\ Range(transfer[b].args) \subseteq Range(order)
<1>1. Range(agenda) = {} /\ DOMAIN agenda = {}
    BY DEF Range
<1>2. Met = visited
    BY <1>1 DEF Met
<1>3. PICK S : S = {b \in Block : Visit("block", b) \in visited}
    OBVIOUS
<1>4. ASSUME NEW p \in S
      PROVE  /\ Range(Successors(p)) \subseteq S /\ p \in Range(blocks)
             /\ \A v \in Range(transfer[p].args) : Visit("expr", v) \in visited
    BY <1>3, SuccessorsAreBlocks, <1>1, <1>2 DEF WalkMeets, Finished, Converts, MeetsAll
<1>5. Entry \in S
    BY <1>2, <1>3 DEF WalkMeets, Finished, Converts, BlocksOK
<1>6. S = Block
    BY <1>3, <1>4, <1>5, AllBlocksReached DEF Finished
<1>7. ASSUME NEW v \in Value, Visit("expr", v) \in visited
      PROVE  v \in Range(order)
    BY <1>1, <1>7 DEF Walks, LeftOrEntered
<1>8. ASSUME NEW b \in Block
      PROVE  Range(transfer[b].args) \subseteq Value
    BY FinishedTransfers DEF TransferOK
<1> QED
    BY <1>4, <1>6, <1>7, <1>8

-----------------------------------------------------------------------------
(* Dominators of a finished function.                                      *)

LEMMA SuccsAre ==
    ASSUME stack = << >>
    PROVE  /\ Flow!Block = Block /\ Flow!Entry = Entry
           /\ \A p \in Block : Flow!Succs(p) = Range(Successors(p))
BY NothingOpen DEF Flow!Block, Flow!Entry, Flow!Succs, Entry, Range

LEMMA DominatorIsBlock ==
    ASSUME Reached, stack = << >>, NEW b \in Block, NEW a, Flow!Dominates(a, b)
    PROVE  a \in Block
<1> SUFFICES ASSUME a \notin Block
             PROVE  FALSE
    OBVIOUS
<1>1. PICK S \in SUBSET Block :
        Entry \in S /\ b \notin S /\ \A p \in S \ {a} : Flow!Succs(p) \subseteq S
    BY SuccsAre DEF Flow!Dominates
<1>2. S \ {a} = S
    OBVIOUS
<1>3. \A p \in S : Range(Successors(p)) \subseteq S
    BY <1>1, <1>2, SuccsAre
<1> QED
    BY <1>1, <1>3, AllBlocksReached

LEMMA DominatesTransitive ==
    ASSUME Reached, stack = << >>, NEW a, NEW b, NEW c \in Block,
           Flow!Dominates(a, b), Flow!Dominates(b, c)
    PROVE  Flow!Dominates(a, c)
<1>1. CASE a = b \/ b = c
    BY <1>1
<1>2. CASE a # b /\ b # c
    <2>1. PICK S \in SUBSET Block :
            Entry \in S /\ b \notin S /\ \A p \in S \ {a} : Flow!Succs(p) \subseteq S
        BY <1>2, SuccsAre DEF Flow!Dominates
    <2>2. PICK R \in SUBSET Block :
            Entry \in R /\ c \notin R /\ \A p \in R \ {b} : Flow!Succs(p) \subseteq R
        BY <1>2, SuccsAre DEF Flow!Dominates
    <2>3. PICK T : T = S \cap R
        OBVIOUS
    <2>4. T \in SUBSET Block /\ Entry \in T /\ c \notin T
        BY <2>1, <2>2, <2>3
    <2>5. \A p \in T \ {a} : Flow!Succs(p) \subseteq T
        BY <2>1, <2>2, <2>3
    <2> QED
        BY <2>4, <2>5, SuccsAre DEF Flow!Dominates
<1> QED
    BY <1>1, <1>2

\* A block but the entry has a predecessor, so its parameters have phis.
LEMMA BlocksHavePhis ==
    ASSUME Finished, Reached, NEW b \in Block, b # Entry
    PROVE  HasPhis(b)
<1> SUFFICES ASSUME Preds(b) = {}
             PROVE  FALSE
    BY DEF HasPhis
<1>1. PICK S : S = Block \ {b}
    OBVIOUS
<1>2. S \in SUBSET Block /\ Entry \in S
    BY <1>1 DEF Finished, Converts, BlocksOK
<1>3. ASSUME NEW p \in S
      PROVE  Range(Successors(p)) \subseteq S
    BY <1>1, SuccessorsAreBlocks DEF Preds, Finished, Converts
<1>4. S = Block
    BY <1>2, <1>3, AllBlocksReached DEF Finished
<1> QED
    BY <1>1, <1>4

-----------------------------------------------------------------------------
(* The parameters among the expressions.                                   *)

\* The expressions of the kind are the parameters of blocks, with no operands.
KindsOK ==
    \A e \in DOMAIN exprs :
        /\ exprs[e].kind = "param" <=> \E b \in Block : e \in Range(params[b])
        /\ exprs[e].kind = "param" => exprs[e].args = << >>

LEMMA KindsSame ==
    ASSUME KindsOK, exprs' = exprs, Block \subseteq Block',
           \A b \in Block : params'[b] = params[b],
           \A b \in Block' \ Block : Range(params'[b]) = {}
    PROVE  KindsOK'
BY DEF KindsOK

LEMMA KindsNew ==
    ASSUME ExprsOK, BlocksOK, KindsOK, NEW x, x.args \in Seq(Value), exprs' = Append(exprs, x),
           x.kind = "param" => x.args = << >>,
           Block \subseteq Block', \A b \in Block : params'[b] = params[b],
           \A b \in Block' \ Block : Range(params'[b]) \subseteq {Len(exprs) + 1},
           x.kind = "param" <=> \E b \in Block' \ Block : Range(params'[b]) = {Len(exprs) + 1}
    PROVE  KindsOK'
<1>1. PICK n \in Nat : n = Len(exprs)
    BY ValuesAre
<1>2. /\ DOMAIN exprs = 1..n /\ DOMAIN exprs' = 1..(n + 1)
      /\ exprs'[n + 1] = x /\ \A e \in 1..n : exprs'[e] = exprs[e]
    BY <1>1, AppendElements, SeqDomain DEF ExprsOK
<1>3. \A b \in Block : n + 1 \notin Range(params[b])
    BY <1>2, ParamsAre
<1>4. ASSUME NEW e \in 1..n
      PROVE  (\E b \in Block' : e \in Range(params'[b])) <=> \E b \in Block : e \in Range(params[b])
    <2>1. e # n + 1
        OBVIOUS
    <2>2. \A b \in Block' \ Block : e \notin Range(params'[b])
        BY <1>1, <2>1
    <2> QED
        BY <2>2
<1>5. x.kind = "param" <=> \E b \in Block' : n + 1 \in Range(params'[b])
    BY <1>1, <1>3
<1>6. \A e \in DOMAIN exprs' : e \in 1..n \/ e = n + 1
    BY <1>2
<1>7. ASSUME NEW e \in 1..n
      PROVE  /\ exprs'[e].kind = "param" <=> \E b \in Block' : e \in Range(params'[b])
             /\ exprs'[e].kind = "param" => exprs'[e].args = << >>
    BY <1>2, <1>4 DEF KindsOK
<1> QED
    BY <1>2, <1>5, <1>6, <1>7 DEF KindsOK

LEMMA KindsKept ==
    ASSUME Converts, KindsOK, ToCpsNext
    PROVE  KindsOK'
<1>1. ExprsOK /\ BlocksOK /\ NamesOK /\ StackOK
    BY DEF Converts
<1>2. CASE UNCHANGED <<exprs, params>>
    BY <1>2 DEF Block, KindsOK
<1>3. CASE Const \/ Apply
    <2>1. PICK x : x.kind # "param" /\ x.args \in Seq(Value) /\ exprs' = Append(exprs, x)
        <3>1. CASE Const
            <4>1. PICK x : x = [kind |-> "const", args |-> << >>]
                OBVIOUS
            <4>2. x.kind # "param" /\ x.args \in Seq(Value)
                BY ONLY <4>1
            <4> QED
                BY <3>1, <4>1, <4>2 DEF Const
        <3>2. CASE Apply
            BY <1>1, <3>2, TopFacts DEF Apply, InForm, Activation
        <3> QED
            BY <1>3, <3>1, <3>2
    <2>2. params' = params /\ Block' = Block
        BY <1>3 DEF Const, Apply, Block
    <2> QED
        BY <1>1, <2>1, <2>2, KindsNew
<1>4. CASE CallTo /\ ~UNCHANGED <<exprs, params>>
    <2>1. stack # << >> /\ Top.form = "call"
        BY <1>4 DEF CallTo, InForm
    <2>2. PICK ps : ps = params
        OBVIOUS
    <2>3. AddJoin(ps, Top.k.name)
        BY <1>4, <2>2 DEF CallTo
    <2>4. /\ ps \in Seq(Seq(DOMAIN exprs)) /\ Len(ps) >= Len(params)
          /\ (\A b \in Block : ps[b] = params[b]) /\ DOMAIN ps \ Block = {}
        BY <1>1, BlocksAre, <2>2 DEF BlocksOK, Block
    <2>5. PICK join : join = Len(ps) + 1
        OBVIOUS
    <2>6. /\ Block' = DOMAIN ps \cup {join} /\ Block \subseteq DOMAIN ps /\ join \notin DOMAIN ps
          /\ \A b \in Block : params'[b] = params[b]
          /\ Range(params'[join]) = {Len(exprs) + 1}
        BY <1>1, <2>3, <2>4, <2>5, JoinElements
    <2>7. Block' \ Block = {join}
        BY <2>4, <2>6
    <2>8. PICK x : x = [kind |-> "param", args |-> << >>]
        OBVIOUS
    <2>9. x.kind = "param" /\ x.args = << >> /\ x.args \in Seq(Value)
        BY ONLY <2>8
    <2>10. exprs' = Append(exprs, x)
        BY <2>3, <2>8 DEF AddJoin
    <2> QED
        BY <1>1, <2>6, <2>7, <2>9, <2>10, KindsNew
<1>5. CASE Branch
    <2>1. PICK n \in Nat : n = Len(params)
        BY <1>1, BlocksAre DEF BlocksOK
    <2>2. PICK ps : ps = params \o <<<< >>, << >>>>
        OBVIOUS
    <2>3. /\ ps \in Seq(Seq(DOMAIN exprs)) /\ Len(ps) = n + 2 /\ Len(ps) >= Len(params)
          /\ Block = 1..n /\ DOMAIN ps \ Block = {n + 1, n + 2}
          /\ \A b \in Block : ps[b] = params[b]
          /\ \A b \in DOMAIN ps \ Block : Len(ps[b]) = 0
        BY <1>1, <2>1, <2>2, ArmsAdded
    <2>4. (params' = ps /\ exprs' = exprs) \/ AddJoin(ps, Top.oname)
        BY <1>5, <2>2 DEF Branch
    <2>10. DOMAIN ps = 1..(n + 2)
        BY <2>3, SeqDomain
    <2>11. Block \subseteq DOMAIN ps
        BY ONLY <2>3, <2>10, n \in Nat
    <2>5. CASE params' = ps /\ exprs' = exprs
        BY <2>3, <2>5, <2>11, KindsSame DEF Range, Block
    <2>6. CASE AddJoin(ps, Top.oname)
        <3>1. PICK join : join = Len(ps) + 1
            OBVIOUS
        <3>2. /\ Block' = DOMAIN ps \cup {join} /\ Block \subseteq DOMAIN ps /\ join \notin DOMAIN ps
              /\ \A b \in Block : params'[b] = params[b]
              /\ \A b \in DOMAIN ps \ Block : Range(params'[b]) = {}
              /\ Range(params'[join]) = {Len(exprs) + 1}
            BY <1>1, <2>3, <2>6, <3>1, JoinElements
        <3>3. PICK x : x = [kind |-> "param", args |-> << >>]
            OBVIOUS
        <3>4. x.kind = "param" /\ x.args = << >> /\ x.args \in Seq(Value)
            BY ONLY <3>3
        <3>5. exprs' = Append(exprs, x)
            BY <2>6, <3>3 DEF AddJoin
        <3>6. /\ Block \subseteq Block' /\ join \in Block' \ Block
              /\ \A b \in Block' \ Block : Range(params'[b]) \subseteq {Len(exprs) + 1}
            BY <3>2
        <3> QED
            BY <1>1, <3>2, <3>4, <3>5, <3>6, KindsNew
    <2> QED
        BY <2>4, <2>5, <2>6
<1>6. UNCHANGED <<exprs, params>> \/ Const \/ Apply \/ Branch \/ CallTo
    BY DEF ToCpsNext, Id, Val, Prim, If, Call, Operand, Alternative, Join
<1> QED
    BY <1>2, <1>3, <1>4, <1>5, <1>6

LEMMA KindsStay ==
    ASSUME KindsOK, UNCHANGED cpsVars
    PROVE  KindsOK'
BY DEF KindsOK, cpsVars, Block

LEMMA KindsStart ==
    ASSUME Init
    PROVE  KindsOK
<1>1. PICK p : p = <<2, 3, 4>>
    OBVIOUS
<1>2. params = <<p>>
    BY <1>1 DEF Init
<1>3. Range(p) = {2, 3, 4}
    BY ONLY <1>1 DEF Range
<1>4. Block = {1} /\ params[1] = p
    BY ONLY <1>2 DEF Block
<1>5. exprs = [x \in 1..4 |-> [kind |-> IF x = 1 THEN "fn" ELSE "param", args |-> << >>]]
    BY DEF Init
<1>6. \A e \in 1..4 : /\ exprs[e].args = << >>
                      /\ exprs[e].kind = "param" <=> e \in {2, 3, 4}
    BY ONLY <1>5
<1>7. DOMAIN exprs = 1..4
    BY <1>5
<1> QED
    BY <1>3, <1>4, <1>6, <1>7 DEF KindsOK

-----------------------------------------------------------------------------
(* The instructions of the blocks.                                         *)

\* Every block and every operand is listed, and all that is listed is in the schedule.
AllScheduled ==
    /\ Finished /\ Reached /\ KindsOK /\ Walks /\ DOMAIN sched = Range(order)
    /\ \A b \in Block : b \in Range(blocks) /\ Range(transfer[b].args) \subseteq Range(order)

\* Parameters have values from the start; another expression has one when its block
\* is filled, and blocks are filled after their dominators.
FilledInOrder ==
    /\ DOMAIN home = DOMAIN exprs
    /\ \A e \in DOMAIN exprs :
        IF exprs[e].kind = "param" THEN home[e] # None
        ELSE home[e] = IF e \in DOMAIN sched /\ sched[e] \in filled THEN sched[e] ELSE None
    /\ filled \subseteq Block
    /\ \A b \in filled, d \in Block : Flow!Dominates(d, b) => d \in filled

\* The expressions that may have a value in b.
Around(b) == {e \in Range(order) : exprs[e].kind = "param" \/ Flow!Dominates(sched[e], b)}

LEMMA SchedulesAll ==
    ASSUME Walks, Schedules, Cardinality(DOMAIN sched) = Len(order)
    PROVE  DOMAIN sched = Range(order)
<1>1. order \in Seq(DOMAIN exprs)
    BY DEF Walks, AgendaOK
<1>2. PICK n \in Nat : n = Len(order)
    BY <1>1
<1>3. DOMAIN order = 1..n
    BY <1>1, <1>2
<1>4. DOMAIN sched = {order[j] : j \in (n - n + 1)..n}
    BY <1>2 DEF Schedules
<1>5. n - n + 1 = 1
    OBVIOUS
<1> QED
    BY <1>3, <1>4, <1>5 DEF Range

LEMMA NothingOpenNext ==
    ASSUME (stack = << >>)'
    PROVE  (FlowSucc = [b \in Block |-> Successors(b)])'
BY NothingOpen, PTL

LEMMA DominatorsStay ==
    ASSUME stack = << >>, UNCHANGED cpsVars
    PROVE  \A c, d : Flow!Dominates(c, d)' <=> Flow!Dominates(c, d)
BY NothingOpen, NothingOpenNext DEF cpsVars, Block, Successors, Flow!Dominates, Flow!Block, Flow!Succs,
    Flow!Entry

LEMMA OperandsListed ==
    ASSUME Walks
    PROVE  \A u \in Range(order) : Range(exprs[u].args) \subseteq Range(order)
<1>1. order \in Seq(DOMAIN exprs) /\ OperandsFirst
    BY DEF Walks, AgendaOK
<1>2. DOMAIN order = 1..Len(order) /\ Len(order) \in Nat
    BY <1>1, SeqDomain
<1>3. ASSUME NEW k \in DOMAIN order, NEW v \in Range(exprs[order[k]].args)
      PROVE  v \in Range(order)
    <2>1. PICK i \in 1..(k - 1) : order[i] = v
        BY <1>1, <1>3 DEF OperandsFirst
    <2>2. i \in DOMAIN order
        BY ONLY <1>2, i \in 1..(k - 1), k \in DOMAIN order
    <2> QED
        BY <2>1, <2>2 DEF Range
<1>4. \A u \in Range(order) : \E k \in DOMAIN order : order[k] = u
    BY DEF Range
<1> QED
    BY <1>3, <1>4

LEMMA ListedAre ==
    ASSUME AllScheduled
    PROVE  /\ Range(order) \subseteq DOMAIN exprs /\ None \notin Block /\ stack = << >>
           /\ \A u \in Range(order) : Range(exprs[u].args) \subseteq Range(order)
BY RangeWithin, BlocksAre, OperandsListed DEF AllScheduled, Walks, AgendaOK, Finished, Converts, BlocksOK

\* In a good schedule what a block's expressions and its transfer have as operands
\* is around the block, and so are their operands.
LEMMA AroundHasOperands ==
    ASSUME AllScheduled, GoodSchedule, NEW b \in Block
    PROVE  /\ BlockExprs(b) \subseteq Around(b)
           /\ \A v \in Around(b) : Operands(v) \subseteq Around(b)
           /\ Range(transfer[b].args) \subseteq Around(b)
           /\ \A v \in Around(b) : exprs[v].kind # "param" => sched[v] \in Block
<1>1. /\ Range(order) \subseteq DOMAIN exprs /\ stack = << >>
      /\ \A u \in Range(order) : Range(exprs[u].args) \subseteq Range(order)
    BY ListedAre
<1>2. BlockExprs(b) \subseteq Around(b)
    BY DEF AllScheduled, BlockExprs, Around, Flow!Dominates
<1>3. ASSUME NEW v \in Around(b), NEW w \in Operands(v)
      PROVE  w \in Around(b)
    <2>1. v \in Range(order) /\ v \in DOMAIN exprs
        BY <1>1 DEF Around
    <2>2. w \in Range(exprs[v].args) /\ w \in Range(order)
        BY <1>1, <1>3, <2>1 DEF Operands
    <2>3. exprs[v].kind # "param"
        BY <2>1, <2>2 DEF Range, AllScheduled, KindsOK
    <2>4. CASE exprs[w].kind # "param"
        BY <2>3, <2>1, <2>2, <2>4, <1>1, DominatesTransitive DEF Around, UseBlocks, UseExprs, GoodSchedule,
            AllScheduled
    <2> QED
        BY <2>2, <2>4 DEF Around
<1>4. ASSUME NEW v \in Range(transfer[b].args)
      PROVE  v \in Around(b)
    BY <1>4 DEF AllScheduled, UseBlocks, UseTransfers, GoodSchedule, Around
<1>5. \A v \in Around(b) : exprs[v].kind # "param" => sched[v] \in Block
    BY <1>1, DominatorIsBlock DEF Around, AllScheduled
<1> QED
    BY <1>2, <1>3, <1>4, <1>5

LEMMA NeedsHave ==
    ASSUME NEW vs, Len(exprs) \in Nat
    PROVE  vs \subseteq Needs(vs)
<1>1. PICK f : Rounds(f, vs, Len(exprs)) /\ Needs(vs) = f[Len(exprs)]
    BY NeedsAre
<1>2. PICK N \in Nat : N = Len(exprs)
    OBVIOUS
<1>3. \A n \in 0..N : f[n] = IF n = 0 THEN vs ELSE WithOperands(f[n - 1])
    BY <1>1, <1>2 DEF Rounds
<1> DEFINE Bad == {n \in 0..N : ~(vs \subseteq f[n])}
<1>4. ASSUME Bad # {}
      PROVE  FALSE
    <2>1. Bad \in SUBSET Nat
        OBVIOUS
    <2>2. PICK m \in Bad : \A k \in Bad : ~(k < m)
        BY <1>4, <2>1, SmallestOf
    <2>3. m # 0
        BY <1>3, <2>2
    <2>4. m - 1 \in 0..N /\ m - 1 < m
        BY <2>3
    <2>5. vs \subseteq f[m - 1]
        BY <2>2, <2>4
    <2>6. f[m] = WithOperands(f[m - 1])
        BY <1>3, <2>2, <2>3
    <2>7. vs \subseteq f[m]
        BY <2>5, <2>6 DEF WithOperands
    <2> QED
        BY <2>2, <2>7
<1>5. N \in 0..N
    OBVIOUS
<1> QED
    BY <1>1, <1>2, <1>4, <1>5

LEMMA DeclaredInOrder ==
    ASSUME AllScheduled, Declare, filled = {}
    PROVE  FilledInOrder'
BY ListedAre, BlocksHavePhis DEF Declare, cpsVars, Block, AllScheduled, KindsOK, Owner, FilledInOrder

LEMMA FillInOrder ==
    ASSUME AllScheduled, GoodSchedule, FilledInOrder, NEW b \in Block, Fill(b)
    PROVE  FilledInOrder' /\ pc' = pc
<1>1. PICK new, made :
        /\ new = {e \in Needs(BlockExprs(b)) : home[e] = None}
        /\ made = [e \in DOMAIN exprs |-> IF e \in new THEN b ELSE home[e]]
    OBVIOUS
<1>2. /\ pc = "fill" /\ Fillable(b) /\ UNCHANGED cpsVars /\ sched' = sched
      /\ IF /\ \A e \in new : exprs[e].kind # "param"
            /\ \A v \in Range(transfer[b].args) : made[v] # None
         THEN home' = made /\ filled' = filled \cup {b} /\ UNCHANGED pc
         ELSE pc' = "missing"
    BY <1>1 DEF Fill
<1>3. Range(order) \subseteq DOMAIN exprs /\ None \notin Block /\ DOMAIN sched = Range(order)
    BY ListedAre DEF AllScheduled
<1>4. /\ BlockExprs(b) \subseteq Around(b)
      /\ \A v \in Around(b) : Operands(v) \subseteq Around(b)
      /\ Range(transfer[b].args) \subseteq Around(b)
      /\ \A v \in Around(b) : exprs[v].kind # "param" => sched[v] \in Block
    BY AroundHasOperands
<1>5. Needs(BlockExprs(b)) \subseteq Around(b) /\ BlockExprs(b) \subseteq Needs(BlockExprs(b))
    BY ValuesAre, <1>4, NeedsWithin, NeedsHave DEF AllScheduled, Finished, Converts
<1>6. b \notin filled /\ \A d \in Block : Flow!Dominates(d, b) => d = b \/ d \in filled
    BY <1>2 DEF Fillable
<1>7. ASSUME NEW v \in Around(b), exprs[v].kind # "param"
      PROVE  v \in DOMAIN exprs /\ v \in DOMAIN sched /\ sched[v] \in Block
             /\ (sched[v] = b \/ sched[v] \in filled)
    BY <1>4, <1>7, <1>3, <1>6 DEF Around
<1>8. \A v \in Around(b) : v \in DOMAIN exprs
    BY <1>3 DEF Around
<1>9. \A e \in new : exprs[e].kind # "param" /\ sched[e] = b /\ e \in DOMAIN sched
    <2> TAKE e \in new
    <2>1. e \in Around(b) /\ e \in DOMAIN exprs /\ home[e] = None
        BY <1>1, <1>5, <1>8
    <2>2. exprs[e].kind # "param"
        BY <2>1 DEF FilledInOrder
    <2>3. sched[e] \notin filled
        BY <1>3, <1>7, <2>1, <2>2 DEF FilledInOrder
    <2> QED
        BY <1>7, <2>1, <2>2, <2>3
<1>10. \A e \in DOMAIN exprs : exprs[e].kind # "param" /\ e \in DOMAIN sched /\ sched[e] = b => e \in new
    BY <1>1, <1>5, <1>6 DEF BlockExprs, FilledInOrder
<1>11. ASSUME NEW e \in DOMAIN exprs
       PROVE  IF exprs[e].kind = "param" THEN made[e] # None
              ELSE made[e] = IF e \in DOMAIN sched /\ sched[e] \in filled \cup {b} THEN sched[e] ELSE None
    BY <1>1, <1>9, <1>10 DEF FilledInOrder
<1>12. ASSUME NEW v \in Range(transfer[b].args)
       PROVE  made[v] # None
    BY <1>3, <1>4, <1>7, <1>8, <1>11, <1>12
<1>13. home' = made /\ filled' = filled \cup {b} /\ UNCHANGED pc
    BY <1>2, <1>9, <1>12
<1>14. /\ exprs' = exprs /\ Block' = Block
       /\ \A c, d : Flow!Dominates(c, d)' <=> Flow!Dominates(c, d)
    BY <1>2, ListedAre, DominatorsStay DEF cpsVars, Block
<1>15. filled' \subseteq Block /\ \A c \in filled', d \in Block : Flow!Dominates(d, c) => d \in filled'
    BY <1>6, <1>13 DEF FilledInOrder
<1>16. DOMAIN made = DOMAIN exprs
    BY <1>1
<1>17. \A e \in DOMAIN exprs' :
        IF exprs'[e].kind = "param" THEN home'[e] # None
        ELSE home'[e] = IF e \in DOMAIN sched' /\ sched'[e] \in filled' THEN sched'[e] ELSE None
    BY <1>2, <1>11, <1>13, <1>14
<1> QED
    BY <1>13, <1>14, <1>15, <1>16, <1>17 DEF FilledInOrder

LEMMA OrderReaches ==
    ASSUME AllScheduled, GoodSchedule, FilledInOrder
    PROVE  ValuesReach
<1>1. /\ Range(order) \subseteq DOMAIN exprs /\ None \notin Block /\ DOMAIN sched = Range(order)
      /\ filled \subseteq Block
    BY ListedAre DEF AllScheduled, FilledInOrder
<1>2. ASSUME NEW b \in filled, NEW v \in Around(b)
      PROVE  Reaches(v, b)
    <2> SUFFICES ASSUME exprs[v].kind = "prim"
                 PROVE  home[v] # None /\ Flow!Dominates(home[v], b)
        BY DEF Reaches
    <2>1. exprs[v].kind # "param" /\ v \in DOMAIN exprs /\ v \in DOMAIN sched
        BY <1>1 DEF Around
    <2>2. Flow!Dominates(sched[v], b) /\ sched[v] \in Block
        BY <1>1, <2>1, AroundHasOperands DEF Around
    <2>3. sched[v] \in filled
        BY <2>2 DEF FilledInOrder
    <2>4. home[v] = sched[v]
        BY <2>1, <2>3 DEF FilledInOrder
    <2> QED
        BY <1>1, <2>2, <2>4
<1>3. ASSUME NEW b \in filled, NEW v \in Range(transfer[b].args)
      PROVE  Reaches(v, b)
    BY <1>1, <1>2, AroundHasOperands
<1>4. ASSUME NEW b \in filled, NEW u \in DOMAIN exprs, home[u] = b, NEW v \in Range(exprs[u].args)
      PROVE  Reaches(v, b)
    <2>1. exprs[u].kind # "param"
        BY DEF Range, AllScheduled, KindsOK
    <2>2. u \in DOMAIN sched /\ sched[u] = b
        BY <1>1, <1>4, <2>1 DEF FilledInOrder
    <2>3. u \in BlockExprs(b) /\ u # Null
        BY <2>2, ValuesAre DEF BlockExprs, AllScheduled, Finished, Converts
    <2>4. v \in Operands(u)
        BY <2>3 DEF Operands
    <2>5. v \in Around(b)
        BY <1>1, <2>3, <2>4, AroundHasOperands
    <2> QED
        BY <1>2, <2>5
<1> QED
    BY <1>3, <1>4 DEF ValuesReach

LEMMA GoodStays ==
    ASSUME stack = << >>, UNCHANGED <<cpsVars, walkVars, sched>>
    PROVE  /\ GoodSchedule' <=> GoodSchedule
           /\ UNCHANGED <<home, filled>> /\ FilledInOrder => FilledInOrder'
<1>1. UNCHANGED <<exprs, transfer, order, blocks, sched>> /\ Block' = Block
    BY DEF cpsVars, walkVars, Block
<1>2. \A c, d : Flow!Dominates(c, d)' <=> Flow!Dominates(c, d)
    BY DominatorsStay
<1>3. \A e : UseBlocks(e)' = UseBlocks(e)
    BY <1>1 DEF UseBlocks, UseExprs, UseTransfers
<1>4. GoodSchedule' <=> GoodSchedule
    BY <1>1, <1>2, <1>3 DEF GoodSchedule
<1>5. UNCHANGED <<home, filled>> /\ FilledInOrder => FilledInOrder'
    BY <1>1, <1>2 DEF FilledInOrder
<1> QED
    BY <1>4, <1>5

-----------------------------------------------------------------------------
(* The compiler, with what the visit and the blocks' instructions amount to. *)

ScheduleInv ==
    /\ CompileInv /\ Reached /\ KindsOK
    /\ pc \notin {"convert", "null"} => WalkMeets
    /\ pc \in {"declare", "fill", "missing", "no_input", "done"} => DOMAIN sched = Range(order)
    /\ pc \in {"fill", "missing", "done"} /\ GoodSchedule => pc # "missing" /\ FilledInOrder

LEMMA ScheduleInvStarts == CompileInit => ScheduleInv
<1> SUFFICES ASSUME CompileInit PROVE ScheduleInv
    OBVIOUS
<1>1. CompileInv /\ Reached /\ KindsOK
    BY CompileStarts, ReachedStarts, KindsStart DEF CompileInit
<1>2. pc = "convert"
    BY DEF CompileInit
<1> QED
    BY <1>1, <1>2 DEF ScheduleInv

LEMMA AllIsScheduled ==
    ASSUME ScheduleInv, pc \in {"declare", "fill", "missing", "no_input", "done"}
    PROVE  AllScheduled
BY EverythingVisited DEF ScheduleInv, CompileInv, Walked, AllScheduled, Finished

LEMMA ScheduleInvKept == ScheduleInv /\ [Next]_vars => ScheduleInv'
<1> SUFFICES ASSUME ScheduleInv, [Next]_vars
             PROVE  ScheduleInv'
    OBVIOUS
<1> DEFINE Written == {"declare", "fill", "missing", "no_input", "done"}
<1>1. CompileInv /\ CompileInv' /\ Converts
    BY CompileInvKept DEF ScheduleInv, CompileInv
<1>2. ToCpsNext \/ UNCHANGED cpsVars
    BY DEF Next, ConvertStep, BeginWalk, VisitedBefore, VisitBlock, LeaveBlock, VisitExpr, LeaveExpr,
           BeginSchedule, ScheduleExpr, PrintDef, Declare, PatchPhis, Fill, vars
<1>3. Reached' /\ KindsOK'
    BY <1>1, <1>2, ReachedKept, ReachedStays, KindsKept, KindsStay DEF ScheduleInv
<1>4. CASE ConvertStep
    BY <1>4, <1>1, <1>3 DEF ConvertStep, ScheduleInv
<1>5. CASE BeginWalk
    BY <1>1, <1>5, MeetsStarts, <1>3 DEF BeginWalk, CompileInv, ScheduleInv
<1>6. CASE VisitedBefore \/ VisitBlock \/ LeaveBlock \/ VisitExpr \/ LeaveExpr
    BY <1>6, <1>1, MeetsKeeps, <1>3 DEF VisitedBefore, VisitBlock, LeaveBlock, VisitExpr, LeaveExpr,
        ScheduleInv, CompileInv, Finished
<1>7. CASE BeginSchedule \/ ScheduleExpr
    BY <1>7, MeetsStays, <1>1, <1>3 DEF BeginSchedule, ScheduleExpr, ScheduleInv
<1>8. CASE PrintDef
    BY <1>8, MeetsStays, <1>1, SchedulesAll, <1>3 DEF PrintDef, ScheduleInv, CompileInv, walkVars
<1>9. CASE Declare \/ PatchPhis \/ \E b \in Block : Fill(b)
    <2>1. /\ pc \in {"declare", "fill"} /\ pc' \in {"fill", "missing", "no_input", "done"}
          /\ UNCHANGED <<cpsVars, walkVars, sched>>
        BY <1>9 DEF Declare, PatchPhis, Fill
    <2>2. WalkMeets' /\ AllScheduled /\ stack = << >>
        BY <2>1, MeetsStays, AllIsScheduled, ListedAre DEF ScheduleInv
    <2>3. DOMAIN sched' = Range(order')
        BY <2>1, <2>2 DEF walkVars, AllScheduled
    <2>4. GoodSchedule' <=> GoodSchedule
        BY <2>1, <2>2, GoodStays
    <2>5. ASSUME Declare
          PROVE  pc' = "fill" /\ FilledInOrder'
        BY <1>1, <2>5, <2>2, DeclaredInOrder DEF Declare, CompileInv
    <2>6. ASSUME PatchPhis, GoodSchedule
          PROVE  pc' # "missing" /\ FilledInOrder'
        BY <2>6, <2>1, <2>2, GoodStays DEF PatchPhis, ScheduleInv
    <2>7. ASSUME NEW b \in Block, Fill(b), GoodSchedule
          PROVE  pc' # "missing" /\ FilledInOrder'
        BY <2>7, <2>2, FillInOrder DEF Fill, ScheduleInv
    <2>8. GoodSchedule' => pc' # "missing" /\ FilledInOrder'
        BY <1>9, <2>4, <2>5, <2>6, <2>7
    <2> QED
        BY <1>1, <1>3, <2>1, <2>2, <2>3, <2>8 DEF ScheduleInv
<1>10. CASE UNCHANGED vars
    BY <1>10, MeetsStays, <1>1, GoodStays, <1>3 DEF vars, llvmVars, ScheduleInv, walkVars, CompileInv
<1> QED
    BY <1>4, <1>5, <1>6, <1>7, <1>8, <1>9, <1>10 DEF Next

\* Given a schedule in which the block of an expression dominates its uses,
\* llvm_define finds a value for every parameter and operand, and every value is
\* built in a block that dominates its uses.
THEOREM GoodSchedulesSuffice == Spec => []GoodScheduleSuffices
<1>1. ScheduleInv => GoodScheduleSuffices
    <2> SUFFICES ASSUME ScheduleInv, pc \in {"fill", "missing", "done"}, GoodSchedule
                 PROVE  pc # "missing" /\ ValuesReach
        BY DEF GoodScheduleSuffices
    <2>1. AllScheduled
        BY AllIsScheduled
    <2>2. pc # "missing" /\ FilledInOrder
        BY DEF ScheduleInv
    <2> QED
        BY <2>1, <2>2, OrderReaches
<1> QED
    BY <1>1, ScheduleInvStarts, ScheduleInvKept, PTL DEF Spec

\* Every block that to_cps makes can be reached: a set with the entry that no
\* transfer leaves is all of them.
EveryBlockReached ==
    stack = << >> => \A S \in SUBSET Block :
        Entry \in S /\ (\A b \in S : Range(Successors(b)) \subseteq S) => S = Block

\* A finished function has no dead blocks: the transfers that to_cps has made lead
\* from the entry to every block.
THEOREM EveryBlockIsReached == Spec => []EveryBlockReached
<1>1. ScheduleInv => EveryBlockReached
    BY AllBlocksReached DEF ScheduleInv, EveryBlockReached
<1> QED
    BY <1>1, ScheduleInvStarts, ScheduleInvKept, PTL DEF Spec

\* What the visit of a function lists.
EverythingListed ==
    pc \in Walked =>
        /\ Range(blocks) = Block
        /\ \A b \in Block : Range(transfer[b].args) \subseteq Range(order)
        /\ \A u \in Range(order) : Range(exprs[u].args) \subseteq Range(order)

\* post_visit_transfers_and_exprs leaves nothing out: all blocks are listed, the
\* operands of their transfers and the operands of all that is listed.
THEOREM EverythingIsListed == Spec => []EverythingListed
<1>1. ScheduleInv => EverythingListed
    <2> SUFFICES ASSUME ScheduleInv, pc \in Walked
                 PROVE  /\ Range(blocks) = Block
                        /\ \A b \in Block : Range(transfer[b].args) \subseteq Range(order)
                        /\ \A u \in Range(order) : Range(exprs[u].args) \subseteq Range(order)
        BY DEF EverythingListed
    <2>1. Finished /\ Reached /\ Walks /\ WalkMeets /\ agenda = << >>
        BY DEF ScheduleInv, CompileInv, Walked, Finished
    <2>2. Range(blocks) \subseteq Block
        BY <2>1, RangeWithin DEF Walks, AgendaOK
    <2> QED
        BY <2>1, <2>2, EverythingVisited, OperandsListed
<1> QED
    BY <1>1, ScheduleInvStarts, ScheduleInvKept, PTL DEF Spec
=============================================================================
