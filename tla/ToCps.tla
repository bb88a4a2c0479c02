------------------------------- MODULE ToCps -------------------------------
(***************************************************************************)
(* The conversion of one function to CPS (src/cpp/to_cps.cpp) with the     *)
(* Builder it fills (cps::Builder in src/cpp/cps/cps.hpp).                 *)
(*                                                                         *)
(* to_cps is recursive and leaves its results in the Builder: the block it *)
(* goes on in, the transfers, the values of names.  `stack` has its        *)
(* activations, innermost first.  The program is chosen on the way: an     *)
(* activation of form "expr" is an expression of which only the type and   *)
(* the names in scope are known.  The typer has given binders unique names *)
(* and the types fit: a "fn" takes an i64 and gives one, a "higher fn"     *)
(* gives a "fn".  Spans and the names of expressions are left out.         *)
(***************************************************************************)
EXTENDS Integers, Sequences, SequencesExt

CONSTANTS
    Return,     \* cps::Return
    None,       \* nullopt, and nothing yet
    Null,       \* nullptr
    MaxNodes    \* bound: nodes of the function's body

\* What a block can end with.
Transfer ==
    [form : {"goto", "call", "if"}, args : Seq(Int \cup {Null}), conts : Seq(Nat \cup {Return})]

ASSUME NodesAssumption ==
    /\ MaxNodes \in Nat /\ Return \notin Nat /\ None \notin Nat /\ Null \notin Nat
    /\ Return # None /\ Return # Null /\ None # Null
    /\ None \notin Transfer /\ None \notin Seq(Int \cup {Null})

VARIABLES
    exprs,      \* the Exprs allocated: kind and operands
    params,     \* the blocks: their parameters
    transfer,   \*   and their transfers
    defs,       \* Builder::exprs_, by name
    types,      \* the types of names
    current,    \* current_block_
    stack,
    nodes       \* nodes of the body so far, with those it still must have

cpsVars == <<exprs, params, transfer, defs, types, current, stack, nodes>>

Block == DOMAIN params
Value == DOMAIN exprs \cup {Null}
NameT == DOMAIN types
Type == {"i64", "bool", "fn", "higher fn"}
Base == {"i64", "bool"}

\* What is called for a value of the type.
Callee == [i64 |-> "fn", fn |-> "higher fn"]

\* ToCpsTrivialCont and ToCpsNextCont.
Trivial(c) == [cont |-> c, name |-> None]
NextCont(n) == [cont |-> None, name |-> n]
IsTrivial(k) == k.cont # None

\* A call of to_cps: the continuation, the name it suggests, type and scope.
Expr(k, oname, type, scope) ==
    [form |-> "expr", k |-> k, oname |-> oname, type |-> type, scope |-> scope,
     args |-> << >>, alt |-> None, join |-> None]

Top == Head(stack)
InForm(f) == stack # << >> /\ Top.form = f

\* The innermost activation ends with the value v.
Returned(v) ==
    IF Len(stack) = 1 THEN << >>
    ELSE <<[stack[2] EXCEPT !.args = Append(@, v)]>> \o Tail(Tail(stack))

\* The innermost activation becomes a, which calls to_cps for e.
Calls(a, e) == <<e, a>> \o Tail(stack)

\* Builder::define inserts: a name that is defined stays as it is.
Define(ds, n, v) == IF n = None \/ ds[n] # None THEN ds ELSE [ds EXCEPT ![n] = v]

Node(n) == nodes + n <= MaxNodes /\ nodes' = nodes + n

Goto(v, c) == [form |-> "goto", args |-> <<v>>, conts |-> <<c>>]

-----------------------------------------------------------------------------
\* cps_declare of a function and to_cps of another with three parameters, up to
\* the conversion of its body.
Init ==
    /\ exprs = [e \in 1..4 |-> [kind |-> IF e = 1 THEN "fn" ELSE "param", args |-> << >>]]
    /\ types = <<"fn", "i64", "bool", "higher fn">> /\ defs = <<1, 2, 3, 4>>
    /\ params = <<<<2, 3, 4>>>> /\ transfer = <<None>> /\ current = 1
    /\ \E t \in Base : stack = <<Expr(Trivial(Return), None, t, 1..4)>>
    /\ nodes = 1

\* k(builder, span, v), and the return of to_cps with v.
Continue(k, v) ==
    /\ IF IsTrivial(k)
       THEN /\ transfer' = [transfer EXCEPT ![current] = Goto(v, k.cont)]
            /\ UNCHANGED defs
       ELSE defs' = Define(defs, k.name, v) /\ UNCHANGED transfer
    /\ stack' = Returned(v)

\* Id::to_cps.
Id(n) ==
    /\ InForm("expr") /\ n \in Top.scope /\ types[n] = Top.type
    /\ Continue(Top.k, defs[n])
    /\ UNCHANGED <<exprs, params, types, current, nodes>>

Const ==
    /\ InForm("expr") /\ Top.type \in Base
    /\ exprs' = Append(exprs, [kind |-> "const", args |-> << >>])
    /\ Continue(Top.k, Len(exprs) + 1)
    /\ UNCHANGED <<params, types, current, nodes>>

\* Val::to_cps, a statement of a block whose body is the expression: its value
\* gets a name.
Val(t) ==
    /\ InForm("expr") /\ Node(2)
    /\ LET n == Len(types) + 1 IN
        stack' = Calls([Top EXCEPT !.scope = @ \cup {n}],
                       Expr(NextCont(n), n, t, Top.scope))
    /\ types' = Append(types, t) /\ defs' = Append(defs, None)
    /\ UNCHANGED <<exprs, params, transfer, current>>

\* AddWI64::to_cps and its like: the first operand.
Prim ==
    /\ InForm("expr") /\ Top.type \in Base /\ Node(2)
    /\ stack' = Calls([Top EXCEPT !.form = "prim", !.args = << >>],
                      Expr(NextCont(None), None, "i64", Top.scope))
    /\ UNCHANGED <<exprs, params, transfer, defs, types, current>>

\* If::to_cps: the condition.
If ==
    /\ InForm("expr") /\ Node(3)
    /\ stack' = Calls([Top EXCEPT !.form = "if", !.args = << >>],
                      Expr(NextCont(None), None, "bool", Top.scope))
    /\ UNCHANGED <<exprs, params, transfer, defs, types, current>>

\* Call::to_cps: the callee, with the continuation of the call.
Call ==
    /\ InForm("expr") /\ Top.type \in DOMAIN Callee /\ Node(2)
    /\ stack' = Calls([Top EXCEPT !.form = "call", !.args = << >>],
                      Expr(Top.k, None, Callee[Top.type], Top.scope))
    /\ UNCHANGED <<exprs, params, transfer, defs, types, current>>

\* The second operand, the argument of the call.
Operand ==
    /\ InForm("prim") \/ InForm("call")
    /\ Len(Top.args) = 1
    /\ stack' = Calls(Top, Expr(NextCont(None), None, "i64", Top.scope))
    /\ UNCHANGED <<exprs, params, transfer, defs, types, current, nodes>>

Apply ==
    /\ InForm("prim") /\ Len(Top.args) = 2
    /\ exprs' = Append(exprs, [kind |-> "prim", args |-> Top.args])
    /\ Continue(Top.k, Len(exprs) + 1)
    /\ UNCHANGED <<params, types, current, nodes>>

\* A new block with one parameter, known as n.
AddJoin(ps, n) ==
    /\ exprs' = Append(exprs, [kind |-> "param", args |-> << >>])
    /\ params' = Append(ps, <<Len(exprs) + 1>>)
    /\ defs' = Define(defs, n, Len(exprs) + 1)

\* Mutant of CallTo: what follows the call stays in the calling block.
CallInPlace ==
    /\ InForm("call") /\ Len(Top.args) = 2
    /\ LET result == Len(exprs) + 1
           ret == Len(params) + 1
       IN  IF IsTrivial(Top.k)
           THEN /\ transfer' = [transfer EXCEPT ![current] =
                        [form |-> "call", args |-> Top.args, conts |-> <<Top.k.cont>>]]
                /\ stack' = Returned(Null)
                /\ UNCHANGED <<exprs, params, defs, current>>
           ELSE /\ AddJoin(params, Top.k.name)
                /\ transfer' = Append([transfer EXCEPT ![current] =
                        [form |-> "call", args |-> Top.args, conts |-> <<ret>>]], None)
                /\ stack' = Returned(result)
                /\ UNCHANGED current
    /\ UNCHANGED <<types, nodes>>

\* k.call_to: a tail call, or one that returns to a block of its own.
CallTo ==
    /\ InForm("call") /\ Len(Top.args) = 2
    /\ LET result == Len(exprs) + 1
           ret == Len(params) + 1
           CallWith(c) == [form |-> "call", args |-> Top.args, conts |-> <<c>>]
       IN  \/ /\ IsTrivial(Top.k)
              /\ transfer' = [transfer EXCEPT ![current] = CallWith(Top.k.cont)]
              /\ stack' = Returned(Null)
              /\ UNCHANGED <<exprs, params, defs, current>>
           \/ /\ ~IsTrivial(Top.k)
              /\ AddJoin(params, Top.k.name)
              /\ transfer' = Append([transfer EXCEPT ![current] = CallWith(ret)], None)
              /\ current' = ret
              /\ stack' = Returned(result)
    /\ UNCHANGED <<types, nodes>>

\* The condition is there: the blocks of the branches, and of the join unless
\* the continuation is trivial; then the first branch.
Branch ==
    /\ InForm("if") /\ Len(Top.args) = 1
    /\ LET conseq == Len(params) + 1
           alt == conseq + 1
           join == IF IsTrivial(Top.k) THEN None ELSE alt + 1
           k == IF IsTrivial(Top.k) THEN Top.k ELSE Trivial(join)
           branches == [transfer EXCEPT ![current] =
                [form |-> "if", args |-> Top.args, conts |-> <<conseq, alt>>]]
                    \o <<None, None>>
       IN  /\ IF join = None
              THEN params' = params \o <<<< >>, << >>>> /\ transfer' = branches
                   /\ UNCHANGED <<exprs, defs>>
              ELSE AddJoin(params \o <<<< >>, << >>>>, Top.oname)
                   /\ transfer' = Append(branches, None)
           /\ current' = conseq
           /\ stack' = Calls([Top EXCEPT !.alt = alt, !.join = join],
                             Expr(k, None, Top.type, Top.scope))
    /\ UNCHANGED <<types, nodes>>

\* Mutant of Alternative: the current block is where the first branch ended.
AlternativeInPlace ==
    /\ InForm("if") /\ Len(Top.args) = 2
    /\ LET k == IF Top.join = None THEN Top.k ELSE Trivial(Top.join) IN
        stack' = Calls([Top EXCEPT !.alt = None], Expr(k, None, Top.type, Top.scope))
    /\ UNCHANGED <<exprs, params, transfer, defs, types, current, nodes>>

Alternative ==
    /\ InForm("if") /\ Len(Top.args) = 2
    /\ current' = Top.alt
    /\ LET k == IF Top.join = None THEN Top.k ELSE Trivial(Top.join) IN
        stack' = Calls([Top EXCEPT !.alt = None], Expr(k, None, Top.type, Top.scope))
    /\ UNCHANGED <<exprs, params, transfer, defs, types, nodes>>

\* Both branches are there: go on in the join.
Join ==
    /\ InForm("if") /\ Len(Top.args) = 3
    /\ IF Top.join = None
       THEN stack' = Returned(Null) /\ UNCHANGED current
       ELSE stack' = Returned(params[Top.join][1]) /\ current' = Top.join
    /\ UNCHANGED <<exprs, params, transfer, defs, types, nodes>>

ToCpsNext ==
    \/ \E n \in NameT : Id(n)
    \/ \E t \in Type : Val(t)
    \/ Const \/ Prim \/ If \/ Call \/ Operand \/ Apply \/ CallTo
    \/ Branch \/ Alternative \/ Join

-----------------------------------------------------------------------------
(* The blocks and the order in which they are converted, as ControlFlow has *)
(* them.  Its tasks are the conversion that goes on in the current block,   *)
(* unless that has its transfer, then what each `if` still has to convert.  *)

\* A conditional whose branches are converted, or will be with the activation
\* inside it, and in whose place nothing follows.
Tailed(a) == a.form = "if" /\ Len(a.args) >= 2 /\ a.alt = None /\ a.join = None

Open ==
    LET j == SelectInSeq(stack, LAMBDA a : ~Tailed(a)) IN
    j # 0 /\ (stack[j].form = "if" => Len(stack[j].args) = 1 /\ stack[j].alt = None)

\* Where the value goes that the j-th activation contributes to.
Goal(j) ==
    stack[CHOOSE l \in j..Len(stack) :
        IsTrivial(stack[l].k) /\ \A i \in j..(l - 1) : ~IsTrivial(stack[i].k)].k.cont

FlowTask(b, c) == [at |-> b, to |-> c]

Left(j) ==
    LET a == stack[j] IN
    (IF a.alt = None THEN << >>
     ELSE <<FlowTask(a.alt, IF a.join = None THEN a.k.cont ELSE a.join)>>)
    \o (IF a.join = None THEN << >> ELSE <<FlowTask(a.join, Goal(j))>>)

FlowTodo ==
    (IF Open THEN <<FlowTask(current, Goal(1))>> ELSE << >>)
    \o FlattenSeq([j \in DOMAIN stack |-> Left(j)])

\* The successors that are blocks: what goes to Return goes to no block.
Successors(b) ==
    IF transfer[b] = None \/ Return \in Range(transfer[b].conts) THEN << >>
    ELSE transfer[b].conts

FlowSucc == [b \in Block |-> IF Open /\ b = current THEN << >> ELSE Successors(b)]

Flow == INSTANCE ControlFlow
    WITH succ <- FlowSucc, todo <- FlowTodo, MaxBlocks <- 3 * MaxNodes + 1

\* The Builder's current block, the continuations and the blocks they make amount
\* to ControlFlow: each block is current in one stretch of the conversion, and
\* the transfer it has at its end leads where the value is expected.
ConvertsFlow == Flow!FlowSpec

Operands(v) == IF v = Null THEN {} ELSE Range(exprs[v].args)

\* The values that converting v needs, v among them.
Needs(vs) ==
    LET more[n \in 0..Len(exprs)] ==
        IF n = 0 THEN vs
        ELSE LET some == more[n - 1] IN some \cup UNION {Operands(v) : v \in some}
    IN  more[Len(exprs)]

\* A finished function has a transfer in every block, and a name stands for a
\* value that is there wherever the program can use the name: what a block needs
\* are parameters of blocks that every path to it goes through; the branches of a
\* conditional never see each other's.
OperandsDominate ==
    stack = << >> => \A b \in Block :
        /\ transfer[b] # None
        /\ LET needed == Needs(Range(transfer[b].args)) IN
            \A a \in Block : Range(params[a]) \cap needed # {} => Flow!Dominates(a, b)

\* The nullptr that stands for a value already passed on is "not used"
\* (src/cpp/to_cps.cpp:42 and 68): no transfer and no expression has it as an operand.
NullUnused ==
    /\ \A e \in DOMAIN exprs : Null \notin Range(exprs[e].args)
    /\ \A b \in Block : transfer[b] # None => Null \notin Range(transfer[b].args)
=============================================================================
