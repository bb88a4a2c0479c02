------------------------------ MODULE Codegen ------------------------------
(***************************************************************************)
(* From the CPS of a function to LLVM IR: the visit of blocks and          *)
(* expressions (src/cpp/cps/cps.hpp), schedule_late                        *)
(* (src/cpp/cps/schedule.cpp), what can fail in Fn::print_def              *)
(* (src/cpp/cps/cps.cpp), and Fn::llvm_define (src/cpp/to_llvm.cpp).       *)
(*                                                                         *)
(* The function is one that ToCps has made.  Dominators has the tree; here *)
(* a block dominates another as it does in the graph, lca returns what     *)
(* Dominators!Met shows that it returns, and the visit of the tree is any  *)
(* order of the blocks with dominators first, since the tree is kept in an *)
(* unordered map.  LLVM itself is external: a value is known by the        *)
(* expression and has the block it was built in.                           *)
(***************************************************************************)
EXTENDS ToCps, FiniteSets, Functions

VARIABLES
    pc,         \* the pass, or how the compiler ended
    agenda,     \* the visits left, with the returns from the ones under way
    visited,    \*   the blocks and expressions visited
    order,      \* post_order
    blocks,     \* the blocks in postorder, the order of use_transfers
    sched,      \* the Schedule: expression to block
    home,       \* ctx.exprs: the block that the value of an expression is in
    filled,     \* the blocks that have their instructions
    inputs,     \* ctx.successors_phi_inputs
    phis        \* the incoming values of each block's phi, by predecessor

walkVars == <<agenda, visited, order, blocks>>
llvmVars == <<home, filled, inputs, phis>>
vars == <<cpsVars, pc, walkVars, sched, llvmVars>>

Entry == 1
Visit(kind, n) == [do |-> kind, node |-> n]
VisitAll(kind, ns) == [j \in DOMAIN ns |-> Visit(kind, ns[j])]

Preds(b) == {p \in Block : b \in Range(Successors(p))}

\* The result of the call that block b ends with.
CallResult(b) == -b

CompileInit ==
    /\ Init
    /\ pc = "convert" /\ agenda = << >> /\ visited = {} /\ order = << >> /\ blocks = << >>
    /\ sched = << >> /\ home = << >> /\ filled = {} /\ inputs = << >> /\ phis = << >>

-----------------------------------------------------------------------------
(* post_visit_transfers_and_exprs                                          *)

ConvertStep ==
    /\ pc = "convert" /\ ToCpsNext
    /\ UNCHANGED <<pc, walkVars, sched, llvmVars>>

BeginWalk ==
    /\ pc = "convert" /\ stack = << >>
    /\ pc' = "walk" /\ agenda' = <<Visit("block", Entry)>>
    /\ UNCHANGED <<cpsVars, visited, order, blocks, sched, llvmVars>>

VisitedBefore ==
    /\ pc = "walk" /\ agenda # << >> /\ Head(agenda) \in visited
    /\ agenda' = Tail(agenda)
    /\ UNCHANGED <<cpsVars, pc, visited, order, blocks, sched, llvmVars>>

\* Block::do_post_visit: the successors, then with the visitor of
\* do_post_visit_transfers_and_exprs the operands of the transfer.
VisitBlock ==
    /\ pc = "walk" /\ agenda # << >> /\ Head(agenda) \notin visited
    /\ Head(agenda).do = "block"
    /\ LET b == Head(agenda).node IN
        agenda' = VisitAll("block", Successors(b)) \o VisitAll("expr", transfer[b].args)
                    \o <<Visit("leave block", b)>> \o Tail(agenda)
    /\ visited' = visited \cup {Head(agenda)}
    /\ UNCHANGED <<cpsVars, pc, order, blocks, sched, llvmVars>>

LeaveBlock ==
    /\ pc = "walk" /\ agenda # << >> /\ Head(agenda).do = "leave block"
    /\ blocks' = Append(blocks, Head(agenda).node)
    /\ agenda' = Tail(agenda)
    /\ UNCHANGED <<cpsVars, pc, visited, order, sched, llvmVars>>

\* Mutant of VisitExpr: an expression is listed before its operands.
VisitExprFirst ==
    /\ pc = "walk" /\ agenda # << >> /\ Head(agenda) \notin visited
    /\ Head(agenda).do = "expr"
    /\ LET e == Head(agenda).node IN
        /\ e # Null /\ UNCHANGED pc
        /\ agenda' = <<Visit("leave expr", e)>> \o VisitAll("expr", exprs[e].args)
                        \o Tail(agenda)
    /\ visited' = visited \cup {Head(agenda)}
    /\ UNCHANGED <<cpsVars, order, blocks, sched, llvmVars>>

\* Expr::do_post_visit.
VisitExpr ==
    /\ pc = "walk" /\ agenda # << >> /\ Head(agenda) \notin visited
    /\ Head(agenda).do = "expr"
    /\ LET e == Head(agenda).node IN
        \/ e = Null /\ pc' = "null" /\ UNCHANGED agenda
        \/ /\ e # Null /\ UNCHANGED pc
           /\ agenda' = VisitAll("expr", exprs[e].args) \o <<Visit("leave expr", e)>>
                            \o Tail(agenda)
    /\ visited' = visited \cup {Head(agenda)}
    /\ UNCHANGED <<cpsVars, order, blocks, sched, llvmVars>>

LeaveExpr ==
    /\ pc = "walk" /\ agenda # << >> /\ Head(agenda).do = "leave expr"
    /\ order' = Append(order, Head(agenda).node)
    /\ agenda' = Tail(agenda)
    /\ UNCHANGED <<cpsVars, pc, visited, blocks, sched, llvmVars>>

-----------------------------------------------------------------------------
(* schedule_late                                                           *)

BeginSchedule ==
    /\ pc = "walk" /\ agenda = << >>
    /\ pc' = "schedule"
    /\ UNCHANGED <<cpsVars, walkVars, sched, llvmVars>>

\* use_exprs and use_transfers: the expressions and the blocks that have e as an
\* operand.
UseExprs(e) == {u \in Range(order) : e \in Range(exprs[u].args)}
UseTransfers(e) == {b \in Range(blocks) : e \in Range(transfer[b].args)}

\* DomTree::lca returns its first argument.
Lca(a, b) == a

\* The last expression of post_order without a block goes to the lca of the blocks
\* that use it, in the order in which they were visited.
ScheduleExpr ==
    /\ pc = "schedule" /\ Cardinality(DOMAIN sched) < Len(order)
    /\ LET e == order[Len(order) - Cardinality(DOMAIN sched)]
           uses == SelectSeq(order, LAMBDA u : u \in UseExprs(e))
           at == [j \in DOMAIN uses |-> sched[uses[j]]]
                    \o SelectSeq(blocks, LAMBDA b : b \in UseTransfers(e))
           block == FoldLeft(Lca, Head(at), Tail(at))
       IN  IF UseExprs(e) \subseteq DOMAIN sched
           THEN /\ sched' = [u \in DOMAIN sched \cup {e} |-> IF u = e THEN block ELSE sched[u]]
                /\ UNCHANGED pc
           ELSE pc' = "unscheduled" /\ UNCHANGED sched
    /\ UNCHANGED <<cpsVars, walkVars, llvmVars>>

BlockExprs(b) == {e \in DOMAIN sched : sched[e] = b}

\* Fn::print_def: block_exprs.at fails for a block that no expression is in.
PrintDef ==
    /\ pc = "schedule" /\ Cardinality(DOMAIN sched) = Len(order)
    /\ pc' = IF \E b \in Range(blocks) : BlockExprs(b) = {} THEN "no_exprs" ELSE "declare"
    /\ UNCHANGED <<cpsVars, walkVars, sched, llvmVars>>

-----------------------------------------------------------------------------
(* Fn::llvm_define                                                         *)

\* The block whose parameter e is, and None for other expressions.
Owner(e) ==
    IF \E b \in Block : e \in Range(params[b])
    THEN CHOOSE b \in Block : e \in Range(params[b])
    ELSE None

\* Mutant of HasPhis: a block that is entered from one place has no phis.
HasPhisIfJoin(b) == Cardinality(Preds(b)) > 1

HasPhis(b) == Preds(b) # {}

\* The arguments of the function and, in llvm_declare of every block, a phi for
\* each parameter.
Declare ==
    /\ pc = "declare" /\ pc' = "fill"
    /\ home' = [e \in DOMAIN exprs |->
                    LET b == Owner(e) IN
                    IF b # None /\ (b = Entry \/ HasPhis(b)) THEN b ELSE None]
    /\ inputs' = [b \in Block |-> None]
    /\ UNCHANGED <<cpsVars, walkVars, sched, filled, phis>>

\* Mutant of Passed: the result of a call is not among the inputs.
PassedByGoto(b) ==
    IF transfer[b].form = "if" THEN << >>
    ELSE IF transfer[b].form = "goto" /\ Successors(b) # << >> THEN transfer[b].args
    ELSE None

\* GotoToLLVM: what the transfer of b passes to its successor.
Passed(b) ==
    CASE transfer[b].form = "if" -> << >>
      [] Successors(b) = << >> -> None
      [] transfer[b].form = "goto" -> transfer[b].args
      [] OTHER -> <<CallResult(b)>>

Fillable(b) ==
    b \notin filled /\ \A d \in Block \ {b} : Flow!Dominates(d, b) => d \in filled

\* Block::to_llvm: its expressions, with the operands that have no value yet, and
\* its transfer, which looks its operands up.  A parameter has a value or at()
\* fails.
Fill(b) ==
    /\ pc = "fill" /\ Fillable(b)
    /\ LET new == {e \in Needs(BlockExprs(b)) : home[e] = None}
           made == [e \in DOMAIN exprs |-> IF e \in new THEN b ELSE home[e]]
       IN  IF /\ \A e \in new : exprs[e].kind # "param"
              /\ \A v \in Range(transfer[b].args) : made[v] # None
           THEN /\ home' = made /\ filled' = filled \cup {b}
                /\ inputs' = [inputs EXCEPT ![b] = Passed(b)]
                /\ UNCHANGED pc
           ELSE pc' = "missing" /\ UNCHANGED <<home, filled, inputs>>
    /\ UNCHANGED <<cpsVars, walkVars, sched, phis>>

\* Block::llvm_patch_phis of all blocks: at() and the index need a value that the
\* predecessor has passed.
PatchPhis ==
    /\ pc = "fill" /\ filled = Block
    /\ LET phiBlocks == {b \in Block : HasPhis(b) /\ params[b] # << >>}
           passing(b) == \A p \in Preds(b) : inputs[p] # None /\ Len(inputs[p]) = Len(params[b])
       IN  IF \A b \in phiBlocks : passing(b)
           THEN pc' = "done" /\ phis' = [b \in phiBlocks |-> [p \in Preds(b) |-> inputs[p][1]]]
           ELSE pc' = "no_input" /\ UNCHANGED phis
    /\ UNCHANGED <<cpsVars, walkVars, sched, home, filled, inputs>>

Next ==
    \/ ConvertStep \/ BeginWalk
    \/ VisitedBefore \/ VisitBlock \/ LeaveBlock \/ VisitExpr \/ LeaveExpr
    \/ BeginSchedule \/ ScheduleExpr \/ PrintDef
    \/ Declare \/ PatchPhis \/ (\E b \in Block : Fill(b))

Spec == CompileInit /\ [][Next]_vars

-----------------------------------------------------------------------------
\* schedule_late looks up the block of a use with at(): the reverse of the visits'
\* order has every expression after all its uses, over blocks and shared
\* subexpressions (src/cpp/cps/schedule.cpp:61), and no expression is listed twice.
UsesScheduledFirst ==
    /\ pc # "unscheduled"
    /\ pc \in {"schedule", "declare"} => IsInjective(order) /\ IsInjective(blocks)

UseBlocks(e) == {sched[u] : u \in UseExprs(e)} \cup UseTransfers(e)

GoodSchedule ==
    \A e \in Range(order) : exprs[e].kind # "param" =>
        \A b \in UseBlocks(e) : Flow!Dominates(sched[e], b)

\* The value of e is built in a block that every path to b goes through.
Reaches(e, b) == exprs[e].kind = "prim" => home[e] # None /\ Flow!Dominates(home[e], b)

ValuesReach ==
    \A b \in filled :
        /\ \A v \in Range(transfer[b].args) : Reaches(v, b)
        /\ \A u \in DOMAIN exprs : home[u] = b => \A v \in Range(exprs[u].args) : Reaches(v, b)

\* Given a schedule in which the block of an expression dominates its uses, the
\* visit of the tree and the memoization of values are enough: every transfer
\* finds its operands, and LLVM's rule that a value dominates its uses is kept.
GoodScheduleSuffices ==
    pc \in {"fill", "missing", "done"} /\ GoodSchedule => pc # "missing" /\ ValuesReach

\* A phi has one value for each predecessor, the one that its transfer passes:
\* blocks with a parameter are entered by transfers that pass a value only.
PhisComplete ==
    /\ pc # "no_input"
    /\ pc = "done" => \A b \in DOMAIN phis : \A p \in Preds(b) :
        phis[b][p] = IF transfer[p].form = "call" THEN CallResult(p) ELSE transfer[p].args[1]

\* "Fill blocks, in dominator tree preorder so that shared Values are created in
\* postorder" (src/cpp/to_llvm.cpp:215): a value is created before what uses it.
SharedValuesCreated == pc # "missing" /\ (pc \in {"fill", "done"} => ValuesReach)
=============================================================================
