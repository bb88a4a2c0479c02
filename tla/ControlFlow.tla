---------------------------- MODULE ControlFlow ----------------------------
(***************************************************************************)
(* The blocks of one function and the transfers between them, as           *)
(* FunDef::to_cps makes them (src/cpp/to_cps.cpp).                         *)
(*                                                                         *)
(* The conversion of an expression starts in the current block and is      *)
(* given a continuation.  A trivial one says which block, or Return, the   *)
(* value goes to; any other leaves the value to the caller, who goes on in *)
(* the block that is then current.  The expressions under the latter are   *)
(* therefore part of the task of the nearest trivial one, and `todo` is    *)
(* the stack of these tasks.  The program is chosen on the way.            *)
(*                                                                         *)
(* The callee of a call is converted with the continuation of the call, so *)
(* in a tail call the transfer it makes is written over by the call's own. *)
(* Only the second is in `succ`: both are parts of the same task.          *)
(***************************************************************************)
EXTENDS Integers, Sequences

CONSTANTS
    Return,     \* cps::Return, which is no block
    MaxBlocks   \* bound: blocks of the function

ASSUME BlocksAssumption == MaxBlocks \in Nat \ {0} /\ Return \notin Nat

VARIABLES
    succ,       \* the blocks that the transfer of each block can go to
    todo        \* the tasks: from the current block `at` to `to`

flowVars == <<succ, todo>>

Block == DOMAIN succ
Entry == 1
Cont == Block \cup {Return}

Succs(b) == {succ[b][k] : k \in DOMAIN succ[b]}

Task(b, k) == [at |-> b, to |-> k]
At == Head(todo).at
To == Head(todo).to
New(k) == Len(succ) + k     \* the k-th of the blocks that a step makes

\* The current block gets its transfer and n blocks are made.
Transfer(successors, n) ==
    /\ todo # << >> /\ Len(succ) + n <= MaxBlocks
    /\ succ' = [succ EXCEPT ![At] = successors] \o [k \in 1..n |-> << >>]

Then(tasks) == todo' = tasks \o Tail(todo)

-----------------------------------------------------------------------------
\* FunDef::to_cps makes the entry block and converts the body with the
\* continuation that returns.
FlowInit == succ = <<<< >>>> /\ todo = <<Task(Entry, Return)>>

\* ToCpsTrivialCont: the value goes to the continuation, or the call does.
Goto ==
    /\ Transfer(IF To = Return THEN << >> ELSE <<To>>, 0)
    /\ Then(<< >>)

\* ToCpsNextCont::call_to: a block for what follows the call.
CallNext ==
    /\ Transfer(<<New(1)>>, 1)
    /\ Then(<<Task(New(1), To)>>)

\* If::to_cps with a trivial continuation: both branches use it.
IfTail ==
    /\ Transfer(<<New(1), New(2)>>, 2)
    /\ Then(<<Task(New(1), To), Task(New(2), To)>>)

\* Mutant of IfJoin: the join does not become the current block.
IfNoJoin ==
    /\ Transfer(<<New(1), New(2)>>, 3)
    /\ Then(<<Task(New(1), New(3)), Task(New(2), New(3)), Task(New(2), To)>>)

\* If::to_cps with any other: the branches join in a block of their own, in
\* which the conversion goes on.
IfJoin ==
    /\ Transfer(<<New(1), New(2)>>, 3)
    /\ Then(<<Task(New(1), New(3)), Task(New(2), New(3)), Task(New(3), To)>>)

Convert == Goto \/ CallNext \/ IfTail \/ IfJoin

FlowSpec == FlowInit /\ [][Convert]_flowVars

-----------------------------------------------------------------------------
\* Types of the blocks and the tasks of the conversion.
FlowOK ==
    /\ succ \in Seq(Seq(Block)) /\ Len(succ) \in 1..MaxBlocks
    /\ todo \in Seq([at : Block, to : Cont])

\* No transfer leads back, whatever the expressions are nested in: the passes
\* over a function visit an acyclic graph.  Every set of blocks has one that goes
\* to none of them.
NoLoops ==
    \A S \in (SUBSET Block) \ {{}} : \E b \in S : Succs(b) \cap S = {}

\* Every block is given its transfer by one task: it has none while it is the
\* current block of a task that is left, it is so of one task only, and a task
\* leaves its value to a block that a later task goes on in.
OneTransfer ==
    /\ \A j, k \in DOMAIN todo : todo[j].at = todo[k].at => j = k
    /\ \A k \in DOMAIN todo :
        /\ succ[todo[k].at] = << >>
        /\ todo[k].to = Return \/ \E j \in DOMAIN todo : j > k /\ todo[j].at = todo[k].to

\* Every block of a finished function can be reached from its entry: a set with
\* the entry that no transfer leads out of is the whole.
AllReached ==
    todo = << >> => \A S \in SUBSET Block :
        Entry \in S /\ (\A b \in S : Succs(b) \subseteq S) => S = Block

\* The shape that every pass over the blocks of a function takes for granted,
\* whatever the nesting of its expressions: transfers lead forward, each block gets
\* one, and none is left over (src/cpp/to_cps.cpp).
FlowStructured == NoLoops /\ OneTransfer /\ AllReached

\* Every path from the entry to b goes through a.
Dominates(a, b) ==
    a = b \/ \E S \in SUBSET Block :
        Entry \in S /\ b \notin S /\ \A p \in S \ {a} : Succs(p) \subseteq S
=============================================================================
