----------------------------- MODULE Dominators -----------------------------
(***************************************************************************)
(* The dominator tree of a function (src/cpp/cps/doms.cpp, doms.hpp): the  *)
(* postorder of its blocks, the fixpoint over immediate dominators with    *)
(* the two fingers of `intersect`, the tree that is built from it, `lca`   *)
(* and the visit of the blocks, dominators first.                          *)
(*                                                                         *)
(* Blocks are known by their postorder number, 0 .. Root, as in the code.  *)
(***************************************************************************)
EXTENDS ControlFlow, FiniteSetsExt

CONSTANT None       \* nullopt

ASSUME NoneAssumption == None \notin Nat

VARIABLES
    pc,         \* the loop that runs
    dfs,        \* activations of do_post_visit: block, next successor
    visited,    \* the sets `visited` of do_post_visit and do_pre_visit
    order,      \* post_order
    doms,       \* the compact dominator tree
    i,          \* index of the for loops of DomTree::of
    changed,
    preds,      \* the predecessors the inner loop has yet to look at
    new_idom,
    finger,     \* finger1 and finger2; in lca, node1 and node2
    asked,      \* block1 and block2 of lca
    answer,     \* what lca returned last
    nodes,      \* block_nodes: the indices that have a node
    climb,      \* activations of do_pre_visit
    seen,       \* history: the blocks pre_visit_blocks has passed to f
    outcome     \* "ok", or what was thrown

orderVars == <<dfs, order>>
loopVars == <<i, changed, preds, new_idom>>
treeVars == <<asked, answer, nodes, climb, seen>>
vars == <<flowVars, pc, orderVars, visited, doms, loopVars, finger, treeVars, outcome>>

Root == Len(order) - 1
Index == 0..Root

IndexOf(b) == (CHOOSE k \in DOMAIN order : order[k] = b) - 1
BlockAt(n) == order[n + 1]

Predecessors(n) == {p \in Index : BlockAt(n) \in Succs(BlockAt(p))}

-----------------------------------------------------------------------------
Init ==
    /\ FlowInit
    /\ pc = "convert"
    /\ dfs = << >> /\ visited = {} /\ order = << >>
    /\ doms = << >>
    /\ i = 0 /\ changed = FALSE /\ preds = {} /\ new_idom = None
    /\ finger = << >>
    /\ asked = << >> /\ answer = None /\ nodes = {}
    /\ climb = << >> /\ seen = {}
    /\ outcome = "ok"

ConvertStep ==
    /\ pc = "convert" /\ Convert
    /\ UNCHANGED <<pc, orderVars, visited, doms, loopVars, finger, treeVars, outcome>>

-----------------------------------------------------------------------------
(* Postorder                                                               *)

Visit(b) == [block |-> b, next |-> 1]

\* DomTree::of calls post_visit_blocks.
Start ==
    /\ pc = "convert" /\ todo = << >>
    /\ pc' = "order"
    /\ dfs' = <<Visit(Entry)>> /\ visited' = {Entry}
    /\ UNCHANGED <<flowVars, order, doms, loopVars, finger, treeVars, outcome>>

\* do_post_visit goes on to the next successor, if it has not been visited.
Descend ==
    /\ pc = "order" /\ dfs # << >>
    /\ Head(dfs).next \in DOMAIN succ[Head(dfs).block]
    /\ LET s == succ[Head(dfs).block][Head(dfs).next]
           rest == <<[Head(dfs) EXCEPT !.next = @ + 1]>> \o Tail(dfs)
       IN  /\ dfs' = IF s \in visited THEN rest ELSE <<Visit(s)>> \o rest
           /\ visited' = visited \cup {s}
    /\ UNCHANGED <<flowVars, pc, order, doms, loopVars, finger, treeVars, outcome>>

\* Mutant of Ascend: f(this) comes before the successors that are left.
AscendEarly ==
    /\ pc = "order" /\ dfs # << >>
    /\ Head(dfs).next # 1 \/ succ[Head(dfs).block] = << >>
    /\ order' = Append(order, Head(dfs).block)
    /\ dfs' = Tail(dfs)
    /\ UNCHANGED <<flowVars, pc, visited, doms, loopVars, finger, treeVars, outcome>>

\* All successors done: f(this).
Ascend ==
    /\ pc = "order" /\ dfs # << >>
    /\ Head(dfs).next \notin DOMAIN succ[Head(dfs).block]
    /\ order' = Append(order, Head(dfs).block)
    /\ dfs' = Tail(dfs)
    /\ UNCHANGED <<flowVars, pc, visited, doms, loopVars, finger, treeVars, outcome>>

-----------------------------------------------------------------------------
(* The fixpoint                                                            *)

\* The root dominates itself and nothing else is known.
BeginFixpoint ==
    /\ pc = "order" /\ dfs = << >>
    /\ pc' = "block"
    /\ doms' = [n \in Index |-> IF n = Root THEN Root ELSE None]
    /\ i' = Root /\ changed' = FALSE
    /\ UNCHANGED <<flowVars, orderVars, visited, preds, new_idom, finger, treeVars, outcome>>

\* Mutants of NextBlock: the blocks are visited upwards; block 0 is not the last.
NextUp(some) ==
    IF (i + 1) % Len(order) # Root
    THEN pc' = "block" /\ i' = (i + 1) % Len(order) /\ changed' = some
    ELSE /\ pc' = IF some THEN "block" ELSE "expand"
         /\ i' = Root /\ changed' = FALSE

NextPast(some) == pc' = "block" /\ i' = i - 1 /\ changed' = some

\* The for loop continues with block i - 1; after the last, the while loop
\* tests `changed`.
NextBlock(some) ==
    IF i > 0
    THEN pc' = "block" /\ i' = i - 1 /\ changed' = some
    ELSE /\ pc' = IF some THEN "block" ELSE "expand"
         /\ i' = Root /\ changed' = FALSE

Known(n) == doms[n] # None

\* No predecessor has a dominator yet.
SkipBlock ==
    /\ pc = "block"
    /\ \A p \in Predecessors(i) : ~Known(p)
    /\ NextBlock(changed)
    /\ UNCHANGED <<flowVars, orderVars, visited, doms, preds, new_idom, finger, treeVars, outcome>>

\* The first predecessor that has one.
FirstPredecessor ==
    /\ pc = "block"
    /\ LET known == {p \in Predecessors(i) : Known(p)} IN
        /\ known # {}
        /\ new_idom' = Min(known)
        /\ preds' = {p \in Predecessors(i) : p >= Min(known)}
    /\ pc' = "predecessor"
    /\ UNCHANGED <<flowVars, orderVars, visited, doms, i, changed, finger, treeVars, outcome>>

\* Mutant of NextPredecessor: the first predecessor decides.
FirstDecides ==
    /\ pc = "predecessor" /\ preds # {}
    /\ preds' = {}
    /\ UNCHANGED <<flowVars, pc, orderVars, visited, doms, i, changed, new_idom, finger, treeVars, outcome>>

NextPredecessor ==
    /\ pc = "predecessor" /\ preds # {}
    /\ IF Known(Min(preds))
       THEN pc' = "intersect" /\ finger' = <<Min(preds), new_idom>>
       ELSE UNCHANGED <<pc, finger>>
    /\ preds' = preds \ {Min(preds)}
    /\ UNCHANGED <<flowVars, orderVars, visited, doms, i, changed, new_idom, treeVars, outcome>>

\* The finger that is behind moves up; value() throws for a missing dominator.
MoveFinger(j) ==
    /\ pc = "intersect" /\ finger[j] < finger[3 - j]
    /\ IF Known(finger[j])
       THEN finger' = [finger EXCEPT ![j] = doms[@]] /\ UNCHANGED outcome
       ELSE outcome' = "bad_optional_access" /\ UNCHANGED finger
    /\ UNCHANGED <<flowVars, pc, orderVars, visited, doms, loopVars, treeVars>>

Intersected ==
    /\ pc = "intersect" /\ finger[1] = finger[2]
    /\ new_idom' = finger[1]
    /\ pc' = "predecessor" /\ finger' = << >>
    /\ UNCHANGED <<flowVars, orderVars, visited, doms, i, changed, preds, treeVars, outcome>>

\* Mutant of SetDominator: `changed` is set whatever the block had.
SetAlways ==
    /\ pc = "predecessor" /\ preds = {}
    /\ doms' = [doms EXCEPT ![i] = new_idom]
    /\ NextBlock(TRUE)
    /\ UNCHANGED <<flowVars, orderVars, visited, preds, new_idom, finger, treeVars, outcome>>

SetDominator ==
    /\ pc = "predecessor" /\ preds = {}
    /\ doms' = [doms EXCEPT ![i] = new_idom]
    /\ NextBlock(changed \/ doms[i] # new_idom)
    /\ UNCHANGED <<flowVars, orderVars, visited, preds, new_idom, finger, treeVars, outcome>>

-----------------------------------------------------------------------------
(* The tree                                                                *)

\* DomTreeBuilder::node, from the root down; at() throws for a missing parent.
AddNode ==
    /\ pc = "expand"
    /\ IF ~Known(i)
       THEN outcome' = "bad_optional_access" /\ UNCHANGED <<nodes, i, pc>>
       ELSE IF doms[i] # i /\ doms[i] \notin nodes
       THEN outcome' = "out_of_range" /\ UNCHANGED <<nodes, i, pc>>
       ELSE /\ nodes' = nodes \cup {i}
            /\ IF i > 0
               THEN i' = i - 1 /\ UNCHANGED pc
               ELSE pc' = "tree" /\ UNCHANGED i
            /\ UNCHANGED outcome
    /\ UNCHANGED <<flowVars, orderVars, visited, doms, changed, preds, new_idom, finger, asked, answer, climb, seen>>

Parent(n) == IF doms[n] = n THEN None ELSE doms[n]

-----------------------------------------------------------------------------
(* lca(block1, block2)                                                     *)

Ask(n1, n2) ==
    /\ pc = "tree"
    /\ pc' = "lca" /\ finger' = <<n1, n2>> /\ asked' = <<n1, n2>>
    /\ UNCHANGED <<flowVars, orderVars, visited, doms, loopVars, answer, nodes, climb, seen, outcome>>

\* Mutant of MoveNode: the node nearer to the root is moved.
MoveUpper(j) ==
    /\ pc = "lca" /\ finger[j] > finger[3 - j]
    /\ IF Parent(finger[j]) = None
       THEN outcome' = "assertion" /\ UNCHANGED finger
       ELSE finger' = [finger EXCEPT ![j] = Parent(@)] /\ UNCHANGED outcome
    /\ UNCHANGED <<flowVars, pc, orderVars, visited, doms, loopVars, asked, answer, nodes, climb, seen>>

\* The node with the lower number moves up; unwrap() asserts that it can.
MoveNode(j) ==
    /\ pc = "lca" /\ finger[j] < finger[3 - j]
    /\ IF Parent(finger[j]) = None
       THEN outcome' = "assertion" /\ UNCHANGED finger
       ELSE finger' = [finger EXCEPT ![j] = Parent(@)] /\ UNCHANGED outcome
    /\ UNCHANGED <<flowVars, pc, orderVars, visited, doms, loopVars, asked, answer, nodes, climb, seen>>

\* The nodes have met; `return block1` has the block that was asked for.
Met ==
    /\ pc = "lca" /\ finger[1] = finger[2]
    /\ pc' = "tree" /\ finger' = << >> /\ asked' = << >> /\ answer' = asked[1]
    /\ UNCHANGED <<flowVars, orderVars, visited, doms, loopVars, nodes, climb, seen, outcome>>

-----------------------------------------------------------------------------
(* pre_visit_blocks                                                        *)

BeginVisit ==
    /\ pc = "tree"
    /\ pc' = "visit" /\ visited' = {} /\ seen' = {}
    /\ UNCHANGED <<flowVars, orderVars, doms, loopVars, finger, asked, answer, nodes, climb, outcome>>

\* The next entry of block_nodes, an unordered map; one whose node has been
\* visited changes nothing.
NextNode(n) ==
    /\ pc = "visit" /\ climb = << >> /\ n \in nodes \ visited
    /\ climb' = <<n>> /\ visited' = visited \cup {n}
    /\ UNCHANGED <<flowVars, pc, orderVars, doms, loopVars, finger, asked, answer, nodes, seen, outcome>>

\* do_pre_visit of the parent, which has not been visited.
ClimbToParent ==
    /\ pc = "visit" /\ climb # << >>
    /\ Parent(Head(climb)) \notin visited \cup {None}
    /\ climb' = <<Parent(Head(climb))>> \o climb
    /\ visited' = visited \cup {Parent(Head(climb))}
    /\ UNCHANGED <<flowVars, pc, orderVars, doms, loopVars, finger, asked, answer, nodes, seen, outcome>>

\* Mutant of Emit: f comes before the parent's visit.
EmitFirst ==
    /\ pc = "visit" /\ climb # << >>
    /\ seen' = seen \cup {BlockAt(Head(climb))} /\ climb' = Tail(climb)
    /\ UNCHANGED <<flowVars, pc, orderVars, visited, doms, loopVars, finger, asked, answer, nodes, outcome>>

\* f(this->block).
Emit ==
    /\ pc = "visit" /\ climb # << >>
    /\ Parent(Head(climb)) \in visited \cup {None}
    /\ seen' = seen \cup {BlockAt(Head(climb))} /\ climb' = Tail(climb)
    /\ UNCHANGED <<flowVars, pc, orderVars, visited, doms, loopVars, finger, asked, answer, nodes, outcome>>

EndVisit ==
    /\ pc = "visit" /\ climb = << >> /\ nodes \subseteq visited
    /\ pc' = "tree"
    /\ UNCHANGED <<flowVars, orderVars, visited, doms, loopVars, finger, treeVars, outcome>>

-----------------------------------------------------------------------------
\* What is under way goes on; the passes that use the tree ask and visit.
Work ==
    \/ ConvertStep \/ Start \/ Descend \/ Ascend
    \/ BeginFixpoint \/ SkipBlock \/ FirstPredecessor \/ NextPredecessor
    \/ \E j \in 1..2 : MoveFinger(j)
    \/ Intersected \/ SetDominator \/ AddNode
    \/ \E j \in 1..2 : MoveNode(j)
    \/ Met
    \/ \E n \in nodes : NextNode(n)
    \/ ClimbToParent \/ Emit \/ EndVisit

Use ==
    \/ \E n1, n2 \in nodes : Ask(n1, n2)
    \/ BeginVisit

Next == outcome = "ok" /\ (Work \/ Use)

Spec == Init /\ [][Next]_vars

\* The compiler runs on once it has begun.
FairSpec == Spec /\ WF_vars(outcome = "ok" /\ Work)

-----------------------------------------------------------------------------
\* Types of the variables of the analysis, and of those of the conversion.
TypeOK ==
    /\ FlowOK
    /\ pc \in {"convert", "order", "block", "predecessor", "intersect", "expand",
               "tree", "lca", "visit"}
    /\ dfs \in Seq([block : Block, next : Nat])
    /\ visited \subseteq Block \cup Index
    /\ order \in Seq(Block)
    /\ doms = << >> \/ doms \in [Index -> Index \cup {None}]
    /\ i \in 0..MaxBlocks /\ changed \in BOOLEAN
    /\ preds \subseteq Index /\ new_idom \in Index \cup {None}
    /\ finger = << >> \/ finger \in Index \X Index
    /\ asked = << >> \/ asked \in Index \X Index
    /\ nodes \subseteq Index /\ answer \in Index \cup {None}
    /\ climb \in Seq(Index) /\ seen \subseteq Block
    /\ outcome \in {"ok", "bad_optional_access", "out_of_range", "assertion"}

\* post_order has every block once, and every transfer goes to a lower number:
\* what `intersect` and `lca` compare.
PostOrderDescends ==
    pc \notin {"convert", "order"} =>
        /\ Len(order) = Len(succ)
        /\ \A b \in Block : \E k \in DOMAIN order : order[k] = b
        /\ \A b \in Block : \A s \in Succs(b) : IndexOf(s) < IndexOf(b)

\* The fixpoint ends with the immediate dominators: doms[n] is on every path
\* from the entry to n, and every other block that is comes before it.
ImmediateDominators ==
    pc = "expand" => \A n \in Index \ {Root} :
        /\ doms[n] # n /\ Dominates(BlockAt(doms[n]), BlockAt(n))
        /\ \A b \in Block \ {BlockAt(n)} :
                Dominates(b, BlockAt(n)) => Dominates(b, BlockAt(doms[n]))

\* A dominator that `doms` has is never replaced: the first pass finds them all.
DomsStable ==
    [][\A n \in DOMAIN doms : doms[n] # None => doms'[n] = doms[n]]_vars

\* No value() without a dominator, no at() without the node of the parent, no
\* unwrap() of the root.
NothingThrown == outcome = "ok"

\* The walk of lca meets at the closest common dominator of block1 and block2.
MeetsAtClosest ==
    pc = "lca" /\ finger[1] = finger[2] =>
        LET m == BlockAt(finger[1])
            Common(b) == \A j \in 1..2 : Dominates(b, BlockAt(asked[j]))
        IN
        /\ Common(m)
        /\ \A b \in Block : Common(b) => Dominates(b, m)

\* pre_visit_blocks passes a block to f after all that dominate it, whatever the
\* order of the map, and in the end every block.
DominatorsFirst ==
    /\ pc = "visit" =>
        \A b \in seen, a \in Block \ seen : ~Dominates(a, b)
    /\ pc = "visit" /\ climb = << >> /\ nodes \subseteq visited => seen = Block

\* The conversion and the analysis end, and so does every use of the tree.
Terminates == []<>(pc = "tree")
=============================================================================
