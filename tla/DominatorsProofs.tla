--------------------------- MODULE DominatorsProofs ---------------------------
(***************************************************************************)
(* Proofs about ControlFlow and Dominators, for functions of any number of *)
(* blocks: the conversion and the postorder, then the fixpoint and what    *)
(* uses its tree.                                                          *)
(*                                                                         *)
(* Moves says once what every action of the conversion does; the proofs    *)
(* that a step keeps an invariant use it and not the actions.              *)
(***************************************************************************)
EXTENDS Dominators, SequenceTheorems, FiniteSetTheorems, TLAPS

-----------------------------------------------------------------------------
(* The blocks that are made, and which of them lead to which.              *)

Fresh(n) == (Len(succ) + 1)..(Len(succ) + n)

\* The current block gets the successors ss, n blocks are made, and the tasks ts
\* come in place of the first one.  Successors are new, or the block where the
\* value of the current task goes.  The tasks are of new blocks; they pass their
\* values on to each other, and the last of them to where the value goes.
Moves(n, ss, ts) ==
    /\ n \in Nat /\ Transfer(ss, n) /\ Then(ts)
    /\ ss \in Seq(Block \cup Fresh(n))
    /\ ts \in Seq([at : Fresh(n), to : Cont \cup Fresh(n)])
    /\ \A j \in DOMAIN ss : ss[j] \in Fresh(n) \/ (ss[j] = To /\ To # Return)
    /\ \A j, k \in DOMAIN ts : ts[j].at = ts[k].at => j = k
    /\ \A k \in DOMAIN ts :
        ts[k].to = To \/ \E j \in DOMAIN ts : j > k /\ ts[j].at = ts[k].to
    /\ \A S :
        /\ \A j \in DOMAIN ss : ss[j] \in S
        /\ \A k \in DOMAIN ts : ts[k].at \in S /\ ts[k].to # Return => ts[k].to \in S
        => Fresh(n) \subseteq S /\ (To # Return => To \in S)

\* The first task is one of a block and of a place for its value.
LEMMA FirstTask ==
    ASSUME FlowOK
    PROVE  /\ Return \notin Block /\ Len(succ) \in Nat /\ Block = 1..Len(succ)
           /\ todo # << >> => At \in Block /\ To \in Cont
           /\ \A k \in DOMAIN todo : todo[k].at \in Block /\ todo[k].to \in Cont
<1>1. succ \in Seq(Seq(Block)) /\ todo \in Seq([at : Block, to : Cont])
    BY DEF FlowOK
<1>2. Len(succ) \in Nat /\ Block = 1..Len(succ)
    BY <1>1 DEF Block
<1>3. Return \notin Block
    BY <1>2, BlocksAssumption
<1>4. todo # << >> => Head(todo) \in [at : Block, to : Cont]
    BY <1>1, HeadTailProperties
<1>5. \A k \in DOMAIN todo : todo[k] \in [at : Block, to : Cont]
    BY <1>1, LenProperties, ElementOfSeq
<1>. QED BY <1>2, <1>3, <1>4, <1>5 DEF At, To

LEMMA ConvertMoves ==
    ASSUME FlowOK, Convert
    PROVE  todo # << >> /\ \E n, ss, ts : Moves(n, ss, ts)
<1>. todo # << >>
    BY DEF Convert, Goto, CallNext, IfTail, IfJoin, Transfer
<1>. DEFINE N == Len(succ)
<1>0. At \in 1..N /\ To \in Cont /\ Return \notin Nat /\ N \in Nat /\ Block = 1..N
    BY FirstTask, BlocksAssumption
<1>00. Cont = 1..N \cup {Return}
    BY <1>0 DEF Cont
<1>. HIDE DEF N
<1>1. CASE Goto
    <2>1. CASE To = Return
        <3>1. Transfer(<< >>, 0) /\ Then(<< >>)
            BY <1>1, <2>1 DEF Goto
        <3>2. Moves(0, << >>, << >>)
            BY <3>1, <2>1, <1>0 DEF Moves, Fresh, N
        <3>. QED BY <3>2
    <2>2. CASE To # Return
        <3>1. Transfer(<<To>>, 0) /\ Then(<< >>)
            BY <1>1, <2>2 DEF Goto
        <3>2. To \in Block /\ <<To>> \in Seq(Block \cup Fresh(0))
            BY <1>0, <2>2 DEF Cont
        <3>3. Moves(0, <<To>>, << >>)
            BY <3>1, <3>2, <2>2, <1>0 DEF Moves, Fresh, N
        <3>. QED BY <3>3
    <2>. QED BY <2>1, <2>2
<1>2. CASE CallNext
    <2>1. Moves(1, <<New(1)>>, <<Task(New(1), To)>>)
        BY <1>0, <1>2 DEF CallNext, Moves, Fresh, Cont, New, Task, N
    <2>. QED BY <2>1
<1>3. CASE IfTail
    <2>1. Moves(2, <<New(1), New(2)>>, <<Task(New(1), To), Task(New(2), To)>>)
        BY <1>0, <1>3 DEF IfTail, Moves, Fresh, Cont, New, Task, N
    <2>. QED BY <2>1
<1>4. CASE IfJoin
    <2>. DEFINE ss == <<New(1), New(2)>>
                ts == <<Task(New(1), New(3)), Task(New(2), New(3)), Task(New(3), To)>>
    <2>1. Transfer(ss, 3) /\ Then(ts)
        BY <1>4 DEF IfJoin
    <2>2. Fresh(3) = {New(1), New(2), New(3)} /\ New(1) # New(2) /\ New(1) # New(3)
            /\ New(2) # New(3) /\ Return \notin Fresh(3)
        BY <1>0 DEF Fresh, New, N
    <2>3. DOMAIN ss = {1, 2} /\ ss[1] = New(1) /\ ss[2] = New(2) /\ ss \in Seq(Fresh(3))
        BY <2>2
    <2>4. /\ DOMAIN ts = {1, 2, 3} /\ ts[1] = Task(New(1), New(3))
          /\ ts[2] = Task(New(2), New(3)) /\ ts[3] = Task(New(3), To)
          /\ ts \in Seq([at : Fresh(3), to : Cont \cup Fresh(3)])
        BY <2>2, <1>0 DEF Task
    <2>5. /\ ts[1].at = New(1) /\ ts[2].at = New(2) /\ ts[3].at = New(3)
          /\ ts[1].to = New(3) /\ ts[2].to = New(3) /\ ts[3].to = To
        BY <2>4 DEF Task
    <2>. HIDE DEF ss, ts
    <2>6. ss \in Seq(Block \cup Fresh(3))
        BY <2>3
    <2>7. \A S :
            /\ \A j \in DOMAIN ss : ss[j] \in S
            /\ \A k \in DOMAIN ts : ts[k].at \in S /\ ts[k].to # Return => ts[k].to \in S
            => Fresh(3) \subseteq S /\ (To # Return => To \in S)
        BY <2>2, <2>3, <2>4, <2>5
    <2>8. Moves(3, ss, ts)
        BY <2>1, <2>2, <2>3, <2>4, <2>5, <2>6, <2>7 DEF Moves
    <2>. QED BY <2>8
<1>. QED BY <1>1, <1>2, <1>3, <1>4 DEF Convert

\* The blocks after a step.
LEMMA BlocksAfter ==
    ASSUME FlowOK, NEW n, NEW ss, NEW ts, todo # << >>, Moves(n, ss, ts)
    PROVE  /\ Block' = Block \cup Fresh(n) /\ Len(succ') = Len(succ) + n
           /\ succ' \in Seq(Seq(Block')) /\ Len(succ') \in 1..MaxBlocks
           /\ succ'[At] = ss /\ \A b \in Block \ {At} : succ'[b] = succ[b]
           /\ \A b \in Fresh(n) : succ'[b] = << >>
<1>. DEFINE old == [succ EXCEPT ![At] = ss]
            made == [k \in 1..n |-> << >>]
            All == Block \cup Fresh(n)
<1>1. n \in Nat /\ Len(succ) + n <= MaxBlocks /\ succ' = old \o made /\ ss \in Seq(All)
    BY DEF Moves, Transfer
<1>2. /\ At \in Block /\ Len(succ) \in Nat /\ Block = 1..Len(succ) /\ MaxBlocks \in Nat
      /\ succ \in Seq(Seq(Block)) /\ Len(succ) >= 1
    BY FirstTask, BlocksAssumption DEF FlowOK
<1>3. old \in Seq(Seq(All)) /\ Len(old) = Len(succ)
    <2>. HIDE DEF All, made
    <2>1. Block \subseteq All
        BY DEF All
    <2>2. Seq(Block) \subseteq Seq(All)
        BY <2>1, SeqMonotonic
    <2>3. succ \in Seq(Seq(All))
        BY <2>2, <1>2, SeqMonotonic
    <2>. QED BY <2>3, <1>1, <1>2, ExceptSeq
<1>4. made \in Seq(Seq(All)) /\ Len(made) = n
    BY <1>1
<1>5. old[At] = ss /\ \A b \in Block \ {At} : old[b] = succ[b]
    BY <1>2
<1>6. \A k \in 1..n : made[k] = << >>
    OBVIOUS
<1>7. All = 1..(Len(succ) + n)
    BY <1>1, <1>2 DEF Fresh
<1>. HIDE DEF old, made, All
<1>80. succ' \in Seq(Seq(All)) /\ Len(succ') = Len(succ) + n
        /\ \A m \in 1..Len(succ) + n :
             succ'[m] = IF m <= Len(succ) THEN old[m] ELSE made[m - Len(succ)]
    <2>. /\ old \o made \in Seq(Seq(All)) /\ Len(old \o made) = Len(old) + Len(made)
         /\ \A m \in 1..Len(old) + Len(made) :
             (old \o made)[m] = IF m <= Len(old) THEN old[m] ELSE made[m - Len(old)]
        BY <1>3, <1>4, ConcatProperties, Zenon
    <2>. QED BY <1>1, <1>3, <1>4
<1>8. succ' \in Seq(Seq(All)) /\ Len(succ') = Len(succ) + n /\ DOMAIN succ' = All
    BY <1>80, <1>7
<1>9. /\ \A k \in 1..Len(succ) : succ'[k] = old[k]
      /\ \A k \in (Len(succ) + 1)..(Len(succ) + n) : succ'[k] = made[k - Len(succ)]
    <2>. DEFINE N == Len(succ)
    <2>1. n \in Nat /\ N \in Nat
            /\ \A m \in 1..(N + n) : succ'[m] = IF m <= N THEN old[m] ELSE made[m - N]
        BY <1>1, <1>2, <1>80
    <2>. HIDE DEF N
    <2>2. \A k \in 1..N : k \in 1..(N + n) /\ k <= N
        BY <2>1
    <2>3. \A k \in (N + 1)..(N + n) : k \in 1..(N + n) /\ ~ (k <= N)
        BY <2>1
    <2>4. /\ \A k \in 1..N : succ'[k] = old[k]
          /\ \A k \in (N + 1)..(N + n) : succ'[k] = made[k - N]
        BY <2>1, <2>2, <2>3, Zenon
    <2>. QED BY <2>4 DEF N
<1>10. Block' = All
    BY <1>8 DEF Block
<1>11. \A b \in Fresh(n) : succ'[b] = << >>
    <2>. TAKE b \in Fresh(n)
    <2>1. b - Len(succ) \in 1..n
        BY <1>1, <1>2 DEF Fresh
    <2>. QED BY <2>1, <1>9, <1>6 DEF Fresh
<1>12. Len(succ') \in 1..MaxBlocks
    BY <1>1, <1>2, <1>8
<1>. QED BY <1>2, <1>5, <1>8, <1>9, <1>10, <1>11, <1>12 DEF All

\* The tasks after a step.
LEMMA TasksAfter ==
    ASSUME FlowOK, NEW n, NEW ss, NEW ts, todo # << >>, Moves(n, ss, ts)
    PROVE  /\ todo' \in Seq([at : Block', to : Cont'])
           /\ Len(ts) \in Nat /\ DOMAIN ts = 1..Len(ts) /\ DOMAIN todo = 1..Len(todo)
           /\ Len(todo) \in Nat /\ DOMAIN todo' = 1..(Len(ts) + Len(todo) - 1)
           /\ \A k \in DOMAIN ts : todo'[k] = ts[k]
           /\ \A k \in DOMAIN todo' \ DOMAIN ts : todo'[k] = todo[k - Len(ts) + 1]
           /\ 1 \in DOMAIN todo /\ todo[1] = Head(todo)
<1>. DEFINE T == [at : Block', to : Cont']
<1>1. todo' = ts \o Tail(todo) /\ ts \in Seq([at : Fresh(n), to : Cont \cup Fresh(n)])
    BY DEF Moves, Then
<1>2. todo \in Seq([at : Block, to : Cont])
    BY DEF FlowOK
<1>3. Block' = Block \cup Fresh(n) /\ Cont' = Cont \cup Fresh(n)
    BY BlocksAfter DEF Cont
<1>4. [at : Fresh(n), to : Cont \cup Fresh(n)] \subseteq T /\ [at : Block, to : Cont] \subseteq T
    BY <1>3
<1>. HIDE DEF T
<1>5. ts \in Seq(T) /\ todo \in Seq(T)
    BY <1>1, <1>2, <1>4, SeqMonotonic
<1>6. Tail(todo) \in Seq(T) /\ Len(Tail(todo)) = Len(todo) - 1
        /\ \A k \in 1..(Len(todo) - 1) : Tail(todo)[k] = todo[k + 1]
    BY <1>5, HeadTailProperties
<1>7. Len(ts) \in Nat /\ DOMAIN ts = 1..Len(ts) /\ Len(todo) \in Nat \ {0}
        /\ DOMAIN todo = 1..Len(todo)
    BY <1>5, EmptySeq
<1>8. todo' \in Seq(T) /\ Len(todo') = Len(ts) + Len(todo) - 1
    BY <1>1, <1>5, <1>6, <1>7, ConcatProperties
<1>9. DOMAIN todo' = 1..(Len(ts) + Len(todo) - 1)
    BY <1>8
<1>10. \A k \in DOMAIN ts : todo'[k] = ts[k]
    BY <1>1, <1>5, <1>6, <1>7, ConcatProperties
<1>11. \A k \in DOMAIN todo' \ DOMAIN ts : todo'[k] = todo[k - Len(ts) + 1]
    <2>. TAKE k \in DOMAIN todo' \ DOMAIN ts
    <2>1. k \in (Len(ts) + 1)..(Len(ts) + Len(Tail(todo))) /\ k - Len(ts) \in 1..(Len(todo) - 1)
        BY <1>6, <1>7, <1>9
    <2>2. todo'[k] = Tail(todo)[k - Len(ts)]
        BY <2>1, <1>1, <1>5, <1>6, ConcatProperties
    <2>. QED BY <2>1, <2>2, <1>6, <1>7
<1>12. 1 \in DOMAIN todo /\ todo[1] = Head(todo)
    BY <1>5, <1>7
<1>. QED BY <1>7, <1>8, <1>9, <1>10, <1>11, <1>12 DEF T

\* Where the tasks after a step come from: the new ones and, moved, the others
\* than the first.
LEMMA TaskOrigin ==
    ASSUME FlowOK, NEW n, NEW ss, NEW ts, todo # << >>, Moves(n, ss, ts)
    PROVE  /\ \A k \in DOMAIN todo' \ DOMAIN ts :
                /\ k - Len(ts) + 1 \in DOMAIN todo \ {1}
                /\ todo'[k] = todo[k - Len(ts) + 1]
           /\ \A j \in DOMAIN todo \ {1} :
                /\ j + Len(ts) - 1 \in DOMAIN todo' \ DOMAIN ts
                /\ todo'[j + Len(ts) - 1] = todo[j]
           /\ \A k \in DOMAIN ts : k \in DOMAIN todo' /\ todo'[k] = ts[k]
           /\ \A j \in DOMAIN todo \ {1} : \A k \in DOMAIN ts : k < j + Len(ts) - 1
<1>. DEFINE L == Len(ts)
            M == Len(todo)
<1>1. /\ L \in Nat /\ DOMAIN ts = 1..L /\ M \in Nat /\ DOMAIN todo = 1..M
      /\ DOMAIN todo' = 1..(L + M - 1) /\ M >= 1
      /\ \A k \in DOMAIN ts : todo'[k] = ts[k]
      /\ \A k \in DOMAIN todo' \ DOMAIN ts : todo'[k] = todo[k - L + 1]
    BY TasksAfter
<1>. HIDE DEF L, M
<1>2. \A k \in DOMAIN todo' \ DOMAIN ts : k - L + 1 \in DOMAIN todo \ {1}
    BY <1>1
<1>3. \A j \in DOMAIN todo \ {1} : j + L - 1 \in DOMAIN todo' \ DOMAIN ts
                /\ (j + L - 1) - L + 1 = j
    BY <1>1
<1>4. \A k \in DOMAIN ts : k \in DOMAIN todo'
    BY <1>1
<1>5. \A j \in DOMAIN todo \ {1} : \A k \in DOMAIN ts : k < j + L - 1
    BY <1>1
<1>6. \A j \in DOMAIN todo \ {1} : todo'[j + L - 1] = todo[j]
    <2>. TAKE j \in DOMAIN todo \ {1}
    <2>1. todo'[j + L - 1] = todo[(j + L - 1) - L + 1]
        BY <1>1, <1>3
    <2>. QED BY <2>1, <1>3
<1>. QED BY <1>1, <1>2, <1>3, <1>4, <1>5, <1>6, Zenon DEF L

-----------------------------------------------------------------------------
LEMMA FlowOKKept ==
    ASSUME FlowOK, [Convert]_flowVars
    PROVE  FlowOK'
<1>1. CASE Convert
    <2>1. PICK n, ss, ts : Moves(n, ss, ts)
        BY <1>1, ConvertMoves
    <2>2. todo # << >>
        BY <1>1, ConvertMoves
    <2>3. succ' \in Seq(Seq(Block')) /\ Len(succ') \in 1..MaxBlocks
        BY <2>1, <2>2, BlocksAfter
    <2>4. todo' \in Seq([at : Block', to : Cont'])
        BY <2>1, <2>2, TasksAfter
    <2>. QED BY <2>3, <2>4 DEF FlowOK
<1>2. CASE UNCHANGED flowVars
    BY <1>2 DEF flowVars, FlowOK, Block, Cont
<1>. QED BY <1>1, <1>2

LEMMA OneTransferKept ==
    ASSUME FlowOK, OneTransfer, [Convert]_flowVars
    PROVE  OneTransfer'
<1>1. CASE Convert
    <2>1. PICK n, ss, ts : Moves(n, ss, ts)
        BY <1>1, ConvertMoves
    <2>. todo # << >>
        BY <1>1, ConvertMoves
    <2>. DEFINE Old(k) == k - Len(ts) + 1
                Later(j) == j + Len(ts) - 1
    <2>2. /\ \A k \in DOMAIN todo' \ DOMAIN ts :
                Old(k) \in DOMAIN todo \ {1} /\ todo'[k] = todo[Old(k)]
          /\ \A j \in DOMAIN todo \ {1} :
                Later(j) \in DOMAIN todo' \ DOMAIN ts /\ todo'[Later(j)] = todo[j]
          /\ \A k \in DOMAIN ts : k \in DOMAIN todo' /\ todo'[k] = ts[k]
          /\ \A j \in DOMAIN todo \ {1} : \A k \in DOMAIN ts : k < Later(j)
        BY <2>1, TaskOrigin
    <2>3. /\ Len(ts) \in Nat /\ DOMAIN todo = 1..Len(todo) /\ Len(todo) \in Nat
          /\ DOMAIN todo' = 1..(Len(ts) + Len(todo) - 1)
          /\ 1 \in DOMAIN todo /\ todo[1].at = At /\ todo[1].to = To
        BY <2>1, TasksAfter DEF At, To
    <2>4. \A j, k \in DOMAIN todo' : Old(j) = Old(k) => j = k
        BY <2>3
    <2>5. \A j \in DOMAIN todo : \A k \in DOMAIN todo' : j > Old(k) => Later(j) > k
        BY <2>3
    <2>6. \A j \in DOMAIN todo : \A k \in DOMAIN todo \ {1} : j > k => j # 1
        BY <2>3
    <2>7. \A k \in DOMAIN todo \ {1} : todo[k].at \in Block \ {At}
        <3>1. \A k \in DOMAIN todo \ {1} : todo[k].at # todo[1].at
            BY <2>3 DEF OneTransfer
        <3>. QED BY <3>1, <2>3, FirstTask
    <2>8. \A k \in DOMAIN ts : ts[k].at \in Fresh(n)
        <3>1. ts \in Seq([at : Fresh(n), to : Cont \cup Fresh(n)])
            BY <2>1 DEF Moves
        <3>2. \A k \in DOMAIN ts : ts[k] \in [at : Fresh(n), to : Cont \cup Fresh(n)]
            BY <3>1, LenProperties, ElementOfSeq
        <3>. QED BY <3>2
    <2>9. Block \cap Fresh(n) = {}
        BY FirstTask DEF Fresh
    <2>10. /\ \A b \in Block \ {At} : succ'[b] = succ[b]
           /\ \A b \in Fresh(n) : succ'[b] = << >>
        BY <2>1, BlocksAfter
    <2>. HIDE DEF Old, Later
    <2>11. \A j, k \in DOMAIN todo' : todo'[j].at = todo'[k].at => j = k
        <3>. SUFFICES ASSUME NEW j \in DOMAIN todo', NEW k \in DOMAIN todo',
                             todo'[j].at = todo'[k].at
                      PROVE  j = k
            OBVIOUS
        <3>1. CASE j \in DOMAIN ts /\ k \in DOMAIN ts
            BY <3>1, <2>1, <2>2 DEF Moves
        <3>2. CASE j \notin DOMAIN ts /\ k \notin DOMAIN ts
            BY <3>2, <2>2, <2>4 DEF OneTransfer
        <3>3. CASE (j \in DOMAIN ts) # (k \in DOMAIN ts)
            BY <3>3, <2>2, <2>7, <2>8, <2>9
        <3>. QED BY <3>1, <3>2, <3>3
    <2>12. \A k \in DOMAIN todo' : succ'[todo'[k].at] = << >>
        <3>. TAKE k \in DOMAIN todo'
        <3>1. CASE k \in DOMAIN ts
            BY <3>1, <2>2, <2>8, <2>10
        <3>2. CASE k \notin DOMAIN ts
            BY <3>2, <2>2, <2>7, <2>10 DEF OneTransfer
        <3>. QED BY <3>1, <3>2
    <2>13. ASSUME NEW k \in DOMAIN todo', todo'[k].to # Return
           PROVE  \E j \in DOMAIN todo' : j > k /\ todo'[j].at = todo'[k].to
        <3>1. CASE k \in DOMAIN ts /\ ts[k].to = To
            <4>1. PICK j \in DOMAIN todo : j > 1 /\ todo[j].at = To
                BY <3>1, <2>2, <2>3, <2>13 DEF OneTransfer
            <4>2. j \in DOMAIN todo \ {1}
                BY <4>1
            <4>3. Later(j) > k
                BY <4>2, <3>1, <2>2, <2>3 DEF Later
            <4>. QED BY <4>1, <4>2, <4>3, <3>1, <2>2
        <3>2. CASE k \in DOMAIN ts /\ ts[k].to # To
            <4>1. PICK j \in DOMAIN ts : j > k /\ ts[j].at = ts[k].to
                BY <3>2, <2>1 DEF Moves
            <4>. QED BY <4>1, <3>2, <2>2
        <3>3. CASE k \notin DOMAIN ts
            <4>1. Old(k) \in DOMAIN todo \ {1} /\ todo'[k] = todo[Old(k)]
                BY <3>3, <2>2
            <4>2. PICK j \in DOMAIN todo : j > Old(k) /\ todo[j].at = todo'[k].to
                BY <4>1, <2>13 DEF OneTransfer
            <4>. QED BY <4>1, <4>2, <2>2, <2>5, <2>6
        <3>. QED BY <3>1, <3>2, <3>3
    <2>. QED BY <2>11, <2>12, <2>13 DEF OneTransfer
<1>2. CASE UNCHANGED flowVars
    BY <1>2 DEF flowVars, OneTransfer
<1>. QED BY <1>1, <1>2

LEMMA NoLoopsKept ==
    ASSUME FlowOK, OneTransfer, NoLoops, [Convert]_flowVars
    PROVE  NoLoops'
<1>1. CASE Convert
    <2>1. PICK n, ss, ts : Moves(n, ss, ts)
        BY <1>1, ConvertMoves
    <2>. todo # << >>
        BY <1>1, ConvertMoves
    <2>2. /\ Block' = Block \cup Fresh(n) /\ succ'[At] = ss
          /\ \A b \in Block \ {At} : succ'[b] = succ[b]
          /\ \A b \in Fresh(n) : succ'[b] = << >>
        BY <2>1, BlocksAfter
    <2>3. 1 \in DOMAIN todo /\ todo[1].at = At /\ todo[1].to = To /\ At \in Block
        BY <2>1, TasksAfter, FirstTask DEF At, To
    <2>4. DOMAIN << >> = {}
        OBVIOUS
    <2>. SUFFICES ASSUME NEW S \in (SUBSET Block') \ {{}}
                  PROVE  \E b \in S : Succs(b)' \cap S = {}
        BY DEF NoLoops
    <2>5. CASE \E b \in S : b \in Fresh(n)
        BY <2>5, <2>2, <2>4 DEF Succs
    <2>6. CASE S \subseteq Block /\ At \in S /\ To # Return /\ To \in S
        <3>1. PICK j \in DOMAIN todo : j > 1 /\ todo[j].at = To
            BY <2>3, <2>6 DEF OneTransfer
        <3>2. To # At /\ succ[To] = << >>
            BY <3>1, <2>3 DEF OneTransfer, FlowOK
        <3>3. PICK b \in S : b = To
            BY <2>6
        <3>4. Succs(b)' = {}
            BY <3>2, <3>3, <2>2, <2>4, <2>6 DEF Succs
        <3>. QED BY <3>4
    <2>7. CASE S \subseteq Block /\ At \in S /\ ~ (To # Return /\ To \in S)
        <3>1. \A j \in DOMAIN ss : ss[j] \in Fresh(n) \/ (ss[j] = To /\ To # Return)
            BY <2>1 DEF Moves
        <3>2. Block \cap Fresh(n) = {}
            BY FirstTask DEF Fresh
        <3>3. PICK b \in S : b = At
            BY <2>7
        <3>4. Succs(b)' \cap S = {}
            BY <3>1, <3>2, <3>3, <2>2, <2>7 DEF Succs
        <3>. QED BY <3>4
    <2>8. CASE S \subseteq Block /\ At \notin S
        <3>1. PICK b \in S : Succs(b) \cap S = {}
            BY <2>8 DEF NoLoops
        <3>2. Succs(b)' = Succs(b)
            BY <2>2, <2>8 DEF Succs
        <3>. QED BY <3>1, <3>2
    <2>. QED BY <2>2, <2>5, <2>6, <2>7, <2>8
<1>2. CASE UNCHANGED flowVars
    <2>1. Block' = Block /\ \A b : Succs(b)' = Succs(b)
        BY <1>2 DEF flowVars, Block, Succs
    <2>. QED BY <2>1 DEF NoLoops
<1>. QED BY <1>1, <1>2

-----------------------------------------------------------------------------
\* AllReached, strengthened to functions under construction: what is reached from
\* the entry by transfers and from the block of a task to where its value goes.
Reached ==
    \A S \in SUBSET Block :
        /\ Entry \in S /\ \A b \in S : Succs(b) \subseteq S
        /\ \A k \in DOMAIN todo :
            todo[k].at \in S /\ todo[k].to # Return => todo[k].to \in S
        => S = Block

LEMMA ReachedKept ==
    ASSUME FlowOK, OneTransfer, Reached, [Convert]_flowVars
    PROVE  Reached'
<1>1. CASE Convert
    <2>1. PICK n, ss, ts : Moves(n, ss, ts)
        BY <1>1, ConvertMoves
    <2>. todo # << >>
        BY <1>1, ConvertMoves
    <2>2. /\ Block' = Block \cup Fresh(n) /\ succ'[At] = ss
          /\ \A b \in Block \ {At} : succ'[b] = succ[b]
        BY <2>1, BlocksAfter
    <2>3. 1 \in DOMAIN todo /\ todo[1].at = At /\ todo[1].to = To /\ At \in Block
            /\ To \in Cont
        BY <2>1, TasksAfter, FirstTask DEF At, To
    <2>4. /\ \A j \in DOMAIN todo \ {1} : \E k \in DOMAIN todo' : todo'[k] = todo[j]
          /\ \A k \in DOMAIN ts : k \in DOMAIN todo' /\ todo'[k] = ts[k]
        BY <2>1, TaskOrigin
    <2>5. Entry \in Block /\ Entry' = Entry
        BY FirstTask DEF FlowOK, Entry
    <2>. SUFFICES ASSUME NEW S \in SUBSET Block', Entry \in S,
                         \A b \in S : Succs(b)' \subseteq S,
                         \A k \in DOMAIN todo' :
                            todo'[k].at \in S /\ todo'[k].to # Return => todo'[k].to \in S
                  PROVE  S = Block'
        BY <2>5 DEF Reached
    <2>. DEFINE R == S \cap Block
    <2>6. At \in S => (Fresh(n) \subseteq S /\ (To # Return => To \in S))
        <3>1. \A k \in DOMAIN ts : ts[k].at \in S /\ ts[k].to # Return => ts[k].to \in S
            BY <2>4
        <3>2. At \in S => \A j \in DOMAIN ss : ss[j] \in S
            BY <2>2 DEF Succs
        <3>. QED BY <2>1, <3>1, <3>2 DEF Moves
    <2>7. \A b \in R : Succs(b) \subseteq R
        <3>. TAKE b \in R
        <3>1. Succs(b) \subseteq Block
            <4>1. succ[b] \in Seq(Block)
                BY DEF FlowOK, Block
            <4>. QED BY <4>1 DEF Succs
        <3>2. CASE b = At
            <4>1. succ[At] = << >>
                BY <2>3 DEF OneTransfer
            <4>. QED BY <3>2, <4>1 DEF Succs
        <3>3. CASE b # At
            <4>1. Succs(b)' = Succs(b)
                BY <3>3, <2>2 DEF Succs
            <4>. QED BY <3>1, <4>1
        <3>. QED BY <3>2, <3>3
    <2>8. \A k \in DOMAIN todo :
            todo[k].at \in R /\ todo[k].to # Return => todo[k].to \in R
        <3>. TAKE k \in DOMAIN todo
        <3>1. todo[k].to \in Cont
            BY FirstTask
        <3>2. CASE k = 1
            BY <3>1, <3>2, <2>3, <2>6 DEF Cont
        <3>3. CASE k # 1
            BY <3>1, <3>3, <2>4 DEF Cont
        <3>. QED BY <3>2, <3>3
    <2>9. R = Block
        BY <2>5, <2>7, <2>8 DEF Reached
    <2>. QED BY <2>9, <2>2, <2>3, <2>6
<1>2. CASE UNCHANGED flowVars
    BY <1>2 DEF flowVars, Reached, Succs, Block, Entry
<1>. QED BY <1>1, <1>2

-----------------------------------------------------------------------------
\* The inductive invariant.
FlowInv == FlowOK /\ OneTransfer /\ NoLoops /\ Reached

LEMMA FlowInvInit ==
    ASSUME FlowInit
    PROVE  FlowInv
<1>. succ = <<<< >>>> /\ todo = <<[at |-> 1, to |-> Return]>>
    BY DEF FlowInit, Task, Entry
<1>1. Block = {1} /\ Succs(1) = {}
    BY DEF Block, Succs
<1>2. succ \in Seq(Seq(Block)) /\ Len(succ) = 1
    <2>. << >> \in Seq(Block)
        OBVIOUS
    <2>. QED OBVIOUS
<1>3. todo \in Seq([at : Block, to : Cont])
    BY <1>1 DEF Cont
<1>4. FlowOK
    BY <1>2, <1>3, BlocksAssumption DEF FlowOK
<1>5. OneTransfer
    BY DEF OneTransfer
<1>6. NoLoops
    BY <1>1 DEF NoLoops
<1>7. Reached
    BY <1>1 DEF Reached, Entry
<1>. QED BY <1>4, <1>5, <1>6, <1>7 DEF FlowInv

LEMMA FlowInvKept ==
    ASSUME FlowInv, [Convert]_flowVars
    PROVE  FlowInv'
BY FlowOKKept, OneTransferKept, NoLoopsKept, ReachedKept DEF FlowInv

LEMMA FlowInvariant == FlowSpec => []FlowInv
<1>1. FlowInit => FlowInv
    BY FlowInvInit
<1>2. FlowInv /\ [Convert]_flowVars => FlowInv'
    BY FlowInvKept
<1>. QED BY <1>1, <1>2, PTL DEF FlowSpec

-----------------------------------------------------------------------------
(* The conversion of a function, and the postorder of its blocks.          *)

LEMMA Elements ==
    ASSUME NEW T, NEW q \in Seq(T)
    PROVE  DOMAIN q = 1..Len(q) /\ Len(q) \in Nat /\ \A j \in DOMAIN q : q[j] \in T
BY LenProperties, ElementOfSeq

LEMMA Pushed ==
    ASSUME NEW T, NEW q \in Seq(T), NEW x \in T
    PROVE  /\ <<x>> \o q \in Seq(T) /\ Len(<<x>> \o q) = Len(q) + 1
           /\ (<<x>> \o q)[1] = x /\ \A j \in 1..Len(q) : (<<x>> \o q)[j + 1] = q[j]
<1>1. <<x>> \in Seq(T) /\ Len(<<x>>) = 1 /\ <<x>>[1] = x /\ Len(q) \in Nat
    BY Elements
<1>2. /\ <<x>> \o q \in Seq(T) /\ Len(<<x>> \o q) = Len(<<x>>) + Len(q)
      /\ \A j \in 1..(Len(<<x>>) + Len(q)) :
            (<<x>> \o q)[j] = IF j <= Len(<<x>>) THEN <<x>>[j] ELSE q[j - Len(<<x>>)]
    BY <1>1, ConcatProperties, Zenon
<1>. DEFINE p == <<x>> \o q
            one == <<x>>
<1>3. \A j \in 1..(1 + Len(q)) : p[j] = IF j <= 1 THEN one[j] ELSE q[j - 1]
    BY <1>1, <1>2
<1>4. p \in Seq(T) /\ Len(p) = Len(q) + 1 /\ one[1] = x
    BY <1>1, <1>2
<1>. HIDE DEF p, one
<1>5. p[1] = x /\ \A j \in 1..Len(q) : p[j + 1] = q[j]
    BY <1>1, <1>3, <1>4
<1>. QED BY <1>4, <1>5 DEF p

LEMMA Replaced ==
    ASSUME NEW T, NEW q \in Seq(T), q # << >>, NEW x \in T
    PROVE  /\ <<x>> \o Tail(q) \in Seq(T) /\ Len(<<x>> \o Tail(q)) = Len(q)
           /\ (<<x>> \o Tail(q))[1] = x
           /\ \A j \in 2..Len(q) : (<<x>> \o Tail(q))[j] = q[j]
<1>1. /\ Tail(q) \in Seq(T) /\ Len(Tail(q)) = Len(q) - 1 /\ Len(q) \in Nat \ {0}
      /\ \A j \in 1..(Len(q) - 1) : Tail(q)[j] = q[j + 1]
    BY HeadTailProperties, EmptySeq
<1>2. /\ <<x>> \o Tail(q) \in Seq(T) /\ Len(<<x>> \o Tail(q)) = Len(Tail(q)) + 1
      /\ (<<x>> \o Tail(q))[1] = x
      /\ \A j \in 1..Len(Tail(q)) : (<<x>> \o Tail(q))[j + 1] = Tail(q)[j]
    <2>. DEFINE t == Tail(q)
    <2>1. t \in Seq(T)
        BY <1>1
    <2>. HIDE DEF t
    <2>2. /\ <<x>> \o t \in Seq(T) /\ Len(<<x>> \o t) = Len(t) + 1
          /\ (<<x>> \o t)[1] = x
          /\ \A j \in 1..Len(t) : (<<x>> \o t)[j + 1] = t[j]
        BY <2>1, Pushed
    <2>. QED BY <2>2 DEF t
<1>3. ASSUME NEW j \in 2..Len(q) PROVE (<<x>> \o Tail(q))[j] = q[j]
    <2>1. j - 1 \in 1..Len(Tail(q)) /\ (j - 1) + 1 = j /\ j - 1 \in 1..(Len(q) - 1)
        BY <1>1
    <2>. QED BY <2>1, <1>1, <1>2
<1>. QED BY <1>1, <1>2, <1>3

\* Once the blocks have numbers.
Numbered == pc \notin {"convert", "order"}

\* The steps that leave the blocks and their numbers as they are.
LateStep == Numbered /\ Numbered' /\ UNCHANGED <<flowVars, orderVars>>

LEMMA Phases ==
    ASSUME Next
    PROVE  ConvertStep \/ Start \/ Descend \/ Ascend \/ BeginFixpoint \/ LateStep
<1>. USE DEF LateStep, Numbered
<1>1. CASE SkipBlock
    BY <1>1 DEF SkipBlock, NextBlock
<1>2. CASE FirstPredecessor
    BY <1>2 DEF FirstPredecessor
<1>3. CASE NextPredecessor
    BY <1>3 DEF NextPredecessor
<1>4. CASE \E j \in 1..2 : MoveFinger(j)
    BY <1>4 DEF MoveFinger
<1>5. CASE Intersected
    BY <1>5 DEF Intersected
<1>6. CASE SetDominator
    BY <1>6 DEF SetDominator, NextBlock
<1>7. CASE AddNode
    BY <1>7 DEF AddNode
<1>8. CASE \E j \in 1..2 : MoveNode(j)
    BY <1>8 DEF MoveNode
<1>9. CASE Met
    BY <1>9 DEF Met
<1>10. CASE \E n \in nodes : NextNode(n)
    BY <1>10 DEF NextNode
<1>11. CASE ClimbToParent
    BY <1>11 DEF ClimbToParent
<1>12. CASE Emit
    BY <1>12 DEF Emit
<1>13. CASE EndVisit
    BY <1>13 DEF EndVisit
<1>14. CASE Use
    BY <1>14 DEF Use, Ask, BeginVisit
<1>. QED BY <1>1, <1>2, <1>3, <1>4, <1>5, <1>6, <1>7, <1>8, <1>9, <1>10, <1>11, <1>12,
            <1>13, <1>14 DEF Next, Work

-----------------------------------------------------------------------------
(* The conversion                                                          *)

LEMMA FlowStep == [Next]_vars => [Convert]_flowVars
<1>1. Next => [Convert]_flowVars
    BY Phases DEF ConvertStep, Start, Descend, Ascend, BeginFixpoint, LateStep
<1>. QED BY <1>1 DEF vars

\* Dominators is a ControlFlow.
LEMMA DominatorsFlow == Spec => FlowSpec
<1>1. Init => FlowInit
    BY DEF Init
<1>. QED BY <1>1, FlowStep, PTL DEF Spec, FlowSpec

LEMMA FlowAlways == Spec => []FlowInv
    BY DominatorsFlow, FlowInvariant, PTL

\* The blocks that the conversion makes, whatever the expressions are nested in,
\* form no loop: every visit of a function's blocks ends.
THEOREM BlocksHaveNoLoops == Spec => []NoLoops
<1>1. FlowInv => NoLoops
    BY DEF FlowInv
<1>. QED BY <1>1, FlowAlways, PTL

\* The trivial and the other continuations give each block its transfer once,
\* and what goes on in a block comes after what passes its value to it.
THEOREM OneTransferPerBlock == Spec => []OneTransfer
<1>1. FlowInv => OneTransfer
    BY DEF FlowInv
<1>. QED BY <1>1, FlowAlways, PTL

\* No finished function has a block that its entry does not reach.
THEOREM BlocksReached == Spec => []AllReached
<1>1. FlowInv => AllReached
    <2>. DOMAIN << >> = {}
        OBVIOUS
    <2>. QED BY DEF FlowInv, AllReached, Reached
<1>. QED BY <1>1, FlowAlways, PTL

\* The conversion makes a graph of blocks that the passes can rely on: no loop, one
\* transfer for each block and no block that is not reached.
THEOREM FlowIsStructured == Spec => []FlowStructured
<1>1. NoLoops /\ OneTransfer /\ AllReached => FlowStructured
    BY DEF FlowStructured
<1>. QED BY <1>1, BlocksHaveNoLoops, OneTransferPerBlock, BlocksReached, PTL

-----------------------------------------------------------------------------
(* The postorder                                                           *)

Done == {order[k] : k \in DOMAIN order}
OnStack == {dfs[j].block : j \in DOMAIN dfs}

\* The blocks that are in post_order have all their successors before them.
OrderOK ==
    /\ order \in Seq(Block)
    /\ \A j, k \in DOMAIN order : order[j] = order[k] => j = k
    /\ \A k \in DOMAIN order : \A s \in Succs(order[k]) :
        \E m \in DOMAIN order : m < k /\ order[m] = s

\* The activations of do_post_visit: each was called by the next for a successor,
\* and the successors it is past are in post_order.
DfsOK ==
    /\ dfs \in Seq([block : Block, next : Nat \ {0}])
    /\ \A j, k \in DOMAIN dfs : dfs[j].block = dfs[k].block => j = k
    /\ Done \cap OnStack = {}
    /\ \A j \in DOMAIN dfs : j > 1 => dfs[j - 1].block \in Succs(dfs[j].block)
    /\ \A j \in DOMAIN dfs : \A m \in DOMAIN succ[dfs[j].block] :
        m < dfs[j].next =>
            \/ succ[dfs[j].block][m] \in Done
            \/ j > 1 /\ succ[dfs[j].block][m] = dfs[j - 1].block

\* What the phases know of each other: the entry is the last to be left.
PhaseOK ==
    /\ pc # "convert" => todo = << >>
    /\ pc = "convert" => order = << >> /\ visited = {}
    /\ pc # "order" => dfs = << >>
    /\ pc = "order" =>
        /\ visited = Done \cup OnStack
        /\ dfs # << >> => dfs[Len(dfs)].block = Entry
    /\ pc # "convert" /\ dfs = << >> => order # << >> /\ order[Len(order)] = Entry

OrderInv == OrderOK /\ DfsOK /\ PhaseOK

\* No successor of the innermost activation is that of an activation.
LEMMA NoWayBack ==
    ASSUME FlowInv, OrderInv, dfs # << >>, NEW s \in Succs(Head(dfs).block)
    PROVE  s \notin OnStack
<1>1. SUFFICES ASSUME NEW l \in DOMAIN dfs, s = dfs[l].block
               PROVE  FALSE
    BY DEF OnStack
<1>. DEFINE S == {dfs[j].block : j \in {k \in DOMAIN dfs : k <= l}}
<1>2. /\ DOMAIN dfs = 1..Len(dfs) /\ Len(dfs) \in Nat \ {0} /\ Head(dfs) = dfs[1]
      /\ \A j \in DOMAIN dfs : dfs[j].block \in Block
    <2>1. dfs \in Seq([block : Block, next : Nat \ {0}])
        BY DEF OrderInv, DfsOK
    <2>2. \A j \in DOMAIN dfs : dfs[j] \in [block : Block, next : Nat \ {0}]
        BY <2>1, Elements, Zenon
    <2>. QED BY <2>1, <2>2, EmptySeq
<1>3. S \in (SUBSET Block) \ {{}}
    <2>1. dfs[l].block \in S
        BY <1>1, <1>2
    <2>2. S \subseteq Block
        BY <1>2
    <2>. QED BY <2>1, <2>2
<1>4. \A b \in S : Succs(b) \cap S # {}
    <2>. SUFFICES ASSUME NEW j \in DOMAIN dfs, j <= l
                  PROVE  Succs(dfs[j].block) \cap S # {}
        OBVIOUS
    <2>1. CASE j = 1
        BY <2>1, <1>1, <1>2
    <2>2. CASE j # 1
        <3>1. j - 1 \in DOMAIN dfs /\ j - 1 <= l /\ j > 1
            BY <2>2, <1>2
        <3>2. dfs[j - 1].block \in Succs(dfs[j].block)
            BY <3>1 DEF OrderInv, DfsOK
        <3>. QED BY <3>1, <3>2
    <2>. QED BY <2>1, <2>2
<1>. HIDE DEF S
<1>. QED BY <1>3, <1>4 DEF FlowInv, NoLoops

LEMMA DfsFacts ==
    ASSUME OrderInv, dfs # << >>
    PROVE  /\ DOMAIN dfs = 1..Len(dfs) /\ Len(dfs) \in Nat \ {0} /\ Head(dfs) = dfs[1]
           /\ \A j \in DOMAIN dfs :
                /\ dfs[j] \in [block : Block, next : Nat \ {0}]
                /\ dfs[j].block \in Block /\ dfs[j].next \in Nat \ {0}
<1>1. dfs \in Seq([block : Block, next : Nat \ {0}])
    BY DEF OrderInv, DfsOK
<1>2. \A j \in DOMAIN dfs : dfs[j] \in [block : Block, next : Nat \ {0}]
    BY <1>1, Elements, Zenon
<1>. QED BY <1>1, <1>2, EmptySeq

LEMMA OrderInvInit ==
    ASSUME Init
    PROVE  OrderInv
<1>. DOMAIN << >> = {}
    OBVIOUS
<1>. QED BY DEF Init, OrderInv, OrderOK, DfsOK, PhaseOK, Done, OnStack

LEMMA StartKeeps ==
    ASSUME FlowInv, OrderInv, Start
    PROVE  OrderInv'
<1>1. /\ pc = "convert" /\ pc' = "order" /\ todo' = << >> /\ succ' = succ
      /\ dfs' = <<Visit(Entry)>> /\ visited' = {Entry} /\ order' = << >>
    BY DEF Start, flowVars, OrderInv, PhaseOK
<1>2. Entry \in Block
    BY FirstTask DEF FlowInv, FlowOK, Entry
<1>3. OrderOK'
    <2>. DOMAIN << >> = {}
        OBVIOUS
    <2>. QED BY <1>1 DEF OrderOK
<1>4. Visit(Entry) \in [block : Block', next : Nat \ {0}]
    BY <1>1, <1>2 DEF Visit, Block
<1>5. dfs' \in Seq([block : Block', next : Nat \ {0}])
    BY <1>1, <1>4
<1>6. DOMAIN dfs' = {1} /\ Len(dfs') = 1 /\ dfs'[1].block = Entry /\ dfs'[1].next = 1
    BY <1>1 DEF Visit
<1>7. Done' = {} /\ OnStack' = {Entry}
    BY <1>1, <1>6 DEF Done, OnStack
<1>8. \A m \in DOMAIN succ'[Entry] : ~ (m < 1)
    <2>1. succ[Entry] \in Seq(Block)
        BY <1>2 DEF FlowInv, FlowOK, Block
    <2>. QED BY <2>1, <1>1
<1>9. DfsOK'
    BY <1>5, <1>6, <1>7, <1>8 DEF DfsOK
<1>10. PhaseOK'
    BY <1>1, <1>6, <1>7 DEF PhaseOK, Entry
<1>. QED BY <1>3, <1>9, <1>10 DEF OrderInv

LEMMA DescendKeeps ==
    ASSUME FlowInv, OrderInv, Descend
    PROVE  OrderInv'
<1>. DEFINE T == [block : Block, next : Nat \ {0}]
            h == Head(dfs)
            s == succ[h.block][h.next]
            moved == [h EXCEPT !.next = @ + 1]
            rest == <<moved>> \o Tail(dfs)
<1>1. /\ pc = "order" /\ pc' = pc /\ dfs # << >> /\ h.next \in DOMAIN succ[h.block]
      /\ dfs' = IF s \in visited THEN rest ELSE <<Visit(s)>> \o rest
      /\ visited' = visited \cup {s} /\ succ' = succ /\ todo' = todo /\ order' = order
    BY DEF Descend, flowVars
<1>2. /\ DOMAIN dfs = 1..Len(dfs) /\ Len(dfs) \in Nat \ {0} /\ h = dfs[1]
      /\ \A j \in DOMAIN dfs : dfs[j] \in T /\ dfs[j].block \in Block /\ dfs[j].next \in Nat \ {0}
    BY <1>1, DfsFacts
<1>3. s \in Succs(h.block) /\ s \in Block /\ s \notin OnStack
    <2>1. s \in Succs(h.block)
        BY <1>1 DEF Succs
    <2>2. succ[h.block] \in Seq(Block)
        BY <1>2 DEF FlowInv, FlowOK, Block
    <2>3. s \in Block
        BY <2>2, <1>1, Elements
    <2>. QED BY <2>1, <2>3, <1>1, NoWayBack
<1>4. moved \in T /\ moved.block = h.block /\ moved.next = h.next + 1 /\ dfs \in Seq(T)
    <2>1. h \in T /\ h.next \in Nat
        BY <1>2
    <2>. QED BY <2>1 DEF OrderInv, DfsOK
<1>5. /\ rest \in Seq(T) /\ Len(rest) = Len(dfs) /\ rest[1] = moved
      /\ \A j \in 2..Len(dfs) : rest[j] = dfs[j]
    <2>. HIDE DEF T, moved
    <2>. QED BY <1>1, <1>4, Replaced
<1>6. DOMAIN rest = DOMAIN dfs
    BY <1>2, <1>5, Elements
<1>7. Visit(s) \in T /\ Visit(s).block = s /\ Visit(s).next = 1
    BY <1>3 DEF Visit
<1>8. Block' = Block /\ Done' = Done /\ \A b : Succs(b)' = Succs(b)
    BY <1>1 DEF Block, Done, Succs
<1>. HIDE DEF T, moved, rest, s
<1>9. \A j \in DOMAIN dfs : rest[j].block = dfs[j].block
    BY <1>2, <1>4, <1>5
<1>10. OrderOK'
    BY <1>1, <1>8 DEF OrderInv, OrderOK
<1>11. CASE s \in visited
    <2>1. dfs' = rest /\ visited' = visited
        BY <1>1, <1>11
    <2>2. s \in Done
        BY <1>1, <1>3, <1>11 DEF OrderInv, PhaseOK
    <2>3. OnStack' = OnStack
        BY <2>1, <1>6, <1>9 DEF OnStack
    <2>4. \A j \in DOMAIN dfs' : j > 1 => dfs'[j - 1].block \in Succs(dfs[j].block)'
        <3>. SUFFICES ASSUME NEW j \in DOMAIN dfs, j > 1
                      PROVE  rest[j - 1].block \in Succs(rest[j].block)
            BY <2>1, <1>6, <1>1 DEF Succs
        <3>1. j - 1 \in DOMAIN dfs
            BY <1>2
        <3>. QED BY <3>1, <1>9 DEF OrderInv, DfsOK
    <2>5. ASSUME NEW j \in DOMAIN dfs', NEW m \in DOMAIN succ'[dfs'[j].block],
                 m < dfs'[j].next
          PROVE  \/ succ'[dfs'[j].block][m] \in Done'
                 \/ j > 1 /\ succ'[dfs'[j].block][m] = dfs'[j - 1].block
        <3>1. j \in DOMAIN dfs /\ dfs'[j].block = dfs[j].block /\ m \in DOMAIN succ[dfs[j].block]
            BY <2>1, <2>5, <1>1, <1>6, <1>9
        <3>2. m \in Nat
            <4>1. succ[dfs[j].block] \in Seq(Block)
                BY <3>1, <1>2 DEF FlowInv, FlowOK, Block
            <4>. QED BY <4>1, <3>1
        <3>3. CASE j = 1
            <4>1. dfs'[j].next = h.next + 1 /\ dfs[j] = h /\ h.next \in Nat
                BY <3>3, <2>1, <1>2, <1>4, <1>5
            <4>2. CASE m = h.next
                BY <4>1, <4>2, <3>1, <2>2, <1>1, <1>8 DEF s
            <4>3. CASE m < h.next
                BY <4>1, <4>3, <3>1, <3>3, <1>1, <1>8 DEF OrderInv, DfsOK
            <4>. QED BY <4>1, <4>2, <4>3, <3>2, <2>5
        <3>4. CASE j # 1
            <4>1. dfs'[j] = dfs[j] /\ j - 1 \in DOMAIN dfs
                BY <3>4, <3>1, <2>1, <1>2, <1>5
            <4>2. dfs'[j - 1].block = dfs[j - 1].block
                BY <4>1, <2>1, <1>9
            <4>. QED BY <4>1, <4>2, <3>1, <2>5, <1>1, <1>8 DEF OrderInv, DfsOK
        <3>. QED BY <3>3, <3>4
    <2>6. \A j, k \in DOMAIN dfs' : dfs'[j].block = dfs'[k].block => j = k
        BY <2>1, <1>6, <1>9 DEF OrderInv, DfsOK
    <2>7. dfs' \in Seq([block : Block', next : Nat \ {0}]) /\ Done' \cap OnStack' = {}
        BY <2>1, <2>3, <1>5, <1>8 DEF OrderInv, DfsOK, T
    <2>8. DfsOK'
        BY <2>4, <2>5, <2>6, <2>7 DEF DfsOK
    <2>9. dfs' # << >> /\ dfs'[Len(dfs')].block = dfs[Len(dfs)].block
        BY <2>1, <1>2, <1>5, <1>9
    <2>10. PhaseOK'
        BY <2>1, <2>3, <2>9, <1>1, <1>8 DEF OrderInv, PhaseOK, Entry
    <2>. QED BY <2>8, <2>10, <1>10 DEF OrderInv
<1>12. CASE s \notin visited
    <2>1. dfs' = <<Visit(s)>> \o rest
        BY <1>1, <1>12
    <2>2. s \notin Done
        BY <1>1, <1>12 DEF OrderInv, PhaseOK
    <2>3. /\ dfs' \in Seq(T) /\ Len(dfs') = Len(dfs) + 1 /\ dfs'[1] = Visit(s)
          /\ \A j \in 1..Len(dfs) : dfs'[j + 1] = rest[j]
        BY <2>1, <1>5, <1>7, Pushed
    <2>4. DOMAIN dfs' = 1..(Len(dfs) + 1)
        BY <2>3, Elements
    <2>5. \A j \in DOMAIN dfs' : j # 1 => j - 1 \in DOMAIN dfs /\ dfs'[j] = rest[j - 1]
        <3>. SUFFICES ASSUME NEW j \in DOMAIN dfs', j # 1
                      PROVE  j - 1 \in DOMAIN dfs /\ dfs'[j] = rest[j - 1]
            OBVIOUS
        <3>1. j - 1 \in DOMAIN dfs /\ (j - 1) + 1 = j
            BY <2>4, <1>2
        <3>. QED BY <3>1, <2>3, <1>2
    <2>6. \A j \in DOMAIN dfs' : j # 1 => dfs'[j].block = dfs[j - 1].block
        BY <2>5, <1>9
    <2>7. \A j \in DOMAIN dfs : j + 1 \in DOMAIN dfs' /\ j + 1 # 1 /\ (j + 1) - 1 = j
        BY <2>4, <1>2
    <2>8. OnStack' = OnStack \cup {s}
        <3>1. dfs'[1].block = s /\ 1 \in DOMAIN dfs'
            BY <2>3, <2>4, <1>2, <1>7
        <3>2. \A j \in DOMAIN dfs' : dfs'[j].block \in OnStack \cup {s}
            BY <3>1, <2>5, <2>6 DEF OnStack
        <3>3. \A j \in DOMAIN dfs : dfs'[j + 1].block = dfs[j].block
            BY <2>6, <2>7
        <3>. QED BY <3>1, <3>2, <3>3, <2>7 DEF OnStack
    <2>9. \A j \in DOMAIN dfs' : j > 1 => dfs'[j - 1].block \in Succs(dfs[j].block)'
        <3>. SUFFICES ASSUME NEW j \in DOMAIN dfs', j > 1
                      PROVE  dfs'[j - 1].block \in Succs(dfs[j].block)'
            OBVIOUS
        <3>1. Succs(dfs[j].block)' = {succ[dfs'[j].block][k] : k \in DOMAIN succ[dfs'[j].block]}
            BY <1>1 DEF Succs
        <3>2. CASE j = 2
            <4>1. dfs'[j].block = h.block /\ dfs'[j - 1].block = s
                BY <3>2, <2>3, <2>6, <1>2, <1>7
            <4>. QED BY <3>1, <4>1, <1>3 DEF Succs
        <3>3. CASE j # 2
            <4>1. j - 1 \in DOMAIN dfs' /\ j - 1 # 1 /\ j - 1 \in DOMAIN dfs /\ j - 1 > 1
                BY <3>3, <2>4, <1>2
            <4>2. dfs'[j].block = dfs[j - 1].block /\ dfs'[j - 1].block = dfs[(j - 1) - 1].block
                BY <4>1, <2>6
            <4>3. dfs[(j - 1) - 1].block \in Succs(dfs[j - 1].block)
                BY <4>1 DEF OrderInv, DfsOK
            <4>. QED BY <3>1, <4>2, <4>3 DEF Succs
        <3>. QED BY <3>2, <3>3
    <2>10. ASSUME NEW j \in DOMAIN dfs', NEW m \in DOMAIN succ'[dfs'[j].block],
                  m < dfs'[j].next
           PROVE  \/ succ'[dfs'[j].block][m] \in Done'
                  \/ j > 1 /\ succ'[dfs'[j].block][m] = dfs'[j - 1].block
        <3>1. dfs'[j].block \in Block
            BY <2>3, <2>6, <2>5, <1>2, <1>3, <1>7
        <3>2. m \in Nat \ {0}
            <4>1. succ[dfs'[j].block] \in Seq(Block)
                BY <3>1 DEF FlowInv, FlowOK, Block
            <4>. QED BY <4>1, <1>1
        <3>3. CASE j = 1
            BY <3>2, <3>3, <2>3, <2>10, <1>7
        <3>4. CASE j = 2
            <4>1. dfs'[j] = moved /\ dfs'[j].block = h.block /\ dfs'[j - 1].block = s
                    /\ h = dfs[1] /\ 1 \in DOMAIN dfs
                BY <3>4, <2>3, <2>4, <2>5, <1>2, <1>4, <1>5, <1>7
            <4>2. h.next \in Nat /\ dfs'[j].next = h.next + 1
                BY <4>1, <1>2, <1>4
            <4>3. CASE m = h.next
                BY <4>1, <4>3, <3>4, <1>1 DEF s
            <4>4. CASE m < h.next
                BY <4>1, <4>4, <2>10, <1>1, <1>8 DEF OrderInv, DfsOK
            <4>. QED BY <4>2, <4>3, <4>4, <3>2, <2>10
        <3>5. CASE j # 1 /\ j # 2
            <4>1. /\ j - 1 \in DOMAIN dfs' /\ j - 1 # 1 /\ j - 1 \in DOMAIN dfs /\ j - 1 > 1
                  /\ j > 1 /\ j - 1 \in 2..Len(dfs)
                BY <3>5, <2>4, <1>2
            <4>2. dfs'[j] = dfs[j - 1] /\ dfs'[j - 1].block = dfs[(j - 1) - 1].block
                BY <4>1, <3>5, <2>5, <2>6, <1>5
            <4>. QED BY <4>1, <4>2, <2>10, <1>1, <1>8 DEF OrderInv, DfsOK
        <3>. QED BY <3>3, <3>4, <3>5
    <2>11. \A j, k \in DOMAIN dfs' : dfs'[j].block = dfs'[k].block => j = k
        <3>. SUFFICES ASSUME NEW j \in DOMAIN dfs', NEW k \in DOMAIN dfs',
                             dfs'[j].block = dfs'[k].block
                      PROVE  j = k
            OBVIOUS
        <3>1. dfs'[1].block = s
            BY <2>3, <1>7
        <3>2. \A l \in DOMAIN dfs : dfs[l].block # s
            BY <1>3 DEF OnStack
        <3>3. CASE j # 1 /\ k # 1
            <4>1. j - 1 = k - 1
                BY <3>3, <2>5, <2>6 DEF OrderInv, DfsOK
            <4>. QED BY <4>1, <2>4, <1>2
        <3>. QED BY <3>1, <3>2, <3>3, <2>5, <2>6
    <2>12. dfs' \in Seq([block : Block', next : Nat \ {0}]) /\ Done' \cap OnStack' = {}
        BY <2>2, <2>3, <2>8, <1>8 DEF OrderInv, DfsOK, T
    <2>13. DfsOK'
        BY <2>9, <2>10, <2>11, <2>12 DEF DfsOK
    <2>14. dfs' # << >> /\ dfs'[Len(dfs')].block = dfs[Len(dfs)].block
        <3>1. Len(dfs') \in DOMAIN dfs' /\ Len(dfs') # 1 /\ Len(dfs') - 1 = Len(dfs)
            BY <2>3, <2>4, <1>2
        <3>. QED BY <3>1, <2>6
    <2>15. PhaseOK'
        BY <2>8, <2>14, <1>1, <1>8 DEF OrderInv, PhaseOK, Entry
    <2>. QED BY <2>13, <2>15, <1>10 DEF OrderInv
<1>. QED BY <1>11, <1>12

LEMMA Appended ==
    ASSUME NEW T, NEW q \in Seq(T), NEW x \in T
    PROVE  /\ Append(q, x) \in Seq(T) /\ Len(Append(q, x)) = Len(q) + 1
           /\ \A j \in 1..Len(q) : Append(q, x)[j] = q[j]
           /\ Append(q, x)[Len(q) + 1] = x
BY AppendProperties

LEMMA AscendKeeps ==
    ASSUME FlowInv, OrderInv, Ascend
    PROVE  OrderInv'
<1>. DEFINE T == [block : Block, next : Nat \ {0}]
            b == Head(dfs).block
            L == Len(dfs)
            M == Len(order)
<1>1. /\ pc = "order" /\ pc' = pc /\ dfs # << >> /\ Head(dfs).next \notin DOMAIN succ[b]
      /\ dfs' = Tail(dfs) /\ order' = Append(order, b)
      /\ visited' = visited /\ succ' = succ /\ todo' = todo
    BY DEF Ascend, flowVars
<1>2. /\ DOMAIN dfs = 1..L /\ L \in Nat \ {0} /\ Head(dfs) = dfs[1] /\ b \in Block
      /\ \A j \in DOMAIN dfs : dfs[j].next \in Nat \ {0} /\ dfs[j].block \in Block
      /\ dfs \in Seq(T)
    BY <1>1, DfsFacts DEF OrderInv, DfsOK
<1>3. order \in Seq(Block) /\ DOMAIN order = 1..M /\ M \in Nat
    BY Elements DEF OrderInv, OrderOK
<1>4. /\ order' \in Seq(Block) /\ Len(order') = M + 1 /\ DOMAIN order' = 1..(M + 1)
      /\ \A k \in 1..M : order'[k] = order[k]
      /\ order'[M + 1] = b
    BY <1>1, <1>2, <1>3, Appended
<1>5. /\ dfs' \in Seq(T) /\ Len(dfs') = L - 1 /\ DOMAIN dfs' = 1..(L - 1)
      /\ \A j \in 1..(L - 1) : dfs'[j] = dfs[j + 1]
    BY <1>1, <1>2, HeadTailProperties
<1>6. Block' = Block /\ \A a : Succs(a)' = Succs(a)
    BY <1>1 DEF Block, Succs
<1>7. Done' = Done \cup {b}
    BY <1>3, <1>4 DEF Done
<1>8. \A j \in DOMAIN dfs' : j + 1 \in DOMAIN dfs /\ j + 1 # 1 /\ dfs'[j] = dfs[j + 1]
    BY <1>2, <1>5
<1>9. \A j \in DOMAIN dfs : j # 1 => j - 1 \in DOMAIN dfs' /\ dfs'[j - 1] = dfs[j]
    <2>. SUFFICES ASSUME NEW j \in DOMAIN dfs, j # 1
                  PROVE  j - 1 \in DOMAIN dfs' /\ dfs'[j - 1] = dfs[j]
        OBVIOUS
    <2>1. j - 1 \in DOMAIN dfs' /\ (j - 1) + 1 = j
        BY <1>2, <1>5
    <2>. QED BY <2>1, <1>8
<1>10. 1 \in DOMAIN dfs /\ b = dfs[1].block /\ b \in OnStack /\ b \notin Done
    BY <1>2 DEF OnStack, OrderInv, DfsOK
<1>11. OnStack' = OnStack \ {b}
    <2>1. \A j \in DOMAIN dfs : j # 1 => dfs[j].block # b
        BY <1>10 DEF OrderInv, DfsOK
    <2>2. \A j \in DOMAIN dfs' : dfs'[j].block \in OnStack \ {b}
        BY <1>8, <2>1 DEF OnStack
    <2>. QED BY <2>1, <2>2, <1>9, <1>10 DEF OnStack
<1>. HIDE DEF T, b, L, M
<1>12. \A s \in Succs(b) : s \in Done
    <2>. SUFFICES ASSUME NEW m \in DOMAIN succ[b]
                  PROVE  succ[b][m] \in Done
        BY DEF Succs
    <2>1. succ[b] \in Seq(Block)
        BY <1>2 DEF FlowInv, FlowOK, Block
    <2>2. DOMAIN succ[b] = 1..Len(succ[b]) /\ Len(succ[b]) \in Nat
        BY <2>1, Elements
    <2>3. m < dfs[1].next
        BY <2>2, <1>1, <1>2, <1>10
    <2>. QED BY <2>3, <1>10 DEF OrderInv, DfsOK
<1>13. OrderOK'
    <2>1. \A k \in DOMAIN order' : k # M + 1 => k \in DOMAIN order /\ order'[k] = order[k]
        BY <1>3, <1>4
    <2>2. \A k \in DOMAIN order : k \in DOMAIN order' /\ order'[k] = order[k] /\ k < M + 1
        BY <1>3, <1>4
    <2>3. \A k \in DOMAIN order : order[k] # b
        BY <1>10 DEF Done
    <2>4. \A j, k \in DOMAIN order' : order'[j] = order'[k] => j = k
        BY <2>1, <2>3, <1>4 DEF OrderInv, OrderOK
    <2>5. ASSUME NEW k \in DOMAIN order', NEW s \in Succs(order'[k])
          PROVE  \E m \in DOMAIN order' : m < k /\ order'[m] = s
        <3>1. CASE k = M + 1
            <4>1. PICK m \in DOMAIN order : order[m] = s
                BY <3>1, <2>5, <1>4, <1>12 DEF Done
            <4>. QED BY <4>1, <3>1, <2>2
        <3>2. CASE k # M + 1
            <4>1. k \in DOMAIN order /\ s \in Succs(order[k])
                BY <3>2, <2>1, <2>5
            <4>2. PICK m \in DOMAIN order : m < k /\ order[m] = s
                BY <4>1 DEF OrderInv, OrderOK
            <4>. QED BY <4>2, <2>2
        <3>. QED BY <3>1, <3>2
    <2>6. \A k \in DOMAIN order' : \A s \in Succs(order[k])' :
            \E m \in DOMAIN order' : m < k /\ order'[m] = s
        <3>. SUFFICES ASSUME NEW k \in DOMAIN order', NEW s \in Succs(order[k])'
                      PROVE  \E m \in DOMAIN order' : m < k /\ order'[m] = s
            OBVIOUS
        <3>1. s \in Succs(order'[k])
            BY <1>1 DEF Succs
        <3>. QED BY <3>1, <2>5
    <2>. QED BY <2>4, <2>6, <1>4, <1>6 DEF OrderOK
<1>14. DfsOK'
    <2>1. dfs' \in Seq([block : Block', next : Nat \ {0}])
        BY <1>5, <1>6 DEF T
    <2>2. \A j, k \in DOMAIN dfs' : dfs'[j].block = dfs'[k].block => j = k
        <3>. SUFFICES ASSUME NEW j \in DOMAIN dfs', NEW k \in DOMAIN dfs',
                             dfs'[j].block = dfs'[k].block
                      PROVE  j = k
            OBVIOUS
        <3>1. j + 1 = k + 1
            BY <1>8 DEF OrderInv, DfsOK
        <3>. QED BY <3>1, <1>2, <1>5
    <2>3. Done' \cap OnStack' = {}
        BY <1>7, <1>11 DEF OrderInv, DfsOK
    <2>4. \A j \in DOMAIN dfs' : j > 1 => dfs'[j - 1].block \in Succs(dfs[j].block)'
        <3>. SUFFICES ASSUME NEW j \in DOMAIN dfs', j > 1
                      PROVE  dfs'[j - 1].block \in Succs(dfs[j].block)'
            OBVIOUS
        <3>1. j + 1 \in DOMAIN dfs /\ j + 1 > 1 /\ j - 1 \in DOMAIN dfs'
                /\ (j + 1) - 1 = (j - 1) + 1
            BY <1>2, <1>5
        <3>2. dfs[(j + 1) - 1].block \in Succs(dfs[j + 1].block)
            BY <3>1 DEF OrderInv, DfsOK
        <3>3. dfs'[j] = dfs[j + 1] /\ dfs'[j - 1] = dfs[(j + 1) - 1]
            BY <3>1, <1>8
        <3>. QED BY <3>2, <3>3, <1>1 DEF Succs
    <2>5. ASSUME NEW j \in DOMAIN dfs', NEW m \in DOMAIN succ'[dfs'[j].block],
                 m < dfs'[j].next
          PROVE  \/ succ'[dfs'[j].block][m] \in Done'
                 \/ j > 1 /\ succ'[dfs'[j].block][m] = dfs'[j - 1].block
        <3>1. j + 1 \in DOMAIN dfs /\ dfs'[j] = dfs[j + 1] /\ (j + 1) - 1 = j
            BY <1>8, <1>2, <1>5
        <3>2. succ'[dfs'[j].block][m] \in Done \/ succ'[dfs'[j].block][m] = dfs[j].block
            BY <3>1, <2>5, <1>1 DEF OrderInv, DfsOK
        <3>3. CASE j = 1
            BY <3>2, <3>3, <1>7, <1>10
        <3>4. CASE j # 1
            <4>1. j > 1 /\ j \in DOMAIN dfs
                BY <3>4, <1>2, <1>5
            <4>2. dfs'[j - 1] = dfs[j]
                BY <3>4, <4>1, <1>9
            <4>. QED BY <3>2, <4>1, <4>2, <1>7
        <3>. QED BY <3>3, <3>4
    <2>. QED BY <2>1, <2>2, <2>3, <2>4, <2>5 DEF DfsOK
<1>15. PhaseOK'
    <2>1. visited' = Done' \cup OnStack'
        BY <1>1, <1>7, <1>10, <1>11 DEF OrderInv, PhaseOK
    <2>2. dfs' # << >> => dfs'[Len(dfs')].block = Entry
        <3>. SUFFICES ASSUME dfs' # << >>
                      PROVE  dfs'[Len(dfs')].block = Entry
            OBVIOUS
        <3>1. Len(dfs') # 0
            BY <1>5, EmptySeq
        <3>2. L - 1 \in DOMAIN dfs' /\ (L - 1) + 1 = L /\ Len(dfs') = L - 1
            BY <3>1, <1>2, <1>5
        <3>3. dfs'[L - 1] = dfs[L]
            BY <3>2, <1>8
        <3>. QED BY <3>2, <3>3, <1>1 DEF OrderInv, PhaseOK, L
    <2>3. dfs' = << >> => order' # << >> /\ order'[Len(order')] = Entry
        <3>. SUFFICES ASSUME dfs' = << >>
                      PROVE  order' # << >> /\ order'[Len(order')] = Entry
            OBVIOUS
        <3>1. L = 1
            BY <1>2, <1>5
        <3>2. b = Entry
            BY <3>1, <1>1, <1>10 DEF OrderInv, PhaseOK, L
        <3>3. order' # << >>
            BY <1>3, <1>4
        <3>. QED BY <3>2, <3>3, <1>4
    <2>4. Entry' = Entry
        BY DEF Entry
    <2>. QED BY <2>1, <2>2, <2>3, <2>4, <1>1 DEF OrderInv, PhaseOK
<1>. QED BY <1>13, <1>14, <1>15 DEF OrderInv

LEMMA OtherKeeps ==
    ASSUME OrderInv, ConvertStep \/ BeginFixpoint \/ LateStep \/ UNCHANGED vars
    PROVE  OrderInv'
<1>. DOMAIN << >> = {}
    OBVIOUS
<1>1. CASE ConvertStep
    <2>1. /\ pc = "convert" /\ pc' = pc /\ order' = << >> /\ dfs' = << >> /\ visited' = {}
        BY <1>1 DEF ConvertStep, orderVars, OrderInv, PhaseOK
    <2>. QED BY <2>1 DEF OrderInv, OrderOK, DfsOK, PhaseOK, Done, OnStack
<1>2. CASE BeginFixpoint \/ LateStep \/ UNCHANGED vars
    <2>1. /\ succ' = succ /\ todo' = todo /\ order' = order /\ dfs' = dfs
          /\ (pc' = pc /\ visited' = visited) \/ (pc \notin {"convert"} /\ pc' \notin {"convert", "order"}
                                            /\ dfs = << >>)
        BY <1>2 DEF BeginFixpoint, LateStep, Numbered, vars, flowVars, orderVars, OrderInv, PhaseOK
    <2>2. Block' = Block /\ \A a : Succs(a)' = Succs(a)
        BY <2>1 DEF Block, Succs
    <2>3. OrderOK'
        BY <2>1, <2>2 DEF OrderInv, OrderOK
    <2>4. Done' = Done /\ OnStack' = OnStack
        BY <2>1 DEF Done, OnStack
    <2>5. DfsOK'
        BY <2>1, <2>2, <2>4 DEF OrderInv, DfsOK
    <2>6. PhaseOK'
        BY <2>1, <2>4 DEF OrderInv, PhaseOK, Entry
    <2>. QED BY <2>3, <2>5, <2>6 DEF OrderInv
<1>. QED BY <1>1, <1>2

LEMMA OrderInvariant == Spec => []OrderInv
<1>1. Init => OrderInv
    BY OrderInvInit
<1>2. FlowInv /\ OrderInv /\ [Next]_vars => OrderInv'
    BY Phases, StartKeeps, DescendKeeps, AscendKeeps, OtherKeeps
<1>. QED BY <1>1, <1>2, FlowAlways, PTL DEF Spec

\* The numbers, once every block has one.
LEMMA Numbers ==
    ASSUME FlowInv, OrderInv, pc # "convert", dfs = << >>
    PROVE  /\ Root \in Nat /\ Index = 0..Root /\ Len(order) = Len(succ) /\ Root < MaxBlocks
           /\ \A n \in Index : BlockAt(n) \in Block /\ IndexOf(BlockAt(n)) = n
           /\ \A b \in Block : IndexOf(b) \in Index /\ BlockAt(IndexOf(b)) = b
           /\ \A b \in Block : \E k \in DOMAIN order : order[k] = b
           /\ BlockAt(Root) = Entry
<1>1. order \in Seq(Block) /\ DOMAIN order = 1..Len(order) /\ Len(order) \in Nat
    BY Elements DEF OrderInv, OrderOK
<1>2. order # << >> /\ order[Len(order)] = Entry /\ todo = << >>
    BY DEF OrderInv, PhaseOK
<1>3. Len(order) \in Nat \ {0}
    BY <1>1, <1>2, EmptySeq
<1>4. Done = Block
    <2>1. Done \subseteq Block
        BY <1>1, Elements DEF Done
    <2>2. Entry \in Done
        BY <1>1, <1>2, <1>3 DEF Done
    <2>3. \A b \in Done : Succs(b) \subseteq Done
        BY DEF OrderInv, OrderOK, Done
    <2>4. DOMAIN todo = {}
        BY <1>2
    <2>. QED BY <2>1, <2>2, <2>3, <2>4 DEF FlowInv, Reached
<1>5. \A b \in Block : \E k \in DOMAIN order : order[k] = b
    BY <1>4 DEF Done
<1>6. /\ Block = 1..Len(succ) /\ Len(succ) \in Nat /\ Len(succ) <= MaxBlocks
      /\ MaxBlocks \in Nat
    BY FirstTask, BlocksAssumption DEF FlowInv, FlowOK
<1>7. Len(order) = Len(succ)
    <2>1. order \in Bijection(1..Len(order), Block)
        BY <1>1, <1>5 DEF Bijection, Injection, Surjection, OrderInv, OrderOK, IsInjective
    <2>2. Cardinality(Block) = Len(order)
        BY <2>1, <1>1, FS_CountingElements DEF ExistsBijection
    <2>3. Cardinality(Block) = Len(succ)
        <3>1. Len(succ) \in Nat /\ Block = 1..Len(succ)
            BY <1>6
        <3>2. Cardinality(1..Len(succ)) =
                IF 1 > Len(succ) THEN 0 ELSE Len(succ) - 1 + 1
            BY <3>1, 1 \in Int, Len(succ) \in Int, FS_Interval, Zenon
        <3>. QED BY <3>1, <3>2
    <2>. QED BY <2>2, <2>3
<1>8. Root \in Nat /\ Index = 0..Root /\ Root < MaxBlocks
    BY <1>3, <1>6, <1>7 DEF Root, Index
<1>9. \A n \in Index : n + 1 \in DOMAIN order
    BY <1>1, <1>3 DEF Index, Root
<1>10. \A n \in Index : BlockAt(n) \in Block
    BY <1>9, <1>1, Elements DEF BlockAt
<1>11. \A k \in DOMAIN order : IndexOf(order[k]) = k - 1 /\ k - 1 \in Index
    <2>. TAKE k \in DOMAIN order
    <2>1. (CHOOSE j \in DOMAIN order : order[j] = order[k]) = k
        BY DEF OrderInv, OrderOK
    <2>2. k - 1 \in Index
        BY <1>1 DEF Index, Root
    <2>. QED BY <2>1, <2>2 DEF IndexOf
<1>12. \A n \in Index : IndexOf(BlockAt(n)) = n
    <2>. TAKE n \in Index
    <2>1. (n + 1) - 1 = n
        BY <1>8
    <2>. QED BY <2>1, <1>9, <1>11 DEF BlockAt
<1>13. \A b \in Block : IndexOf(b) \in Index /\ BlockAt(IndexOf(b)) = b
    <2>. TAKE b \in Block
    <2>1. PICK k \in DOMAIN order : order[k] = b
        BY <1>5
    <2>2. (k - 1) + 1 = k
        BY <1>1
    <2>. QED BY <2>1, <2>2, <1>11 DEF BlockAt
<1>14. BlockAt(Root) = Entry
    <2>1. Root + 1 = Len(order)
        BY <1>3 DEF Root
    <2>. QED BY <2>1, <1>2 DEF BlockAt
<1>. QED BY <1>5, <1>7, <1>8, <1>10, <1>12, <1>13, <1>14

\* Transfers lead to lower numbers.
LEMMA TransfersDescend ==
    ASSUME FlowInv, OrderInv, pc # "convert", dfs = << >>
    PROVE  /\ \A b \in Block : \A s \in Succs(b) : s \in Block /\ IndexOf(s) < IndexOf(b)
           /\ \A n \in Index : Predecessors(n) \subseteq {p \in Index : p > n}
           /\ \A n \in Index \ {Root} : Predecessors(n) # {}
<1>1. ASSUME NEW b \in Block, NEW s \in Succs(b)
      PROVE  s \in Block /\ IndexOf(s) < IndexOf(b)
    <2>1. PICK k \in DOMAIN order : order[k] = b
        BY Numbers
    <2>2. PICK m \in DOMAIN order : m < k /\ order[m] = s
        BY <2>1 DEF OrderInv, OrderOK
    <2>3. DOMAIN order = 1..Len(order) /\ order \in Seq(Block) /\ Len(order) \in Nat
        BY Elements DEF OrderInv, OrderOK
    <2>4. (CHOOSE j \in DOMAIN order : order[j] = order[k]) = k
            /\ (CHOOSE j \in DOMAIN order : order[j] = order[m]) = m
        BY DEF OrderInv, OrderOK
    <2>5. IndexOf(s) = m - 1 /\ IndexOf(b) = k - 1
        BY <2>1, <2>2, <2>4 DEF IndexOf
    <2>6. s \in Block
        BY <2>2, <2>3, Elements
    <2>. QED BY <2>2, <2>3, <2>5, <2>6
<1>2. \A n \in Index : Predecessors(n) \subseteq {p \in Index : p > n}
    BY <1>1, Numbers DEF Predecessors
<1>3. ASSUME NEW n \in Index \ {Root}
      PROVE  Predecessors(n) # {}
    <2>. DEFINE S == Block \ {BlockAt(n)}
    <2>1. BlockAt(n) \in Block /\ BlockAt(n) # Entry
        BY Numbers, Root \in Index
    <2>2. todo = << >> /\ DOMAIN todo = {}
        <3>1. todo = << >>
            BY DEF OrderInv, PhaseOK
        <3>. QED BY <3>1
    <2>3. Entry \in S
        BY <2>1, Numbers, Root \in Index
    <2>4. PICK b \in S : ~ (Succs(b) \subseteq S)
        BY <2>1, <2>2, <2>3 DEF FlowInv, Reached
    <2>5. BlockAt(n) \in Succs(b)
        BY <2>4, <1>1
    <2>. QED BY <2>4, <2>5, Numbers DEF Predecessors
<1>. QED BY <1>1, <1>2, <1>3

\* The numbers that `intersect` and `lca` compare: post_order has every block once,
\* and the visit leaves a block after all that its transfers lead to.
THEOREM PostOrderIsDescending == Spec => []PostOrderDescends
<1>1. FlowInv /\ OrderInv => PostOrderDescends
    <2>. SUFFICES ASSUME FlowInv, OrderInv, pc \notin {"convert", "order"}
                  PROVE  /\ Len(order) = Len(succ)
                         /\ \A b \in Block : \E k \in DOMAIN order : order[k] = b
                         /\ \A b \in Block : \A s \in Succs(b) : IndexOf(s) < IndexOf(b)
        BY DEF PostOrderDescends
    <2>1. dfs = << >>
        BY DEF OrderInv, PhaseOK
    <2>. QED BY <2>1, Numbers, TransfersDescend
<1>. QED BY <1>1, FlowAlways, OrderInvariant, PTL

-----------------------------------------------------------------------------
(* The fixpoint ends with the immediate dominators, which it finds in one  *)
(* pass, nothing is thrown, and lca and pre_visit_blocks are right.        *)
(* AboveIn(I, D, n) are the blocks on the way up from n in a tree D.  The  *)
(* code compares numbers; what makes that right is that these sets are     *)
(* those of the dominators.                                                *)

Less == {p \in Nat \X Nat : p[1] < p[2]}

LEMMA LessWellFounded == IsWellFoundedOn(Less, Nat)
<1>1. Less = OpToRel(<, Nat)
    BY Zenon DEF OpToRel, Less
<1>. QED BY <1>1, NatLessThanWellFounded, Zenon

LEMMA LeastNumber ==
    ASSUME NEW S \in SUBSET Nat, S # {}
    PROVE  Min(S) \in S /\ \A m \in S : Min(S) <= m
<1>1. PICK m \in S : \A k \in S : <<k, m>> \notin Less
    BY LessWellFounded, WFMin, Zenon
<1>2. ASSUME NEW k \in S
      PROVE  ~ (k < m)
    <2>. DEFINE p == <<k, m>>
    <2>1. p \in Nat \X Nat /\ p[1] = k /\ p[2] = m
        OBVIOUS
    <2>2. p \notin Less
        BY <1>1
    <2>. HIDE DEF p
    <2>3. ~ (p[1] < p[2])
        BY <2>1, <2>2 DEF Less
    <2>. QED BY <2>1, <2>3
<1>3. m \in Nat /\ \A k \in S : k \in Nat
    OBVIOUS
<1>4. \A k \in S : m <= k
    BY <1>2, <1>3
<1>. QED BY <1>4 DEF Min

LEMMA GreatestNumber ==
    ASSUME NEW r \in Nat, NEW S \in SUBSET (0..r), S # {}
    PROVE  \E m \in S : \A k \in S : k <= m
<1>. DEFINE T == {r - k : k \in S}
<1>1. T \in SUBSET Nat /\ T # {}
    <2>1. \A k \in S : r - k \in Nat
        OBVIOUS
    <2>2. PICK k \in S : TRUE
        OBVIOUS
    <2>3. r - k \in T
        OBVIOUS
    <2>. QED BY <2>1, <2>3
<1>2. PICK t \in T : \A u \in T : t <= u
    <2>. HIDE DEF T
    <2>. QED BY <1>1, LeastNumber
<1>3. PICK m \in S : t = r - m
    BY <1>2
<1>4. \A k \in S : r - m <= r - k
    BY <1>2, <1>3
<1>. QED BY <1>3, <1>4

-----------------------------------------------------------------------------
(* Trees over the numbers                                                  *)

\* A tree, as far as it is known, in which parents have higher numbers.
Ascends(D) ==
    /\ D \in [Index -> Index \cup {None}] /\ D[Root] = Root
    /\ \A n \in Index \ {Root} : D[n] # None => D[n] > n

Upward(D, S) == \A m \in S : D[m] = None \/ D[m] \in S

AboveIn(I, D, n) == {a \in I : \A S \in SUBSET I : n \in S /\ Upward(D, S) => a \in S}

LEMMA AboveBounds ==
    ASSUME Root \in Nat, Index = 0..Root, NEW D, Ascends(D), NEW n \in Index
    PROVE  n \in AboveIn(Index, D, n) /\ \A a \in AboveIn(Index, D, n) : a \in Index /\ a >= n
<1>. DEFINE S == {m \in Index : m >= n}
<1>1. n \in S /\ S \in SUBSET Index
    OBVIOUS
<1>2. Upward(D, S)
    <2>. SUFFICES ASSUME NEW m \in S, D[m] # None
                  PROVE  D[m] \in S
        BY DEF Upward
    <2>1. D[m] \in Index /\ D[m] >= m
        BY NoneAssumption DEF Ascends
    <2>. QED BY <2>1
<1>. HIDE DEF S
<1>3. \A a \in AboveIn(Index, D, n) : a \in S
    BY <1>1, <1>2 DEF AboveIn
<1>. QED BY <1>3 DEF AboveIn, S

LEMMA AboveStep ==
    ASSUME NEW D, Ascends(D), NEW n \in Index, D[n] # None
    PROVE  AboveIn(Index, D, n) = {n} \cup AboveIn(Index, D, D[n]) /\ D[n] \in Index
<1>1. D[n] \in Index
    BY DEF Ascends
<1>2. ASSUME NEW a \in AboveIn(Index, D, n), a # n
      PROVE  a \in AboveIn(Index, D, D[n])
    <2>. SUFFICES ASSUME NEW S \in SUBSET Index, D[n] \in S, Upward(D, S)
                  PROVE  a \in S
        BY <1>2 DEF AboveIn
    <2>1. S \cup {n} \in SUBSET Index /\ n \in S \cup {n} /\ Upward(D, S \cup {n})
        BY DEF Upward
    <2>2. a \in S \cup {n}
        BY <2>1 DEF AboveIn
    <2>. QED BY <2>2, <1>2
<1>3. ASSUME NEW a \in AboveIn(Index, D, D[n])
      PROVE  a \in AboveIn(Index, D, n)
    <2>. SUFFICES ASSUME NEW S \in SUBSET Index, n \in S, Upward(D, S)
                  PROVE  a \in S
        BY DEF AboveIn
    <2>1. D[n] \in S
        BY DEF Upward
    <2>. QED BY <2>1 DEF AboveIn
<1>4. n \in AboveIn(Index, D, n)
    BY DEF AboveIn
<1>. QED BY <1>1, <1>2, <1>3, <1>4

LEMMA AboveDiffers ==
    ASSUME Root \in Nat, Index = 0..Root, NEW D, Ascends(D), NEW m \in Index, NEW n \in Index,
           AboveIn(Index, D, m) = AboveIn(Index, D, n)
    PROVE  m = n
<1>1. n \in AboveIn(Index, D, m) /\ m \in AboveIn(Index, D, n)
    BY AboveBounds
<1>2. n >= m /\ m >= n
    BY <1>1, AboveBounds
<1>. QED BY <1>2

\* The way up from m is the same in trees that agree from there on.
LEMMA AboveAgrees ==
    ASSUME Root \in Nat, Index = 0..Root, NEW D, NEW E, Ascends(D), Ascends(E),
           NEW l \in Index, \A x \in Index : x > l => D[x] = E[x], NEW m \in Index, m > l
    PROVE  AboveIn(Index, D, m) = AboveIn(Index, E, m)
<1>1. ASSUME NEW F, NEW G, Ascends(F), \A x \in Index : x > l => F[x] = G[x]
      PROVE  AboveIn(Index, F, m) \subseteq AboveIn(Index, G, m)
    <2>. SUFFICES ASSUME NEW a \in AboveIn(Index, F, m), NEW S \in SUBSET Index, m \in S, Upward(G, S)
                  PROVE  a \in S
        BY DEF AboveIn
    <2>. DEFINE R == {x \in S : x > l}
    <2>1. m \in R /\ R \in SUBSET Index
        OBVIOUS
    <2>2. Upward(F, R)
        <3>. SUFFICES ASSUME NEW x \in R, F[x] # None
                      PROVE  F[x] \in R
            BY DEF Upward
        <3>1. F[x] \in Index /\ F[x] >= x
            BY <1>1, NoneAssumption DEF Ascends
        <3>2. F[x] \in S
            BY <1>1 DEF Upward
        <3>. QED BY <3>1, <3>2
    <2>. HIDE DEF R
    <2>3. a \in R
        BY <2>1, <2>2 DEF AboveIn
    <2>. QED BY <2>3 DEF R
<1>2. AboveIn(Index, D, m) \subseteq AboveIn(Index, E, m)
    BY <1>1
<1>3. AboveIn(Index, E, m) \subseteq AboveIn(Index, D, m)
    BY <1>1
<1>. QED BY <1>2, <1>3

-----------------------------------------------------------------------------
(* Dominators                                                              *)

Above(n) == AboveIn(Index, doms, n)

\* What is above all of the blocks in ps.
AllAboveIn(I, D, ps) == {a \in I : \A p \in ps : a \in AboveIn(I, D, p)}
AboveAll(ps) == AllAboveIn(Index, doms, ps)

\* Above a block that has a dominator is what is above all its predecessors.
Meets ==
    \A n \in Index \ {Root} : Known(n) => Above(doms[n]) = AboveAll(Predecessors(n))

\* A finished tree is the dominance relation of the graph.
LEMMA AboveDominates ==
    ASSUME FlowInv, OrderInv, pc # "convert", dfs = << >>, Ascends(doms), Meets,
           \A n \in Index : Known(n), NEW a \in Index, NEW n \in Index
    PROVE  Dominates(BlockAt(a), BlockAt(n)) <=> a \in Above(n)
<1>1. /\ Root \in Nat /\ Index = 0..Root /\ Root \in Index /\ BlockAt(Root) = Entry
      /\ \A m \in Index : BlockAt(m) \in Block /\ IndexOf(BlockAt(m)) = m
      /\ \A b \in Block : IndexOf(b) \in Index /\ BlockAt(IndexOf(b)) = b
    BY Numbers
<1>2. \A j, k \in Index : BlockAt(j) = BlockAt(k) => j = k
    BY <1>1
<1>3. \A m \in Index : m \in Above(m) /\ \A x \in Above(m) : x \in Index /\ x >= m
    BY <1>1, AboveBounds DEF Above
<1>4. \A m \in Index \ {Root} : /\ Above(m) = {m} \cup AboveAll(Predecessors(m))
                               /\ Predecessors(m) \subseteq {p \in Index : p > m}
    BY <1>1, AboveStep, TransfersDescend DEF Above, Meets, Known
<1>5. ASSUME a \in Above(n)
      PROVE  Dominates(BlockAt(a), BlockAt(n))
    <2>. SUFFICES ASSUME a # n
                  PROVE  Dominates(BlockAt(a), BlockAt(n))
        BY DEF Dominates
    <2>. DEFINE S == {BlockAt(m) : m \in {l \in Index : a \notin Above(l) \/ l = a}}
    <2>1. S \in SUBSET Block
        BY <1>1
    <2>2. Entry \in S
        <3>1. a \notin Above(Root) \/ Root = a
            BY <1>1, <1>3
        <3>. QED BY <3>1, <1>1
    <2>3. BlockAt(n) \notin S
        BY <1>2, <1>5
    <2>4. ASSUME NEW p \in S \ {BlockAt(a)}, NEW s \in Succs(p)
          PROVE  s \in S
        <3>1. PICK m \in Index : p = BlockAt(m) /\ a \notin Above(m)
            BY <2>4
        <3>2. s \in Block
            BY <2>1, <2>4, <1>1, TransfersDescend
        <3>3. PICK k \in Index : s = BlockAt(k)
            BY <3>2, <1>1
        <3>4. m \in Predecessors(k)
            BY <3>1, <3>3, <2>4 DEF Predecessors
        <3>5. CASE a \in Above(k) /\ k # a
            <4>1. k # Root
                BY <3>4, <1>1, TransfersDescend
            <4>2. a \in AboveAll(Predecessors(k))
                BY <4>1, <3>5, <1>4
            <4>. QED BY <4>2, <3>1, <3>4 DEF AboveAll, AllAboveIn, Above
        <3>6. CASE a \notin Above(k) \/ k = a
            BY <3>6, <3>3
        <3>. QED BY <3>5, <3>6
    <2>. HIDE DEF S
    <2>. QED BY <2>1, <2>2, <2>3, <2>4 DEF Dominates
<1>6. ASSUME Dominates(BlockAt(a), BlockAt(n)), a \notin Above(n)
      PROVE  FALSE
    <2>1. a # n
        BY <1>3, <1>6
    <2>2. PICK S \in SUBSET Block :
            /\ Entry \in S /\ BlockAt(n) \notin S
            /\ \A p \in S \ {BlockAt(a)} : Succs(p) \subseteq S
        BY <2>1, <1>2, <1>6 DEF Dominates
    <2>. DEFINE T == {m \in Index : BlockAt(m) \notin S /\ a \notin Above(m)}
    <2>3. T \in SUBSET (0..Root) /\ n \in T
        BY <1>1, <1>6, <2>2
    <2>4. PICK m \in T : \A k \in T : k <= m
        <3>. HIDE DEF T
        <3>. QED BY <2>3, <1>1, GreatestNumber
    <2>5. m \in Index \ {Root}
        BY <2>2, <1>1
    <2>6. ASSUME NEW p \in Predecessors(m)
          PROVE  a \in Above(p)
        <3>1. p \in Index /\ p > m /\ BlockAt(m) \in Succs(BlockAt(p))
            BY <2>5, <2>6, <1>4 DEF Predecessors
        <3>2. p \notin T
            BY <3>1, <2>4, <1>1
        <3>3. BlockAt(p) \notin S \/ p = a
            BY <3>1, <2>2, <1>2
        <3>. QED BY <3>1, <3>2, <3>3, <1>3
    <2>7. a \in AboveAll(Predecessors(m))
        BY <2>6 DEF AboveAll, AllAboveIn, Above
    <2>. QED BY <2>5, <2>7, <1>4
<1>. QED BY <1>5, <1>6

-----------------------------------------------------------------------------
(* The inductive invariant                                                 *)

\* Before the blocks have numbers.
Early ==
    /\ doms = << >> /\ i = 0 /\ changed = FALSE /\ preds = {} /\ new_idom = None
    /\ nodes = {} /\ answer = None

\* In every later phase.  What has a dominator is what comes last in post_order.
TreeOK ==
    /\ Ascends(doms) /\ Meets
    /\ \A m, n \in Index : m > n /\ Known(n) => Known(m)
    /\ i \in Index /\ changed \in BOOLEAN
    /\ preds \subseteq Index /\ new_idom \in Index \cup {None} /\ answer \in Index \cup {None}

LoopOK == nodes = {} /\ \A n \in Index : n > i => Known(n)

\* The predecessors that have a part in new_idom; FirstPredecessor leaves the one
\* it takes in preds.
Considered == (Predecessors(i) \ preds) \cup {Min(Predecessors(i))}

BlockOK ==
    /\ i # Root /\ preds \subseteq Predecessors(i)
    /\ new_idom \in Index /\ new_idom > i

IntersectOK ==
    /\ finger \in Index \X Index /\ finger[1] > i /\ finger[2] > i
    /\ Above(finger[1]) \cap Above(finger[2]) = AboveAll(Considered)

LcaOK ==
    /\ finger \in Index \X Index /\ asked \in Index \X Index
    /\ Above(finger[1]) \cap Above(finger[2]) = Above(asked[1]) \cap Above(asked[2])

FixInv ==
    /\ pc \in {"convert", "order", "block", "predecessor", "intersect", "expand",
               "tree", "lca", "visit"}
    /\ outcome = "ok"
    /\ ~Numbered => Early
    /\ Numbered => TreeOK
    /\ pc \in {"block", "predecessor", "intersect"} => LoopOK
    /\ pc \in {"predecessor", "intersect"} => BlockOK
    /\ pc = "predecessor" => Above(new_idom) = AboveAll(Considered)
    /\ pc = "intersect" => IntersectOK
    /\ pc \in {"expand", "tree", "lca", "visit"} => \A n \in Index : Known(n)
    /\ pc = "expand" => nodes = {n \in Index : n > i}
    /\ pc \in {"tree", "lca", "visit"} => nodes = Index
    /\ pc = "lca" => LcaOK
    /\ pc \notin {"intersect", "lca"} => finger = << >>
    /\ pc # "lca" => asked = << >>

\* The activations of do_pre_visit, and the blocks whose activations have ended.
Climbing == {climb[j] : j \in DOMAIN climb}
Left == visited \ Climbing

VisitInv ==
    /\ climb \in Seq(Index) /\ seen \subseteq Block
    /\ pc # "visit" => climb = << >>
    /\ Numbered => visited \subseteq Block \cup Index
    /\ ~Numbered => seen = {}
    /\ pc = "visit" =>
        /\ visited \subseteq Index /\ Climbing \subseteq visited
        /\ \A j, k \in DOMAIN climb : j < k => climb[j] > climb[k]
        /\ seen = {BlockAt(n) : n \in Left}
        /\ \A n \in Left : Parent(n) \in Left \cup {None}

\* What holds in all late phases.
LEMMA LateFacts ==
    ASSUME FlowInv, OrderInv, FixInv, Numbered
    PROVE  /\ dfs = << >> /\ pc # "convert"
           /\ Root \in Nat /\ Root \in Index /\ Index = 0..Root /\ None \notin Index
           /\ \A n \in Index : Predecessors(n) \subseteq {p \in Index : p > n}
           /\ \A n \in Index \ {Root} : Predecessors(n) # {}
           /\ Ascends(doms) /\ Meets /\ Known(Root)
           /\ \A n \in Index : Known(n) => doms[n] \in Index /\ (n # Root => doms[n] > n)
           /\ \A n \in Index : n \in Above(n) /\ \A a \in Above(n) : a \in Index /\ a >= n
           /\ \A n \in Index : Known(n) => Above(n) = {n} \cup Above(doms[n])
<1>1. dfs = << >> /\ pc # "convert" /\ Ascends(doms) /\ Meets
    BY DEF OrderInv, PhaseOK, Numbered, FixInv, TreeOK
<1>2. Root \in Nat /\ Root \in Index /\ Index = 0..Root /\ None \notin Index
    BY <1>1, Numbers, NoneAssumption
<1>3. /\ \A n \in Index : Predecessors(n) \subseteq {p \in Index : p > n}
      /\ \A n \in Index \ {Root} : Predecessors(n) # {}
    BY <1>1, TransfersDescend
<1>4. /\ Known(Root)
      /\ \A n \in Index : Known(n) => doms[n] \in Index /\ (n # Root => doms[n] > n)
    BY <1>1, <1>2 DEF Ascends, Known
<1>5. \A n \in Index : n \in Above(n) /\ \A a \in Above(n) : a \in Index /\ a >= n
    BY <1>1, <1>2, AboveBounds DEF Above
<1>6. \A n \in Index : Known(n) => Above(n) = {n} \cup Above(doms[n])
    BY <1>1, AboveStep DEF Above, Known
<1>. QED BY <1>1, <1>2, <1>3, <1>4, <1>5, <1>6

LEMMA Frozen ==
    ASSUME succ' = succ, order' = order
    PROVE  /\ Block' = Block /\ Root' = Root /\ Index' = Index
           /\ \A n : BlockAt(n)' = BlockAt(n)
           /\ \A n : Predecessors(n)' = Predecessors(n)
           /\ i' = i => Predecessors(i)' = Predecessors(i)
<1>1. Block' = Block /\ Root' = Root
    BY DEF Block, Root
<1>2. Index' = Index
    BY <1>1 DEF Index
<1>3. /\ \A n : BlockAt(n)' = BlockAt(n)
      /\ \A n : Predecessors(n)' = Predecessors(n)
      /\ i' = i => Predecessors(i)' = Predecessors(i)
    BY <1>2 DEF BlockAt, Predecessors, Succs
<1>. QED BY <1>1, <1>2, <1>3

LEMMA SameTree ==
    ASSUME succ' = succ, order' = order, doms' = doms
    PROVE  /\ Ascends(doms)' = Ascends(doms) /\ Meets' = Meets
           /\ \A n : Known(n)' = Known(n) /\ Parent(n)' = Parent(n)
<1>1. Index' = Index /\ Root' = Root /\ \A n : Predecessors(n)' = Predecessors(n)
    BY Frozen
<1>2. Ascends(doms)' = Ascends(doms)
    BY <1>1 DEF Ascends
<1>3. Meets' = Meets
    BY <1>1 DEF Meets, Known, Above, AboveAll
<1>4. \A n : Known(n)' = Known(n) /\ Parent(n)' = Parent(n)
    BY DEF Known, Parent
<1>. QED BY <1>2, <1>3, <1>4

LEMMA FixInvInit ==
    ASSUME Init
    PROVE  FixInv
BY DEF Init, FixInv, Numbered, Early

\* The steps before the blocks have numbers.
LEMMA EarlyKeeps ==
    ASSUME FixInv, ConvertStep \/ Start \/ Descend \/ Ascend
    PROVE  FixInv'
<1>1. /\ pc \in {"convert", "order"} /\ pc' \in {"convert", "order"}
      /\ doms' = doms /\ loopVars' = loopVars /\ nodes' = nodes /\ answer' = answer
      /\ finger' = finger /\ asked' = asked /\ outcome' = outcome
    BY DEF FixInv, ConvertStep, Start, Descend, Ascend, treeVars
<1>. QED BY <1>1 DEF FixInv, Numbered, Early, loopVars

LEMMA BeginKeeps ==
    ASSUME FlowInv, OrderInv, FixInv, BeginFixpoint
    PROVE  FixInv'
<1>1. /\ pc = "order" /\ dfs = << >> /\ pc' = "block"
      /\ doms' = [n \in Index |-> IF n = Root THEN Root ELSE None]
      /\ i' = Root /\ changed' = FALSE /\ succ' = succ /\ order' = order
      /\ preds' = preds /\ new_idom' = new_idom /\ nodes' = nodes /\ answer' = answer
      /\ finger' = finger /\ asked' = asked /\ outcome' = outcome
    BY DEF BeginFixpoint, flowVars, orderVars, treeVars
<1>2. Index = 0..Root /\ Root \in Nat /\ Index' = Index /\ Root' = Root
    BY <1>1, Numbers, Frozen
<1>3. Early /\ finger = << >> /\ asked = << >> /\ outcome = "ok"
    BY <1>1 DEF FixInv, Numbered
<1>4. \A n \in Index : Known(n)' <=> n = Root
    BY <1>1, <1>2, NoneAssumption DEF Known
<1>5. Ascends(doms)'
    BY <1>1, <1>2 DEF Ascends
<1>6. Meets'
    BY <1>2, <1>4 DEF Meets
<1>7. TreeOK'
    BY <1>1, <1>2, <1>3, <1>4, <1>5, <1>6 DEF TreeOK, Early
<1>8. LoopOK'
    BY <1>1, <1>2, <1>3 DEF LoopOK, Early
<1>. QED BY <1>1, <1>3, <1>7, <1>8 DEF FixInv, Numbered

\* NextBlock goes on when every block from i on has a dominator.
LEMMA NextBlockGoesOn ==
    ASSUME Root \in Nat, Index = 0..Root, i \in Index, NEW some \in BOOLEAN, NextBlock(some),
           NEW D, \A n \in Index : n >= i => D[n] # None
    PROVE  /\ pc' \in {"block", "expand"} /\ i' \in Index /\ changed' \in BOOLEAN
           /\ \A n \in Index : n > i' => D[n] # None
           /\ pc' = "expand" => i' = Root /\ \A n \in Index : D[n] # None
<1>1. CASE i > 0
    <2>1. pc' = "block" /\ i' = i - 1 /\ changed' = some
        BY <1>1 DEF NextBlock
    <2>. QED BY <2>1, <1>1
<1>2. CASE ~ (i > 0)
    <2>1. pc' \in {"block", "expand"} /\ i' = Root /\ changed' = FALSE
        BY <1>2 DEF NextBlock
    <2>2. \A n \in Index : n >= i
        BY <1>2
    <2>3. \A n \in Index : D[n] # None
        BY <2>2
    <2>4. Root \in Index
        OBVIOUS
    <2>5. i' \in Index /\ changed' \in BOOLEAN
        BY <2>1, <2>4, Zenon
    <2>. QED BY <2>1, <2>3, <2>5
<1>. QED BY <1>1, <1>2

LEMMA SkipKeeps ==
    ASSUME FlowInv, OrderInv, FixInv, SkipBlock
    PROVE  FixInv'
<1>1. /\ pc = "block" /\ \A p \in Predecessors(i) : ~ Known(p)
      /\ NextBlock(changed) /\ succ' = succ /\ order' = order /\ doms' = doms
      /\ preds' = preds /\ new_idom' = new_idom /\ nodes' = nodes /\ answer' = answer
      /\ finger' = finger /\ asked' = asked /\ outcome' = outcome
    BY DEF SkipBlock, flowVars, orderVars, treeVars
<1>2. Numbered /\ TreeOK /\ LoopOK /\ finger = << >> /\ asked = << >> /\ outcome = "ok"
    BY <1>1 DEF FixInv, Numbered
<1>3. /\ Root \in Nat /\ Index = 0..Root /\ Known(Root)
      /\ \A n \in Index : Predecessors(n) \subseteq {p \in Index : p > n}
      /\ \A n \in Index \ {Root} : Predecessors(n) # {}
    BY <1>2, LateFacts
<1>4. i \in Index /\ changed \in BOOLEAN
    BY <1>2 DEF TreeOK
<1>5. Known(i)
    <2>1. CASE i = Root
        BY <2>1, <1>3
    <2>2. CASE i # Root
        <3>1. PICK p \in Predecessors(i) : p \in Index /\ p > i
            BY <2>2, <1>3, <1>4
        <3>. QED BY <3>1, <1>1, <1>2 DEF LoopOK
    <2>. QED BY <2>1, <2>2
<1>6. \A n \in Index : n >= i => doms[n] # None
    BY <1>2, <1>3, <1>4, <1>5 DEF LoopOK, Known
<1>7. /\ pc' \in {"block", "expand"} /\ i' \in Index /\ changed' \in BOOLEAN
      /\ \A n \in Index : n > i' => doms[n] # None
      /\ pc' = "expand" => i' = Root /\ \A n \in Index : doms[n] # None
    BY <1>1, <1>3, <1>4, <1>6, NextBlockGoesOn
<1>8. Index' = Index /\ Root' = Root
    BY <1>1, Frozen
<1>9. TreeOK'
    BY <1>1, <1>2, <1>7, <1>8, SameTree DEF TreeOK, Known
<1>10. (\A n \in Index : n > i => Known(n))' /\ nodes' = {}
    BY <1>1, <1>2, <1>7, <1>8 DEF LoopOK, Known
<1>11. pc' = "expand" => nodes' = {n \in Index' : n > i'} /\ (\A n \in Index : Known(n))'
    BY <1>1, <1>3, <1>7, <1>8, <1>10 DEF Known
<1>. QED BY <1>1, <1>2, <1>7, <1>9, <1>10, <1>11 DEF FixInv, Numbered, LoopOK

\* What is above all blocks of a set that grows by one.
LEMMA AllAboveGrows ==
    ASSUME NEW I, NEW D, NEW ps, NEW m
    PROVE  /\ AllAboveIn(I, D, {m}) = AboveIn(I, D, m)
           /\ AllAboveIn(I, D, ps \cup {m}) = AllAboveIn(I, D, ps) \cap AboveIn(I, D, m)
BY DEF AllAboveIn, AboveIn

LEMMA FirstKeeps ==
    ASSUME FlowInv, OrderInv, FixInv, FirstPredecessor
    PROVE  FixInv'
<1>. DEFINE P == Predecessors(i)
            K == {p \in P : Known(p)}
<1>1. /\ pc = "block" /\ pc' = "predecessor" /\ K # {}
      /\ new_idom' = Min(K) /\ preds' = {p \in P : p >= Min(K)}
      /\ succ' = succ /\ order' = order /\ doms' = doms /\ i' = i /\ changed' = changed
      /\ nodes' = nodes /\ answer' = answer
      /\ finger' = finger /\ asked' = asked /\ outcome' = outcome
    BY DEF FirstPredecessor, flowVars, orderVars, treeVars
<1>2. Numbered /\ TreeOK /\ LoopOK /\ finger = << >> /\ asked = << >> /\ outcome = "ok"
    BY <1>1 DEF FixInv, Numbered
<1>3. i \in Index /\ Root \in Nat /\ Index = 0..Root /\ P \subseteq {p \in Index : p > i}
    BY <1>2, LateFacts DEF TreeOK
<1>4. K = P
    BY <1>2, <1>3 DEF LoopOK
<1>5. Min(P) \in P /\ \A m \in P : Min(P) <= m
    <2>1. P \in SUBSET Nat /\ P # {}
        BY <1>1, <1>3, <1>4
    <2>. HIDE DEF P
    <2>. QED BY <2>1, LeastNumber
<1>6. /\ Index' = Index /\ Root' = Root /\ Predecessors(i)' = P
    BY <1>1, Frozen
<1>. HIDE DEF P, K
<1>7. new_idom' = Min(P) /\ preds' = P
    BY <1>1, <1>3, <1>4, <1>5
<1>8. BlockOK'
    <2>1. Min(P) \in Index /\ Min(P) > i
        BY <1>3, <1>5
    <2>2. i # Root
        BY <2>1, <1>3
    <2>. QED BY <2>1, <2>2, <1>1, <1>6, <1>7 DEF BlockOK
<1>9. Considered' = {Min(P)}
    BY <1>6, <1>7 DEF Considered
<1>10. Above(new_idom)' = AboveAll(Considered)'
    BY <1>7, <1>9, AllAboveGrows DEF Above, AboveAll
<1>11. TreeOK'
    <2>1. P \subseteq Index /\ Min(P) \in Index
        BY <1>3, <1>5
    <2>. QED BY <2>1, <1>1, <1>2, <1>6, <1>7, SameTree DEF TreeOK, Known
<1>12. LoopOK'
    BY <1>1, <1>2, <1>6 DEF LoopOK, Known
<1>. QED BY <1>1, <1>2, <1>8, <1>10, <1>11, <1>12 DEF FixInv, Numbered

LEMMA NextKeeps ==
    ASSUME FlowInv, OrderInv, FixInv, NextPredecessor
    PROVE  FixInv'
<1>. DEFINE m == Min(preds)
<1>1. /\ pc = "predecessor" /\ preds # {} /\ preds' = preds \ {m}
      /\ Known(m) => pc' = "intersect" /\ finger' = <<m, new_idom>>
      /\ succ' = succ /\ order' = order /\ doms' = doms /\ i' = i /\ changed' = changed
      /\ new_idom' = new_idom /\ nodes' = nodes /\ answer' = answer
      /\ asked' = asked /\ outcome' = outcome
    BY DEF NextPredecessor, flowVars, orderVars, treeVars
<1>2. /\ Numbered /\ TreeOK /\ LoopOK /\ BlockOK /\ asked = << >> /\ outcome = "ok"
      /\ Above(new_idom) = AboveAll(Considered)
    BY <1>1 DEF FixInv, Numbered
<1>3. /\ i \in Index /\ Root \in Nat /\ Index = 0..Root
      /\ Predecessors(i) \subseteq {p \in Index : p > i}
    BY <1>2, LateFacts DEF TreeOK
<1>4. m \in preds
    <2>1. preds \in SUBSET Nat
        BY <1>2, <1>3 DEF TreeOK
    <2>. QED BY <2>1, <1>1, LeastNumber
<1>5. m \in Predecessors(i) /\ m \in Index /\ m > i /\ Known(m)
    <2>1. m \in Predecessors(i)
        BY <1>2, <1>4 DEF BlockOK
    <2>2. m \in Index /\ m > i
        BY <2>1, <1>3
    <2>. QED BY <2>1, <2>2, <1>2 DEF LoopOK
<1>6. pc' = "intersect" /\ finger' = <<m, new_idom>>
    BY <1>1, <1>5
<1>7. /\ Index' = Index /\ Root' = Root /\ Predecessors(i)' = Predecessors(i)
    BY <1>1, Frozen
<1>. HIDE DEF m
<1>8. Considered' = Considered \cup {m}
    BY <1>1, <1>5, <1>7 DEF Considered
<1>9. BlockOK'
    BY <1>1, <1>2, <1>7 DEF BlockOK
<1>10. IntersectOK'
    <2>1. /\ Above(finger[1])' = AboveIn(Index, doms, m)
          /\ Above(finger[2])' = AboveIn(Index, doms, new_idom)
        BY <1>1, <1>6, <1>7 DEF Above
    <2>2. AboveAll(Considered)' = AllAboveIn(Index, doms, Considered \cup {m})
        BY <1>1, <1>7, <1>8 DEF AboveAll
    <2>3. AboveIn(Index, doms, new_idom) = AllAboveIn(Index, doms, Considered)
        BY <1>2 DEF Above, AboveAll
    <2>4. AllAboveIn(Index, doms, Considered \cup {m})
            = AboveIn(Index, doms, m) \cap AboveIn(Index, doms, new_idom)
        <3>1. AllAboveIn(Index, doms, Considered \cup {m})
                = AllAboveIn(Index, doms, Considered) \cap AboveIn(Index, doms, m)
            BY AllAboveGrows, Zenon
        <3>. QED BY <3>1, <2>3, Zenon
    <2>6. Above(finger[1])' \cap Above(finger[2])' = AboveAll(Considered)'
        BY <2>1, <2>2, <2>4, Zenon
    <2>5. finger' \in Index' \X Index' /\ finger'[1] > i' /\ finger'[2] > i'
        BY <1>1, <1>2, <1>5, <1>6, <1>7 DEF BlockOK
    <2>. QED BY <2>5, <2>6 DEF IntersectOK
<1>11. TreeOK'
    BY <1>1, <1>2, <1>7, SameTree DEF TreeOK, Known
<1>12. LoopOK'
    BY <1>1, <1>2, <1>7 DEF LoopOK, Known
<1>. QED BY <1>1, <1>2, <1>6, <1>9, <1>10, <1>11, <1>12 DEF FixInv, Numbered

\* A finger that goes up from the lower of two numbers passes no common block.
LEMMA FingerClimbs ==
    ASSUME FlowInv, OrderInv, FixInv, Numbered, finger \in Index \X Index, NEW j \in 1..2,
           finger[j] < finger[3 - j], Known(finger[j]),
           finger' = [finger EXCEPT ![j] = doms[@]], succ' = succ, order' = order, doms' = doms
    PROVE  /\ finger' \in Index \X Index /\ doms[finger[j]] \in Index \ {finger[j]}
           /\ finger'[1] >= finger[1] /\ finger'[2] >= finger[2]
           /\ Above(finger[1])' \cap Above(finger[2])' = Above(finger[1]) \cap Above(finger[2])
<1>1. PICK x \in Index, y \in Index : finger = <<x, y>>
    OBVIOUS
<1>2. /\ Root \in Nat /\ Index = 0..Root
      /\ \A n \in Index : Known(n) => doms[n] \in Index /\ (n # Root => doms[n] > n)
      /\ \A n \in Index : n \in Above(n) /\ \A a \in Above(n) : a \in Index /\ a >= n
      /\ \A n \in Index : Known(n) => Above(n) = {n} \cup Above(doms[n])
    BY LateFacts
<1>3. ASSUME NEW m \in Index, NEW n \in Index, m < n, Known(m)
      PROVE  doms[m] \in Index /\ doms[m] > m /\ Above(doms[m]) \cap Above(n) = Above(m) \cap Above(n)
    <2>1. doms[m] \in Index /\ doms[m] > m
        BY <1>2, <1>3
    <2>2. m \notin Above(n)
        BY <1>2, <1>3
    <2>3. Above(m) = {m} \cup Above(doms[m])
        BY <1>2, <1>3
    <2>. QED BY <2>1, <2>2, <2>3
<1>4. /\ Index' = Index
      /\ Above(finger[1])' = AboveIn(Index, doms, finger'[1])
      /\ Above(finger[2])' = AboveIn(Index, doms, finger'[2])
    <2>1. Index' = Index
        BY Frozen
    <2>. QED BY <2>1 DEF Above
<1>5. CASE j = 1
    <2>1. x < y /\ Known(x) /\ finger' = <<doms[x], y>>
        BY <1>1, <1>5
    <2>2. doms[x] \in Index /\ doms[x] > x /\ Above(doms[x]) \cap Above(y) = Above(x) \cap Above(y)
        BY <1>3, <2>1
    <2>3. /\ finger'[1] = doms[x] /\ finger'[2] = y /\ finger[1] = x /\ finger[2] = y
          /\ finger[j] = x
        BY <2>1, <1>1, <1>5
    <2>4. Above(finger[1])' \cap Above(finger[2])' = Above(finger[1]) \cap Above(finger[2])
        BY <1>4, <2>2, <2>3 DEF Above
    <2>. QED BY <1>2, <2>1, <2>2, <2>3, <2>4
<1>6. CASE j = 2
    <2>1. y < x /\ Known(y) /\ finger' = <<x, doms[y]>>
        BY <1>1, <1>6
    <2>2. doms[y] \in Index /\ doms[y] > y /\ Above(doms[y]) \cap Above(x) = Above(y) \cap Above(x)
        BY <1>3, <2>1
    <2>3. /\ finger'[1] = x /\ finger'[2] = doms[y] /\ finger[1] = x /\ finger[2] = y
          /\ finger[j] = y
        BY <2>1, <1>1, <1>6
    <2>4. Above(finger[1])' \cap Above(finger[2])' = Above(finger[1]) \cap Above(finger[2])
        BY <1>4, <2>2, <2>3 DEF Above
    <2>. QED BY <1>2, <2>1, <2>2, <2>3, <2>4
<1>. QED BY <1>5, <1>6

LEMMA MoveFingerKeeps ==
    ASSUME FlowInv, OrderInv, FixInv, NEW j \in 1..2, MoveFinger(j)
    PROVE  FixInv'
<1>1. /\ pc = "intersect" /\ pc' = pc /\ finger[j] < finger[3 - j]
      /\ Known(finger[j]) => finger' = [finger EXCEPT ![j] = doms[@]] /\ outcome' = outcome
      /\ succ' = succ /\ order' = order /\ doms' = doms /\ i' = i /\ changed' = changed
      /\ preds' = preds /\ new_idom' = new_idom /\ nodes' = nodes /\ answer' = answer
      /\ asked' = asked
    BY DEF MoveFinger, flowVars, orderVars, loopVars, treeVars
<1>2. /\ Numbered /\ TreeOK /\ LoopOK /\ BlockOK /\ IntersectOK /\ asked = << >>
      /\ outcome = "ok"
    BY <1>1 DEF FixInv, Numbered
<1>3. i \in Index /\ Root \in Nat /\ Index = 0..Root
    BY <1>2, LateFacts DEF TreeOK
<1>4. finger \in Index \X Index /\ finger[1] > i /\ finger[2] > i
    BY <1>2 DEF IntersectOK
<1>5. Known(finger[j])
    <2>1. finger[j] \in Index /\ finger[j] > i
        BY <1>4
    <2>. QED BY <2>1, <1>2 DEF LoopOK
<1>6. /\ finger' \in Index \X Index
      /\ finger'[1] >= finger[1] /\ finger'[2] >= finger[2]
      /\ Above(finger[1])' \cap Above(finger[2])' = Above(finger[1]) \cap Above(finger[2])
    BY <1>1, <1>2, <1>4, <1>5, FingerClimbs
<1>7. /\ Index' = Index /\ Root' = Root /\ Predecessors(i)' = Predecessors(i)
    BY <1>1, Frozen
<1>8. AboveAll(Considered)' = AboveAll(Considered)
    BY <1>1, <1>7 DEF AboveAll, Considered
<1>9. IntersectOK'
    <2>1. finger'[1] > i /\ finger'[2] > i
        <3>1. PICK x \in Index, y \in Index : finger' = <<x, y>>
            BY <1>6
        <3>2. finger[1] \in Index /\ finger[2] \in Index
            BY <1>4
        <3>. QED BY <3>1, <3>2, <1>3, <1>4, <1>6
    <2>. QED BY <2>1, <1>1, <1>2, <1>6, <1>7, <1>8 DEF IntersectOK
<1>10. BlockOK'
    BY <1>1, <1>2, <1>7 DEF BlockOK
<1>11. TreeOK'
    BY <1>1, <1>2, <1>7, SameTree DEF TreeOK, Known
<1>12. LoopOK'
    BY <1>1, <1>2, <1>7 DEF LoopOK, Known
<1>. QED BY <1>1, <1>2, <1>5, <1>9, <1>10, <1>11, <1>12 DEF FixInv, Numbered

LEMMA IntersectedKeeps ==
    ASSUME FlowInv, OrderInv, FixInv, Intersected
    PROVE  FixInv'
<1>1. /\ pc = "intersect" /\ pc' = "predecessor" /\ finger[1] = finger[2]
      /\ new_idom' = finger[1] /\ finger' = << >>
      /\ succ' = succ /\ order' = order /\ doms' = doms /\ i' = i /\ changed' = changed
      /\ preds' = preds /\ nodes' = nodes /\ answer' = answer
      /\ asked' = asked /\ outcome' = outcome
    BY DEF Intersected, flowVars, orderVars, treeVars
<1>2. /\ Numbered /\ TreeOK /\ LoopOK /\ BlockOK /\ IntersectOK /\ asked = << >>
      /\ outcome = "ok"
    BY <1>1 DEF FixInv, Numbered
<1>3. /\ Index' = Index /\ Root' = Root /\ Predecessors(i)' = Predecessors(i)
    BY <1>1, Frozen
<1>4. finger[1] \in Index /\ finger[1] > i
    BY <1>2 DEF IntersectOK
<1>5. AboveAll(Considered)' = AboveAll(Considered)
    BY <1>1, <1>3 DEF AboveAll, Considered
<1>6. Above(new_idom)' = AboveAll(Considered)'
    <2>1. Above(finger[1]) = AboveAll(Considered)
        BY <1>1, <1>2 DEF IntersectOK
    <2>2. Above(new_idom)' = Above(finger[1])
        BY <1>1, <1>3 DEF Above
    <2>. QED BY <2>1, <2>2, <1>5
<1>7. BlockOK'
    BY <1>1, <1>2, <1>3, <1>4 DEF BlockOK
<1>8. TreeOK'
    BY <1>1, <1>2, <1>3, <1>4, SameTree DEF TreeOK, Known
<1>9. LoopOK'
    BY <1>1, <1>2, <1>3 DEF LoopOK, Known
<1>. QED BY <1>1, <1>2, <1>6, <1>7, <1>8, <1>9 DEF FixInv, Numbered

-----------------------------------------------------------------------------
(* The finished tree                                                       *)

LEMMA AskKeeps ==
    ASSUME FlowInv, OrderInv, FixInv, NEW n1 \in nodes, NEW n2 \in nodes, Ask(n1, n2)
    PROVE  FixInv'
<1>1. /\ pc = "tree" /\ pc' = "lca" /\ finger' = <<n1, n2>> /\ asked' = <<n1, n2>>
      /\ succ' = succ /\ order' = order /\ doms' = doms /\ i' = i /\ changed' = changed
      /\ preds' = preds /\ new_idom' = new_idom /\ nodes' = nodes /\ answer' = answer
      /\ outcome' = outcome
    BY DEF Ask, flowVars, orderVars, loopVars
<1>2. /\ Numbered /\ TreeOK /\ nodes = Index /\ outcome = "ok" /\ \A n \in Index : Known(n)
    BY <1>1 DEF FixInv, Numbered
<1>3. Index' = Index /\ Root' = Root
    BY <1>1, Frozen
<1>4. LcaOK'
    BY <1>1, <1>2, <1>3 DEF LcaOK
<1>5. TreeOK' /\ (\A n \in Index : Known(n))'
    BY <1>1, <1>2, <1>3, SameTree DEF TreeOK, Known
<1>. QED BY <1>1, <1>2, <1>3, <1>4, <1>5 DEF FixInv, Numbered

LEMMA MoveNodeKeeps ==
    ASSUME FlowInv, OrderInv, FixInv, NEW j \in 1..2, MoveNode(j)
    PROVE  FixInv'
<1>1. /\ pc = "lca" /\ pc' = pc /\ finger[j] < finger[3 - j]
      /\ Parent(finger[j]) # None =>
            finger' = [finger EXCEPT ![j] = Parent(finger[j])] /\ outcome' = outcome
      /\ succ' = succ /\ order' = order /\ doms' = doms /\ i' = i /\ changed' = changed
      /\ preds' = preds /\ new_idom' = new_idom /\ nodes' = nodes /\ answer' = answer
      /\ asked' = asked
    BY DEF MoveNode, flowVars, orderVars, loopVars
<1>2. /\ Numbered /\ TreeOK /\ LcaOK /\ nodes = Index /\ outcome = "ok"
      /\ \A n \in Index : Known(n)
    BY <1>1 DEF FixInv, Numbered
<1>3. finger \in Index \X Index /\ finger[j] \in Index /\ finger[3 - j] \in Index
    BY <1>2 DEF LcaOK
<1>4. Parent(finger[j]) # None /\ Parent(finger[j]) = doms[finger[j]]
    <2>1. /\ Root \in Nat /\ Index = 0..Root /\ None \notin Index
          /\ \A n \in Index : Known(n) => doms[n] \in Index /\ (n # Root => doms[n] > n)
        BY <1>2, LateFacts
    <2>2. finger[j] # Root
        BY <1>1, <1>3, <2>1
    <2>3. doms[finger[j]] \in Index /\ doms[finger[j]] # finger[j]
        BY <1>2, <1>3, <2>1, <2>2
    <2>. QED BY <2>1, <2>3 DEF Parent
<1>5. finger' = [finger EXCEPT ![j] = doms[@]] /\ outcome' = outcome
    BY <1>1, <1>4
<1>6. /\ finger' \in Index \X Index
      /\ Above(finger[1])' \cap Above(finger[2])' = Above(finger[1]) \cap Above(finger[2])
    BY <1>1, <1>2, <1>3, <1>5, FingerClimbs
<1>7. Index' = Index /\ Root' = Root
    BY <1>1, Frozen
<1>8. LcaOK'
    <2>1. Above(asked[1])' = Above(asked[1]) /\ Above(asked[2])' = Above(asked[2])
        BY <1>1, <1>7 DEF Above
    <2>. QED BY <2>1, <1>1, <1>2, <1>6, <1>7 DEF LcaOK
<1>9. TreeOK' /\ (\A n \in Index : Known(n))'
    BY <1>1, <1>2, <1>7, SameTree DEF TreeOK, Known
<1>. QED BY <1>1, <1>2, <1>5, <1>7, <1>8, <1>9 DEF FixInv, Numbered

LEMMA MetKeeps ==
    ASSUME FlowInv, OrderInv, FixInv, Met
    PROVE  FixInv'
<1>1. /\ pc = "lca" /\ pc' = "tree" /\ finger' = << >> /\ asked' = << >>
      /\ answer' = asked[1]
      /\ succ' = succ /\ order' = order /\ doms' = doms /\ i' = i /\ changed' = changed
      /\ preds' = preds /\ new_idom' = new_idom /\ nodes' = nodes /\ outcome' = outcome
    BY DEF Met, flowVars, orderVars, loopVars
<1>2. /\ Numbered /\ TreeOK /\ nodes = Index /\ outcome = "ok" /\ \A n \in Index : Known(n)
      /\ asked[1] \in Index
    BY <1>1 DEF FixInv, Numbered, LcaOK
<1>3. Index' = Index /\ Root' = Root
    BY <1>1, Frozen
<1>4. TreeOK' /\ (\A n \in Index : Known(n))'
    BY <1>1, <1>2, <1>3, SameTree DEF TreeOK, Known
<1>. QED BY <1>1, <1>2, <1>3, <1>4 DEF FixInv, Numbered

\* The visit changes nothing that is above.
LEMMA VisitKeepsTree ==
    ASSUME FlowInv, OrderInv, FixInv,
           BeginVisit \/ (\E n \in nodes : NextNode(n)) \/ ClimbToParent \/ Emit \/ EndVisit
    PROVE  FixInv'
<1>1. /\ pc \in {"tree", "visit"} /\ pc' \in {"tree", "visit"} /\ finger' = finger
      /\ succ' = succ /\ order' = order /\ doms' = doms /\ i' = i /\ changed' = changed
      /\ preds' = preds /\ new_idom' = new_idom /\ nodes' = nodes /\ answer' = answer
      /\ asked' = asked /\ outcome' = outcome
    BY DEF BeginVisit, NextNode, ClimbToParent, Emit, EndVisit, flowVars, orderVars, loopVars,
           treeVars
<1>2. /\ Numbered /\ TreeOK /\ nodes = Index /\ outcome = "ok" /\ \A n \in Index : Known(n)
      /\ finger = << >> /\ asked = << >>
    BY <1>1 DEF FixInv, Numbered
<1>3. Index' = Index /\ Root' = Root
    BY <1>1, Frozen
<1>4. TreeOK' /\ (\A n \in Index : Known(n))'
    BY <1>1, <1>2, <1>3, SameTree DEF TreeOK, Known
<1>. QED BY <1>1, <1>2, <1>3, <1>4 DEF FixInv, Numbered

-----------------------------------------------------------------------------
(* The dominator of a block                                                *)

\* The dominator that is set is the one the block has, or the block is the next of
\* those that have none.
LEMMA SetsOnce ==
    ASSUME FlowInv, OrderInv, FixInv, SetDominator
    PROVE  /\ succ' = succ /\ order' = order
           /\ doms' = doms \/ ~ Known(i)
           /\ i \in DOMAIN doms /\ doms' = [doms EXCEPT ![i] = new_idom]
           /\ Ascends(doms') /\ Meets'
           /\ \A m, n \in Index : m > n /\ doms'[n] # None => doms'[m] # None
           /\ \A n \in Index : n >= i => doms'[n] # None
<1>1. /\ pc = "predecessor" /\ preds = {} /\ doms' = [doms EXCEPT ![i] = new_idom]
      /\ succ' = succ /\ order' = order
    BY DEF SetDominator, flowVars, orderVars
<1>2. /\ Numbered /\ TreeOK /\ LoopOK /\ BlockOK
      /\ Above(new_idom) = AboveAll(Considered)
    BY <1>1 DEF FixInv, Numbered
<1>3. /\ i \in Index \ {Root} /\ new_idom \in Index /\ new_idom > i
      /\ \A n \in Index : n > i => doms[n] # None
      /\ \A m, n \in Index : m > n /\ doms[n] # None => doms[m] # None
    BY <1>2 DEF TreeOK, BlockOK, LoopOK, Known
<1>4. /\ Root \in Nat /\ Root \in Index /\ Index = 0..Root /\ None \notin Index
      /\ \A n \in Index : Predecessors(n) \subseteq {p \in Index : p > n}
      /\ \A n \in Index \ {Root} : Predecessors(n) # {}
      /\ Ascends(doms) /\ Meets
    BY <1>2, LateFacts
<1>5. doms \in [Index -> Index \cup {None}] /\ i \in DOMAIN doms
    BY <1>3, <1>4 DEF Ascends
<1>6. Above(new_idom) = AboveAll(Predecessors(i))
    <2>. DEFINE P == Predecessors(i)
    <2>1. P \in SUBSET Nat /\ P # {}
        BY <1>3, <1>4
    <2>2. Min(P) \in P
        <3>. HIDE DEF P
        <3>. QED BY <2>1, LeastNumber
    <2>3. Considered = P
        BY <1>1, <2>2 DEF Considered
    <2>. QED BY <1>2, <2>3
<1>7. /\ Index' = Index /\ Root' = Root /\ \A n : Predecessors(n)' = Predecessors(n)
    BY <1>1, Frozen
<1>8. CASE Known(i)
    <2>1. Above(doms[i]) = Above(new_idom)
        BY <1>3, <1>4, <1>6, <1>8 DEF Meets
    <2>2. doms[i] \in Index
        BY <1>3, <1>5, <1>8 DEF Known
    <2>3. doms[i] = new_idom
        BY <2>1, <2>2, <1>3, <1>4, AboveDiffers DEF Above
    <2>4. doms' = doms
        BY <2>3, <1>1, <1>5
    <2>5. Ascends(doms') /\ Meets'
        BY <2>4, <1>1, <1>4, SameTree
    <2>6. \A n \in Index : n >= i => doms'[n] # None
        BY <2>4, <1>3, <1>4, <1>8 DEF Known
    <2>. QED BY <1>1, <1>3, <1>5, <2>4, <2>5, <2>6
<1>9. CASE ~ Known(i)
    <2>1. /\ doms' \in [Index -> Index \cup {None}] /\ doms'[i] = new_idom
          /\ \A n \in Index : n # i => doms'[n] = doms[n]
        BY <1>1, <1>3, <1>5
    <2>2. \A n \in Index : n < i => doms'[n] = None
        BY <2>1, <1>3, <1>4, <1>9 DEF Known
    <2>3. \A n \in Index : n >= i => doms'[n] # None
        BY <2>1, <1>3, <1>4
    <2>4. \A m, n \in Index : m > n /\ doms'[n] # None => doms'[m] # None
        BY <2>2, <2>3, <1>3, <1>4
    <2>5. Ascends(doms')
        BY <2>1, <1>3, <1>4 DEF Ascends
    <2>6. \A m \in Index : m > i => AboveIn(Index, doms', m) = AboveIn(Index, doms, m)
        <3>1. \A x \in Index : x > i => doms[x] = doms'[x]
            BY <2>1, <1>4
        <3>. QED BY <3>1, <2>5, <1>3, <1>4, AboveAgrees
    <2>7. \A n \in Index : n >= i =>
            AllAboveIn(Index, doms', Predecessors(n)) = AllAboveIn(Index, doms, Predecessors(n))
        <3>. SUFFICES ASSUME NEW n \in Index, n >= i
                      PROVE  AllAboveIn(Index, doms', Predecessors(n))
                                = AllAboveIn(Index, doms, Predecessors(n))
            OBVIOUS
        <3>1. \A p \in Predecessors(n) : p \in Index /\ p > i
            BY <1>3, <1>4
        <3>2. \A p \in Predecessors(n) : AboveIn(Index, doms', p) = AboveIn(Index, doms, p)
            BY <3>1, <2>6
        <3>. QED BY <3>2 DEF AllAboveIn
    <2>8. ASSUME NEW n \in Index \ {Root}, doms'[n] # None
          PROVE  AboveIn(Index, doms', doms'[n]) = AllAboveIn(Index, doms', Predecessors(n))
        <3>1. n >= i
            BY <2>2, <2>8, <1>3, <1>4
        <3>2. CASE n = i
            <4>1. AboveIn(Index, doms', new_idom) = AboveIn(Index, doms, new_idom)
                BY <2>6, <1>3
            <4>. QED BY <4>1, <3>1, <3>2, <2>1, <2>7, <1>6 DEF Above, AboveAll
        <3>3. CASE n # i
            <4>1. doms'[n] = doms[n] /\ Known(n)
                BY <3>3, <2>1, <2>8 DEF Known
            <4>2. AboveIn(Index, doms, doms[n]) = AllAboveIn(Index, doms, Predecessors(n))
                BY <4>1, <1>4 DEF Meets, Above, AboveAll
            <4>3. doms[n] \in Index /\ doms[n] > i
                BY <4>1, <3>1, <1>3, <1>4 DEF Ascends, Known
            <4>4. AboveIn(Index, doms', doms[n]) = AboveIn(Index, doms, doms[n])
                BY <4>3, <2>6
            <4>. QED BY <4>1, <4>2, <4>4, <3>1, <2>7
        <3>. QED BY <3>2, <3>3
    <2>9. Meets'
        BY <2>8, <1>7 DEF Meets, Known, Above, AboveAll
    <2>. QED BY <1>1, <1>5, <1>9, <2>3, <2>4, <2>5, <2>9
<1>. QED BY <1>8, <1>9

LEMMA SetKeeps ==
    ASSUME FlowInv, OrderInv, FixInv, SetDominator
    PROVE  FixInv'
<1>1. /\ pc = "predecessor" /\ NextBlock(changed \/ doms[i] # new_idom)
      /\ preds' = preds /\ new_idom' = new_idom /\ nodes' = nodes /\ answer' = answer
      /\ finger' = finger /\ asked' = asked /\ outcome' = outcome
    BY DEF SetDominator, flowVars, orderVars, treeVars
<1>2. /\ succ' = succ /\ order' = order /\ Ascends(doms') /\ Meets'
      /\ \A m, n \in Index : m > n /\ doms'[n] # None => doms'[m] # None
      /\ \A n \in Index : n >= i => doms'[n] # None
    BY SetsOnce
<1>3. Numbered /\ TreeOK /\ LoopOK /\ finger = << >> /\ asked = << >> /\ outcome = "ok"
    BY <1>1 DEF FixInv, Numbered
<1>4. Root \in Nat /\ Index = 0..Root /\ i \in Index /\ changed \in BOOLEAN
    BY <1>3, LateFacts DEF TreeOK
<1>5. /\ pc' \in {"block", "expand"} /\ i' \in Index /\ changed' \in BOOLEAN
      /\ \A n \in Index : n > i' => doms'[n] # None
      /\ pc' = "expand" => i' = Root /\ \A n \in Index : doms'[n] # None
    <2>1. (changed \/ doms[i] # new_idom) \in BOOLEAN
        BY <1>4
    <2>. QED BY <2>1, <1>1, <1>2, <1>4, NextBlockGoesOn
<1>6. Index' = Index /\ Root' = Root
    BY <1>2, Frozen
<1>7. Ascends(doms)'
    BY <1>2, <1>6 DEF Ascends
<1>8. TreeOK'
    BY <1>1, <1>2, <1>3, <1>5, <1>6, <1>7 DEF TreeOK, Known
<1>9. (\A n \in Index : n > i => Known(n))' /\ nodes' = {}
    BY <1>1, <1>3, <1>5, <1>6 DEF LoopOK, Known
<1>10. pc' = "expand" => nodes' = {n \in Index' : n > i'} /\ (\A n \in Index : Known(n))'
    BY <1>1, <1>4, <1>5, <1>6, <1>9 DEF Known
<1>. QED BY <1>1, <1>3, <1>5, <1>8, <1>9, <1>10 DEF FixInv, Numbered, LoopOK

\* A node is added after that of its dominator, whose number is higher.
LEMMA AddNodeKeeps ==
    ASSUME FlowInv, OrderInv, FixInv, AddNode
    PROVE  FixInv'
<1>1. /\ pc = "expand" /\ succ' = succ /\ order' = order /\ doms' = doms
      /\ changed' = changed /\ preds' = preds /\ new_idom' = new_idom /\ answer' = answer
      /\ finger' = finger /\ asked' = asked
    BY DEF AddNode, flowVars, orderVars
<1>2. /\ Numbered /\ TreeOK /\ finger = << >> /\ asked = << >> /\ outcome = "ok"
      /\ nodes = {n \in Index : n > i} /\ \A n \in Index : Known(n)
    BY <1>1 DEF FixInv, Numbered
<1>3. /\ Root \in Nat /\ Index = 0..Root /\ i \in Index /\ Known(i)
      /\ doms[i] \in Index /\ (i # Root => doms[i] > i) /\ Ascends(doms)
    BY <1>2, LateFacts DEF TreeOK
<1>4. ~ (doms[i] # i /\ doms[i] \notin nodes)
    <2>1. CASE i = Root
        BY <2>1, <1>3 DEF Ascends
    <2>2. CASE i # Root
        BY <2>2, <1>2, <1>3
    <2>. QED BY <2>1, <2>2
<1>5. /\ nodes' = nodes \cup {i} /\ outcome' = outcome
      /\ IF i > 0 THEN i' = i - 1 /\ pc' = pc ELSE pc' = "tree" /\ i' = i
    BY <1>3, <1>4 DEF AddNode
<1>6. Index' = Index /\ Root' = Root
    BY <1>1, Frozen
<1>7. /\ i' \in Index /\ pc' \in {"expand", "tree"}
      /\ pc' = "expand" => nodes' = {n \in Index : n > i'}
      /\ pc' = "tree" => nodes' = Index
    <2>1. CASE i > 0
        BY <2>1, <1>1, <1>2, <1>3, <1>5
    <2>2. CASE ~ (i > 0)
        <3>1. i' = i /\ pc' = "tree"
            BY <2>2, <1>5
        <3>2. nodes' = {n \in Index : n > i} \cup {i}
            BY <1>2, <1>5
        <3>3. i = 0
            BY <2>2, <1>3
        <3>4. nodes' = Index
            BY <3>2, <3>3, <1>3
        <3>. QED BY <3>1, <3>4, <1>3
    <2>. QED BY <2>1, <2>2
<1>8. TreeOK' /\ (\A n \in Index : Known(n))'
    BY <1>1, <1>2, <1>6, <1>7, SameTree DEF TreeOK, Known
<1>. QED BY <1>1, <1>2, <1>5, <1>6, <1>7, <1>8 DEF FixInv, Numbered

LEMMA FixInvKept ==
    ASSUME FlowInv, OrderInv, FixInv, [Next]_vars
    PROVE  FixInv'
<1>1. CASE ConvertStep \/ Start \/ Descend \/ Ascend
    BY <1>1, EarlyKeeps
<1>2. CASE BeginFixpoint
    BY <1>2, BeginKeeps
<1>3. CASE SkipBlock
    BY <1>3, SkipKeeps
<1>4. CASE FirstPredecessor
    BY <1>4, FirstKeeps
<1>5. CASE NextPredecessor
    BY <1>5, NextKeeps
<1>6. CASE \E j \in 1..2 : MoveFinger(j)
    BY <1>6, MoveFingerKeeps
<1>7. CASE Intersected
    BY <1>7, IntersectedKeeps
<1>8. CASE SetDominator
    BY <1>8, SetKeeps
<1>9. CASE AddNode
    BY <1>9, AddNodeKeeps
<1>10. CASE \E j \in 1..2 : MoveNode(j)
    BY <1>10, MoveNodeKeeps
<1>11. CASE Met
    BY <1>11, MetKeeps
<1>12. CASE \E n1, n2 \in nodes : Ask(n1, n2)
    BY <1>12, AskKeeps
<1>13. CASE BeginVisit \/ (\E n \in nodes : NextNode(n)) \/ ClimbToParent \/ Emit \/ EndVisit
    BY <1>13, VisitKeepsTree
<1>14. CASE vars' = vars
    <2>1. /\ pc' = pc /\ succ' = succ /\ order' = order /\ doms' = doms /\ i' = i
          /\ changed' = changed /\ preds' = preds /\ new_idom' = new_idom
          /\ nodes' = nodes /\ answer' = answer /\ finger' = finger /\ asked' = asked
          /\ outcome' = outcome
        BY <1>14 DEF vars, flowVars, orderVars, loopVars, treeVars
    <2>2. Index' = Index /\ Root' = Root /\ Predecessors(i)' = Predecessors(i)
        BY <2>1, Frozen
    <2>3. TreeOK' = TreeOK /\ LoopOK' = LoopOK /\ BlockOK' = BlockOK
        BY <2>1, <2>2, SameTree DEF TreeOK, LoopOK, BlockOK, Known
    <2>4. Considered' = Considered
        BY <2>1, <2>2 DEF Considered
    <2>5. IntersectOK' = IntersectOK /\ LcaOK' = LcaOK
        BY <2>1, <2>2, <2>4 DEF IntersectOK, LcaOK, Above, AboveAll
    <2>6. (Above(new_idom) = AboveAll(Considered))' = (Above(new_idom) = AboveAll(Considered))
        BY <2>1, <2>2, <2>4 DEF Above, AboveAll
    <2>. QED BY <2>1, <2>2, <2>3, <2>5, <2>6 DEF FixInv, Numbered, Early, Known
<1>. QED BY <1>1, <1>2, <1>3, <1>4, <1>5, <1>6, <1>7, <1>8, <1>9, <1>10, <1>11, <1>12,
            <1>13, <1>14 DEF Next, Work, Use

LEMMA FixInvariant == Spec => []FixInv
<1>1. Init => FixInv
    BY FixInvInit
<1>2. FlowInv /\ OrderInv /\ FixInv /\ [Next]_vars => FixInv'
    BY FixInvKept
<1>. QED BY <1>1, <1>2, FlowAlways, OrderInvariant, PTL DEF Spec

-----------------------------------------------------------------------------
(* The visit                                                               *)

LEMMA VisitInvInit ==
    ASSUME Init
    PROVE  VisitInv
<1>. << >> \in Seq(Index)
    OBVIOUS
<1>. QED BY DEF Init, VisitInv, Numbered

\* The steps outside of the visit.
LEMMA OutsideVisit ==
    ASSUME OrderInv, VisitInv, pc # "visit", pc' # "visit",
           \/ ConvertStep \/ Start \/ Descend \/ Ascend \/ BeginFixpoint
           \/ (LateStep /\ visited' = visited),
           climb' = climb, seen' = seen
    PROVE  VisitInv'
<1>1. climb' = << >> /\ climb' \in Seq(Index')
    BY DEF VisitInv
<1>2. CASE ConvertStep \/ Start \/ Descend \/ Ascend
    <2>1. ~ Numbered /\ ~ Numbered'
        BY <1>2 DEF ConvertStep, Start, Descend, Ascend, Numbered
    <2>. QED BY <1>1, <2>1 DEF VisitInv
<1>3. CASE BeginFixpoint
    <2>1. pc = "order" /\ dfs = << >> /\ visited' = visited /\ succ' = succ
        BY <1>3 DEF BeginFixpoint, flowVars
    <2>2. visited = Done /\ order \in Seq(Block)
        <3>1. DOMAIN dfs = {}
            BY <2>1
        <3>. QED BY <2>1, <3>1 DEF OrderInv, PhaseOK, OrderOK, OnStack
    <2>3. visited' \subseteq Block'
        BY <2>1, <2>2, Elements DEF Done, Block
    <2>4. seen = {}
        BY <2>1 DEF VisitInv, Numbered
    <2>. QED BY <1>1, <2>3, <2>4 DEF VisitInv
<1>4. CASE LateStep /\ visited' = visited
    <2>1. succ' = succ /\ order' = order /\ Numbered /\ Numbered'
        BY <1>4 DEF LateStep, flowVars, orderVars
    <2>2. Block' = Block /\ Index' = Index
        BY <2>1, Frozen
    <2>. QED BY <1>1, <1>4, <2>1, <2>2 DEF VisitInv
<1>. QED BY <1>2, <1>3, <1>4

\* The innermost activation has the greatest of the numbers.
LEMMA ClimbFacts ==
    ASSUME FlowInv, OrderInv, FixInv, VisitInv, pc = "visit", climb # << >>
    PROVE  /\ Len(climb) \in Nat \ {0} /\ DOMAIN climb = 1..Len(climb) /\ Head(climb) = climb[1]
           /\ \A j \in DOMAIN climb : climb[j] \in Index
           /\ \A j \in DOMAIN climb : j # 1 => climb[j] < Head(climb)
           /\ Head(climb) \in Climbing /\ Climbing \subseteq Index
           /\ \A n \in Index : Parent(n) # None => Parent(n) \in Index /\ Parent(n) > n
<1>1. /\ climb \in Seq(Index) /\ Climbing \subseteq visited /\ visited \subseteq Index
      /\ \A j, k \in DOMAIN climb : j < k => climb[j] > climb[k]
    BY DEF VisitInv
<1>2. /\ Len(climb) \in Nat \ {0} /\ DOMAIN climb = 1..Len(climb) /\ Head(climb) = climb[1]
    BY <1>1, EmptySeq, Elements
<1>3. \A j \in DOMAIN climb : climb[j] \in Index
    BY <1>1, Elements
<1>4. /\ Root \in Nat /\ Index = 0..Root /\ Ascends(doms)
      /\ \A n \in Index : Known(n) => doms[n] \in Index /\ (n # Root => doms[n] > n)
      /\ \A n \in Index : Known(n)
    BY LateFacts DEF Numbered, FixInv
<1>5. \A j \in DOMAIN climb : j # 1 => climb[j] < Head(climb)
    BY <1>1, <1>2, <1>3, <1>4
<1>6. Head(climb) \in Climbing
    BY <1>2 DEF Climbing
<1>7. \A n \in Index : Parent(n) # None => Parent(n) \in Index /\ Parent(n) > n
    BY <1>4 DEF Parent, Ascends
<1>. QED BY <1>1, <1>2, <1>3, <1>5, <1>6, <1>7

LEMMA NextNodeKeeps ==
    ASSUME FlowInv, OrderInv, FixInv, VisitInv, NEW n \in nodes, NextNode(n)
    PROVE  VisitInv'
<1>1. /\ pc = "visit" /\ pc' = pc /\ climb = << >> /\ n \notin visited
      /\ climb' = <<n>> /\ visited' = visited \cup {n} /\ seen' = seen
      /\ succ' = succ /\ order' = order /\ doms' = doms
    BY DEF NextNode, flowVars, orderVars
<1>2. n \in Index
    BY <1>1 DEF FixInv
<1>3. Block' = Block /\ Index' = Index /\ \A m : BlockAt(m)' = BlockAt(m) /\ Parent(m)' = Parent(m)
    BY <1>1, Frozen, SameTree
<1>4. Climbing = {} /\ Climbing' = {n} /\ DOMAIN climb' = {1} /\ climb' \in Seq(Index)
    <2>1. DOMAIN climb = {} /\ DOMAIN climb' = {1} /\ climb'[1] = n /\ climb' \in Seq(Index)
        BY <1>1, <1>2
    <2>. QED BY <2>1 DEF Climbing
<1>5. Left' = Left
    BY <1>1, <1>4 DEF Left
<1>6. \A j, k \in DOMAIN climb' : j < k => climb'[j] > climb'[k]
    BY <1>4
<1>. QED BY <1>1, <1>2, <1>3, <1>4, <1>5, <1>6 DEF VisitInv, Numbered

LEMMA ClimbKeeps ==
    ASSUME FlowInv, OrderInv, FixInv, VisitInv, ClimbToParent
    PROVE  VisitInv'
<1>. DEFINE p == Parent(Head(climb))
<1>1. /\ pc = "visit" /\ pc' = pc /\ climb # << >> /\ p \notin visited \cup {None}
      /\ climb' = <<p>> \o climb /\ visited' = visited \cup {p} /\ seen' = seen
      /\ succ' = succ /\ order' = order /\ doms' = doms
    BY DEF ClimbToParent, flowVars, orderVars
<1>2. /\ Len(climb) \in Nat \ {0} /\ DOMAIN climb = 1..Len(climb) /\ Head(climb) = climb[1]
      /\ \A j \in DOMAIN climb : climb[j] \in Index
      /\ \A j \in DOMAIN climb : j # 1 => climb[j] < Head(climb)
      /\ \A n \in Index : Parent(n) # None => Parent(n) \in Index /\ Parent(n) > n
    BY <1>1, ClimbFacts
<1>3. p \in Index /\ \A j \in DOMAIN climb : climb[j] < p
    <2>1. Head(climb) \in Index
        BY <1>2
    <2>2. p \in Index /\ p > Head(climb)
        BY <2>1, <1>1, <1>2
    <2>3. Root \in Nat /\ Index = 0..Root
        BY <1>1, LateFacts DEF Numbered
    <2>. HIDE DEF p
    <2>. QED BY <2>1, <2>2, <2>3, <1>2
<1>4. Block' = Block /\ Index' = Index /\ \A m : BlockAt(m)' = BlockAt(m) /\ Parent(m)' = Parent(m)
    BY <1>1, Frozen, SameTree
<1>. HIDE DEF p
<1>5. /\ climb' \in Seq(Index) /\ Len(climb') = Len(climb) + 1 /\ climb'[1] = p
      /\ \A j \in 1..Len(climb) : climb'[j + 1] = climb[j]
    BY <1>1, <1>3, Pushed DEF VisitInv
<1>6. DOMAIN climb' = 1..(Len(climb) + 1)
    BY <1>5, Elements
<1>7. \A j \in DOMAIN climb' : j # 1 => j - 1 \in DOMAIN climb /\ climb'[j] = climb[j - 1]
    <2>. SUFFICES ASSUME NEW j \in DOMAIN climb', j # 1
                  PROVE  j - 1 \in DOMAIN climb /\ climb'[j] = climb[j - 1]
        OBVIOUS
    <2>1. j - 1 \in 1..Len(climb) /\ (j - 1) + 1 = j
        BY <1>2, <1>6
    <2>. QED BY <2>1, <1>2, <1>5
<1>8. Climbing' = Climbing \cup {p}
    <2>1. \A j \in DOMAIN climb : j + 1 \in DOMAIN climb' /\ climb'[j + 1] = climb[j]
        BY <1>2, <1>5, <1>6
    <2>2. 1 \in DOMAIN climb'
        BY <1>2, <1>6
    <2>3. \A j \in DOMAIN climb' : climb'[j] \in Climbing \cup {p}
        BY <1>5, <1>7 DEF Climbing
    <2>4. Climbing \subseteq Climbing' /\ p \in Climbing'
        BY <2>1, <2>2, <1>5 DEF Climbing
    <2>5. Climbing' \subseteq Climbing \cup {p}
        BY <2>3 DEF Climbing
    <2>. QED BY <2>4, <2>5
<1>9. Left' = Left
    BY <1>1, <1>8 DEF Left
<1>10. \A j, k \in DOMAIN climb' : j < k => climb'[j] > climb'[k]
    <2>. SUFFICES ASSUME NEW j \in DOMAIN climb', NEW k \in DOMAIN climb', j < k
                  PROVE  climb'[j] > climb'[k]
        OBVIOUS
    <2>1. k # 1
        BY <1>6
    <2>2. k - 1 \in DOMAIN climb /\ climb'[k] = climb[k - 1]
        BY <2>1, <1>7
    <2>3. CASE j = 1
        BY <2>2, <2>3, <1>3, <1>5
    <2>4. CASE j # 1
        <3>1. j - 1 \in DOMAIN climb /\ climb'[j] = climb[j - 1]
            BY <2>4, <1>7
        <3>2. j - 1 < k - 1
            BY <1>6
        <3>. QED BY <3>1, <3>2, <2>2, <1>1 DEF VisitInv
    <2>. QED BY <2>3, <2>4
<1>. QED BY <1>1, <1>3, <1>4, <1>5, <1>8, <1>9, <1>10 DEF VisitInv, Numbered

LEMMA EmitKeeps ==
    ASSUME FlowInv, OrderInv, FixInv, VisitInv, Emit
    PROVE  VisitInv'
<1>. DEFINE h == Head(climb)
<1>1. /\ pc = "visit" /\ pc' = pc /\ climb # << >> /\ Parent(h) \in visited \cup {None}
      /\ climb' = Tail(climb) /\ visited' = visited /\ seen' = seen \cup {BlockAt(h)}
      /\ succ' = succ /\ order' = order /\ doms' = doms
    BY DEF Emit, flowVars, orderVars
<1>2. /\ Len(climb) \in Nat \ {0} /\ DOMAIN climb = 1..Len(climb) /\ h = climb[1]
      /\ \A j \in DOMAIN climb : climb[j] \in Index
      /\ \A j \in DOMAIN climb : j # 1 => climb[j] < h
      /\ h \in Climbing /\ Climbing \subseteq Index
      /\ \A n \in Index : Parent(n) # None => Parent(n) \in Index /\ Parent(n) > n
    BY <1>1, ClimbFacts
<1>3. Block' = Block /\ Index' = Index /\ \A m : BlockAt(m)' = BlockAt(m) /\ Parent(m)' = Parent(m)
    BY <1>1, Frozen, SameTree
<1>4. Root \in Nat /\ Index = 0..Root /\ \A n \in Index : BlockAt(n) \in Block
    BY <1>1, LateFacts, Numbers DEF Numbered
<1>. HIDE DEF h
<1>5. /\ climb' \in Seq(Index) /\ Len(climb') = Len(climb) - 1
      /\ \A j \in 1..Len(climb') : climb'[j] = climb[j + 1]
    BY <1>1, HeadTailProperties DEF VisitInv
<1>6. DOMAIN climb' = 1..(Len(climb) - 1)
    BY <1>5, Elements
<1>7. \A j \in DOMAIN climb' : j + 1 \in DOMAIN climb /\ j + 1 # 1 /\ climb'[j] = climb[j + 1]
    BY <1>2, <1>5, <1>6
<1>8. Climbing' = Climbing \ {h}
    <2>1. \A j \in DOMAIN climb : j # 1 => j - 1 \in DOMAIN climb' /\ climb'[j - 1] = climb[j]
        <3>. SUFFICES ASSUME NEW j \in DOMAIN climb, j # 1
                      PROVE  j - 1 \in DOMAIN climb' /\ climb'[j - 1] = climb[j]
            OBVIOUS
        <3>1. j - 1 \in DOMAIN climb' /\ (j - 1) + 1 = j
            BY <1>2, <1>6
        <3>. QED BY <3>1, <1>7
    <2>2. \A j \in DOMAIN climb : j # 1 => climb[j] # h
        BY <1>2, <1>4
    <2>3. Climbing' \subseteq Climbing \ {h}
        BY <1>7, <2>2 DEF Climbing
    <2>4. Climbing \ {h} \subseteq Climbing'
        BY <1>2, <2>1 DEF Climbing
    <2>. QED BY <2>3, <2>4
<1>9. Left' = Left \cup {h}
    BY <1>1, <1>2, <1>8 DEF Left, VisitInv
<1>10. Parent(h) \in Left \cup {None}
    <2>. SUFFICES ASSUME Parent(h) # None
                  PROVE  Parent(h) \notin Climbing
        BY <1>1 DEF Left
    <2>1. Parent(h) > h /\ Parent(h) \in Index /\ h \in Index
        BY <1>2
    <2>2. \A j \in DOMAIN climb : climb[j] # Parent(h)
        BY <2>1, <1>2, <1>4
    <2>. QED BY <2>2 DEF Climbing
<1>11. \A n \in Left' : Parent(n)' \in Left' \cup {None}
    BY <1>3, <1>9, <1>10, <1>1 DEF VisitInv
<1>12. seen' = {BlockAt(n)' : n \in Left'} /\ seen' \subseteq Block'
    <2>1. seen' = {BlockAt(n) : n \in Left'}
        BY <1>1, <1>9 DEF VisitInv
    <2>. QED BY <2>1, <1>1, <1>2, <1>3, <1>4 DEF VisitInv
<1>13. \A j, k \in DOMAIN climb' : j < k => climb'[j] > climb'[k]
    <2>. SUFFICES ASSUME NEW j \in DOMAIN climb', NEW k \in DOMAIN climb', j < k
                  PROVE  climb'[j] > climb'[k]
        OBVIOUS
    <2>1. j + 1 < k + 1
        BY <1>6
    <2>. QED BY <2>1, <1>7, <1>1 DEF VisitInv
<1>. QED BY <1>1, <1>3, <1>5, <1>8, <1>9, <1>11, <1>12, <1>13 DEF VisitInv, Numbered

LEMMA VisitInvKept ==
    ASSUME FlowInv, OrderInv, FixInv, VisitInv, [Next]_vars
    PROVE  VisitInv'
<1>1. CASE ConvertStep \/ Start \/ Descend \/ Ascend \/ BeginFixpoint
    <2>1. pc # "visit" /\ pc' # "visit" /\ climb' = climb /\ seen' = seen
        BY <1>1 DEF ConvertStep, Start, Descend, Ascend, BeginFixpoint, treeVars
    <2>. QED BY <1>1, <2>1, OutsideVisit
<1>2. CASE \/ SkipBlock \/ FirstPredecessor \/ NextPredecessor
           \/ (\E j \in 1..2 : MoveFinger(j)) \/ Intersected \/ SetDominator \/ AddNode
           \/ (\E n1, n2 \in nodes : Ask(n1, n2)) \/ (\E j \in 1..2 : MoveNode(j)) \/ Met
    <2>1. Numbered /\ Numbered' /\ UNCHANGED <<flowVars, orderVars>>
        BY <1>2 DEF SkipBlock, NextBlock, FirstPredecessor, NextPredecessor, MoveFinger,
            Intersected, SetDominator, AddNode, Ask, MoveNode, Met, Numbered
    <2>2. pc # "visit" /\ pc' # "visit"
        BY <1>2 DEF SkipBlock, NextBlock, FirstPredecessor, NextPredecessor, MoveFinger,
            Intersected, SetDominator, AddNode, Ask, MoveNode, Met
    <2>3. climb' = climb /\ seen' = seen /\ visited' = visited
        BY <1>2 DEF SkipBlock, FirstPredecessor, NextPredecessor, MoveFinger,
            Intersected, SetDominator, AddNode, Ask, MoveNode, Met, treeVars
    <2>. QED BY <2>1, <2>2, <2>3, OutsideVisit DEF LateStep
<1>3. CASE BeginVisit
    <2>1. /\ pc = "tree" /\ pc' = "visit" /\ visited' = {} /\ seen' = {} /\ climb' = climb
          /\ succ' = succ /\ order' = order
        BY <1>3 DEF BeginVisit, flowVars, orderVars
    <2>2. climb' = << >> /\ DOMAIN climb' = {} /\ climb' \in Seq(Index')
        BY <2>1 DEF VisitInv
    <2>3. Climbing' = {} /\ Left' = {}
        BY <2>1, <2>2 DEF Climbing, Left
    <2>. QED BY <2>1, <2>2, <2>3 DEF VisitInv, Numbered
<1>4. CASE \E n \in nodes : NextNode(n)
    BY <1>4, NextNodeKeeps
<1>5. CASE ClimbToParent
    BY <1>5, ClimbKeeps
<1>6. CASE Emit
    BY <1>6, EmitKeeps
<1>7. CASE EndVisit
    <2>1. /\ pc = "visit" /\ pc' = "tree" /\ climb = << >> /\ climb' = << >>
          /\ visited' = visited /\ seen' = seen /\ succ' = succ /\ order' = order
        BY <1>7 DEF EndVisit, flowVars, orderVars, treeVars
    <2>2. Block' = Block /\ Index' = Index
        BY <2>1, Frozen
    <2>. QED BY <2>1, <2>2 DEF VisitInv, Numbered
<1>8. CASE vars' = vars
    <2>1. /\ pc' = pc /\ succ' = succ /\ order' = order /\ doms' = doms
          /\ climb' = climb /\ visited' = visited /\ seen' = seen
        BY <1>8 DEF vars, flowVars, orderVars, treeVars
    <2>2. Block' = Block /\ Index' = Index /\ \A m : BlockAt(m)' = BlockAt(m) /\ Parent(m)' = Parent(m)
        BY <2>1, Frozen, SameTree
    <2>3. Climbing' = Climbing /\ Left' = Left
        BY <2>1 DEF Climbing, Left
    <2>. QED BY <2>1, <2>2, <2>3 DEF VisitInv, Numbered
<1>. QED BY <1>1, <1>2, <1>3, <1>4, <1>5, <1>6, <1>7, <1>8 DEF Next, Work, Use

LEMMA VisitInvariant == Spec => []VisitInv
<1>1. Init => VisitInv
    BY VisitInvInit
<1>2. FlowInv /\ OrderInv /\ FixInv /\ VisitInv /\ [Next]_vars => VisitInv'
    BY VisitInvKept
<1>. QED BY <1>1, <1>2, FlowAlways, OrderInvariant, FixInvariant, PTL DEF Spec

-----------------------------------------------------------------------------
(* Theorems                                                                *)

LEMMA InvariantsType ==
    ASSUME FlowInv, OrderInv, FixInv, VisitInv
    PROVE  TypeOK
<1>1. dfs \in Seq([block : Block, next : Nat])
    <2>. DEFINE S == [block : Block, next : Nat \ {0}]
                T == [block : Block, next : Nat]
    <2>1. dfs \in Seq(S)
        BY DEF OrderInv, DfsOK
    <2>2. S \subseteq T
        OBVIOUS
    <2>. HIDE DEF S, T
    <2>3. dfs \in Seq(T)
        BY <2>1, <2>2, SeqMonotonic
    <2>. QED BY <2>3 DEF T
<1>2. order \in Seq(Block) /\ Done \subseteq Block
    BY Elements DEF OrderInv, OrderOK, Done
<1>3. ~ Numbered => visited \subseteq Block
    <2>1. CASE pc = "convert"
        BY <2>1 DEF OrderInv, PhaseOK
    <2>2. CASE pc = "order"
        <3>1. OnStack \subseteq Block
            <4>1. \A j \in DOMAIN dfs : dfs[j] \in [block : Block, next : Nat]
                BY <1>1, Elements, Zenon
            <4>. QED BY <4>1 DEF OnStack
        <3>. QED BY <2>2, <3>1, <1>2 DEF OrderInv, PhaseOK
    <2>. QED BY <2>1, <2>2 DEF Numbered
<1>4. visited \subseteq Block \cup Index /\ climb \in Seq(Index) /\ seen \subseteq Block
    BY <1>3 DEF VisitInv
<1>5. CASE Numbered
    <2>1. TreeOK
        BY <1>5 DEF FixInv
    <2>2. Index = 0..Root /\ Root \in Nat /\ Root < MaxBlocks /\ MaxBlocks \in Nat
        BY <1>5, LateFacts, Numbers, BlocksAssumption
    <2>3. i \in 0..MaxBlocks
        BY <2>1, <2>2 DEF TreeOK
    <2>4. doms \in [Index -> Index \cup {None}]
        BY <2>1 DEF TreeOK, Ascends
    <2>5. nodes \subseteq Index
        BY <1>5, <2>2 DEF FixInv, Numbered, LoopOK
    <2>6. (finger = << >> \/ finger \in Index \X Index) /\ (asked = << >> \/ asked \in Index \X Index)
        BY DEF FixInv, IntersectOK, LcaOK
    <2>. QED BY <1>1, <1>2, <1>4, <2>1, <2>3, <2>4, <2>5, <2>6 DEF TypeOK, FixInv, TreeOK, FlowInv
<1>6. CASE ~ Numbered
    <2>1. Early /\ finger = << >> /\ asked = << >>
        BY <1>6 DEF FixInv, Numbered
    <2>2. i \in 0..MaxBlocks
        BY <2>1, BlocksAssumption DEF Early
    <2>. QED BY <1>1, <1>2, <1>4, <2>1, <2>2 DEF TypeOK, FixInv, Early, FlowInv
<1>. QED BY <1>5, <1>6

\* The variables of the conversion, the postorder, the fixpoint, lca and the visit have
\* their types, whatever the size of the graph; no number leaves the range of blocks.
THEOREM TypesCorrect == Spec => []TypeOK
<1>1. FlowInv /\ OrderInv /\ FixInv /\ VisitInv => TypeOK
    BY InvariantsType
<1>. QED BY <1>1, FlowAlways, OrderInvariant, FixInvariant, VisitInvariant, PTL

\* No value() of a missing dominator in `intersect` or in the loop that makes the
\* nodes, no at() for a parent without a node, no unwrap() of a missing parent.
THEOREM NothingIsThrown == Spec => []NothingThrown
<1>1. FixInv => NothingThrown
    BY DEF FixInv, NothingThrown
<1>. QED BY <1>1, FixInvariant, PTL

\* The fixpoint never replaces a dominator: the pass that follows the first finds
\* nothing to change.
THEOREM DominatorsStable == Spec => DomsStable
<1>. DEFINE Kept == \A n \in DOMAIN doms : doms[n] # None => doms'[n] = doms[n]
<1>1. ASSUME FlowInv, OrderInv, FixInv, Next
      PROVE  Kept
    <2>1. CASE BeginFixpoint
        <3>1. doms = << >>
            BY <1>1, <2>1 DEF BeginFixpoint, FixInv, Numbered, Early
        <3>2. DOMAIN doms = {}
            BY <3>1
        <3>. QED BY <3>2
    <2>2. CASE SetDominator
        <3>1. /\ doms' = doms \/ doms[i] = None
              /\ i \in DOMAIN doms /\ doms' = [doms EXCEPT ![i] = new_idom]
            BY <1>1, <2>2, SetsOnce DEF Known
        <3>. QED BY <3>1
    <2>3. CASE ~ BeginFixpoint /\ ~ SetDominator
        <3>1. doms' = doms
            BY <1>1, <2>3 DEF Next, Work, Use, ConvertStep, Start, Descend, Ascend, SkipBlock,
                FirstPredecessor, NextPredecessor, MoveFinger, Intersected, AddNode, MoveNode,
                Met, NextNode, ClimbToParent, Emit, EndVisit, Ask, BeginVisit
        <3>. QED BY <3>1
    <2>. QED BY <2>1, <2>2, <2>3
<1>2. FlowInv /\ OrderInv /\ FixInv /\ [Next]_vars => [Kept]_vars
    BY <1>1
<1>. QED BY <1>2, FlowAlways, OrderInvariant, FixInvariant, PTL DEF Spec, DomsStable

\* The numbers above n are those of its dominators, in a finished tree.
LEMMA TreeDominates ==
    ASSUME FlowInv, OrderInv, FixInv, pc \in {"expand", "tree", "lca", "visit"}
    PROVE  /\ \A a, n \in Index : Dominates(BlockAt(a), BlockAt(n)) <=> a \in Above(n)
           /\ \A b \in Block : \E n \in Index : b = BlockAt(n)
<1>1. Numbered /\ \A n \in Index : Known(n)
    BY DEF FixInv, Numbered
<1>2. pc # "convert" /\ dfs = << >> /\ Ascends(doms) /\ Meets
    BY <1>1, LateFacts
<1>3. \A b \in Block : \E n \in Index : b = BlockAt(n)
    BY <1>2, Numbers
<1>. QED BY <1>1, <1>2, <1>3, AboveDominates

\* The two-finger fixpoint of Cooper, Harvey and Kennedy: when it ends, doms has the
\* immediate dominator of each block, in graphs of any size.
THEOREM DominatorsAreImmediate == Spec => []ImmediateDominators
<1>1. ASSUME FlowInv, OrderInv, FixInv, pc = "expand", NEW n \in Index \ {Root}
      PROVE  /\ doms[n] # n /\ Dominates(BlockAt(doms[n]), BlockAt(n))
             /\ \A b \in Block \ {BlockAt(n)} :
                    Dominates(b, BlockAt(n)) => Dominates(b, BlockAt(doms[n]))
    <2>1. /\ Root \in Nat /\ Index = 0..Root
          /\ \A m \in Index : Known(m) => doms[m] \in Index /\ (m # Root => doms[m] > m)
          /\ \A m \in Index : m \in Above(m)
          /\ \A m \in Index : Known(m) => Above(m) = {m} \cup Above(doms[m])
        BY <1>1, LateFacts DEF Numbered
    <2>2. Known(n)
        BY <1>1 DEF FixInv
    <2>3. doms[n] \in Index /\ doms[n] > n /\ Above(n) = {n} \cup Above(doms[n])
        BY <2>1, <2>2
    <2>4. doms[n] # n /\ doms[n] \in Above(n)
        BY <2>1, <2>3
    <2>5. Dominates(BlockAt(doms[n]), BlockAt(n))
        BY <1>1, <2>3, <2>4, TreeDominates
    <2>6. ASSUME NEW b \in Block \ {BlockAt(n)}, Dominates(b, BlockAt(n))
          PROVE  Dominates(b, BlockAt(doms[n]))
        <3>1. PICK m \in Index : b = BlockAt(m)
            BY <1>1, TreeDominates
        <3>2. m \in Above(n) /\ m # n
            BY <1>1, <2>6, <3>1, TreeDominates
        <3>3. m \in Above(doms[n])
            BY <2>3, <3>2
        <3>. QED BY <1>1, <2>3, <3>1, <3>3, TreeDominates
    <2>. QED BY <2>4, <2>5, <2>6
<1>2. FlowInv /\ OrderInv /\ FixInv => ImmediateDominators
    BY <1>1 DEF ImmediateDominators
<1>. QED BY <1>2, FlowAlways, OrderInvariant, FixInvariant, PTL

\* The walk of lca, which compares numbers, meets at the closest common dominator.
THEOREM MeetsAtClosestDominator == Spec => []MeetsAtClosest
<1>1. ASSUME FlowInv, OrderInv, FixInv, pc = "lca", finger[1] = finger[2]
      PROVE  LET m == BlockAt(finger[1])
                 Common(b) == \A j \in 1..2 : Dominates(b, BlockAt(asked[j]))
             IN  Common(m) /\ \A b \in Block : Common(b) => Dominates(b, m)
    <2>1. /\ finger[1] \in Index /\ asked[1] \in Index /\ asked[2] \in Index
          /\ Above(finger[1]) = Above(asked[1]) \cap Above(asked[2])
        BY <1>1 DEF FixInv, LcaOK
    <2>2. finger[1] \in Above(finger[1])
        BY <1>1, <2>1, LateFacts DEF Numbered
    <2>3. /\ \A a, n \in Index : Dominates(BlockAt(a), BlockAt(n)) <=> a \in Above(n)
          /\ \A b \in Block : \E n \in Index : b = BlockAt(n)
        BY <1>1, TreeDominates
    <2>4. \A a \in Index : (\A j \in 1..2 : Dominates(BlockAt(a), BlockAt(asked[j])))
                                <=> a \in Above(finger[1])
        <3>1. \A a \in Index : /\ Dominates(BlockAt(a), BlockAt(asked[1])) <=> a \in Above(asked[1])
                               /\ Dominates(BlockAt(a), BlockAt(asked[2])) <=> a \in Above(asked[2])
            BY <2>1, <2>3
        <3>2. 1..2 = {1, 2}
            OBVIOUS
        <3>. QED BY <2>1, <3>1, <3>2
    <2>. QED BY <2>1, <2>2, <2>3, <2>4
<1>2. FlowInv /\ OrderInv /\ FixInv => MeetsAtClosest
    BY <1>1 DEF MeetsAtClosest
<1>. QED BY <1>2, FlowAlways, OrderInvariant, FixInvariant, PTL

\* Blocks get to f after all that dominate them, whatever the order of the map is,
\* and every block does.
THEOREM DominatorsComeFirst == Spec => []DominatorsFirst
<1>1. ASSUME FlowInv, OrderInv, FixInv, VisitInv, pc = "visit"
      PROVE  /\ \A b \in seen, a \in Block \ seen : ~ Dominates(a, b)
             /\ climb = << >> /\ nodes \subseteq visited => seen = Block
    <2>1. /\ seen = {BlockAt(n) : n \in Left} /\ Left \subseteq Index /\ visited \subseteq Index
          /\ \A n \in Left : Parent(n) \in Left \cup {None}
        BY <1>1 DEF VisitInv, Left
    <2>2. /\ \A a, n \in Index : Dominates(BlockAt(a), BlockAt(n)) <=> a \in Above(n)
          /\ \A b \in Block : \E n \in Index : b = BlockAt(n)
        BY <1>1, TreeDominates
    <2>3. \A n \in Index : BlockAt(n) \in Block
        BY <1>1, LateFacts, Numbers DEF Numbered
    <2>4. Upward(doms, Left)
        BY <2>1 DEF Upward, Parent
    <2>5. \A n \in Left : Above(n) \subseteq Left
        BY <2>1, <2>4 DEF Above, AboveIn
    <2>6. \A b \in seen, a \in Block \ seen : ~ Dominates(a, b)
        <3>. SUFFICES ASSUME NEW b \in seen, NEW a \in Block, Dominates(a, b)
                      PROVE  a \in seen
            OBVIOUS
        <3>1. PICK n \in Left : b = BlockAt(n)
            BY <2>1
        <3>2. PICK m \in Index : a = BlockAt(m)
            BY <2>2
        <3>3. m \in Above(n)
            BY <2>1, <2>2, <3>1, <3>2
        <3>. QED BY <2>1, <2>5, <3>1, <3>2, <3>3
    <2>7. climb = << >> /\ nodes \subseteq visited => seen = Block
        <3>. SUFFICES ASSUME climb = << >>, nodes \subseteq visited
                      PROVE  seen = Block
            OBVIOUS
        <3>1. Climbing = {} /\ nodes = Index
            <4>1. DOMAIN climb = {}
                OBVIOUS
            <4>. QED BY <4>1, <1>1 DEF Climbing, FixInv
        <3>2. Left = Index
            BY <2>1, <3>1 DEF Left
        <3>. QED BY <2>1, <2>2, <2>3, <3>2
    <2>. QED BY <2>6, <2>7
<1>2. FlowInv /\ OrderInv /\ FixInv /\ VisitInv => DominatorsFirst
    BY <1>1 DEF DominatorsFirst
<1>. QED BY <1>2, FlowAlways, OrderInvariant, FixInvariant, VisitInvariant, PTL
=============================================================================
