----------------------------- MODULE UnifyProofs -----------------------------
(***************************************************************************)
(* Proofs about unification, for any sets of type objects and of terms.    *)
(***************************************************************************)
EXTENDS UnifyCorrect, SequenceTheorems, FiniteSetTheorems, TLAPS

(* The stack of activations.                                               *)

\* Replacing the head of a sequence by other elements keeps the rest of it.
LEMMA ReplaceHead ==
    ASSUME NEW X, NEW s \in Seq(X), s # <<>>, NEW a \in Seq(X), NEW r, r = a \o Tail(s)
    PROVE  /\ r \in Seq(X)
           /\ \A k \in DOMAIN r : \/ k \in DOMAIN a /\ r[k] = a[k]
                                  \/ \E j \in DOMAIN s \ {1} : r[k] = s[j]
           /\ \A k \in DOMAIN a : k \in DOMAIN r /\ r[k] = a[k]
           /\ \A j \in DOMAIN s \ {1} :
                Len(a) + (j - 1) \in DOMAIN r /\ r[Len(a) + (j - 1)] = s[j]
<1> DEFINE t == Tail(s)
<1>1. /\ t \in Seq(X) /\ Len(s) \in Nat /\ Len(s) > 0
      /\ Len(t) = Len(s) - 1
      /\ \A i \in 1..Len(t) : t[i] = s[i + 1]
      /\ DOMAIN s = 1..Len(s) /\ DOMAIN a = 1..Len(a) /\ Len(a) \in Nat
  BY HeadTailProperties, LenProperties, EmptySeq
<1>2. /\ r \in Seq(X)
      /\ Len(r) = Len(a) + Len(t)
      /\ DOMAIN r = 1..Len(r)
      /\ \A i \in 1..Len(r) : r[i] = IF i <= Len(a) THEN a[i] ELSE t[i - Len(a)]
  <2> HIDE DEF t
  <2>1. /\ r \in Seq(X)
        /\ Len(r) = Len(a) + Len(t)
        /\ \A i \in 1..Len(a) + Len(t) :
                r[i] = IF i <= Len(a) THEN a[i] ELSE t[i - Len(a)]
    <3>1. r = a \o t
      BY DEF t
    <3> QED BY <1>1, <3>1, ConcatProperties, SMTT(30)
  <2> QED BY <2>1, LenProperties
<1> HIDE DEF t
<1>3. ASSUME NEW k \in DOMAIN r
      PROVE  \/ k \in DOMAIN a /\ r[k] = a[k]
             \/ \E j \in DOMAIN s \ {1} : r[k] = s[j]
  <2>1. CASE k <= Len(a)
    BY <1>1, <1>2, <2>1
  <2>2. CASE ~(k <= Len(a))
    <3>1. k - Len(a) \in 1..Len(t) /\ r[k] = t[k - Len(a)]
      BY <1>1, <1>2, <2>2
    <3>2. k - Len(a) + 1 \in DOMAIN s \ {1} /\ r[k] = s[k - Len(a) + 1]
      BY <1>1, <3>1
    <3> QED BY <3>2
  <2> QED BY <2>1, <2>2
<1>4. ASSUME NEW j \in DOMAIN s \ {1}
      PROVE  Len(a) + (j - 1) \in DOMAIN r /\ r[Len(a) + (j - 1)] = s[j]
  <2>1. j \in Nat /\ j > 1 /\ j - 1 \in 1..Len(t) /\ s[j] = t[j - 1]
    BY <1>1
  <2> DEFINE k == Len(a) + (j - 1)
  <2>2. k \in DOMAIN r /\ ~(k <= Len(a)) /\ k - Len(a) = j - 1
    BY <1>1, <1>2, <2>1
  <2>3. r[k] = t[j - 1]
    <3> HIDE DEF k
    <3> QED BY <1>2, <2>2
  <2> QED BY <2>1, <2>2, <2>3
<1>5. \A k \in DOMAIN a : k \in DOMAIN r /\ r[k] = a[k]
  BY <1>1, <1>2
<1> QED BY <1>2, <1>3, <1>4, <1>5

-----------------------------------------------------------------------------
(* Type correctness.                                                       *)

\* The activations that a step pushes are typed.
LEMMA ActivationsTyped ==
    ASSUME NEW f \in Live, NEW g \in Live, NEW i \in Nat
    PROVE  /\ <<Call(f, g)>> \in Seq([this : Live, other : Live, at : Nat])
           /\ <<Fns(f, g, i)>> \in Seq([this : Live, other : Live, at : Nat])
BY DEF Call, Fns

\* Replacing the innermost activation keeps the stack well-typed.
LEMMA ReplaceTyped ==
    ASSUME StackOK, todo # <<>>,
           NEW a \in Seq([this : Live, other : Live, at : Nat]),
           \A k \in DOMAIN a : LoopOK(a[k]),
           Replace(a), UNCHANGED <<uvs, fns, domain, goals, outcome>>
    PROVE  StackOK'
<1> DEFINE X == [this : Live, other : Live, at : Nat]
<1>1. todo' = a \o Tail(todo) /\ todo \in Seq(X)
  BY DEF Replace, StackOK
<1>2. X' = X
  BY DEF Live
<1> HIDE DEF X
<1>3. /\ todo' \in Seq(X)
      /\ \A k \in DOMAIN todo' : LoopOK(todo'[k])
  BY <1>1, ReplaceHead DEF StackOK, X
<1>4. (\A k \in DOMAIN todo : LoopOK(todo[k]))'
  BY <1>3 DEF LoopOK
<1> QED BY <1>2, <1>3, <1>4 DEF StackOK, X, Live

\* The innermost activation is one of the live types.
LEMMA HeadTyped ==
    ASSUME StackOK, todo # <<>>
    PROVE  /\ Head(todo) = todo[1] /\ 1 \in DOMAIN todo
           /\ Head(todo).this \in Live /\ Head(todo).other \in Live
           /\ Head(todo).at \in Nat
           /\ LoopOK(Head(todo))
<1>1. Head(todo) = todo[1] /\ 1 \in DOMAIN todo
  BY EmptySeq, LenProperties DEF StackOK
<1>2. Head(todo) \in [this : Live, other : Live, at : Nat]
  BY HeadTailProperties DEF StackOK
<1>3. LoopOK(todo[1])
  BY <1>1 DEF StackOK
<1> QED BY <1>1, <1>2, <1>3

\* The initial state is typed.
LEMMA InitTypeOK == Init => TypeOK
<1> SUFFICES ASSUME Init PROVE TypeOK
  OBVIOUS
<1>1. HeapOK
  BY DEF Init, HeapOK
<1>2. StackOK
  BY EmptySeq DEF Init, StackOK
<1>3. CursorOK
  BY DEF Init, CursorOK
<1> QED BY <1>1, <1>2, <1>3 DEF TypeOK

\* New type objects are typed.
LEMMA AllocateTypeOK ==
    ASSUME TypeOK, Allocate
    PROVE  TypeOK'
<1>1. todo = <<>> /\ todo' = <<>> /\ outcome' = outcome /\ goals' = goals
  BY DEF Allocate, NewUv, CallType, DefType, Idle
<1>2. Live \subseteq Live' /\ uvs \subseteq uvs'
  BY DEF Allocate, NewUv, CallType, DefType, Live
<1>3. StackOK'
  BY <1>1, <1>2, EmptySeq DEF TypeOK, StackOK
<1>4. CursorOK'
  <2>1. UNCHANGED <<pc, cur, path, found, parent>>
    BY DEF Allocate, NewUv, CallType, DefType
  <2> QED BY <1>1, <1>2, <2>1 DEF TypeOK, CursorOK
<1>5. HeapOK'
  <2>1. CASE \E u \in Uv : NewUv(u)
    BY <2>1 DEF NewUv, TypeOK, HeapOK, Live, Parts
  <2>2. ASSUME NEW f \in Fn, NEW dom \in Params(Uv), NEW cod \in Uv,
               CallType(f, dom, cod)
        PROVE  HeapOK'
    <3>1. dom \in Seq(Uv) /\ dom \in Seq(Uv \ uvs)
      BY <2>2, IsASeq, TypesAssumption DEF CallType, Params
    <3> QED BY <2>2, <3>1 DEF CallType, TypeOK, HeapOK, Live, Parts, Type
  <2>3. ASSUME NEW f \in Fn, NEW dom \in Params(Uv), NEW cod \in Base,
               DefType(f, dom, cod)
        PROVE  HeapOK'
    <3>1. dom \in Seq(Uv) /\ dom \in Seq(uvs)
      BY <2>3, IsASeq, TypesAssumption DEF DefType, Params
    <3> QED BY <2>3, <3>1 DEF DefType, TypeOK, HeapOK, Live, Parts, Type
  <2> QED BY <2>1, <2>2, <2>3 DEF Allocate
<1> QED BY <1>3, <1>4, <1>5 DEF TypeOK

\* A call of unify is typed.
LEMMA UnifyTypeOK ==
    ASSUME TypeOK, NEW a \in Type, NEW b \in Type, Unify(a, b)
    PROVE  TypeOK'
<1>1. a \in Live /\ b \in Live
  BY DEF Unify, Live
<1>2. StackOK'
  <2>1. /\ todo' \in Seq([this : Live, other : Live, at : Nat])
        /\ \A k \in DOMAIN todo' : todo'[k].at = 0
    BY <1>1, ActivationsTyped DEF Unify, Call
  <2>2. (\A k \in DOMAIN todo : LoopOK(todo[k]))'
    BY <2>1 DEF LoopOK
  <2> QED BY <1>1, <2>1, <2>2 DEF Unify, TypeOK, StackOK, Live, typeVars
<1>3. HeapOK'
  BY DEF Unify, TypeOK, HeapOK, Live, Parts, typeVars
<1>4. CursorOK'
  BY DEF Unify, TypeOK, StackOK, CursorOK, Live, typeVars, Idle, Root
<1> QED BY <1>2, <1>3, <1>4 DEF TypeOK

\* The children of a live type are live.
LEMMA ChildrenLive ==
    ASSUME HeapOK, NEW t \in Live
    PROVE  Children(t) \subseteq Live
BY DEF HeapOK, Children, Live

\* Compressing a path keeps the parent links well-typed.
LEMMA CompressTyped ==
    ASSUME HeapOK, path \subseteq uvs, cur \in Live, Compress, UNCHANGED typeVars
    PROVE  HeapOK'
BY DEF HeapOK, Compress, Live, Parts, typeVars

\* The two calls of find keep the types, path compression included.
LEMMA FindTypeOK ==
    ASSUME TypeOK, Busy,
           FindThis \/ FindParent \/ FoundThis \/ FoundOther
    PROVE  TypeOK'
<1> USE DEF TypeOK, Busy
<1>0. /\ Head(todo) = todo[1] /\ 1 \in DOMAIN todo
      /\ Head(todo).this \in Live /\ Head(todo).other \in Live
  BY HeadTyped
<1>1. StackOK'
  BY DEF FindThis, FindParent, FoundThis, FoundOther, StackOK, LoopOK, Live, typeVars
<1>2. CASE FindThis
  <2>1. HeapOK'
    BY <1>2 DEF FindThis, HeapOK, Live, Parts, typeVars
  <2>2. CursorOK'
    BY <1>0, <1>2 DEF FindThis, Find, CursorOK, Live, typeVars
  <2> QED BY <1>1, <2>1, <2>2
<1>3. CASE FindParent
  <2>1. HeapOK'
    BY <1>3 DEF FindParent, HeapOK, Live, Parts, typeVars
  <2>2. cur \in uvs /\ parent[cur] \in Live
    BY <1>3, TypesAssumption DEF FindParent, HeapOK, CursorOK, Root, Live, Base
  <2>3. CursorOK'
    BY <1>3, <2>2 DEF FindParent, CursorOK, Live, typeVars, Root
  <2> QED BY <1>1, <2>1, <2>3
<1>4. CASE FoundThis
  <2>1. HeapOK'
    BY <1>4, CompressTyped DEF FoundThis, CursorOK
  <2>2. cur \in Live /\ (cur \in Uv => parent'[cur] = None)
    BY <1>4 DEF FoundThis, Compress, CursorOK, Root
  <2>3. CursorOK'
    BY <1>0, <1>4, <2>2 DEF FoundThis, Find, CursorOK, Live, typeVars, Root
  <2> QED BY <1>1, <2>1, <2>3
<1>5. CASE FoundOther
  <2>1. HeapOK'
    BY <1>5, CompressTyped DEF FoundOther, CursorOK
  <2>2. \A t \in {cur, found} : t \in Uv => parent'[t] = None
    BY <1>5 DEF FoundOther, Compress, CursorOK, Root
  <2>3. CursorOK'
    BY <1>0, <1>5, <2>2 DEF FoundOther, Find, CursorOK, Live, typeVars, Root
  <2> QED BY <1>1, <2>1, <2>3
<1> QED BY <1>2, <1>3, <1>4, <1>5

\* Linking one variable to a live type keeps the heap well-typed.
LEMMA LinkTyped ==
    ASSUME HeapOK, NEW u \in uvs, NEW t \in Live,
           parent' = [parent EXCEPT ![u] = t],
           rank' \in [Uv -> Nat], UNCHANGED <<uvs, fns, domain, codomain>>
    PROVE  HeapOK'
<1>1. /\ Live' = Live /\ \A f \in fns : Parts(f)' = Parts(f)
      /\ u \in Uv
  BY DEF Live, Parts, HeapOK
<1>2. parent' \in [Uv -> Live \cup {None}]
  BY <1>1 DEF HeapOK
<1>3. \A v \in Uv \ uvs : parent'[v] = None
  BY DEF HeapOK
<1> QED BY <1>1, <1>2, <1>3 DEF HeapOK

\* union_ keeps the types.
LEMMA UnionTyped ==
    ASSUME HeapOK, NEW this \in uvs, NEW other \in uvs, Union(this, other),
           UNCHANGED <<uvs, fns, domain, codomain>>
    PROVE  HeapOK'
<1>1. rank' \in [Uv -> Nat]
  BY DEF Union, HeapOK
<1>2. \/ parent' = [parent EXCEPT ![this] = other]
      \/ parent' = [parent EXCEPT ![other] = this]
  BY DEF Union
<1> QED BY <1>1, <1>2, LinkTyped DEF Live

\* unify returns: the stack is popped and the cursor forgotten.
LEMMA ReturnTyped ==
    ASSUME StackOK, CursorOK, todo # <<>>, pc = "found", Return,
           UNCHANGED <<uvs, fns, domain, goals, outcome>>
    PROVE  StackOK' /\ CursorOK'
<1>1. <<>> \in Seq([this : Live, other : Live, at : Nat]) /\ DOMAIN <<>> = {}
  BY EmptySeq
<1>2. StackOK'
  BY <1>1, ReplaceTyped DEF Return
<1>3. CursorOK'
  BY DEF Return, CursorOK
<1> QED BY <1>2, <1>3

\* The dispatch on two representatives keeps the types.
LEMMA DispatchTypeOK ==
    ASSUME TypeOK, Busy,
           Same \/ UnifyUvs \/ BindThis \/ BindOther \/ UnifyFns \/ Clash
    PROVE  TypeOK'
<1> USE DEF TypeOK, Busy
<1>0. /\ pc = "found" /\ cur \in Live /\ found \in Live /\ path = {}
      /\ Root(cur) /\ Root(found)
  BY DEF CursorOK, Same, UnifyUvs, BindThis, BindOther, Bind, UnifyFns, Clash
<1>1. CASE Same
  <2>1. HeapOK'
    BY <1>1 DEF Same, HeapOK, Live, Parts, typeVars
  <2> QED BY <1>0, <1>1, <2>1, ReturnTyped DEF Same, typeVars
<1>2. CASE UnifyUvs
  <2>1. cur \in uvs /\ found \in uvs
    BY <1>0, <1>2, TypesAssumption DEF UnifyUvs, Live, HeapOK
  <2>2. HeapOK'
    BY <1>2, <2>1, UnionTyped DEF UnifyUvs
  <2> QED BY <1>0, <1>2, <2>2, ReturnTyped DEF UnifyUvs
<1>3. ASSUME NEW uv \in Live, NEW t \in Live, Bind(uv, t)
      PROVE  TypeOK'
  <2>1. uv \in uvs
    BY <1>3, TypesAssumption DEF Bind, Live, HeapOK
  <2>2. CASE Occurs(uv, t)
    <3>1. HeapOK'
      BY <1>3, <2>2 DEF Bind, HeapOK, Live, Parts, typeVars
    <3>2. StackOK' /\ CursorOK'
      BY <1>3, <2>2 DEF Bind, Throw, StackOK, LoopOK, CursorOK, Live, typeVars, Root
    <3> QED BY <3>1, <3>2
  <2>3. CASE ~Occurs(uv, t)
    <3>1. HeapOK'
      BY <1>3, <2>1, <2>3, LinkTyped DEF Bind, typeVars, HeapOK
    <3> QED BY <1>0, <1>3, <2>3, <3>1, ReturnTyped DEF Bind, typeVars
  <2> QED BY <2>2, <2>3
<1>4. CASE UnifyFns
  <2>1. HeapOK'
    BY <1>4 DEF UnifyFns, HeapOK, Live, Parts, typeVars
  <2>2. found \in fns /\ cur \in fns
    BY <1>0, <1>4, TypesAssumption DEF UnifyFns, Live, HeapOK
  <2>3. StackOK'
    <3> DEFINE a == <<Fns(found, cur, 1)>>
    <3>1. a \in Seq([this : Live, other : Live, at : Nat])
      BY <1>0, ActivationsTyped
    <3>2. \A k \in DOMAIN a : LoopOK(a[k])
      BY <2>2 DEF Fns, LoopOK
    <3>3. Replace(a) /\ UNCHANGED <<uvs, fns, domain, goals, outcome>>
      BY <1>4 DEF UnifyFns, typeVars
    <3> HIDE DEF a
    <3> QED BY <3>1, <3>2, <3>3, ReplaceTyped
  <2>4. CursorOK'
    BY <1>0, <1>4 DEF UnifyFns, CursorOK
  <2> QED BY <2>1, <2>3, <2>4
<1>5. CASE Clash
  BY <1>5 DEF Clash, Throw, HeapOK, StackOK, LoopOK, CursorOK, Live, Parts, typeVars, Root
<1> QED BY <1>0, <1>1, <1>2, <1>3, <1>4, <1>5 DEF BindThis, BindOther

\* The loop of unifyFoundFns keeps the types.
LEMMA FnsTypeOK ==
    ASSUME TypeOK, Busy, UnifyParam \/ UnifyCodomain \/ ArityMismatch
    PROVE  TypeOK'
<1> USE DEF TypeOK, Busy
<1> DEFINE f == Head(todo).this
           g == Head(todo).other
           i == Head(todo).at
<1>0. f \in fns /\ g \in fns /\ f \in Live /\ g \in Live /\ i \in Nat /\ i > 0
      /\ 1..(i - 1) \subseteq DOMAIN domain[f] \cap DOMAIN domain[g]
  BY HeadTyped DEF LoopOK, UnifyParam, UnifyCodomain, ArityMismatch, InFns
<1>1. Parts(f) \subseteq Live /\ Parts(g) \subseteq Live
  BY <1>0 DEF HeapOK, Live
<1>2. HeapOK'
  BY DEF UnifyParam, UnifyCodomain, ArityMismatch, HeapOK, Live, Parts, typeVars
<1>3. CASE UnifyParam
  <2> DEFINE a == <<Call(domain[f][i], domain[g][i]), Fns(f, g, i + 1)>>
  <2>1. domain[f][i] \in Live /\ domain[g][i] \in Live
    BY <1>1, <1>3 DEF UnifyParam, Parts
  <2>2. a \in Seq([this : Live, other : Live, at : Nat])
    BY <1>0, <2>1 DEF Call, Fns
  <2>3. \A k \in DOMAIN a : LoopOK(a[k])
    <3>1. \A j \in 1..i : j \in 1..(i - 1) \/ j = i
      BY <1>0
    <3>2. LoopOK(Fns(f, g, i + 1))
      BY <1>0, <1>3, <3>1 DEF LoopOK, Fns, UnifyParam
    <3>3. LoopOK(Call(domain[f][i], domain[g][i]))
      BY DEF LoopOK, Call
    <3> QED BY <3>2, <3>3
  <2>4. /\ Replace(a) /\ pc = "call" /\ pc' = "call"
        /\ UNCHANGED <<uvs, fns, domain, goals, outcome, path, found, cur, parent>>
    BY <1>3 DEF UnifyParam, InFns, typeVars
  <2>5. CursorOK'
    BY <2>4 DEF CursorOK
  <2> HIDE DEF a
  <2> QED BY <1>2, <2>2, <2>3, <2>4, <2>5, ReplaceTyped
<1>4. CASE UnifyCodomain
  <2> DEFINE a == <<Call(codomain[g], codomain[f])>>
  <2>1. codomain[f] \in Live /\ codomain[g] \in Live
    BY <1>1 DEF Parts
  <2>2. a \in Seq([this : Live, other : Live, at : Nat])
    BY <2>1, ActivationsTyped
  <2>3. \A k \in DOMAIN a : LoopOK(a[k])
    BY DEF Call, LoopOK
  <2>4. /\ Replace(a) /\ pc = "call" /\ pc' = "call"
        /\ UNCHANGED <<uvs, fns, domain, goals, outcome, path, found, cur, parent>>
    BY <1>4 DEF UnifyCodomain, InFns, typeVars
  <2>5. CursorOK'
    BY <2>4 DEF CursorOK
  <2> HIDE DEF a
  <2> QED BY <1>2, <2>2, <2>3, <2>4, <2>5, ReplaceTyped
<1>5. CASE ArityMismatch
  <2>1. StackOK' /\ CursorOK'
    BY <1>5 DEF ArityMismatch, InFns, Throw, StackOK, LoopOK, CursorOK, Live, typeVars, Root
  <2> QED BY <1>2, <2>1
<1> QED BY <1>3, <1>4, <1>5

\* Typing is about the state alone.
LEMMA StutterTypeOK == TypeOK /\ UNCHANGED vars => TypeOK'
BY DEF vars, TypeOK, HeapOK, StackOK, LoopOK, CursorOK, Live, Parts, Root

\* Typing is inductive.
LEMMA NextTypeOK ==
    ASSUME TypeOK, [Next]_vars
    PROVE  TypeOK'
<1>1. CASE Allocate
  BY <1>1, AllocateTypeOK
<1>2. CASE \E a \in Type, b \in Type : Unify(a, b)
  BY <1>2, UnifyTypeOK
<1>3. CASE Step
  BY <1>3, FindTypeOK, DispatchTypeOK, FnsTypeOK DEF Step
<1>4. CASE UNCHANGED vars
  BY <1>4, StutterTypeOK
<1> QED BY <1>1, <1>2, <1>3, <1>4 DEF Next

\* Every reachable state is well-typed: in particular the stack only ever
\* holds allocated types, unifyFoundFns only runs on function types, and both
\* sides are representatives when unifyFounds dispatches.
THEOREM TypesCorrect == Spec => []TypeOK
<1>1. Init => TypeOK
  BY InitTypeOK
<1>2. TypeOK /\ [Next]_vars => TypeOK'
  BY NextTypeOK
<1> QED BY <1>1, <1>2, PTL DEF Spec

-----------------------------------------------------------------------------
(* The links form no cycle.                                                *)

\* The three kinds of type object, now and after a step.
LEMMA ChildrenOf ==
    /\ uvs \subseteq Uv /\ fns \subseteq Fn =>
        /\ \A u \in uvs : Children(u) = {parent[u]} \ {None}
        /\ \A f \in fns : Children(f) = Parts(f)
        /\ \A b \in Base : Children(b) = {}
    /\ uvs' \subseteq Uv /\ fns' \subseteq Fn =>
        /\ \A u \in uvs' : Children(u)' = {parent'[u]} \ {None}
        /\ \A f \in fns' : Children(f)' = Parts(f)'
        /\ \A b \in Base : Children(b)' = {}
<1>1. ASSUME uvs \subseteq Uv, fns \subseteq Fn
      PROVE  /\ \A u \in uvs : Children(u) = {parent[u]} \ {None}
             /\ \A f \in fns : Children(f) = Parts(f)
             /\ \A b \in Base : Children(b) = {}
  <2>1. uvs \cap fns = {} /\ Base \cap (uvs \cup fns) = {}
    BY <1>1, TypesAssumption
  <2>2. \A u \in uvs : Children(u) = {parent[u]} \ {None}
    BY <2>1, Zenon DEF Children
  <2>3. \A f \in fns : f \notin uvs
    BY <2>1
  <2>4. \A f \in fns : Children(f) = Parts(f)
    BY <2>3, Zenon DEF Children
  <2>5. \A b \in Base : b \notin uvs /\ b \notin fns
    BY <2>1
  <2>6. \A b \in Base : Children(b) = {}
    BY <2>5, Zenon DEF Children
  <2> QED BY <2>2, <2>4, <2>6
<1>2. (uvs \subseteq Uv /\ fns \subseteq Fn =>
        /\ \A u \in uvs : Children(u) = {parent[u]} \ {None}
        /\ \A f \in fns : Children(f) = Parts(f)
        /\ \A b \in Base : Children(b) = {})'
  BY <1>1, PTL
<1> QED BY <1>1, <1>2

\* Children of the types other than u are unchanged by linking u.
LEMMA LinkChildren ==
    ASSUME HeapOK, NEW u \in uvs, NEW t \in Live,
           parent' = [parent EXCEPT ![u] = t],
           UNCHANGED <<uvs, fns, domain, codomain>>
    PROVE  /\ Children(u)' = {t}
           /\ \A s \in Live \ {u} : Children(s)' = Children(s)
<1>1. u \in Uv /\ t # None /\ parent'[u] = t /\ \A v \in Uv \ {u} : parent'[v] = parent[v]
  BY TypesAssumption DEF HeapOK, Live, Type
<1>2. Children(u)' = {t}
  BY <1>1, ChildrenOf DEF HeapOK
<1>3. ASSUME NEW s \in Live \ {u}
      PROVE  Children(s)' = Children(s)
  BY <1>1 DEF Children, Parts, HeapOK
<1> QED BY <1>2, <1>3

\* Linking u to t adds no cycle when a closed set separates t from u.
LEMMA LinkAcyclic ==
    ASSUME HeapOK, Acyclic, NEW u \in uvs, NEW t \in Live,
           parent' = [parent EXCEPT ![u] = t],
           UNCHANGED <<uvs, fns, domain, codomain>>,
           NEW C \in SUBSET Live, t \in C, u \notin C, Closed(C)
    PROVE  Acyclic'
<1>1. Live' = Live
  BY DEF Live
<1>2. SUFFICES ASSUME NEW S \in SUBSET Live, S # {}
               PROVE  \E s \in S : Children(s)' \cap S = {}
  BY <1>1 DEF Acyclic
<1>3. CASE S \cap C = {}
  <2>1. PICK s \in S : Children(s) \cap S = {}
    BY <1>2 DEF Acyclic
  <2>2. Children(s)' \subseteq Children(s) \cup {t}
    BY LinkChildren
  <2> QED BY <1>3, <2>1, <2>2
<1>4. CASE S \cap C # {}
  <2>1. PICK s \in S \cap C : Children(s) \cap (S \cap C) = {}
    BY <1>4 DEF Acyclic
  <2>2. Children(s) \subseteq C
    BY <2>1 DEF Closed
  <2>3. Children(s)' = Children(s)
    BY <2>1, LinkChildren
  <2> QED BY <2>1, <2>2, <2>3
<1> QED BY <1>3, <1>4

\* Pointing the whole path of a find at its end adds no cycle.
LEMMA CompressAcyclic ==
    ASSUME HeapOK, CursorOK, Acyclic, cur \in Live, Root(cur), Compress,
           UNCHANGED <<uvs, fns, domain, codomain>>
    PROVE  Acyclic'
<1>1. Live' = Live /\ path \subseteq Uv /\ path \subseteq Live
  BY DEF Live, CursorOK, HeapOK
<1>2. SUFFICES ASSUME NEW S \in SUBSET Live, S # {}
               PROVE  \E s \in S : Children(s)' \cap S = {}
  BY <1>1 DEF Acyclic
<1>3. \A s \in Live \ path : Children(s)' = Children(s)
  BY DEF Compress, Children, Parts, HeapOK
<1>4. \A s \in path : Children(s)' \subseteq {cur}
  BY <1>1, ChildrenOf DEF Compress, CursorOK, HeapOK
<1>5. CASE cur \notin S
  <2>1. PICK s \in S : Children(s) \cap S = {}
    BY <1>2 DEF Acyclic
  <2> QED BY <1>3, <1>4, <1>5, <2>1
<1>6. CASE cur \in S
  <2> DEFINE T == S \cup path
  <2>1. T \subseteq Live /\ T # {}
    BY <1>1, <1>2
  <2>2. PICK s \in T : Children(s) \cap T = {}
    <3> HIDE DEF T
    <3> QED BY <2>1 DEF Acyclic
  <2>3. s \notin path
    <3>1. SUFFICES ASSUME s \in path PROVE FALSE
      OBVIOUS
    <3>2. parent[s] \in S \cup path /\ parent[s] \in Children(s)
      BY <1>6, <3>1, ChildrenOf DEF CursorOK, HeapOK
    <3> QED BY <2>2, <3>2
  <2> QED BY <1>3, <2>2, <2>3
<1> QED BY <1>5, <1>6

\* New objects refer to live variables and base types, and no older object
\* refers to them.
LEMMA AllocateAcyclic ==
    ASSUME TypeOK, Acyclic, Allocate
    PROVE  Acyclic'
<1> USE DEF TypeOK
<1>0. HeapOK'
  BY AllocateTypeOK
<1>1. \A s \in Live : Children(s)' = Children(s) /\ Children(s) \subseteq Live
  <2>1. \A u \in uvs : Children(u)' = Children(u)
    BY <1>0, ChildrenOf DEF Allocate, NewUv, CallType, DefType, HeapOK
  <2>2. \A f \in fns : Children(f)' = Children(f)
    BY <1>0, TypesAssumption
    DEF Allocate, NewUv, CallType, DefType, Children, Parts, HeapOK
  <2>3. \A b \in Base : Children(b)' = Children(b)
    BY <1>0, TypesAssumption DEF Children, HeapOK
  <2> QED BY <2>1, <2>2, <2>3, ChildrenLive DEF Live
<1>2. \A u \in uvs' \ uvs : Children(u)' = {}
  <2>1. \A u \in uvs' \ uvs : parent'[u] = None
    <3>1. parent' = parent
      BY DEF Allocate, NewUv, CallType, DefType
    <3>2. uvs' \subseteq Uv
      BY <1>0 DEF HeapOK
    <3> QED BY <3>1, <3>2 DEF HeapOK
  <2> QED BY <1>0, <2>1, ChildrenOf DEF HeapOK
<1>3. \A f \in fns' \ fns : Children(f)' \subseteq uvs' \cup Base
  BY <1>0, TypesAssumption DEF Children, HeapOK
<1>4. SUFFICES ASSUME NEW S \in SUBSET Live', S # {}
               PROVE  \E s \in S : Children(s)' \cap S = {}
  BY DEF Acyclic
<1>5. CASE S \cap Live # {}
  <2>1. PICK s \in S \cap Live : Children(s) \cap (S \cap Live) = {}
    BY <1>5 DEF Acyclic
  <2> QED BY <1>1, <2>1
<1>6. CASE S \cap Live = {}
  <2>1. S \subseteq (uvs' \ uvs) \cup (fns' \ fns)
    BY <1>6 DEF Live
  <2>2. CASE S \cap uvs' # {}
    BY <1>2, <1>6, <2>2 DEF Live
  <2>3. CASE S \cap uvs' = {}
    <3>1. S \cap Base = {}
      BY <1>6 DEF Live
    <3>2. PICK f \in S : f \in fns' \ fns
      BY <1>4, <2>1, <2>3
    <3>3. Children(f)' \cap S = {}
      BY <1>3, <2>3, <3>1, <3>2
    <3> QED BY <3>2, <3>3
  <2> QED BY <2>2, <2>3
<1> QED BY <1>5, <1>6

\* Acyclic and Live only depend on the heap and the links.
LEMMA AcyclicUnchanged ==
    ASSUME Acyclic, UNCHANGED <<uvs, fns, domain, codomain, parent>>
    PROVE  Acyclic'
<1>1. Live' = Live
  BY DEF Live
<1>2. \A t \in Live : Children(t)' = Children(t)
  BY Zenon DEF Children, Parts
<1> QED BY <1>1, <1>2 DEF Acyclic

\* No step of unify closes a cycle of children.
LEMMA StepAcyclic ==
    ASSUME TypeOK, Acyclic, Step
    PROVE  Acyclic'
<1> USE DEF TypeOK, Step
<1>1. CASE FindThis \/ FindParent \/ Same \/ UnifyFns \/ Clash
           \/ UnifyParam \/ UnifyCodomain \/ ArityMismatch
  BY <1>1, AcyclicUnchanged
  DEF FindThis, FindParent, Same, UnifyFns, Clash, UnifyParam, UnifyCodomain,
      ArityMismatch, typeVars
<1>2. CASE FoundThis \/ FoundOther
  <2>1. /\ cur \in Live /\ Root(cur) /\ Compress
        /\ UNCHANGED <<uvs, fns, domain, codomain>>
    BY <1>2 DEF FoundThis, FoundOther, CursorOK, typeVars
  <2> QED BY <2>1, CompressAcyclic
<1>3. CASE UnifyUvs
  <2>1. /\ cur \in uvs /\ found \in uvs /\ cur # found
        /\ parent[cur] = None /\ parent[found] = None
        /\ UNCHANGED <<uvs, fns, domain, codomain>>
    BY <1>3, TypesAssumption DEF UnifyUvs, CursorOK, Root, Live, HeapOK
  <2>2. Closed({cur}) /\ Closed({found})
    BY <2>1, ChildrenOf DEF Closed, HeapOK
  <2>3. \/ parent' = [parent EXCEPT ![found] = cur]
        \/ parent' = [parent EXCEPT ![cur] = found]
    BY <1>3 DEF UnifyUvs, Union
  <2>4. /\ {cur} \in SUBSET Live /\ {found} \in SUBSET Live
        /\ cur \in Live /\ found \in Live
    BY <2>1 DEF Live
  <2>5. CASE parent' = [parent EXCEPT ![found] = cur]
    <3>1. cur \in {cur} /\ found \notin {cur}
      BY <2>1
    <3> QED BY <2>1, <2>2, <2>4, <2>5, <3>1, LinkAcyclic
  <2>6. CASE parent' = [parent EXCEPT ![cur] = found]
    <3>1. found \in {found} /\ cur \notin {found}
      BY <2>1
    <3> QED BY <2>1, <2>2, <2>4, <2>6, <3>1, LinkAcyclic
  <2> QED BY <2>3, <2>5, <2>6
<1>4. ASSUME NEW u \in Live, NEW t \in Live, Bind(u, t)
      PROVE  Acyclic'
  <2>1. u \in uvs
    BY <1>4, TypesAssumption DEF Bind, Live, HeapOK
  <2>2. CASE Occurs(u, t)
    BY <1>4, <2>2, AcyclicUnchanged DEF Bind, typeVars
  <2>3. CASE ~Occurs(u, t)
    <3>1. PICK C \in SUBSET Live : t \in C /\ Closed(C) /\ u \notin C
      BY <2>3 DEF Occurs
    <3>2. /\ parent' = [parent EXCEPT ![u] = t]
          /\ UNCHANGED <<uvs, fns, domain, codomain>>
      BY <1>4, <2>3 DEF Bind, typeVars
    <3> QED BY <2>1, <3>1, <3>2, LinkAcyclic
  <2> QED BY <2>2, <2>3
<1>5. CASE BindThis \/ BindOther
  <2>1. cur \in Live /\ found \in Live
    BY <1>5 DEF BindThis, BindOther, Bind, CursorOK
  <2> QED BY <1>4, <1>5, <2>1 DEF BindThis, BindOther
<1> QED BY <1>1, <1>2, <1>3, <1>5

\* Links never form a cycle, whatever the program unifies: find, print,
\* to_llvm and the occurs check itself terminate.
THEOREM LinksAcyclic == Spec => []Acyclic
<1>1. Init => Acyclic
  <2> SUFFICES ASSUME Init PROVE Acyclic
    OBVIOUS
  <2>1. Live = Base /\ uvs = {} /\ fns = {}
    BY DEF Init, Live
  <2>2. \A b \in Base : Children(b) = {}
    BY <2>1, ChildrenOf
  <2>3. \A S \in SUBSET Live : \A t \in S : Children(t) = {}
    BY <2>1, <2>2
  <2> QED BY <2>3 DEF Acyclic
<1>2. TypeOK /\ Acyclic /\ [Next]_vars => Acyclic'
  <2> SUFFICES ASSUME TypeOK, Acyclic, [Next]_vars PROVE Acyclic'
    OBVIOUS
  <2>1. CASE Allocate
    BY <2>1, AllocateAcyclic
  <2>2. CASE \E a \in Type, b \in Type : Unify(a, b)
    BY <2>2, AcyclicUnchanged DEF Unify, typeVars
  <2>3. CASE Step
    BY <2>3, StepAcyclic
  <2>4. CASE UNCHANGED vars
    BY <2>4, AcyclicUnchanged DEF vars
  <2> QED BY <2>1, <2>2, <2>3, <2>4 DEF Next
<1> QED BY <1>1, <1>2, TypesCorrect, PTL DEF Spec

-----------------------------------------------------------------------------
(* What the links mean.  FindMeaning relates the registers of a running    *)
(* find to the activation it serves; with it, a step of unify changes      *)
(* neither direction of "links and pending activations say what the goals  *)
(* say".                                                                   *)

\* Assignments whose terms may also be named by types.
Readings == {m \in [Type -> Term \cup Type] : m[Bool] # m[I64]}

FindMeaning ==
    \A m \in Readings : Linked(m) =>
        /\ \A u \in path : m[u] = m[cur]
        /\ pc = "find_this" => m[Head(todo).this] = m[cur]
        /\ pc \in {"find_other", "found"} =>
                m[Head(todo).this] = m[found] /\ m[Head(todo).other] = m[cur]

\* What UnifyCorrect says of Assignments, for Readings.
SoundFor == \A m \in Readings : Linked(m) /\ Pending(m) => Solves(m) \/ ~Free(m)
GeneralFor == \A m \in Readings : Solves(m) => (Linked(m) /\ Pending(m)) \/ ~Free(m)
JustifiedFor == outcome # "ok" => \A m \in Readings : ~(Solves(m) /\ Free(m))

Rest(m) == \A k \in DOMAIN todo \ {1} : Holds(m, todo[k])

\* What is pending includes the innermost activation.
LEMMA PendingHead ==
    ASSUME StackOK, todo # <<>>, NEW m
    PROVE  Pending(m) <=> Holds(m, Head(todo)) /\ Rest(m)
BY HeadTyped DEF Pending, Rest

\* What an activation demands depends on the function types alone.
LEMMA HoldsUnchanged ==
    ASSUME UNCHANGED <<domain, codomain>>, NEW m
    PROVE  \A x : Holds(m, x)' <=> Holds(m, x)
BY DEF Holds

\* After a replacement of the innermost activation, the new ones and the
\* rest of the stack are pending.
LEMMA PendingReplaced ==
    ASSUME StackOK, todo # <<>>, NEW m,
           NEW a \in Seq([this : Live, other : Live, at : Nat]), Replace(a),
           UNCHANGED <<domain, codomain>>
    PROVE  Pending(m)' <=> (\A k \in DOMAIN a : Holds(m, a[k])) /\ Rest(m)
<1> DEFINE X == [this : Live, other : Live, at : Nat]
<1>1. todo' = a \o Tail(todo) /\ todo \in Seq(X) /\ a \in Seq(X)
  BY DEF Replace, StackOK
<1> HIDE DEF X
<1>2. ASSUME NEW k \in DOMAIN todo'
      PROVE  \/ k \in DOMAIN a /\ todo'[k] = a[k]
             \/ \E j \in DOMAIN todo \ {1} : todo'[k] = todo[j]
  BY <1>1, ReplaceHead, SMTT(30)
<1>4. ASSUME NEW k \in DOMAIN a
      PROVE  k \in DOMAIN todo' /\ todo'[k] = a[k]
  BY <1>1, ReplaceHead
<1>5. ASSUME NEW j \in DOMAIN todo \ {1}
      PROVE  \E k \in DOMAIN todo' : todo'[k] = todo[j]
  <2>1. Len(a) + (j - 1) \in DOMAIN todo' /\ todo'[Len(a) + (j - 1)] = todo[j]
    BY <1>1, ReplaceHead
  <2> QED BY <2>1
<1>3. Pending(m)' <=> \A k \in DOMAIN todo' : Holds(m, todo'[k])
  <2>1. \A k \in DOMAIN todo' : Holds(m, todo[k])' <=> Holds(m, todo'[k])
    BY DEF Holds
  <2> QED BY <2>1 DEF Pending
<1> QED BY <1>2, <1>3, <1>4, <1>5 DEF Rest

\* A compressed path says what the path said.
LEMMA CompressLinked ==
    ASSUME HeapOK, CursorOK, FindMeaning, Compress, cur \in Live, NEW m \in Readings
    PROVE  Linked(m)' <=> Linked(m)
<1>1. path \subseteq Uv /\ cur # None
  BY TypesAssumption DEF CursorOK, HeapOK, Live, Type
<1>2. /\ \A u \in path : parent'[u] = cur
      /\ \A u \in Uv \ path : parent'[u] = parent[u]
  BY <1>1 DEF Compress
<1>3. ASSUME Linked(m) PROVE Linked(m)'
  <2>1. \A u \in path : m[u] = m[cur]
    BY <1>3 DEF FindMeaning
  <2>2. \A u \in Uv : parent'[u] # None => m[u] = m[parent'[u]]
    BY <1>1, <1>2, <1>3, <2>1 DEF Linked
  <2> QED BY <2>2 DEF Linked
<1>4. ASSUME Linked(m)' PROVE Linked(m)
  <2>1. \A u \in path : m[u] = m[cur]
    BY <1>1, <1>2, <1>4 DEF Linked
  <2>2. \A u \in path : parent[u] \in path \cup {cur}
    BY DEF CursorOK
  <2>3. \A u \in path : m[u] = m[parent[u]]
    BY <2>1, <2>2
  <2> QED BY <1>2, <1>4, <2>3 DEF Linked
<1> QED BY <1>3, <1>4

\* Linking a representative adds one equation.
LEMMA LinkLinked ==
    ASSUME HeapOK, NEW u \in uvs, parent[u] = None, NEW t \in Live,
           parent' = [parent EXCEPT ![u] = t], NEW m \in Readings
    PROVE  Linked(m)' <=> Linked(m) /\ m[u] = m[t]
<1>1. u \in Uv /\ t # None /\ parent'[u] = t /\ \A v \in Uv \ {u} : parent'[v] = parent[v]
  BY TypesAssumption DEF HeapOK, Live, Type
<1> QED BY <1>1 DEF Linked

\* A step of unify leaves what the links and the stack say together unchanged.
LEMMA StepMeaning ==
    ASSUME TypeOK, FindMeaning, Step, NEW m \in Readings, Free(m)
    PROVE  Linked(m)' /\ Pending(m)' <=> Linked(m) /\ Pending(m)
<1> USE DEF TypeOK, Step, Busy
<1>0. UNCHANGED <<domain, codomain>>
  BY DEF FindThis, FindParent, FoundThis, FoundOther, Same, UnifyUvs, BindThis,
         BindOther, Bind, UnifyFns, Clash, UnifyParam, UnifyCodomain,
         ArityMismatch, typeVars
<1>1. CASE FindThis \/ FindParent \/ Clash \/ ArityMismatch
  <2>1. UNCHANGED <<todo, parent>>
    BY <1>1 DEF FindThis, FindParent, Clash, ArityMismatch
  <2> QED BY <1>0, <2>1, HoldsUnchanged DEF Linked, Pending
<1>2. CASE FoundThis \/ FoundOther
  <2>1. UNCHANGED todo /\ Compress /\ cur \in Live
    BY <1>2 DEF FoundThis, FoundOther, CursorOK
  <2> QED BY <1>0, <2>1, HoldsUnchanged, CompressLinked DEF Pending
<1>3. CASE Same \/ UnifyUvs \/ BindThis \/ BindOther \/ UnifyFns
  <2>1. /\ pc = "found" /\ cur \in Live /\ found \in Live
        /\ Root(cur) /\ Root(found) /\ Head(todo).at = 0
    BY <1>3 DEF CursorOK, Same, UnifyUvs, BindThis, BindOther, Bind, UnifyFns
  <2>2. Linked(m) => (Holds(m, Head(todo)) <=> m[found] = m[cur])
    BY <2>1 DEF FindMeaning, Holds
  <2>3. Pending(m) <=> Holds(m, Head(todo)) /\ Rest(m)
    BY PendingHead
  <2>4. ASSUME Return PROVE Pending(m)' <=> Rest(m)
    <3>1. /\ <<>> \in Seq([this : Live, other : Live, at : Nat])
          /\ DOMAIN <<>> = {} /\ Replace(<<>>)
      BY <2>4, EmptySeq DEF Return
    <3> QED BY <1>0, <3>1, PendingReplaced
  <2>5. CASE Same
    <3>1. found = cur /\ Return /\ UNCHANGED parent
      BY <2>5 DEF Same
    <3> QED BY <2>2, <2>3, <2>4, <3>1 DEF Linked
  <2>6. ASSUME NEW u \in Live, NEW t \in Live, u \in Uv, Root(u),
               {u, t} = {cur, found}, parent' = [parent EXCEPT ![u] = t], Return
        PROVE  Linked(m)' /\ Pending(m)' <=> Linked(m) /\ Pending(m)
    <3>1. u \in uvs /\ parent[u] = None
      BY <2>6, TypesAssumption DEF Live, HeapOK, Root
    <3>2. Linked(m)' <=> Linked(m) /\ m[u] = m[t]
      BY <2>6, <3>1, LinkLinked
    <3>3. m[u] = m[t] <=> m[found] = m[cur]
      BY <2>6
    <3> QED BY <2>2, <2>3, <2>4, <2>6, <3>2, <3>3
  <2>7. CASE UnifyUvs
    <3>1. /\ Return /\ found \in Uv /\ cur \in Uv
          /\ \/ parent' = [parent EXCEPT ![found] = cur]
             \/ parent' = [parent EXCEPT ![cur] = found]
      BY <2>7 DEF UnifyUvs, Union
    <3> QED BY <2>1, <2>6, <3>1
  <2>8. CASE \E u, t \in {cur, found} : {u, t} = {cur, found} /\ Bind(u, t)
    <3>1. PICK u \in {cur, found}, t \in {cur, found} :
               {u, t} = {cur, found} /\ Bind(u, t)
      BY <2>8
    <3>2. CASE Occurs(u, t)
      <4>1. UNCHANGED <<todo, parent>>
        BY <3>1, <3>2 DEF Bind
      <4> QED BY <1>0, <4>1, HoldsUnchanged DEF Linked, Pending
    <3>3. CASE ~Occurs(u, t)
      <4>1. Return /\ parent' = [parent EXCEPT ![u] = t] /\ u \in Uv
        BY <3>1, <3>3 DEF Bind
      <4> QED BY <2>1, <2>6, <3>1, <4>1
    <3> QED BY <3>2, <3>3
  <2>9. CASE UnifyFns
    <3> DEFINE a == <<Fns(found, cur, 1)>>
    <3>1. /\ a \in Seq([this : Live, other : Live, at : Nat])
          /\ DOMAIN a = {1} /\ a[1] = Fns(found, cur, 1)
      <4>1. a \in Seq([this : Live, other : Live, at : Nat])
        BY <2>1, ActivationsTyped
      <4>2. DOMAIN a = {1} /\ a[1] = Fns(found, cur, 1)
        OBVIOUS
      <4> QED BY <4>1, <4>2
    <3>2. Replace(a) /\ UNCHANGED parent /\ found \in fns /\ cur \in fns
      BY <2>1, <2>9, TypesAssumption DEF UnifyFns, Live, HeapOK
    <3> HIDE DEF a
    <3>3. Pending(m)' <=> Holds(m, Fns(found, cur, 1)) /\ Rest(m)
      BY <1>0, <3>1, <3>2, PendingReplaced
    <3>4. \A j \in DOMAIN domain[found] : j >= 1
      BY <3>2, LenProperties DEF HeapOK
    <3>5. Holds(m, Fns(found, cur, 1)) <=> SameFn(m, found, cur)
      BY <3>4 DEF Holds, Fns, SameFn
    <3>6. SameFn(m, found, cur) <=> m[found] = m[cur]
      BY <3>2 DEF Free
    <3>7. Linked(m)' <=> Linked(m)
      BY <3>2 DEF Linked
    <3> QED BY <2>2, <2>3, <3>3, <3>5, <3>6, <3>7
  <2> QED BY <1>3, <2>5, <2>7, <2>8, <2>9 DEF BindThis, BindOther
<1>4. CASE UnifyParam \/ UnifyCodomain
  <2> DEFINE f == Head(todo).this
             g == Head(todo).other
             i == Head(todo).at
  <2>1. /\ f \in fns /\ g \in fns /\ i \in Nat /\ i > 0 /\ UNCHANGED parent
        /\ 1..(i - 1) \subseteq DOMAIN domain[f] \cap DOMAIN domain[g]
    BY <1>4, HeadTyped DEF LoopOK, UnifyParam, UnifyCodomain, InFns
  <2>2. /\ Parts(f) \subseteq Live /\ Parts(g) \subseteq Live /\ f \in Live /\ g \in Live
        /\ DOMAIN domain[f] = 1..Len(domain[f]) /\ Len(domain[f]) \in Nat
        /\ DOMAIN domain[g] = 1..Len(domain[g]) /\ Len(domain[g]) \in Nat
    BY <2>1, LenProperties DEF HeapOK, Live
  <2>3. Pending(m) <=> Holds(m, Head(todo)) /\ Rest(m)
    BY PendingHead
  <2>4. Holds(m, Head(todo)) <=>
            /\ DOMAIN domain[f] = DOMAIN domain[g]
            /\ \A j \in DOMAIN domain[f] :
                   j >= i => m[domain[f][j]] = m[domain[g][j]]
            /\ m[codomain[f]] = m[codomain[g]]
    BY <2>1 DEF Holds
  <2>5. Linked(m)' <=> Linked(m)
    BY <2>1 DEF Linked
  <2>6. CASE UnifyParam
    <3> DEFINE a == <<Call(domain[f][i], domain[g][i]), Fns(f, g, i + 1)>>
    <3>1. domain[f][i] \in Live /\ domain[g][i] \in Live
      BY <2>2, <2>6 DEF UnifyParam, Parts
    <3>2. /\ a \in Seq([this : Live, other : Live, at : Nat])
          /\ DOMAIN a = {1, 2}
          /\ a[1] = Call(domain[f][i], domain[g][i]) /\ a[2] = Fns(f, g, i + 1)
      BY <2>1, <2>2, <3>1 DEF Call, Fns
    <3>3. Replace(a) /\ i \in DOMAIN domain[f] /\ i \in DOMAIN domain[g]
      BY <2>6 DEF UnifyParam
    <3> HIDE DEF a
    <3>4. Pending(m)' <=> Holds(m, Call(domain[f][i], domain[g][i]))
                            /\ Holds(m, Fns(f, g, i + 1)) /\ Rest(m)
      BY <1>0, <3>2, <3>3, PendingReplaced
    <3>5. Holds(m, Call(domain[f][i], domain[g][i])) <=>
              m[domain[f][i]] = m[domain[g][i]]
      BY DEF Holds, Call
    <3>6. Holds(m, Fns(f, g, i + 1)) <=>
            /\ DOMAIN domain[f] = DOMAIN domain[g]
            /\ \A j \in DOMAIN domain[f] :
                   j >= i + 1 => m[domain[f][j]] = m[domain[g][j]]
            /\ m[codomain[f]] = m[codomain[g]]
      BY <2>1 DEF Holds, Fns
    <3>7. \A j \in DOMAIN domain[f] : j >= i <=> j = i \/ j >= i + 1
      BY <2>1, <2>2
    <3> HIDE DEF f, g, i
    <3>8. Holds(m, Head(todo)) <=>
              Holds(m, Call(domain[f][i], domain[g][i])) /\ Holds(m, Fns(f, g, i + 1))
      BY <2>4, <3>3, <3>5, <3>6, <3>7
    <3> QED BY <2>3, <2>5, <3>4, <3>8
  <2>7. CASE UnifyCodomain
    <3> DEFINE a == <<Call(codomain[g], codomain[f])>>
    <3>1. codomain[f] \in Live /\ codomain[g] \in Live
      BY <2>2 DEF Parts
    <3>2. /\ a \in Seq([this : Live, other : Live, at : Nat])
          /\ DOMAIN a = {1} /\ a[1] = Call(codomain[g], codomain[f])
      BY <3>1, ActivationsTyped
    <3>3. Replace(a) /\ i \notin DOMAIN domain[f] /\ i \notin DOMAIN domain[g]
      BY <2>7 DEF UnifyCodomain
    <3> HIDE DEF a
    <3>4. Pending(m)' <=> Holds(m, Call(codomain[g], codomain[f])) /\ Rest(m)
      BY <1>0, <3>2, <3>3, PendingReplaced
    <3>5. Holds(m, Call(codomain[g], codomain[f])) <=> m[codomain[g]] = m[codomain[f]]
      BY DEF Holds, Call
    <3>6. /\ DOMAIN domain[f] = DOMAIN domain[g]
          /\ \A j \in DOMAIN domain[f] : ~(j >= i)
      <4> HIDE DEF f, g, i
      <4>1. ASSUME NEW n \in Nat, 1..(i - 1) \subseteq 1..n, i \notin 1..n
            PROVE  n = i - 1
        <5>1. n < i
          BY <2>1, <4>1
        <5>2. i > 1 => i - 1 \in 1..n
          BY <2>1, <4>1
        <5> QED BY <2>1, <5>1, <5>2
      <4>2. Len(domain[f]) = i - 1 /\ Len(domain[g]) = i - 1
        BY <2>1, <2>2, <3>3, <4>1
      <4> QED BY <2>1, <2>2, <4>2
    <3> HIDE DEF f, g, i
    <3> QED BY <2>3, <2>4, <2>5, <3>4, <3>5, <3>6
  <2> QED BY <1>4, <2>6, <2>7
<1> QED BY <1>1, <1>2, <1>3, <1>4

\* The registers of a running find keep their meaning.
LEMMA StepFindMeaning ==
    ASSUME TypeOK, FindMeaning, Step
    PROVE  FindMeaning'
<1> USE DEF TypeOK, Step
<1> SUFFICES ASSUME NEW m \in Readings, Linked(m)'
             PROVE  /\ \A u \in path' : m[u] = m[cur']
                    /\ pc' = "find_this" => m[Head(todo').this] = m[cur']
                    /\ pc' \in {"find_other", "found"} =>
                          /\ m[Head(todo').this] = m[found']
                          /\ m[Head(todo').other] = m[cur']
  BY DEF FindMeaning
<1>1. CASE FindThis
  BY <1>1 DEF FindThis, Find
<1>2. CASE FindParent
  <2>1. Linked(m)
    BY <1>2 DEF FindParent, Linked
  <2>2. cur \in Uv /\ parent[cur] # None /\ m[cur] = m[parent[cur]]
    BY <1>2, <2>1 DEF FindParent, Root, Linked
  <2> QED BY <1>2, <2>1, <2>2 DEF FindParent, FindMeaning
<1>3. CASE FoundThis \/ FoundOther
  <2>1. Compress /\ cur \in Live
    BY <1>3 DEF FoundThis, FoundOther, CursorOK
  <2>2. Linked(m)
    BY <2>1, CompressLinked
  <2> QED BY <1>3, <2>2 DEF FoundThis, FoundOther, Find, FindMeaning
<1>4. CASE pc' = "call"
  <2>1. path' = {}
    BY <1>4, FindTypeOK, DispatchTypeOK, FnsTypeOK DEF CursorOK
  <2> QED BY <1>4, <2>1
<1>5. CASE UNCHANGED <<parent, pc, path, cur, found, todo>>
  BY <1>5 DEF FindMeaning, Linked
<1>6. \/ FindThis \/ FindParent \/ FoundThis \/ FoundOther \/ pc' = "call"
      \/ UNCHANGED <<parent, pc, path, cur, found, todo>>
  BY DEF Same, UnifyUvs, BindThis, BindOther, Bind, UnifyFns, Clash, UnifyParam,
         UnifyCodomain, ArityMismatch, Return, InFns
<1> QED BY <1>1, <1>2, <1>3, <1>4, <1>5, <1>6

\* A step of unify changes neither the terms that are free nor the goals.
LEMMA StepFree ==
    ASSUME Step, NEW m
    PROVE  (Free(m)' <=> Free(m)) /\ (Solves(m)' <=> Solves(m))
<1>1. UNCHANGED <<fns, domain, codomain, goals>>
  BY DEF Step, FindThis, FindParent, FoundThis, FoundOther, Same, UnifyUvs, BindThis,
         BindOther, Bind, UnifyFns, Clash, UnifyParam, UnifyCodomain,
         ArityMismatch, typeVars
<1>2. \A f, g : SameFn(m, f, g)' <=> SameFn(m, f, g)
  BY <1>1 DEF SameFn
<1>3. \A f : Parts(f)' = Parts(f)
  BY <1>1 DEF Parts
<1>4. Finite(m)' <=> Finite(m)
  BY <1>1, <1>3 DEF Finite
<1> QED BY <1>1, <1>2, <1>4 DEF Free, Solves

\* An assignment that fits the types after an allocation fitted them before.
LEMMA AllocateFree ==
    ASSUME TypeOK, Allocate, NEW m \in Readings, Free(m)'
    PROVE  Free(m)
<1>1. /\ fns \subseteq fns'
      /\ \A f \in fns : domain'[f] = domain[f] /\ codomain'[f] = codomain[f]
  BY DEF Allocate, NewUv, CallType, DefType, TypeOK, HeapOK
<1>2. \A f, g \in fns : SameFn(m, f, g)' <=> SameFn(m, f, g)
  BY <1>1 DEF SameFn
<1>3. \A f \in fns : Parts(f)' = Parts(f)
  BY <1>1 DEF Parts
<1>4. Finite(m)
  <2> SUFFICES ASSUME NEW T \in (SUBSET {m[x] : x \in Type}) \ {{}}
               PROVE  \E t \in T : \A f \in fns : m[f] = t => \A c \in Parts(f) : m[c] \notin T
    BY DEF Finite
  <2>1. Finite(m)'
    BY DEF Free
  <2>2. PICK t \in T : \A f \in fns' : m[f] = t => \A c \in Parts(f)' : m[c] \notin T
    BY <2>1, Zenon DEF Finite
  <2> QED BY <1>1, <1>3, <2>2
<1> QED BY <1>1, <1>2, <1>4 DEF Free

-----------------------------------------------------------------------------
(* Exceptions.                                                             *)

\* Both sides of a dispatch stand for the same term in every assignment that
\* fits the links and the stack.
LEMMA DispatchEqual ==
    ASSUME TypeOK, FindMeaning, Busy, pc = "found", NEW m \in Readings,
           Linked(m), Pending(m)
    PROVE  m[found] = m[cur]
<1>1. Holds(m, Head(todo)) /\ Head(todo).at = 0
  BY PendingHead DEF TypeOK, CursorOK, Busy
<1> QED BY <1>1 DEF FindMeaning, Holds

\* A type that occurs in another cannot equal it in finite terms.
LEMMA OccursContradiction ==
    ASSUME TypeOK, Acyclic, NEW u \in uvs, NEW t \in Live, t \notin Uv,
           Occurs(u, t), NEW m \in Readings, Free(m), Linked(m), m[u] = m[t]
    PROVE  FALSE
<1> USE DEF TypeOK
<1> DEFINE R == {x \in Live : Occurs(u, x)}
           T == {m[x] : x \in R \cap fns}
<1>1. t \in R /\ t # u /\ u \in Live
  BY DEF HeapOK, Live
<1>2. ASSUME NEW x \in R, x # u
      PROVE  Children(x) \cap R # {}
  <2>1. SUFFICES ASSUME Children(x) \cap R = {} PROVE FALSE
    OBVIOUS
  <2> DEFINE U == UNION {S \in SUBSET Live : Closed(S) /\ u \notin S}
             C == U \cup {x}
  <2>2. U \subseteq Live /\ u \notin U /\ Closed(U)
    BY DEF Closed
  <2>3. Children(x) \subseteq U
    <3>1. SUFFICES ASSUME NEW c \in Children(x) PROVE c \in U
      OBVIOUS
    <3>2. c \in Live
      BY <3>1, ChildrenLive
    <3>3. ~Occurs(u, c)
      BY <2>1, <3>1, <3>2
    <3>4. PICK S \in SUBSET Live : c \in S /\ Closed(S) /\ u \notin S
      BY <3>3 DEF Occurs
    <3> QED BY <3>4
  <2> HIDE DEF U
  <2>4. Closed(C) /\ C \in SUBSET Live /\ x \in C /\ u \notin C
    BY <1>2, <2>2, <2>3 DEF Closed
  <2>5. Occurs(u, x)
    OBVIOUS
  <2> HIDE DEF C
  <2> QED BY <2>4, <2>5 DEF Occurs
<1>3. t \in fns
  BY <1>1, <1>2, ChildrenOf DEF Live, HeapOK
<1>4. T \subseteq {m[x] : x \in Type} /\ m[t] \in T
  BY <1>1, <1>3 DEF Readings, Type, HeapOK
<1>5. PICK v \in T : \A f \in fns : m[f] = v => \A c \in Parts(f) : m[c] \notin T
  <2> HIDE DEF T
  <2> QED BY <1>4 DEF Free, Finite
<1>6. PICK f \in R \cap fns : m[f] = v
  OBVIOUS
<1>7. PICK c \in R : m[c] \notin T
  <2>1. f # u /\ Children(f) = Parts(f)
    BY <1>6, ChildrenOf, TypesAssumption DEF HeapOK
  <2> QED BY <1>2, <1>5, <1>6, <2>1
<1> DEFINE K == {x \in R : m[x] = m[c]}
<1>8. PICK x \in K : Children(x) \cap K = {}
  <2>1. K \subseteq Live /\ K # {}
    BY <1>7
  <2> HIDE DEF K
  <2> QED BY <2>1 DEF Acyclic
<1>9. x \notin fns
  BY <1>7, <1>8
<1>10. x # u
  BY <1>4, <1>7, <1>8
<1>11. PICK d \in R : d \in Children(x)
  BY <1>2, <1>8, <1>10
<1>12. x \in uvs /\ x \in Uv
  BY <1>8, <1>9, <1>11, ChildrenOf DEF Live, HeapOK
<1>13. d = parent[x] /\ parent[x] # None
  BY <1>11, <1>12, ChildrenOf DEF HeapOK
<1>14. m[d] = m[x]
  BY <1>12, <1>13 DEF Linked
<1> QED BY <1>8, <1>11, <1>14

\* Each of the three throws meets goals without a solution.
LEMMA ThrowJustified ==
    ASSUME TypeOK, Acyclic, FindMeaning, GeneralFor, Step, outcome' # "ok",
           NEW m \in Readings, Free(m), Solves(m)
    PROVE  FALSE
<1> USE DEF TypeOK, Step
<1>1. Linked(m) /\ Pending(m)
  BY DEF GeneralFor
<1>2. pc = "found" => m[found] = m[cur] /\ found \in Live /\ cur \in Live
  BY <1>1, DispatchEqual DEF CursorOK
<1>3. CASE \E u, t \in {cur, found} : {u, t} = {cur, found} /\ Bind(u, t)
  <2>1. PICK u \in {cur, found}, t \in {cur, found} : {u, t} = {cur, found} /\ Bind(u, t)
    BY <1>3
  <2>2. Occurs(u, t) /\ pc = "found" /\ u \in Uv /\ t \notin Uv
    BY <2>1 DEF Bind, Busy
  <2>3. u \in uvs /\ t \in Live /\ m[u] = m[t]
    BY <1>2, <2>1, <2>2, TypesAssumption DEF Live, HeapOK
  <2> QED BY <1>1, <2>2, <2>3, OccursContradiction
<1>4. CASE Clash
  <2>1. /\ m[found] = m[cur] /\ found # cur
        /\ found \in fns \cup Base /\ cur \in fns \cup Base
        /\ ~(found \in fns /\ cur \in fns)
    BY <1>2, <1>4 DEF Clash, Live, HeapOK
  <2>2. \A f \in fns : m[f] # m[Bool] /\ m[f] # m[I64]
    BY DEF Free
  <2>3. m[Bool] # m[I64]
    BY DEF Readings
  <2> QED BY <2>1, <2>2, <2>3 DEF Base
<1>5. CASE ArityMismatch
  <2>1. Holds(m, Head(todo)) /\ Head(todo).at > 0 /\ Head(todo).at \in Nat
    BY <1>1, <1>5, PendingHead, HeadTyped DEF ArityMismatch, InFns, Busy
  <2> QED BY <1>5, <2>1 DEF ArityMismatch, Holds
<1>6. \/ Clash \/ ArityMismatch
      \/ \E u, t \in {cur, found} : {u, t} = {cur, found} /\ Bind(u, t)
  BY DEF FindThis, FindParent, FoundThis, FoundOther, Same, UnifyUvs, UnifyFns,
         UnifyParam, UnifyCodomain, BindThis, BindOther, Busy
<1> QED BY <1>3, <1>4, <1>5, <1>6

-----------------------------------------------------------------------------
(* The inductive invariant and the theorems.                               *)

Meaning == FindMeaning /\ SoundFor /\ GeneralFor /\ JustifiedFor

\* Nothing is demanded at first.
LEMMA InitMeaning == Init => Meaning
BY DEF Init, Meaning, FindMeaning, SoundFor, GeneralFor, JustifiedFor, Solves,
       Linked, Pending

\* New type objects are unconstrained.
LEMMA AllocateMeaning ==
    ASSUME TypeOK, Meaning, Allocate
    PROVE  Meaning'
<1>1. UNCHANGED <<parent, goals, todo, pc, cur, path, found, outcome>>
      /\ todo = <<>> /\ outcome = "ok"
  BY DEF Allocate, NewUv, CallType, DefType, Idle
<1>2. ASSUME NEW m \in Readings
      PROVE  /\ Linked(m)' <=> Linked(m)
             /\ Solves(m)' <=> Solves(m)
             /\ Pending(m)' /\ Pending(m)
             /\ Free(m)' => Free(m)
  <2>1. Linked(m)' <=> Linked(m)
    BY <1>1 DEF Linked
  <2>2. Solves(m)' <=> Solves(m)
    BY <1>1 DEF Solves
  <2>3. Pending(m)' /\ Pending(m)
    BY <1>1 DEF Pending
  <2>4. Free(m)' => Free(m)
    BY AllocateFree
  <2> QED BY <2>1, <2>2, <2>3, <2>4
<1>3. FindMeaning'
  BY <1>1, <1>2 DEF Meaning, FindMeaning
<1>4. SoundFor' /\ GeneralFor' /\ JustifiedFor'
  BY <1>1, <1>2 DEF Meaning, SoundFor, GeneralFor, JustifiedFor
<1> QED BY <1>3, <1>4 DEF Meaning

\* A new goal and its activation demand the same.
LEMMA UnifyMeaning ==
    ASSUME TypeOK, Meaning, NEW a \in Type, NEW b \in Type, Unify(a, b)
    PROVE  Meaning'
<1>1. /\ UNCHANGED <<parent, fns, domain, codomain, pc, cur, path, found, outcome>>
      /\ todo = <<>> /\ outcome = "ok" /\ todo' = <<Call(a, b)>>
      /\ goals' = goals \cup {<<a, b>>}
  BY DEF Unify, Idle, typeVars
<1>2. pc = "call" /\ path = {}
  BY <1>1 DEF TypeOK, CursorOK
<1>3. ASSUME NEW m \in Readings
      PROVE  /\ Linked(m)' <=> Linked(m)
             /\ Solves(m)' <=> Solves(m) /\ m[a] = m[b]
             /\ Pending(m)
             /\ Pending(m)' <=> m[a] = m[b]
             /\ Free(m)' <=> Free(m)
  <2>1. Linked(m)' <=> Linked(m)
    BY <1>1 DEF Linked
  <2>2. Solves(m)' <=> Solves(m) /\ m[a] = m[b]
    <3>1. Solves(m)' <=> \A goal \in goals \cup {<<a, b>>} : m[goal[1]] = m[goal[2]]
      BY <1>1 DEF Solves
    <3> DEFINE p == <<a, b>>
    <3>2. p[1] = a /\ p[2] = b
      OBVIOUS
    <3>3. Solves(m)' <=> Solves(m) /\ m[p[1]] = m[p[2]]
      <4> HIDE DEF p
      <4>1. Solves(m)' <=> \A goal \in goals \cup {p} : m[goal[1]] = m[goal[2]]
        BY <3>1 DEF p
      <4> QED BY <4>1 DEF Solves
    <3> HIDE DEF p
    <3> QED BY <3>2, <3>3
  <2>3. Pending(m)
    BY <1>1 DEF Pending
  <2>4. Pending(m)' <=> m[a] = m[b]
    BY <1>1 DEF Pending, Holds, Call
  <2>5. /\ \A f, g : SameFn(m, f, g)' <=> SameFn(m, f, g)
        /\ \A f : Parts(f)' = Parts(f)
    BY <1>1 DEF SameFn, Parts
  <2>6. Finite(m)' <=> Finite(m)
    BY <1>1, <2>5 DEF Finite
  <2>7. Free(m)' <=> Free(m)
    BY <1>1, <2>5, <2>6 DEF Free
  <2> QED BY <2>1, <2>2, <2>3, <2>4, <2>7
<1>4. FindMeaning'
  BY <1>1, <1>2, <1>3 DEF Meaning, FindMeaning
<1>5. SoundFor' /\ GeneralFor' /\ JustifiedFor'
  BY <1>1, <1>3 DEF Meaning, SoundFor, GeneralFor, JustifiedFor
<1> QED BY <1>4, <1>5 DEF Meaning

\* Each step of unify keeps the demands and the goals equivalent.
LEMMA StepKeepsMeaning ==
    ASSUME TypeOK, Acyclic, Meaning, Step
    PROVE  Meaning'
<1> USE DEF Meaning
<1>1. FindMeaning'
  BY StepFindMeaning
<1>2. \A m \in Readings :
        /\ Free(m)' <=> Free(m)
        /\ Solves(m)' <=> Solves(m)
        /\ Free(m) => (Linked(m)' /\ Pending(m)' <=> Linked(m) /\ Pending(m))
  BY StepFree, StepMeaning
<1>3. SoundFor' /\ GeneralFor'
  BY <1>2 DEF SoundFor, GeneralFor
<1>4. JustifiedFor'
  BY <1>2, ThrowJustified DEF JustifiedFor
<1> QED BY <1>1, <1>3, <1>4

\* Meaning is about the state alone.
LEMMA MeaningUnchanged ==
    ASSUME Meaning, UNCHANGED vars
    PROVE  Meaning'
<1>1. ASSUME NEW m \in Readings
      PROVE  /\ Linked(m)' <=> Linked(m)
             /\ Solves(m)' <=> Solves(m)
             /\ Pending(m)' <=> Pending(m)
             /\ Free(m)' <=> Free(m)
  <2>1. (Linked(m)' <=> Linked(m)) /\ (Solves(m)' <=> Solves(m))
    BY DEF vars, Linked, Solves
  <2>2. Pending(m)' <=> Pending(m)
    BY HoldsUnchanged DEF vars, Pending
  <2>3. /\ \A f, g : SameFn(m, f, g)' <=> SameFn(m, f, g)
        /\ \A f : Parts(f)' = Parts(f)
    BY DEF vars, SameFn, Parts
  <2>4. Finite(m)' <=> Finite(m)
    BY <2>3 DEF vars, Finite
  <2>5. Free(m)' <=> Free(m)
    BY <2>3, <2>4 DEF vars, Free
  <2> QED BY <2>1, <2>2, <2>5
<1> QED BY <1>1
    DEF vars, Meaning, FindMeaning, SoundFor, GeneralFor, JustifiedFor

\* The links and the stack mean what the goals mean, always.
LEMMA MeaningInvariant == Spec => []Meaning
<1>1. Init => Meaning
  BY InitMeaning
<1>2. TypeOK /\ Acyclic /\ Meaning /\ [Next]_vars => Meaning'
  BY AllocateMeaning, UnifyMeaning, StepKeepsMeaning, MeaningUnchanged DEF Next
<1> QED BY <1>1, <1>2, TypesCorrect, LinksAcyclic, PTL DEF Spec

LEMMA AssignmentsRead == Assignments \subseteq Readings
<1> SUFFICES ASSUME NEW v \in [Uv -> Term \cup Base], NEW f \in [Fn -> Term]
             PROVE  [t \in Type |-> IF t \in Uv THEN v[t] ELSE IF t \in Fn THEN f[t] ELSE t] \in Readings
  BY DEF Assignments
<1>1. PICK m : m = [t \in Type |-> IF t \in Uv THEN v[t] ELSE IF t \in Fn THEN f[t] ELSE t]
  OBVIOUS
<1>2. \A t \in Type : m[t] \in Term \cup Type
  BY <1>1 DEF Type
<1>3. m[Bool] = Bool /\ m[I64] = I64 /\ Bool # I64
  BY <1>1, TypesAssumption DEF Type, Base
<1>4. m \in [Type -> Term \cup Type]
  BY <1>1, <1>2
<1> QED BY <1>1, <1>3, <1>4 DEF Readings

\* Whatever fits the links and the unfinished work fits every pair the typer
\* has unified: unify never drops a constraint.
THEOREM UnifySound == Spec => []Sound
<1>1. Meaning => Sound
  BY AssignmentsRead DEF Meaning, SoundFor, Sound
<1> QED BY <1>1, MeaningInvariant, PTL

\* Whatever fits the pairs the typer has unified fits the links: unify binds
\* nothing it need not bind.
THEOREM UnifyMostGeneral == Spec => []MostGeneral
<1>1. Meaning => MostGeneral
  BY AssignmentsRead DEF Meaning, GeneralFor, MostGeneral
<1> QED BY <1>1, MeaningInvariant, PTL

\* UnificationError and OccursError are thrown only when the pairs have no
\* common solution in finite terms.
THEOREM UnifyErrorsJustified == Spec => []ErrorsJustified
<1>1. Meaning => ErrorsJustified
  BY AssignmentsRead DEF Meaning, JustifiedFor, ErrorsJustified
<1> QED BY <1>1, MeaningInvariant, PTL

-----------------------------------------------------------------------------
(* The answer.  When the work is done the links have a solution: terms are *)
(* equal if nothing tells the representatives apart.                       *)

\* r is where the links from t end.
LeadsTo(t, r) ==
    /\ r \in Live /\ Root(r)
    /\ \A S \in SUBSET Live : t \in S /\ (\A u \in S : ~Root(u) => parent[u] \in S) => r \in S

Rep(t) == CHOOSE r : LeadsTo(t, r)

\* A type that is not a representative is a variable with a link.
LEMMA LinkIs ==
    ASSUME HeapOK, NEW t \in Live, ~Root(t)
    PROVE  t \in uvs /\ t \in Uv /\ parent[t] \in Live /\ parent[t] # None /\ parent[t] \in Children(t)
<1>1. t \in Uv /\ parent[t] # None
  BY DEF Root
<1>2. t \in uvs /\ parent[t] \in Live
  BY <1>1 DEF HeapOK
<1>3. Children(t) = {parent[t]} \ {None}
  BY <1>2, ChildrenOf DEF HeapOK
<1> QED BY <1>1, <1>2, <1>3

\* The links from a type end in exactly one.
LEMMA RepExists ==
    ASSUME HeapOK, Acyclic
    PROVE  \A t \in Live : \E r : LeadsTo(t, r) /\ \A q : LeadsTo(t, q) => q = r
<1> DEFINE Good(t) == \E r : LeadsTo(t, r) /\ \A q : LeadsTo(t, q) => q = r
           B == {t \in Live : ~Good(t)}
<1>1. SUFFICES ASSUME B # {} PROVE FALSE
  OBVIOUS
<1>2. PICK t \in B : Children(t) \cap B = {}
  <2> HIDE DEF B
  <2>1. B \subseteq Live
    BY DEF B
  <2> QED BY <1>1, <2>1 DEF Acyclic
<1>3. CASE Root(t)
  <2>1. LeadsTo(t, t)
    BY <1>2, <1>3 DEF LeadsTo
  <2>2. ASSUME NEW q, LeadsTo(t, q) PROVE q = t
    <3>1. {t} \in SUBSET Live
      BY <1>2
    <3> QED BY <1>3, <2>2, <3>1 DEF LeadsTo
  <2> QED BY <1>2, <2>1, <2>2
<1>4. CASE ~Root(t)
  <2>1. parent[t] \in Live /\ parent[t] \in Children(t)
    BY <1>2, <1>4, LinkIs
  <2>2. Good(parent[t])
    BY <1>2, <2>1
  <2>3. PICK r : LeadsTo(parent[t], r) /\ \A q : LeadsTo(parent[t], q) => q = r
    BY <2>2
  <2>4. LeadsTo(t, r)
    BY <1>4, <2>3 DEF LeadsTo
  <2>5. ASSUME NEW q, LeadsTo(t, q) PROVE q = r
    <3>1. q \in Live /\ Root(q) /\ q # t
      BY <1>4, <2>5 DEF LeadsTo
    <3>2. ASSUME NEW S \in SUBSET Live, parent[t] \in S, \A u \in S : ~Root(u) => parent[u] \in S
          PROVE  q \in S
      <4>1. S \cup {t} \in SUBSET Live
        BY <1>2
      <4>2. \A u \in S \cup {t} : ~Root(u) => parent[u] \in S \cup {t}
        BY <3>2
      <4>3. q \in S \cup {t}
        BY <2>5, <4>1, <4>2 DEF LeadsTo
      <4> QED BY <3>1, <4>3
    <3>3. LeadsTo(parent[t], q)
      BY <3>1, <3>2 DEF LeadsTo
    <3> QED BY <2>3, <3>3
  <2> QED BY <1>2, <2>4, <2>5
<1> QED BY <1>3, <1>4

LEMMA RepIs ==
    ASSUME HeapOK, Acyclic, NEW t \in Live
    PROVE  /\ Rep(t) \in Live /\ Root(Rep(t))
           /\ Root(t) => Rep(t) = t
           /\ ~Root(t) => Rep(t) = Rep(parent[t])
<1>1. LeadsTo(t, Rep(t))
  BY RepExists DEF Rep
<1>2. CASE Root(t)
  <2>1. {t} \in SUBSET Live
    OBVIOUS
  <2> QED BY <1>1, <1>2, <2>1 DEF LeadsTo
<1>3. CASE ~Root(t)
  <2>1. parent[t] \in Live
    BY <1>3, LinkIs
  <2>2. LeadsTo(parent[t], Rep(parent[t]))
    BY <2>1, RepExists DEF Rep
  <2>3. LeadsTo(t, Rep(parent[t]))
    BY <1>3, <2>2 DEF LeadsTo
  <2>4. Rep(t) = Rep(parent[t])
    BY <1>1, <2>3, RepExists
  <2> QED BY <1>1, <1>3, <2>4 DEF LeadsTo
<1> QED BY <1>2, <1>3

\* What is paired in B has the same shape, and paired parts.
Matches(B, s, t) ==
    \/ s = t
    \/ /\ s \in fns /\ t \in fns /\ DOMAIN domain[s] = DOMAIN domain[t]
       /\ \A i \in DOMAIN domain[s] : <<Rep(domain[s][i]), Rep(domain[t][i])>> \in B
       /\ <<Rep(codomain[s]), Rep(codomain[t])>> \in B

Matching(B) == \A s, t \in Live : <<s, t>> \in B => Matches(B, s, t)

Alike == UNION {B \in SUBSET (Live \X Live) : Matching(B)}

LEMMA AlikeMatches == Alike \subseteq Live \X Live /\ Matching(Alike)
<1>1. Alike \subseteq Live \X Live
  BY DEF Alike
<1>2. ASSUME NEW s \in Live, NEW t \in Live, <<s, t>> \in Alike
      PROVE  Matches(Alike, s, t)
  <2>1. PICK B \in SUBSET (Live \X Live) : Matching(B) /\ <<s, t>> \in B
    BY <1>2 DEF Alike
  <2>2. B \subseteq Alike
    BY <2>1 DEF Alike
  <2>3. Matches(B, s, t)
    BY <2>1 DEF Matching
  <2> QED BY <2>2, <2>3 DEF Matches
<1> QED BY <1>1, <1>2 DEF Matching

LEMMA MatchingAlike ==
    ASSUME NEW B \in SUBSET (Live \X Live), Matching(B), NEW p \in B
    PROVE  p \in Alike
BY DEF Alike

LEMMA AlikeReflexive == \A t \in Live : <<t, t>> \in Alike
<1> DEFINE B == {<<t, t>> : t \in Live}
<1>1. B \in SUBSET (Live \X Live)
  OBVIOUS
<1>2. Matching(B)
  BY DEF Matching, Matches
<1>3. \A t \in Live : <<t, t>> \in B
  OBVIOUS
<1> HIDE DEF B
<1> QED BY <1>1, <1>2, <1>3, MatchingAlike

LEMMA AlikeSymmetric == \A s, t \in Live : <<s, t>> \in Alike => <<t, s>> \in Alike
<1> DEFINE B == {p \in Live \X Live : <<p[2], p[1]>> \in Alike}
<1>1. B \in SUBSET (Live \X Live)
  OBVIOUS
<1>2. \A s, t : <<s, t>> \in B <=> <<t, s>> \in Alike
  BY AlikeMatches
<1>3. Matching(B)
  <2> SUFFICES ASSUME NEW s \in Live, NEW t \in Live, <<s, t>> \in B
               PROVE  Matches(B, s, t)
    BY DEF Matching
  <2>1. Matches(Alike, t, s)
    BY <1>2, AlikeMatches DEF Matching
  <2> HIDE DEF B
  <2> QED BY <1>2, <2>1 DEF Matches
<1> HIDE DEF B
<1> QED BY <1>1, <1>2, <1>3, MatchingAlike

LEMMA AlikeTransitive ==
    \A s, t, u \in Live : <<s, t>> \in Alike /\ <<t, u>> \in Alike => <<s, u>> \in Alike
<1> DEFINE B == {p \in Live \X Live : \E t \in Live : <<p[1], t>> \in Alike /\ <<t, p[2]>> \in Alike}
<1>1. B \in SUBSET (Live \X Live)
  OBVIOUS
<1>2. \A s, u : <<s, u>> \in B <=> \E t \in Live : <<s, t>> \in Alike /\ <<t, u>> \in Alike
  BY AlikeMatches
<1>3. Alike \subseteq B
  <2>1. ASSUME NEW p \in Alike PROVE p \in B
    <3>1. PICK s \in Live, u \in Live : p = <<s, u>>
      BY AlikeMatches
    <3> HIDE DEF B
    <3> QED BY <1>2, <3>1, AlikeReflexive
  <2> QED BY <2>1
<1>4. Matching(B)
  <2> SUFFICES ASSUME NEW s \in Live, NEW u \in Live, <<s, u>> \in B
               PROVE  Matches(B, s, u)
    BY DEF Matching
  <2>1. PICK t \in Live : <<s, t>> \in Alike /\ <<t, u>> \in Alike
    BY <1>2
  <2>2. Matches(Alike, s, t) /\ Matches(Alike, t, u)
    BY <2>1, AlikeMatches DEF Matching
  <2> HIDE DEF B
  <2>3. CASE s = t \/ t = u
    BY <1>3, <2>2, <2>3 DEF Matches
  <2>4. CASE s # t /\ t # u
    <3>1. \A a, b, c : <<a, b>> \in Alike /\ <<b, c>> \in Alike => <<a, c>> \in B
      BY <1>2, AlikeMatches
    <3> QED BY <2>2, <2>4, <3>1 DEF Matches
  <2> QED BY <2>3, <2>4
<1> HIDE DEF B
<1>5. \A s, t, u \in Live : <<s, t>> \in Alike /\ <<t, u>> \in Alike => <<s, u>> \in B
  BY <1>2
<1> QED BY <1>1, <1>4, <1>5, MatchingAlike

\* Two parts lists that the representatives do not tell apart.
AlikeParts(f, g) ==
    /\ DOMAIN domain[f] = DOMAIN domain[g]
    /\ \A i \in DOMAIN domain[f] : <<Rep(domain[f][i]), Rep(domain[g][i])>> \in Alike
    /\ <<Rep(codomain[f]), Rep(codomain[g])>> \in Alike

LEMMA AlikeFunctions ==
    ASSUME HeapOK, Acyclic, NEW f \in fns, NEW g \in fns
    PROVE  <<f, g>> \in Alike <=> AlikeParts(f, g)
<1>1. f \in Live /\ g \in Live
  BY DEF Live
<1>2. \A h \in fns : /\ \A i \in DOMAIN domain[h] : domain[h][i] \in Live
                     /\ codomain[h] \in Live
  BY DEF HeapOK, Parts, Live
<1>3. ASSUME <<f, g>> \in Alike PROVE AlikeParts(f, g)
  <2>1. Matches(Alike, f, g)
    BY <1>1, <1>3, AlikeMatches DEF Matching
  <2>2. CASE f = g
    BY <1>2, <2>2, RepIs, AlikeReflexive DEF AlikeParts
  <2> QED BY <2>1, <2>2 DEF Matches, AlikeParts
<1>4. ASSUME AlikeParts(f, g) PROVE <<f, g>> \in Alike
  <2> DEFINE B == Alike \cup {<<f, g>>}
  <2>1. B \in SUBSET (Live \X Live) /\ <<f, g>> \in B
    BY <1>1, AlikeMatches
  <2>2. Matching(B)
    <3> SUFFICES ASSUME NEW s \in Live, NEW t \in Live, <<s, t>> \in B
                 PROVE  Matches(B, s, t)
      BY DEF Matching
    <3>1. Alike \subseteq B
      OBVIOUS
    <3>2. CASE <<s, t>> \in Alike
      <4>1. Matches(Alike, s, t)
        BY <3>2, AlikeMatches DEF Matching
      <4> HIDE DEF B
      <4> QED BY <3>1, <4>1 DEF Matches
    <3>3. CASE s = f /\ t = g
      <4> HIDE DEF B
      <4> QED BY <1>4, <3>1, <3>3 DEF Matches, AlikeParts
    <3> QED BY <3>2, <3>3
  <2> HIDE DEF B
  <2> QED BY <2>1, <2>2, MatchingAlike
<1> QED BY <1>3, <1>4

\* Every type as the term named by one of the representatives like its own.
Reading == [t \in Type |-> IF t \in Live THEN CHOOSE s \in Live : <<s, Rep(t)>> \in Alike ELSE t]

LEMMA ReadingIs ==
    ASSUME HeapOK, Acyclic
    PROVE  /\ Reading \in [Type -> Type] /\ Live \subseteq Type
           /\ \A s, t \in Live : Reading[s] = Reading[t] <=> <<Rep(s), Rep(t)>> \in Alike
           /\ \A b \in Base : b \in Live /\ Rep(b) = b /\ Reading[b] = b
           /\ \A f \in fns : f \in Live /\ Rep(f) = f /\ Reading[f] \in fns /\ Reading[f] \notin Base
<1>1. Live \subseteq Type /\ Base \subseteq Live /\ fns \subseteq Live
  BY DEF HeapOK, Live, Type
<1>2. ASSUME NEW t \in Live
      PROVE  Reading[t] \in Live /\ <<Reading[t], Rep(t)>> \in Alike
  <2>1. <<Rep(t), Rep(t)>> \in Alike /\ Rep(t) \in Live
    BY RepIs, AlikeReflexive
  <2> QED BY <1>1, <2>1 DEF Reading
<1>3. Reading \in [Type -> Type]
  <2>1. \A t \in Type : Reading[t] \in Type
    <3> TAKE t \in Type
    <3>1. CASE t \in Live
      BY <1>1, <1>2, <3>1
    <3>2. CASE t \notin Live
      BY <3>2 DEF Reading
    <3> QED BY <3>1, <3>2
  <2> QED BY <2>1 DEF Reading
<1>4. ASSUME NEW s \in Live, NEW t \in Live
      PROVE  Reading[s] = Reading[t] <=> <<Rep(s), Rep(t)>> \in Alike
  <2>1. Rep(s) \in Live /\ Rep(t) \in Live
    BY RepIs
  <2>2. ASSUME Reading[s] = Reading[t] PROVE <<Rep(s), Rep(t)>> \in Alike
    <3>1. <<Rep(s), Reading[s]>> \in Alike
      BY <1>2, <2>1, AlikeSymmetric
    <3> QED BY <1>2, <2>1, <2>2, <3>1, AlikeTransitive
  <2>3. ASSUME <<Rep(s), Rep(t)>> \in Alike PROVE Reading[s] = Reading[t]
    <3>1. \A x \in Live : <<x, Rep(s)>> \in Alike <=> <<x, Rep(t)>> \in Alike
      BY <2>1, <2>3, AlikeSymmetric, AlikeTransitive
    <3>2. /\ Reading[s] = CHOOSE x \in Live : <<x, Rep(s)>> \in Alike
          /\ Reading[t] = CHOOSE x \in Live : <<x, Rep(t)>> \in Alike
      BY <1>1 DEF Reading
    <3>3. \A x : (x \in Live /\ <<x, Rep(s)>> \in Alike) <=> (x \in Live /\ <<x, Rep(t)>> \in Alike)
      BY <3>1
    <3> QED BY <3>2, <3>3
  <2> QED BY <2>2, <2>3
<1>5. \A x \in Live : x \notin Uv => Rep(x) = x
  BY RepIs DEF Root
<1>6. \A b \in Base : b \notin Uv /\ b \notin fns
  BY TypesAssumption DEF HeapOK
<1>7. \A b \in Base : Rep(b) = b /\ Reading[b] = b
  <2> TAKE b \in Base
  <2>1. Rep(b) = b /\ b \in Live /\ Reading[b] \in Live /\ <<Reading[b], b>> \in Alike
    BY <1>1, <1>2, <1>5, <1>6
  <2>2. Matches(Alike, Reading[b], b)
    BY <2>1, AlikeMatches DEF Matching
  <2> QED BY <1>6, <2>1, <2>2 DEF Matches
<1>8. ASSUME NEW f \in fns
      PROVE  Rep(f) = f /\ Reading[f] \in fns /\ Reading[f] \notin Base
  <2>1. f \notin Uv /\ f \in Live
    BY <1>1, TypesAssumption DEF HeapOK
  <2>2. Rep(f) = f /\ Reading[f] \in Live /\ <<Reading[f], f>> \in Alike
    BY <1>2, <1>5, <2>1
  <2>3. Matches(Alike, Reading[f], f)
    BY <2>1, <2>2, AlikeMatches DEF Matching
  <2>4. Reading[f] \in fns
    BY <2>3, Zenon DEF Matches
  <2> QED BY <1>6, <2>2, <2>4
<1> QED BY <1>1, <1>3, <1>4, <1>7, <1>8

LEMMA ReadingFinite ==
    ASSUME HeapOK, Acyclic
    PROVE  Finite(Reading)
<1> SUFFICES ASSUME NEW T \in (SUBSET {Reading[x] : x \in Type}) \ {{}}
             PROVE  \E t \in T : \A f \in fns : Reading[f] = t => \A c \in Parts(f) : Reading[c] \notin T
  BY DEF Finite
<1> DEFINE S == {x \in Live : Reading[x] \in T}
<1>1. CASE S = {}
  <2>1. \A f \in fns : Reading[f] \notin T
    BY <1>1 DEF Live
  <2> QED BY <2>1
<1>2. CASE S # {}
  <2>1. PICK x \in S : Children(x) \cap S = {}
    <3>1. S \subseteq Live
      OBVIOUS
    <3> HIDE DEF S
    <3> QED BY <1>2, <3>1 DEF Acyclic
  <2>2. Root(x)
    <3> SUFFICES ASSUME ~Root(x) PROVE FALSE
      OBVIOUS
    <3>1. parent[x] \in Live /\ parent[x] \in Children(x)
      BY <2>1, LinkIs
    <3>2. <<Rep(x), Rep(parent[x])>> \in Alike
      BY <2>1, RepIs, AlikeReflexive
    <3>3. Reading[x] = Reading[parent[x]]
      BY <2>1, <3>1, <3>2, ReadingIs
    <3> QED BY <2>1, <3>1, <3>3
  <2>3. ASSUME NEW f \in fns, Reading[f] = Reading[x], NEW c \in Parts(f)
        PROVE  Reading[c] \notin T
    <3>1. f \in Live /\ Rep(f) = f /\ Rep(x) = x
      BY <2>1, <2>2, ReadingIs, RepIs
    <3>2. <<f, x>> \in Alike
      BY <2>1, <2>3, <3>1, ReadingIs
    <3>3. x \in fns
      <4>1. Matches(Alike, f, x)
        BY <2>1, <3>1, <3>2, AlikeMatches DEF Matching
      <4> QED BY <4>1 DEF Matches
    <3>4. AlikeParts(f, x)
      BY <3>2, <3>3, AlikeFunctions
    <3>5. PICK d \in Parts(x) : <<Rep(c), Rep(d)>> \in Alike
      BY <2>3, <3>4 DEF AlikeParts, Parts
    <3>6. c \in Live /\ d \in Live /\ d \in Children(x)
      BY <3>3, ChildrenOf, TypesAssumption DEF HeapOK, Live
    <3>7. Reading[c] = Reading[d]
      BY <3>5, <3>6, ReadingIs
    <3> QED BY <2>1, <3>6, <3>7
  <2> QED BY <2>1, <2>3
<1> QED BY <1>1, <1>2

\* Links whose work is done have a solution.
LEMMA ReadingSolves ==
    ASSUME TypeOK, Acyclic, SoundFor, todo = <<>>
    PROVE  Free(Reading) /\ Solves(Reading)
<1>1. HeapOK
  BY DEF TypeOK
<1>2. /\ Reading \in [Type -> Type] /\ Live \subseteq Type
      /\ \A s, t \in Live : Reading[s] = Reading[t] <=> <<Rep(s), Rep(t)>> \in Alike
      /\ \A b \in Base : b \in Live /\ Rep(b) = b /\ Reading[b] = b
      /\ \A f \in fns : f \in Live /\ Rep(f) = f /\ Reading[f] \notin Base
  BY <1>1, ReadingIs
<1>3. Reading \in Readings
  BY <1>2, TypesAssumption DEF Readings, Base
<1>4. Linked(Reading)
  <2> SUFFICES ASSUME NEW u \in Uv, parent[u] # None PROVE Reading[u] = Reading[parent[u]]
    BY DEF Linked
  <2>1. u \in Live /\ ~Root(u) /\ parent[u] \in Live
    BY <1>1 DEF HeapOK, Root, Live
  <2>2. <<Rep(u), Rep(parent[u])>> \in Alike
    BY <1>1, <2>1, RepIs, AlikeReflexive
  <2> QED BY <1>2, <2>1, <2>2
<1>5. ASSUME NEW f \in fns, NEW g \in fns
      PROVE  Reading[f] = Reading[g] <=> SameFn(Reading, f, g)
  <2>1. Reading[f] = Reading[g] <=> AlikeParts(f, g)
    BY <1>1, <1>2, AlikeFunctions
  <2>2. \A h \in fns : /\ \A i \in DOMAIN domain[h] : domain[h][i] \in Live
                       /\ codomain[h] \in Live
    BY <1>1 DEF HeapOK, Parts, Live
  <2>3. SameFn(Reading, f, g) <=> AlikeParts(f, g)
    <3>1. Reading[codomain[f]] = Reading[codomain[g]] <=> <<Rep(codomain[f]), Rep(codomain[g])>> \in Alike
      BY <1>2, <2>2
    <3>2. ASSUME DOMAIN domain[f] = DOMAIN domain[g], NEW i \in DOMAIN domain[f]
          PROVE  Reading[domain[f][i]] = Reading[domain[g][i]]
                 <=> <<Rep(domain[f][i]), Rep(domain[g][i])>> \in Alike
      BY <1>2, <2>2, <3>2
    <3> QED BY <3>1, <3>2, Zenon DEF SameFn, AlikeParts
  <2> QED BY <2>1, <2>3
<1>6. Free(Reading)
  BY <1>1, <1>2, <1>5, ReadingFinite DEF Free, Base
<1>7. Pending(Reading)
  BY DEF Pending
<1> QED BY <1>3, <1>4, <1>6, <1>7 DEF SoundFor

\* A solution of UnifyPromise is a reading that fits the types and the goals.
LEMMA SolutionIs ==
    ASSUME NEW m, m[Bool] = Bool, m[I64] = I64
    PROVE  Promise!Solution(m) <=> Solves(m) /\ Free(m)
<1>1. \A f, g : Promise!EqualParts(m, f, g) <=> SameFn(m, f, g)
  BY DEF Promise!EqualParts, SameFn
<1>2. Promise!Type = Type /\ Promise!Base = Base /\ Base = {m[Bool], m[I64]}
  BY DEF Promise!Type, Promise!Base, Type, Base
<1>3. \A f : Promise!Parts(f) = Parts(f)
  BY DEF Promise!Parts, Parts
<1>4. Promise!Finite(m) <=> Finite(m)
  BY <1>2, <1>3 DEF Promise!Finite, Finite
<1> QED BY <1>1, <1>2, <1>4 DEF Promise!Solution, Solves, Free

\* unify returns to the typer only if the goals have a solution.
LEMMA DoneSolvable ==
    ASSUME TypeOK, Acyclic, SoundFor, todo = <<>>
    PROVE  Promise!Solvable
<1>1. HeapOK
  BY DEF TypeOK
<1>2. /\ Reading \in [Type -> Type]
      /\ \A b \in Base : Reading[b] = b
      /\ \A f \in fns : Reading[f] \in fns
  BY <1>1, ReadingIs
<1>3. Promise!Solution(Reading)
  BY <1>2, ReadingSolves, SolutionIs DEF Base
<1> DEFINE uvNames == [u \in Uv |-> Reading[u]]
           fnNames == [f \in Fn |-> Reading[f]]
<1>4. uvNames \in [Uv -> Type] /\ fnNames \in [Fn -> Fn]
  <2>1. \A f \in Fn \ fns : f \notin Live /\ f \in Type
    BY <1>1, TypesAssumption DEF HeapOK, Live, Type
  <2>2. \A f \in Fn \ fns : Reading[f] = f
    BY <2>1 DEF Reading
  <2>3. fns \subseteq Fn
    BY <1>1 DEF HeapOK
  <2> QED BY <1>2, <2>2, <2>3 DEF Type
<1>5. Promise!TermsOf(uvNames, fnNames) = Reading
  <2>1. \A t \in Type :
            (IF t \in Uv THEN uvNames[t] ELSE IF t \in Fn THEN fnNames[t] ELSE t) = Reading[t]
    BY <1>2 DEF Type
  <2> HIDE DEF uvNames, fnNames
  <2> QED BY <1>2, <2>1 DEF Promise!TermsOf, Promise!Type, Promise!Base, Type, Base
<1> HIDE DEF uvNames, fnNames
<1> QED BY <1>3, <1>4, <1>5 DEF Promise!Solvable, Promise!Type, Promise!Base, Type, Base

\* unify throws only if they have none.
LEMMA ThrownUnsolvable ==
    ASSUME JustifiedFor, outcome # "ok"
    PROVE  ~Promise!Solvable
<1> SUFFICES ASSUME NEW uvNames \in [Uv -> Type], NEW fnNames \in [Fn -> Fn],
                    Promise!Solution(Promise!TermsOf(uvNames, fnNames))
             PROVE  FALSE
  BY DEF Promise!Solvable, Promise!Type, Promise!Base, Type, Base
<1>1. PICK m : m = Promise!TermsOf(uvNames, fnNames)
  OBVIOUS
<1>2. m \in [Type -> Type] /\ m[Bool] = Bool /\ m[I64] = I64
  BY <1>1, TypesAssumption DEF Promise!TermsOf, Promise!Type, Promise!Base, Type, Base
<1>3. m \in Readings
  BY <1>2, TypesAssumption DEF Readings
<1> QED BY <1>1, <1>2, <1>3, SolutionIs DEF JustifiedFor

\* Whether there is one depends on the goals and the function types.
LEMMA SolvableStays ==
    ASSUME UNCHANGED <<fns, domain, codomain, goals>>
    PROVE  Promise!Solvable' <=> Promise!Solvable
<1>1. \A m, f, g : Promise!EqualParts(m, f, g)' <=> Promise!EqualParts(m, f, g)
  BY DEF Promise!EqualParts
<1>2. \A m : Promise!Finite(m)' <=> Promise!Finite(m)
  BY DEF Promise!Finite, Promise!Parts
<1>3. \A m : Promise!Solution(m)' <=> Promise!Solution(m)
  BY <1>1, <1>2 DEF Promise!Solution
<1> QED BY <1>3 DEF Promise!Solvable

LEMMA AnswersNext ==
    /\ TypeOK' /\ Acyclic' /\ Meaning' /\ (todo = <<>>)' => Promise!Solvable'
    /\ Meaning' /\ (outcome # "ok")' => ~Promise!Solvable'
<1>1. /\ TypeOK /\ Acyclic /\ Meaning /\ todo = <<>> => Promise!Solvable
      /\ Meaning /\ outcome # "ok" => ~Promise!Solvable
  BY DoneSolvable, ThrownUnsolvable DEF Meaning
<1> QED BY <1>1, PTL

\* What the typer sees of the work under way.
Answered == IF outcome # "ok" THEN "error" ELSE IF todo = <<>> THEN "ok" ELSE "solving"

LEMMA StepAnswers ==
    ASSUME TypeOK', Acyclic', Meaning', Step
    PROVE  Promise!Answer \/ UNCHANGED Promise!vars
<1>1. UNCHANGED <<fns, domain, codomain, goals>> /\ Answered = "solving"
  BY DEF Answered, Step, Busy, FindThis, FindParent, FoundThis, FoundOther, Same, UnifyUvs, BindThis, BindOther,
         Bind, UnifyFns, Clash, UnifyParam, UnifyCodomain, ArityMismatch, typeVars
<1>2. Promise!Solvable' <=> Promise!Solvable
  BY <1>1, SolvableStays
<1>3. /\ todo' = <<>> => Promise!Solvable'
      /\ outcome' # "ok" => ~Promise!Solvable'
  BY AnswersNext
<1>4. CASE outcome' # "ok"
  BY <1>1, <1>2, <1>3, <1>4 DEF Promise!Answer, Answered
<1>5. CASE outcome' = "ok" /\ todo' = <<>>
  BY <1>1, <1>2, <1>3, <1>5 DEF Promise!Answer, Answered
<1>6. CASE outcome' = "ok" /\ todo' # <<>>
  BY <1>1, <1>6 DEF Promise!vars, Answered
<1> QED BY <1>4, <1>5, <1>6

LEMMA AllocateGrows ==
    ASSUME TypeOK, Allocate
    PROVE  Promise!Grow
<1>1. UNCHANGED <<goals, todo, outcome>> /\ todo = <<>> /\ outcome = "ok"
  BY DEF Allocate, NewUv, CallType, DefType, Idle
<1>2. fns \subseteq fns' /\ \A f \in fns : domain'[f] = domain[f] /\ codomain'[f] = codomain[f]
  BY DEF Allocate, NewUv, CallType, DefType, TypeOK, HeapOK
<1> QED BY <1>1, <1>2 DEF Promise!Grow

LEMMA UnifyPoses ==
    ASSUME NEW a \in Type, NEW b \in Type, Unify(a, b)
    PROVE  Promise!Pose
<1>1. /\ todo = <<>> /\ outcome = "ok" /\ todo' = <<Call(a, b)>> /\ outcome' = "ok"
      /\ goals' = goals \cup {<<a, b>>} /\ UNCHANGED <<fns, domain, codomain>>
  BY DEF Unify, Idle, typeVars
<1>2. a \in Promise!Type /\ b \in Promise!Type /\ todo' # <<>>
  BY <1>1 DEF Promise!Type, Promise!Base, Type, Base
<1> QED BY <1>1, <1>2 DEF Promise!Pose

\* unify implements what the typer relies on: each call returns exactly if all
\* the pairs so far have a common solution in finite terms, and throws if not.
THEOREM UnifyKeepsPromise == Spec => KeepsPromise
<1>1. Init => Promise!Init
  BY DEF Init, Promise!Init
<1>2. TypeOK /\ TypeOK' /\ Acyclic' /\ Meaning' /\ [Next]_vars => [Promise!Next]_(Promise!vars)
  <2> SUFFICES ASSUME TypeOK, TypeOK', Acyclic', Meaning', [Next]_vars
               PROVE  [Promise!Next]_(Promise!vars)
    OBVIOUS
  <2>1. CASE Allocate
    BY <2>1, AllocateGrows DEF Promise!Next
  <2>2. CASE \E a \in Type, b \in Type : Unify(a, b)
    BY <2>2, UnifyPoses DEF Promise!Next
  <2>3. CASE Step
    BY <2>3, StepAnswers DEF Promise!Next
  <2>4. CASE UNCHANGED vars
    BY <2>4 DEF vars, Promise!vars
  <2> QED BY <2>1, <2>2, <2>3, <2>4 DEF Next
<1> QED BY <1>1, <1>2, TypesCorrect, LinksAcyclic, MeaningInvariant, PTL DEF Spec, KeepsPromise, Promise!Spec

-----------------------------------------------------------------------------
\* No step unlinks a variable or rebinds one whose representative is not a
\* variable: what the typer has read off a type stays true.
THEOREM BindingsArePermanent == Spec => BindingsPermanent
<1> DEFINE Kept == \A u \in Uv : parent[u] # None =>
                      parent'[u] # None /\ (parent[u] \notin Uv => parent'[u] = parent[u])
<1>1. TypeOK /\ [Next]_vars => [Kept]_vars
  <2> SUFFICES ASSUME TypeOK, Next PROVE Kept
    OBVIOUS
  <2> USE DEF TypeOK
  <2>1. CASE UNCHANGED parent
    BY <2>1
  <2>2. CASE Compress /\ cur \in Live
    <3>1. cur # None /\ \A u \in path : parent[u] \in path \cup {cur} /\ path \subseteq Uv
      BY <2>2, TypesAssumption DEF CursorOK, HeapOK, Live, Type
    <3> QED BY <2>2, <3>1 DEF Compress
  <2>3. ASSUME NEW u \in Live, NEW t \in Live, Root(u), u \in Uv,
               parent' = [parent EXCEPT ![u] = t]
        PROVE  Kept
    BY <2>3, TypesAssumption DEF Root, HeapOK, Live, Type
  <2>4. ASSUME NEW u \in Live, NEW t \in Live, Root(u), Bind(u, t)
        PROVE  Kept
    BY <2>1, <2>3, <2>4 DEF Bind
  <2>5. CASE Allocate \/ \E a \in Type, b \in Type : Unify(a, b)
    BY <2>1, <2>5 DEF Allocate, NewUv, CallType, DefType, Unify
  <2>6. CASE Step
    <3>1. CASE FoundThis \/ FoundOther
      BY <2>2, <3>1 DEF FoundThis, FoundOther, CursorOK
    <3>2. pc = "found" => cur \in Live /\ found \in Live /\ Root(cur) /\ Root(found)
      BY DEF CursorOK
    <3>3. CASE UnifyUvs
      BY <2>3, <3>2, <3>3 DEF UnifyUvs, Union
    <3>4. CASE BindThis \/ BindOther
      BY <2>4, <3>2, <3>4 DEF BindThis, BindOther, Bind
    <3>5. CASE \/ FindThis \/ FindParent \/ Same \/ UnifyFns \/ Clash
               \/ UnifyParam \/ UnifyCodomain \/ ArityMismatch
      BY <2>1, <3>5 DEF FindThis, FindParent, Same, UnifyFns, Clash, UnifyParam,
                        UnifyCodomain, ArityMismatch
    <3> QED BY <2>6, <3>1, <3>3, <3>4, <3>5 DEF Step
  <2> QED BY <2>5, <2>6 DEF Next
<1>2. Spec => [][Kept]_vars
  BY <1>1, TypesCorrect, PTL DEF Spec
<1> QED BY <1>2 DEF BindingsPermanent

-----------------------------------------------------------------------------
(* Ranks.                                                                  *)

\* The powers of two, by counting subsets.
LEMMA PowerOfTwo ==
    ASSUME NEW n \in Nat
    PROVE  2 ^ n \in Nat /\ 2 ^ 0 = 1 /\ 2 ^ (n + 1) = 2 ^ n + 2 ^ n
<1> DEFINE S == 1..n
           A == SUBSET S
           add == [T \in A |-> T \cup {n + 1}]
           B == {add[T] : T \in A}
<1>1. IsFiniteSet(S) /\ Cardinality(S) = n
  BY FS_Interval
<1>2. IsFiniteSet(1..(n + 1)) /\ Cardinality(1..(n + 1)) = n + 1
  BY FS_Interval
<1>3. IsFiniteSet(A) /\ Cardinality(A) = 2 ^ n
  BY <1>1, FS_SUBSET
<1>4. IsFiniteSet(SUBSET (1..(n + 1))) /\ Cardinality(SUBSET (1..(n + 1))) = 2 ^ (n + 1)
  BY <1>2, FS_SUBSET
<1>5. add \in Injection(A, B) /\ add \in Surjection(A, B)
  <2>1. add \in [A -> B] /\ \A b \in B : \E T \in A : add[T] = b
    OBVIOUS
  <2>2. ASSUME NEW T \in A, NEW U \in A, add[T] = add[U] PROVE T = U
    <3>1. n + 1 \notin T /\ n + 1 \notin U
      OBVIOUS
    <3> QED BY <2>2, <3>1
  <2> HIDE DEF add, A, B
  <2> QED BY <2>1, <2>2 DEF Injection, Surjection, IsInjective
<1>6. IsFiniteSet(B) /\ Cardinality(B) = Cardinality(A)
  <2> HIDE DEF A, B, add
  <2> QED BY <1>3, <1>5, FS_Surjection
<1>7. A \cap B = {}
  <2>1. ASSUME NEW T \in A, NEW U \in A, T = U \cup {n + 1} PROVE FALSE
    BY <2>1
  <2> QED BY <2>1
<1>8. SUBSET (1..(n + 1)) = A \cup B
  <2>1. A \cup B \subseteq SUBSET (1..(n + 1))
    <3>1. A \subseteq SUBSET (1..(n + 1))
      OBVIOUS
    <3>2. \A T \in A : add[T] \subseteq 1..(n + 1)
      OBVIOUS
    <3>3. B \subseteq SUBSET (1..(n + 1))
      <4> HIDE DEF A, add
      <4> QED BY <3>2, Zenon
    <3> QED BY <3>1, <3>3, Zenon
  <2>2. ASSUME NEW T \in SUBSET (1..(n + 1)) PROVE T \in A \cup B
    <3> DEFINE U == T \ {n + 1}
    <3>1. U \in A
      OBVIOUS
    <3>2. CASE n + 1 \in T
      <4>1. T = add[U]
        BY <3>1, <3>2
      <4> QED BY <3>1, <4>1
    <3>3. CASE n + 1 \notin T
      BY <3>1, <3>3
    <3> QED BY <3>2, <3>3
  <2> QED BY <2>1, <2>2
<1>9. Cardinality(A \cup B) = Cardinality(A) + Cardinality(B) - 0
  <2> HIDE DEF A, B
  <2> QED BY <1>3, <1>6, <1>7, FS_Union, FS_EmptySet
<1>10. Cardinality(A) \in Nat
  BY <1>3, FS_CardinalityType
<1>11. 2 ^ 0 = 1
  <2>1. Cardinality(SUBSET {}) = 2 ^ 0
    BY FS_SUBSET, FS_EmptySet
  <2>2. SUBSET {} = {{}}
    OBVIOUS
  <2> QED BY <2>1, <2>2, FS_Singleton
<1>12. 2 ^ (n + 1) = Cardinality(A) + Cardinality(A)
  <2>1. 2 ^ (n + 1) = Cardinality(A \cup B)
    BY <1>4, <1>8, Zenon
  <2>2. Cardinality(A \cup B) = Cardinality(A) + Cardinality(A)
    <3> HIDE DEF A, B
    <3> QED BY <1>6, <1>9, <1>10
  <2> QED BY <2>1, <2>2, Zenon
<1>13. 2 ^ n = Cardinality(A)
  BY <1>3, Zenon
<1> HIDE DEF A
<1> QED BY <1>10, <1>11, <1>12, <1>13

\* A set of variables that links do not lead out of, and the variables whose
\* links lead to u, for any links p between the members of V.
UpClosed(p, V, S) == \A w \in S : p[w] \in V => p[w] \in S
BelowIn(p, V, u) == {v \in V : \A S \in SUBSET V : v \in S /\ UpClosed(p, V, S) => u \in S}

LEMMA BelowIsBelowIn == \A u : Below(u) = BelowIn(parent, uvs, u)
BY DEF Below, BelowIn, UpClosed

\* What leads to u is closed under links, except that u's own link leaves it.
LEMMA BelowUpClosed ==
    ASSUME NEW V, NEW p, NEW u \in V, p[u] \notin V
    PROVE  UpClosed(p, V, BelowIn(p, V, u)) /\ u \in BelowIn(p, V, u)
<1>1. u \in BelowIn(p, V, u)
  BY DEF BelowIn
<1>2. ASSUME NEW w \in BelowIn(p, V, u), p[w] \in V
      PROVE  p[w] \in BelowIn(p, V, u)
  <2>1. SUFFICES ASSUME NEW S \in SUBSET V, p[w] \in S, UpClosed(p, V, S)
                 PROVE  u \in S
    BY <1>2 DEF BelowIn
  <2> DEFINE T == S \cup {w}
  <2>2. T \in SUBSET V /\ w \in T /\ UpClosed(p, V, T)
    BY <2>1 DEF UpClosed, BelowIn
  <2>3. u \in T
    <3> HIDE DEF T
    <3> QED BY <2>2 DEF BelowIn
  <2> QED BY <1>2, <2>3
<1> QED BY <1>1, <1>2 DEF UpClosed

\* The classes of two representatives are disjoint.
LEMMA BelowDisjoint ==
    ASSUME NEW V, NEW p, NEW a \in V, NEW b \in V, a # b, p[a] \notin V, p[b] \notin V
    PROVE  BelowIn(p, V, a) \cap BelowIn(p, V, b) = {}
<1>1. SUFFICES ASSUME NEW v \in BelowIn(p, V, a), v \in BelowIn(p, V, b) PROVE FALSE
  OBVIOUS
<1>2. UpClosed(p, V, BelowIn(p, V, a)) /\ BelowIn(p, V, a) \in SUBSET V
  BY BelowUpClosed DEF BelowIn
<1>3. b \in BelowIn(p, V, a)
  BY <1>1, <1>2 DEF BelowIn
<1>4. UpClosed(p, V, {b}) /\ {b} \in SUBSET V
  BY DEF UpClosed
<1>5. a \in {b}
  BY <1>3, <1>4 DEF BelowIn
<1> QED BY <1>5

\* Linking a representative takes nothing from any class, and adds its class
\* to that of the variable it is linked to.
LEMMA BelowLinked ==
    ASSUME NEW V, NEW p, NEW q, NEW a \in V, NEW b, p[a] \notin V,
           q[a] = b, \A w \in V \ {a} : q[w] = p[w]
    PROVE  /\ \A u : BelowIn(p, V, u) \subseteq BelowIn(q, V, u)
           /\ b \in V => BelowIn(p, V, a) \subseteq BelowIn(q, V, b)
<1>1. \A S \in SUBSET V : UpClosed(q, V, S) => UpClosed(p, V, S)
  BY DEF UpClosed
<1>2. \A u : BelowIn(p, V, u) \subseteq BelowIn(q, V, u)
  BY <1>1 DEF BelowIn
<1>3. ASSUME b \in V, NEW v \in BelowIn(p, V, a)
      PROVE  v \in BelowIn(q, V, b)
  <2>1. SUFFICES ASSUME NEW S \in SUBSET V, v \in S, UpClosed(q, V, S)
                 PROVE  b \in S
    BY DEF BelowIn
  <2>2. a \in S
    BY <1>1, <2>1 DEF BelowIn
  <2> QED BY <1>3, <2>1, <2>2 DEF UpClosed
<1> QED BY <1>2, <1>3

\* Compressing a path takes nothing from the class of a representative.
LEMMA BelowCompressed ==
    ASSUME NEW V, NEW p, NEW q, NEW P \in SUBSET V, NEW c,
           \A w \in P : q[w] = c /\ p[w] \in P \cup {c},
           \A w \in V \ P : q[w] = p[w],
           NEW r \in V \ P
    PROVE  BelowIn(p, V, r) \subseteq BelowIn(q, V, r)
<1>1. SUFFICES ASSUME NEW v \in BelowIn(p, V, r),
                      NEW S \in SUBSET V, v \in S, UpClosed(q, V, S)
               PROVE  r \in S
  BY DEF BelowIn
<1>2. CASE S \cap P = {}
  <2>1. UpClosed(p, V, S)
    BY <1>1, <1>2 DEF UpClosed
  <2> QED BY <1>1, <2>1 DEF BelowIn
<1>3. CASE S \cap P # {}
  <2> DEFINE T == S \cup P
  <2>1. c \in V => c \in S
    BY <1>1, <1>3 DEF UpClosed
  <2>2. T \in SUBSET V /\ v \in T /\ UpClosed(p, V, T)
    BY <1>1, <2>1 DEF UpClosed
  <2>3. r \in T
    <3> HIDE DEF T
    <3> QED BY <2>2 DEF BelowIn
  <2> QED BY <2>3
<1> QED BY <1>2, <1>3

\* New variables take nothing from any class.
LEMMA BelowExtended ==
    ASSUME NEW V, NEW W, V \subseteq W, NEW p, NEW u,
           \A w \in V : p[w] \notin W \ V
    PROVE  BelowIn(p, V, u) \subseteq BelowIn(p, W, u)
<1>1. SUFFICES ASSUME NEW v \in BelowIn(p, V, u),
                      NEW S \in SUBSET W, v \in S, UpClosed(p, W, S)
               PROVE  u \in S
  BY DEF BelowIn
<1>2. UpClosed(p, V, S \cap V) /\ v \in S \cap V
  BY <1>1 DEF UpClosed, BelowIn
<1> QED BY <1>2 DEF BelowIn

(* The variables not allocated yet have rank 0, the ranks grow along the   *)
(* links and along the path of a running find, and a representative of     *)
(* rank r has a class of at least 2^r.                                     *)

RanksGrow == \A u \in uvs : parent[u] \in uvs => rank[u] < rank[parent[u]]
ClassesLarge ==
    \A u \in uvs : parent[u] = None => Cardinality(Below(u)) >= 2 ^ rank[u]
PathRanks == pc # "call" /\ cur \in uvs => \A u \in path : rank[u] < rank[cur]

RankInv ==
    /\ IsFiniteSet(uvs)
    /\ \A u \in Uv \ uvs : rank[u] = 0
    /\ RanksGrow /\ ClassesLarge /\ PathRanks

LEMMA RankInvBounded == RankInv => RankBounded
BY DEF RankInv, RanksGrow, ClassesLarge, RankBounded

\* The classes are finite and their sizes comparable.
LEMMA ClassFinite ==
    ASSUME NEW V, IsFiniteSet(V), NEW p, NEW u
    PROVE  /\ IsFiniteSet(BelowIn(p, V, u))
           /\ Cardinality(BelowIn(p, V, u)) \in Nat
<1>1. BelowIn(p, V, u) \in SUBSET V
  BY DEF BelowIn
<1> QED BY <1>1, FS_Subset, FS_CardinalityType

\* A class that only grew is still large enough for an unchanged rank.
LEMMA ClassStaysLarge ==
    ASSUME TypeOK, RankInv, NEW u \in uvs, parent[u] = None,
           NEW W, IsFiniteSet(W), NEW q, BelowIn(parent, uvs, u) \subseteq BelowIn(q, W, u)
    PROVE  Cardinality(BelowIn(q, W, u)) >= 2 ^ rank[u]
<1> DEFINE x == 2 ^ rank[u]
           m == Cardinality(BelowIn(parent, uvs, u))
           n == Cardinality(BelowIn(q, W, u))
<1>1. IsFiniteSet(BelowIn(q, W, u)) /\ n \in Nat /\ m \in Nat
  BY ClassFinite DEF RankInv
<1>2. m <= n
  BY <1>1, FS_Subset
<1>3. m >= x
  BY BelowIsBelowIn DEF RankInv, ClassesLarge
<1>4. x \in Nat
  BY PowerOfTwo DEF TypeOK, HeapOK
<1>5. n >= x
  <2> HIDE DEF x, m, n
  <2> QED BY <1>1, <1>2, <1>3, <1>4
<1> QED BY <1>5

LEMMA RankUnchanged ==
    ASSUME RankInv, UNCHANGED <<uvs, parent, rank>>, PathRanks'
    PROVE  RankInv'
<1>1. \A u : Below(u)' = Below(u)
  BY DEF Below
<1> QED BY <1>1 DEF RankInv, RanksGrow, ClassesLarge

\* New variables are classes of their own.
LEMMA AllocateRanks ==
    ASSUME TypeOK, RankInv, Allocate
    PROVE  RankInv'
<1>1. /\ uvs \subseteq uvs' /\ uvs' \subseteq Uv
      /\ UNCHANGED <<parent, rank, pc, cur, path>>
      /\ pc = "call" \/ todo = <<>>
  <2>1. uvs' \subseteq Uv
    BY AllocateTypeOK DEF TypeOK, HeapOK
  <2>2. uvs \subseteq uvs'
    BY DEF Allocate, NewUv, CallType, DefType
  <2>3. UNCHANGED <<parent, rank, pc, cur, path>> /\ todo = <<>>
    BY DEF Allocate, NewUv, CallType, DefType, Idle
  <2> QED BY <2>1, <2>2, <2>3
<1>2. IsFiniteSet(uvs')
  <2>1. CASE \E u \in Uv : NewUv(u)
    BY <2>1, FS_AddElement DEF NewUv, RankInv
  <2>2. ASSUME NEW f \in Fn, NEW dom \in Params(Uv), NEW cod \in Uv,
               CallType(f, dom, cod)
        PROVE  IsFiniteSet(uvs')
    <3>1. PICK n \in 0..MaxArity : dom \in [1..n -> Uv \ uvs]
      BY <2>2 DEF CallType, Params
    <3> DEFINE R == {dom[i] : i \in 1..n}
    <3>2. IsFiniteSet(1..n)
      BY <3>1, FS_Interval
    <3>3. IsFiniteSet(R)
      <4>1. dom \in [1..n -> R] /\ \A t \in R : \E i \in 1..n : dom[i] = t
        BY <3>1
      <4>2. dom \in Surjection(1..n, R)
        <5> HIDE DEF R
        <5> QED BY <4>1 DEF Surjection
      <4> HIDE DEF R
      <4> QED BY <3>2, <4>2, FS_Surjection
    <3>4. uvs' = (uvs \cup {cod}) \cup R
      BY <2>2, <3>1 DEF CallType
    <3> HIDE DEF R
    <3> QED BY <3>3, <3>4, FS_AddElement, FS_Union DEF RankInv
  <2>3. CASE \E f \in Fn, dom \in Params(Uv), cod \in Base : DefType(f, dom, cod)
    BY <2>3 DEF DefType, RankInv
  <2> QED BY <2>1, <2>2, <2>3 DEF Allocate
<1>3. /\ \A u \in Uv \ uvs : parent[u] = None /\ rank[u] = 0
      /\ \A u \in uvs : parent[u] \notin uvs' \ uvs
      /\ None \notin uvs'
  <2>1. \A u \in uvs : parent[u] \in Live \cup {None}
    BY DEF TypeOK, HeapOK
  <2>2. \A t \in uvs' \ uvs : t \notin Live \cup {None}
    BY <1>1, TypesAssumption DEF TypeOK, HeapOK, Live, Type
  <2> QED BY <1>1, <2>1, <2>2, TypesAssumption DEF TypeOK, HeapOK, RankInv, Type
<1>4. RanksGrow'
  BY <1>1, <1>3 DEF RankInv, RanksGrow
<1>5. ClassesLarge'
  <2>1. SUFFICES ASSUME NEW u \in uvs', parent[u] = None
                 PROVE  Cardinality(BelowIn(parent, uvs', u)) >= 2 ^ rank[u]
    <3>1. \A u : Below(u)' = BelowIn(parent', uvs', u)
      BY DEF Below, BelowIn, UpClosed
    <3> QED BY <1>1, <2>1, <3>1 DEF ClassesLarge
  <2>2. CASE u \in uvs
    <3>1. BelowIn(parent, uvs, u) \subseteq BelowIn(parent, uvs', u)
      BY <1>1, <1>3, BelowExtended
    <3> QED BY <1>2, <2>1, <2>2, <3>1, ClassStaysLarge
  <2>3. CASE u \notin uvs
    <3>1. rank[u] = 0 /\ 2 ^ rank[u] = 1
      BY <1>1, <1>3, <2>3, PowerOfTwo
    <3>2. u \in BelowIn(parent, uvs', u)
      BY DEF BelowIn
    <3>3. IsFiniteSet(BelowIn(parent, uvs', u)) /\ Cardinality(BelowIn(parent, uvs', u)) \in Nat
      BY <1>2, ClassFinite
    <3>4. Cardinality(BelowIn(parent, uvs', u)) # 0
      BY <3>2, <3>3, FS_EmptySet
    <3>5. Cardinality(BelowIn(parent, uvs', u)) >= 1
      BY <3>3, <3>4
    <3> QED BY <3>1, <3>5
  <2> QED BY <2>2, <2>3
<1>6. PathRanks'
  <2>1. todo = <<>>
    BY DEF Allocate, NewUv, CallType, DefType, Idle
  <2>2. pc = "call"
    BY <2>1 DEF TypeOK, CursorOK
  <2> QED BY <1>1, <2>2 DEF PathRanks
<1> QED BY <1>1, <1>2, <1>3, <1>4, <1>5, <1>6 DEF RankInv

\* Path compression keeps the classes of the representatives.
LEMMA CompressRanks ==
    ASSUME TypeOK, RankInv, pc # "call", Root(cur), Compress,
           UNCHANGED <<uvs, rank>>, PathRanks'
    PROVE  RankInv'
<1>1. /\ path \in SUBSET uvs /\ uvs \subseteq Uv
      /\ \A w \in path : parent'[w] = cur /\ parent[w] \in path \cup {cur} /\ parent[w] # None
      /\ \A w \in Uv \ path : parent'[w] = parent[w]
  BY DEF TypeOK, CursorOK, HeapOK, Compress
<1>2. RanksGrow'
  BY <1>1 DEF RankInv, RanksGrow, PathRanks
<1>3. ClassesLarge'
  <2>1. SUFFICES ASSUME NEW u \in uvs, parent'[u] = None
                 PROVE  Cardinality(BelowIn(parent', uvs, u)) >= 2 ^ rank[u]
    <3>1. \A v : Below(v)' = BelowIn(parent', uvs, v)
      BY DEF Below, BelowIn, UpClosed
    <3> QED BY <2>1, <3>1 DEF ClassesLarge
  <2>2. u \notin path /\ parent[u] = None
    BY <1>1, <2>1, TypesAssumption DEF TypeOK, CursorOK, Live, Type, HeapOK
  <2>3. BelowIn(parent, uvs, u) \subseteq BelowIn(parent', uvs, u)
    BY <1>1, <2>2, BelowCompressed
  <2> QED BY <2>2, <2>3, ClassStaysLarge DEF RankInv
<1> QED BY <1>2, <1>3 DEF RankInv

\* Linking a representative to a type that is not a variable.
LEMMA BindRanks ==
    ASSUME TypeOK, RankInv, NEW u \in uvs, parent[u] = None, NEW t \in Live, t \notin Uv,
           parent' = [parent EXCEPT ![u] = t], UNCHANGED <<uvs, rank>>, PathRanks'
    PROVE  RankInv'
<1>1. /\ parent'[u] = t /\ t \notin uvs /\ t # None /\ None \notin uvs
      /\ \A w \in Uv \ {u} : parent'[w] = parent[w]
      /\ uvs \subseteq Uv
  BY TypesAssumption DEF TypeOK, HeapOK, Live, Type
<1>2. RanksGrow'
  BY <1>1 DEF RankInv, RanksGrow
<1>3. ClassesLarge'
  <2>1. SUFFICES ASSUME NEW r \in uvs, parent'[r] = None
                 PROVE  Cardinality(BelowIn(parent', uvs, r)) >= 2 ^ rank[r]
    <3>1. \A v : Below(v)' = BelowIn(parent', uvs, v)
      BY DEF Below, BelowIn, UpClosed
    <3> QED BY <2>1, <3>1 DEF ClassesLarge
  <2>2. parent[r] = None
    BY <1>1, <2>1
  <2>3. BelowIn(parent, uvs, r) \subseteq BelowIn(parent', uvs, r)
    <3>1. parent[u] \notin uvs /\ \A w \in uvs \ {u} : parent'[w] = parent[w]
      BY <1>1
    <3> QED BY <1>1, <3>1, BelowLinked
  <2> QED BY <2>2, <2>3, ClassStaysLarge DEF RankInv
<1> QED BY <1>2, <1>3 DEF RankInv

\* The union of two classes, a's linked to b: b's rank only grows on a tie.
LEMMA LinkRanks ==
    ASSUME TypeOK, RankInv, NEW a \in uvs, NEW b \in uvs, a # b,
           parent[a] = None, parent[b] = None,
           parent' = [parent EXCEPT ![a] = b], UNCHANGED uvs,
           \/ rank[a] < rank[b] /\ rank' = rank
           \/ rank[a] = rank[b] /\ rank' = [rank EXCEPT ![b] = rank[b] + 1],
           PathRanks'
    PROVE  RankInv'
<1>1. /\ parent'[a] = b /\ None \notin uvs
      /\ \A w \in Uv \ {a} : parent'[w] = parent[w]
      /\ uvs \subseteq Uv /\ rank \in [Uv -> Nat]
  BY TypesAssumption DEF TypeOK, HeapOK, Type
<1>2. /\ \A w \in Uv \ {b} : rank'[w] = rank[w]
      /\ rank'[b] >= rank[b] /\ rank'[b] > rank[a] /\ rank'[b] \in Nat
  BY <1>1
<1>3. RanksGrow'
  <2>1. SUFFICES ASSUME NEW w \in uvs, parent'[w] \in uvs
                 PROVE  rank'[w] < rank'[parent'[w]]
    BY DEF RanksGrow
  <2>2. CASE w = a
    BY <1>1, <1>2, <2>2
  <2>3. CASE w # a
    <3>1. parent'[w] = parent[w] /\ rank[w] < rank[parent[w]] /\ w # b
      BY <1>1, <2>1, <2>3 DEF RankInv, RanksGrow
    <3>2. /\ rank'[w] = rank[w] /\ rank[w] \in Nat /\ rank[parent[w]] \in Nat
          /\ parent[w] \in uvs
      BY <1>1, <1>2, <2>1, <3>1
    <3>3. rank'[parent[w]] >= rank[parent[w]] /\ rank'[parent[w]] \in Nat
      BY <1>1, <1>2, <3>2
    <3> QED BY <3>1, <3>2, <3>3
  <2> QED BY <2>2, <2>3
<1>4. /\ \A r : BelowIn(parent, uvs, r) \subseteq BelowIn(parent', uvs, r)
      /\ BelowIn(parent, uvs, a) \subseteq BelowIn(parent', uvs, b)
  <2>1. parent[a] \notin uvs /\ \A w \in uvs \ {a} : parent'[w] = parent[w]
    BY <1>1
  <2> QED BY <1>1, <2>1, BelowLinked
<1>5. ClassesLarge'
  <2>1. SUFFICES ASSUME NEW r \in uvs, parent'[r] = None
                 PROVE  Cardinality(BelowIn(parent', uvs, r)) >= 2 ^ rank'[r]
    <3>1. \A v : Below(v)' = BelowIn(parent', uvs, v)
      BY DEF Below, BelowIn, UpClosed
    <3> QED BY <2>1, <3>1 DEF ClassesLarge
  <2>2. r # a /\ parent[r] = None
    BY <1>1, <2>1
  <2>3. CASE rank'[r] = rank[r]
    <3>1. BelowIn(parent, uvs, r) \subseteq BelowIn(parent', uvs, r)
      BY <1>4
    <3>2. Cardinality(BelowIn(parent', uvs, r)) >= 2 ^ rank[r]
      BY <2>2, <3>1, ClassStaysLarge DEF RankInv
    <3> QED BY <2>3, <3>2
  <2>4. CASE rank'[r] # rank[r]
    <3>1. r = b /\ rank[a] = rank[b] /\ rank'[r] = rank[b] + 1 /\ rank[b] \in Nat
      BY <1>1, <1>2, <2>4
    <3> DEFINE A == BelowIn(parent, uvs, a)
               B == BelowIn(parent, uvs, b)
               N == BelowIn(parent', uvs, b)
               x == 2 ^ rank[b]
    <3>2. /\ IsFiniteSet(A) /\ IsFiniteSet(B) /\ IsFiniteSet(N)
          /\ Cardinality(A) \in Nat /\ Cardinality(B) \in Nat /\ Cardinality(N) \in Nat
      BY ClassFinite DEF RankInv
    <3>3. A \cup B \in SUBSET N
      BY <1>4
    <3>4. A \cap B = {}
      BY <1>1, BelowDisjoint
    <3>5. Cardinality(A) >= x /\ Cardinality(B) >= x
      BY <3>1, BelowIsBelowIn DEF RankInv, ClassesLarge
    <3>6. x \in Nat /\ 2 ^ (rank[b] + 1) = x + x
      BY <3>1, PowerOfTwo
    <3>7. Cardinality(N) >= x + x
      <4> HIDE DEF A, B, N, x
      <4>1. Cardinality(A \cup B) = Cardinality(A) + Cardinality(B) - 0
        BY <3>2, <3>4, FS_Union, FS_EmptySet
      <4>2. Cardinality(A \cup B) <= Cardinality(N)
        BY <3>2, <3>3, FS_Subset
      <4> QED BY <3>2, <3>5, <3>6, <4>1, <4>2
    <3>8. 2 ^ rank'[r] = x + x /\ N = BelowIn(parent', uvs, r)
      BY <3>1, <3>6, Zenon
    <3> HIDE DEF A, B, N, x
    <3> QED BY <3>7, <3>8, Zenon
  <2> QED BY <2>3, <2>4
<1>6. \A u \in Uv \ uvs : rank'[u] = 0
  BY <1>1, <1>2 DEF RankInv
<1> QED BY <1>3, <1>5, <1>6 DEF RankInv

\* No step of unify loses count.
LEMMA StepRanks ==
    ASSUME TypeOK, RankInv, Step
    PROVE  RankInv'
<1> USE DEF Step
<1>0. pc \in {"call", "found"} => path = {}
  BY DEF TypeOK, CursorOK
<1>1. CASE FindThis
  <2>1. path' = {}
    BY <1>1 DEF FindThis, Find
  <2>2. PathRanks'
    BY <2>1 DEF PathRanks
  <2> QED BY <1>1, <2>2, RankUnchanged DEF FindThis, typeVars
<1>2. CASE FindParent
  <2>1. cur \in uvs /\ pc # "call" /\ rank \in [Uv -> Nat] /\ uvs \subseteq Uv /\ path \subseteq uvs
    BY <1>2, TypesAssumption DEF FindParent, Root, TypeOK, CursorOK, HeapOK, Live
  <2>2. PathRanks'
    <3>1. SUFFICES ASSUME parent[cur] \in uvs, NEW u \in path \cup {cur}
                   PROVE  rank[u] < rank[parent[cur]]
      BY <1>2, <2>1 DEF FindParent, PathRanks, typeVars
    <3>2. rank[cur] < rank[parent[cur]] /\ (u # cur => rank[u] < rank[cur])
      BY <2>1, <3>1 DEF RankInv, RanksGrow, PathRanks
    <3>3. u \in Uv /\ rank[u] \in Nat /\ rank[cur] \in Nat /\ rank[parent[cur]] \in Nat
      BY <2>1, <3>1
    <3> QED BY <3>2, <3>3
  <2> QED BY <1>2, <2>2, RankUnchanged DEF FindParent, typeVars
<1>3. CASE FoundThis \/ FoundOther
  <2>1. /\ pc # "call" /\ Root(cur) /\ Compress /\ path' = {}
        /\ UNCHANGED <<uvs, rank>>
    BY <1>3 DEF FoundThis, FoundOther, Find, typeVars
  <2>2. PathRanks'
    BY <2>1 DEF PathRanks
  <2> QED BY <2>1, <2>2, CompressRanks
<1>4. CASE Same \/ UnifyFns \/ Clash \/ UnifyParam \/ UnifyCodomain \/ ArityMismatch
  <2>1. UNCHANGED <<uvs, parent, rank, path>> /\ path = {}
    BY <1>0, <1>4
    DEF Same, UnifyFns, Clash, UnifyParam, UnifyCodomain, ArityMismatch, InFns, Return, typeVars
  <2>2. PathRanks'
    BY <2>1 DEF PathRanks
  <2> QED BY <2>1, <2>2, RankUnchanged
<1>5. CASE UnifyUvs
  <2>1. /\ cur \in uvs /\ found \in uvs /\ cur # found
        /\ parent[cur] = None /\ parent[found] = None
        /\ UNCHANGED uvs /\ path' = {} /\ rank \in [Uv -> Nat] /\ uvs \subseteq Uv
    BY <1>0, <1>5, TypesAssumption
    DEF UnifyUvs, Return, TypeOK, CursorOK, Root, Live, HeapOK
  <2>2. PathRanks'
    BY <2>1 DEF PathRanks
  <2>3. CASE rank[found] > rank[cur]
    BY <1>5, <2>1, <2>2, <2>3, LinkRanks DEF UnifyUvs, Union
  <2>4. CASE ~(rank[found] > rank[cur])
    <3>1. rank[found] \in Nat /\ rank[cur] \in Nat
      BY <2>1
    <3>2. /\ parent' = [parent EXCEPT ![found] = cur]
          /\ rank' = IF rank[found] = rank[cur]
                     THEN [rank EXCEPT ![cur] = rank[cur] + 1] ELSE rank
      BY <1>5, <2>4 DEF UnifyUvs, Union
    <3>3. \/ rank[found] < rank[cur] /\ rank' = rank
          \/ rank[found] = rank[cur] /\ rank' = [rank EXCEPT ![cur] = rank[cur] + 1]
      BY <2>4, <3>1, <3>2
    <3> QED BY <2>1, <2>2, <3>2, <3>3, LinkRanks
  <2> QED BY <2>3, <2>4
<1>6. ASSUME NEW u \in Live, NEW t \in Live, Root(u), Bind(u, t)
      PROVE  RankInv'
  <2>1. u \in uvs /\ parent[u] = None /\ t \notin Uv /\ UNCHANGED <<uvs, rank>> /\ path' = {}
    BY <1>0, <1>6, TypesAssumption DEF Bind, Return, Live, TypeOK, HeapOK, Root, typeVars
  <2>2. PathRanks'
    BY <2>1 DEF PathRanks
  <2>3. parent' = parent \/ parent' = [parent EXCEPT ![u] = t]
    BY <1>6 DEF Bind
  <2> QED BY <2>1, <2>2, <2>3, BindRanks, RankUnchanged
<1>7. CASE BindThis \/ BindOther
  <2>1. cur \in Live /\ found \in Live /\ Root(cur) /\ Root(found)
    BY <1>7 DEF BindThis, BindOther, Bind, TypeOK, CursorOK
  <2> QED BY <1>6, <1>7, <2>1 DEF BindThis, BindOther
<1> QED BY <1>1, <1>2, <1>3, <1>4, <1>5, <1>7

\* Union by rank keeps the trees of variables shallow: a class whose
\* representative has rank r has at least 2^r members, so the recursion of
\* Uv::find is never deeper than the logarithm of their number.
THEOREM RanksBounded == Spec => []RankBounded
<1>1. Init => RankInv
  <2> SUFFICES ASSUME Init PROVE RankInv
    OBVIOUS
  <2> QED BY FS_EmptySet DEF Init, RankInv, RanksGrow, ClassesLarge, PathRanks
<1>2. TypeOK /\ RankInv /\ [Next]_vars => RankInv'
  <2> SUFFICES ASSUME TypeOK, RankInv, [Next]_vars PROVE RankInv'
    OBVIOUS
  <2>1. CASE Allocate
    BY <2>1, AllocateRanks
  <2>2. CASE \E a \in Type, b \in Type : Unify(a, b)
    BY <2>2, RankUnchanged DEF Unify, typeVars, RankInv, PathRanks
  <2>3. CASE Step
    BY <2>3, StepRanks
  <2>4. CASE UNCHANGED vars
    BY <2>4, RankUnchanged DEF vars, RankInv, PathRanks
  <2> QED BY <2>1, <2>2, <2>3, <2>4 DEF Next
<1> QED BY <1>1, <1>2, TypesCorrect, RankInvBounded, PTL DEF Spec
=============================================================================
