--------------------------- MODULE LexicalScopes ---------------------------
(***************************************************************************)
(* Lexical scoping without frames, addresses or moves: a stack of scopes,  *)
(* innermost first, each a partial function from source names to the       *)
(* unique names that replace them.  A use of a name is answered with the   *)
(* innermost binding; within one scope the first declaration stands.       *)
(***************************************************************************)
EXTENDS Integers, Sequences

CONSTANT None

VARIABLES scopes, wanted, answer, outcome

vars == <<scopes, wanted, answer, outcome>>

Binding(k, n) == k \in DOMAIN scopes /\ n \in DOMAIN scopes[k]

Innermost(k, n) == Binding(k, n) /\ \A j \in 1..(k - 1) : ~Binding(j, n)

Bound(n) == \E k \in DOMAIN scopes : Binding(k, n)

Ready == wanted = None /\ outcome = "ok"

-----------------------------------------------------------------------------
Init == scopes = << >> /\ wanted = None /\ answer = None /\ outcome = "ok"

Open ==
    /\ Ready
    /\ scopes' = <<[n \in {} |-> None]>> \o scopes
    /\ UNCHANGED <<wanted, answer, outcome>>

\* A declaration in the innermost scope hides no earlier one of that scope.
Declare ==
    /\ Ready /\ scopes # << >>
    /\ DOMAIN scopes' = DOMAIN scopes
    /\ \A k \in DOMAIN scopes : k # 1 => scopes'[k] = scopes[k]
    /\ \A n \in DOMAIN scopes[1] :
            n \in DOMAIN scopes'[1] /\ scopes'[1][n] = scopes[1][n]
    /\ UNCHANGED <<wanted, answer, outcome>>

Close ==
    /\ Ready /\ scopes # << >>
    /\ scopes' = Tail(scopes)
    /\ UNCHANGED <<wanted, answer, outcome>>

Ask ==
    /\ Ready
    /\ wanted' # None
    /\ UNCHANGED <<scopes, answer, outcome>>

Answer ==
    /\ wanted # None /\ outcome = "ok"
    /\ \/ /\ \E k \in DOMAIN scopes :
                Innermost(k, wanted) /\ answer' = scopes[k][wanted]
          /\ wanted' = None
          /\ UNCHANGED <<scopes, outcome>>
       \/ /\ ~Bound(wanted)
          /\ outcome' = "UnboundError"
          /\ UNCHANGED <<scopes, wanted, answer>>

Next == Open \/ Declare \/ Close \/ Ask \/ Answer

Spec == Init /\ [][Next]_vars
=============================================================================
