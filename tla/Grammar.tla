------------------------------ MODULE Grammar ------------------------------
(***************************************************************************)
(* The language as the comments of src/cpp/parser.cpp give it (block,      *)
(* expr, pat and stmt, and by the same reading the rest), read from left   *)
(* to right: a sequence of symbols stands for the texts that can follow.   *)
(*                                                                         *)
(* A token stands for all of its kind.  The rules are written such that    *)
(* each begins with a token and no two of a symbol with the same one.      *)
(*                                                                         *)
(* A text of the language has every token of its rules.  Those of Matched  *)
(* the program asks Lexer::match for, which goes on when another is there: *)
(* After reads on behind them too, to say what such a text lacks.          *)
(***************************************************************************)
EXTENDS Integers, Sequences

Token == {"fun", "id", "(", ")", ",", ":", "type", "{", "}", "val", "=", ";", "if",
          "else", "primop", "literal"}
Matched == {"(", ")", ":", "}", "=", ";", "else"}

\* The end of the text, and a symbol that no text begins with.
End == "end"
Nothing == "nothing"

Callee ==
    {<<"{", "stmts", "expr", "}">>, <<"if", "expr", "block", "else", "block">>,
     <<"primop", "(", "args", ")">>, <<"id">>, <<"literal">>}

Rules ==
    [program |-> {<<"fun", "id", "(", "params", ")", ":", "type", "block", "program">>, << >>},
     params |-> {<<"id", "anns", "params2">>, << >>},
     params2 |-> {<<",", "pat", "params2">>, << >>},
     pat |-> {<<"id", "anns">>},
     anns |-> {<<":", "type", "anns">>, << >>},
     block |-> {<<"{", "stmts", "expr", "}">>},
     stmts |-> {<<"val", "pat", "=", "expr", ";", "stmts">>, << >>},
     expr |-> {c \o <<"arglists">> : c \in Callee},
     arglists |-> {<<"(", "args", ")", "arglists">>, << >>},
     args |-> {c \o <<"arglists", "args2">> : c \in Callee} \cup {<< >>},
     args2 |-> {<<",", "expr", "args2">>, << >>},
     callee |-> Callee]

Nonterminal == DOMAIN Rules

\* The tokens that a text of symbol x can begin with, and the rule for it then.
Begins(x) ==
    IF x \in Nonterminal THEN {r[1] : r \in Rules[x] \ {<< >>}} ELSE {x}
Rule(x, t) == CHOOSE r \in Rules[x] : r # << >> /\ r[1] = t

\* A symbol that t does not begin, and that is empty or missing if t follows.
MayBeEmpty == {x \in Nonterminal : << >> \in Rules[x]}
Skipped(x, t) == x \in Matched \cup MayBeEmpty /\ t \notin Begins(x)

\* What can follow token t where the symbols could, and the tokens of the language
\* that are missing before it.
After(symbols, t) ==
    LET At(k) == ~Skipped(symbols[k], t) /\ \A i \in 1..(k - 1) : Skipped(symbols[i], t)
        k == CHOOSE k \in DOMAIN symbols : At(k)
        x == symbols[k]
    IN  [rest |-> IF (\E i \in DOMAIN symbols : At(i)) /\ t \in Begins(x)
                  THEN (IF x \in Nonterminal THEN Tail(Rule(x, t)) ELSE << >>)
                            \o SubSeq(symbols, k + 1, Len(symbols))
                  ELSE <<Nothing>>,
         missing |-> {m \in Matched : \E i \in DOMAIN symbols :
                symbols[i] = m /\ \A j \in 1..i : Skipped(symbols[j], t)}]
=============================================================================
