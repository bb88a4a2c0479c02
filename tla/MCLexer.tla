------------------------------ MODULE MCLexer ------------------------------
EXTENDS Lexer

\* Two keywords that begin with the same letter, as `if` and `i64` do.
MCKeywords == <<[word |-> <<"i", "f">>, type |-> "IF"], [word |-> <<"i", "6">>, type |-> "I64_T"]>>
=============================================================================
