------------------------------ MODULE Parser -------------------------------
(***************************************************************************)
(* The recursive descent of src/cpp/parser.cpp over the tokens that        *)
(* Lexer::peek gives, against the language of Grammar.                     *)
(*                                                                         *)
(* `stack` has what the activations of the parse functions still have to   *)
(* do: a call of one by its name, or Next1 and Match of the lexer.  The    *)
(* text is chosen token by token; the lexer has no token at the end, nor   *)
(* at a character that starts none.  The trees that the functions return   *)
(* are left out.                                                           *)
(***************************************************************************)
EXTENDS Grammar

CONSTANTS
    MaxTokens   \* bound: tokens of the text

ASSUME TokensAssumption == MaxTokens \in Nat

None == End     \* peek() without a token

VARIABLES
    tok,        \* what peek() gives
    count,      \* tokens seen
    stack,
    outcome,
    expected,   \* the symbols of Grammar that can follow what was discarded
    lacking,    \* whether a token of Grammar is missing in what was discarded
    gaps        \* whether one is that Grammar has in a block

textVars == <<tok, count, expected, lacking, gaps>>
vars == <<textVars, stack, outcome>>

\* Besides those of Grammar: `.`, brackets, operators that do not exist.
Kind == Token \cup {"unknown op", "other"}

Match(t) == <<"match", t>>
Next1 == <<"next", "">>
Call(f) == <<"call", f>>

Do(step) == outcome = "parsing" /\ stack # << >> /\ Head(stack) = step
In(f) == Do(Call(f))
Then(steps) == stack' = steps \o Tail(stack) /\ UNCHANGED outcome
Fails(how) == outcome' = how /\ UNCHANGED stack

\* peek_some() of a parse function that goes on with one of several steps.
Some(steps) == IF tok = None THEN Fails("error") ELSE Then(steps)

Init ==
    /\ tok \in Kind \cup {None} /\ count = (IF tok = None THEN 0 ELSE 1)
    /\ stack = <<Call("defs")>> /\ outcome = "parsing"
    /\ expected = <<"program", End>> /\ lacking = FALSE /\ gaps = FALSE

-----------------------------------------------------------------------------
(* The lexer                                                               *)

Final == After(expected, tok)
Lacks == lacking \/ Final.missing # {}
HasGaps == gaps \/ Final.missing \cap {";", "}"} # {}

\* Lexer::next, or Lexer::match of the token that is there.
Discard ==
    /\ \/ tok' = None /\ UNCHANGED count
       \/ tok # None /\ count < MaxTokens /\ tok' \in Kind /\ count' = count + 1
    /\ expected' = Final.rest
    /\ lacking' = Lacks /\ gaps' = HasGaps

LexerNext == Do(Next1) /\ Discard /\ Then(<< >>)

LexerMatch ==
    /\ \E t \in Token :
        Do(Match(t)) /\ (IF tok = t THEN Discard ELSE UNCHANGED textVars)
    /\ Then(<< >>)

-----------------------------------------------------------------------------
(* The parser                                                              *)

\* Mutant of ParseDefs: any token that is not `fun` ends the program.
ParseUntilOther ==
    /\ In("defs")
    /\ CASE tok = "fun" -> Then(<<Call("fundef"), Call("defs")>>)
         [] OTHER -> Fails("accepted")
    /\ UNCHANGED textVars

ParseDefs ==
    /\ In("defs")
    /\ CASE tok = "fun" -> Then(<<Call("fundef"), Call("defs")>>)
         [] tok = None -> Fails("accepted")
         [] OTHER -> Fails("error")
    /\ UNCHANGED textVars

ParseFunDef ==
    /\ In("fundef")
    /\ Then(<<Next1, Call("id"), Match("("), Call("params"), Match(":"), Call("type"),
              Call("block")>>)
    /\ UNCHANGED textVars

\* The lists of parse_fundef and parse_arglist, after '('.
ParseList(list, element, more) ==
    \/ /\ In(list)
       /\ Some(IF tok = ")" THEN <<Next1>> ELSE <<Call(element), Call(more)>>)
       /\ UNCHANGED textVars
    \/ /\ In(more)
       /\ Some(IF tok = "," THEN <<Next1, Call(element), Call(more)>> ELSE <<Match(")")>>)
       /\ UNCHANGED textVars

ParseParams == ParseList("params", "pat", "params2")
ParseArgs == ParseList("args", "expr", "args2")

ParseArglist ==
    In("arglist") /\ Then(<<Match("("), Call("args")>>) /\ UNCHANGED textVars

\* parse_id and parse_unann_pat, parse_type.
ParseToken ==
    /\ \E t \in {"id", "type"} :
        In(t) /\ (IF tok = t THEN Then(<<Next1>>) ELSE Fails("error"))
    /\ UNCHANGED textVars

\* With the assertion.
ParseBlock ==
    /\ In("block")
    /\ IF tok \in {"{", None} THEN Some(<<Next1, Call("stmts")>>) ELSE Fails("assert")
    /\ UNCHANGED textVars

ParseStmts ==
    /\ In("stmts")
    /\ Some(IF tok = "val" THEN <<Call("stmt"), Match(";"), Call("stmts")>>
            ELSE <<Call("expr"), Match("}")>>)
    /\ UNCHANGED textVars

ParseStmt ==
    /\ In("stmt")
    /\ Then(<<Next1, Call("pat"), Match("="), Call("expr")>>)
    /\ UNCHANGED textVars

ParseExpr ==
    In("expr") /\ Then(<<Call("callee"), Call("calls")>>) /\ UNCHANGED textVars

\* Mutant of ParseCalls: the result of a call is not called.
ParseCall ==
    /\ In("calls")
    /\ Some(IF tok = "(" THEN <<Call("arglist")>> ELSE << >>)
    /\ UNCHANGED textVars

ParseCalls ==
    /\ In("calls")
    /\ Some(IF tok = "(" THEN <<Call("arglist"), Call("calls")>> ELSE << >>)
    /\ UNCHANGED textVars

ParseCallee ==
    /\ In("callee")
    /\ CASE tok = "{" -> Then(<<Call("block")>>)
         [] tok = "if" -> Then(<<Next1, Call("expr"), Call("block"), Match("else"),
                                 Call("block")>>)
         [] tok = "primop" -> Then(<<Next1, Call("arglist")>>)
         [] tok \in {"id", "literal"} -> Then(<<Next1>>)
         [] OTHER -> Fails("error")
    /\ UNCHANGED textVars

ParsePat ==
    \/ In("pat") /\ Then(<<Call("id"), Call("anns")>>) /\ UNCHANGED textVars
    \/ /\ In("anns")
       /\ Some(IF tok = ":" THEN <<Next1, Call("type"), Call("anns")>> ELSE << >>)
       /\ UNCHANGED textVars

Next ==
    \/ LexerNext \/ LexerMatch
    \/ ParseDefs \/ ParseFunDef \/ ParseParams \/ ParseArglist \/ ParseArgs \/ ParseToken
    \/ ParseBlock \/ ParseStmts \/ ParseStmt \/ ParseExpr \/ ParseCalls \/ ParseCallee
    \/ ParsePat

Spec == Init /\ [][Next]_vars

-----------------------------------------------------------------------------
\* No text of the language is refused: when an exception is thrown or the
\* assertion of parse_block fails, the tokens so far begin no text of Grammar.
GrammaticalAccepted ==
    outcome \in {"error", "assert"} =>
        Lacks \/ Final.rest = <<Nothing>>

\* And no other text is accepted: what program() returns a tree for is a text of
\* Grammar, unless match went on without a token.  (That it should not have,
\* BlocksAsCommented says.)  The lexer's end of the text may be a character that
\* starts no token.
OnlyGrammaticalAccepted ==
    outcome = "accepted" => Lacks \/ Final.rest = << >>

\* What parser.cpp:74 says, block ::= '{' (stmt ';')* expr '}': an accepted text has
\* a ';' after every statement and a '}' after every block.  It does not hold.
BlocksAsCommented ==
    outcome = "accepted" => ~HasGaps
=============================================================================
