---------------------------- MODULE TokenCursor ----------------------------
(***************************************************************************)
(* What the lexer promises to the parser and to the dump in main.cpp: a    *)
(* cursor in a sequence of tokens that peek does not move, next moves by   *)
(* one and match by one if the token has the type.                         *)
(***************************************************************************)
EXTENDS Sequences

CONSTANTS
    Type,       \* Token::Type
    None        \* peek() without a token

VARIABLES
    rest,       \* the types of the tokens to come
    call,       \* the method that runs, of match the type it is given; or "idle"
    got         \* what the last peek gave

Methods == {"peek", "peek_some", "next"}

Init == rest \in Seq(Type) /\ call = "idle" /\ got = None

\* peek_some() throws when there is no token; nothing follows.
Call ==
    /\ call = "idle" /\ got # "LexError"
    /\ call' \in Methods \cup Type
    /\ UNCHANGED <<rest, got>>

Peek ==
    /\ call \in {"peek", "peek_some"}
    /\ got' = IF rest # << >> THEN Head(rest)
              ELSE IF call = "peek" THEN None ELSE "LexError"
    /\ call' = "idle" /\ UNCHANGED rest

Next ==
    /\ call = "next"
    /\ rest' = IF rest = << >> THEN rest ELSE Tail(rest)
    /\ call' = "idle" /\ UNCHANGED got

Match ==
    /\ call \in Type
    /\ rest' = IF rest # << >> /\ Head(rest) = call THEN Tail(rest) ELSE rest
    /\ call' = "idle" /\ UNCHANGED got

Spec == Init /\ [][Call \/ Peek \/ Next \/ Match]_<<rest, call, got>>
=============================================================================
