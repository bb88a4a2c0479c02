------------------------------- MODULE Lexer -------------------------------
(***************************************************************************)
(* src/cpp/lexer.cpp over characters: the text, the pointer into it, the   *)
(* position that error messages report, and the methods of Lexer.          *)
(*                                                                         *)
(* A letter, a digit and a mark are members of small sets; the text ends   *)
(* with '\0', which is read beyond its last character.                     *)
(***************************************************************************)
EXTENDS Integers, Sequences, FiniteSetsExt, SequencesExt

CONSTANTS
    Letter, Digit,
    Mark,       \* characters that are tokens
    Keywords,   \* the words that lex_id compares with, in its order, and their types
    MaxText     \* bound: characters of the text

Blank == {" ", "newline"}
Char == Letter \cup Digit \cup Mark \cup Blank \cup {"_", "other"}
Alnum == Letter \cup Digit

KeywordType == {Keywords[k].type : k \in DOMAIN Keywords}
Type == Mark \cup {"INT", "ID", "PRIMOP"} \cup KeywordType
None == "none"

\* Classes of characters are disjoint, a keyword is a word, and a method is no type.
ASSUME TextAssumption ==
    /\ MaxText \in Nat
    /\ Letter \cap Digit = {} /\ Alnum \cap Mark = {}
    /\ (Alnum \cup Mark) \cap (Blank \cup {"_", "other", "NUL"}) = {}
    /\ Keywords \in Seq([word : Seq(Alnum), type : KeywordType])
    /\ Type \cap {"peek", "peek_some", "next", "idle"} = {}

VARIABLES
    text,
    chars,          \* chars_: the index of the character it points to
    line, column,   \* pos_
    call,           \* the method that runs, of match the type it is given; or "idle"
    tok,            \* what the last peek or peek_some gave
    to_come         \* history: the types of the tokens of the text that are left

vars == <<text, chars, line, column, call, tok, to_come>>

Token(type, size) == [type |-> type, from |-> chars, size |-> size]

-----------------------------------------------------------------------------
(* The tokens of a text, by the longest word                               *)

At(p) == IF p \in DOMAIN text THEN text[p] ELSE "NUL"

All(word, class) == \A j \in DOMAIN word : word[j] \in class

Lexeme(word) ==
    \/ Len(word) = 1 /\ word[1] \in Mark
    \/ All(word, Digit)
    \/ word[1] \in Letter /\ All(word, Alnum)
    \/ Len(word) >= 2 /\ word[1] = "_" /\ word[2] = "_" /\ All(SubSeq(word, 3, Len(word)), Alnum)

\* A word is that of the first keyword it is the beginning of.
TypeOf(word) ==
    LET prefixed == {k \in DOMAIN Keywords : IsPrefix(word, Keywords[k].word)} IN
    CASE word[1] \in Mark -> word[1]
      [] word[1] \in Digit -> "INT"
      [] word[1] = "_" -> "PRIMOP"
      [] OTHER -> IF prefixed = {} THEN "ID" ELSE Keywords[Min(prefixed)].type

\* Their types, up to the end or a character that starts none.
TokensOfText ==
    LET End == Len(text) + 1
        From[p \in 1..End] ==
            LET q == Min({k \in p..End : At(k) \notin Blank})
                sizes == {n \in 1..(End - q) : Lexeme(SubSeq(text, q, q + n - 1))}
            IN  IF sizes = {} THEN << >>
                ELSE <<TypeOf(SubSeq(text, q, q + Max(sizes) - 1))>> \o From[q + Max(sizes)]
    IN  From[1]

-----------------------------------------------------------------------------
Init ==
    /\ text \in UNION {[1..n -> Char] : n \in 0..MaxText}
    /\ chars = 1 /\ line = 1 /\ column = 1
    /\ call = "idle" /\ tok = Token(None, 0)
    /\ to_come = TokensOfText

\* The length of the loops over isalnum and isdigit.
Run(p, class) == Min({n \in 0..Len(text) : At(p + n) \notin class})

\* A caller looks at the next token or goes on; after a LexError there is none.
Call ==
    /\ call = "idle" /\ tok.type # "LexError"
    /\ call' \in {"peek", "peek_some", "next"} \cup Type
    /\ UNCHANGED <<text, chars, line, column, tok, to_come>>

-----------------------------------------------------------------------------
(* peek                                                                    *)

\* Mutants of SkipBlank: a new line starts at the old column; the blank stays.
SkipKeepingColumn ==
    /\ call # "idle" /\ At(chars) \in Blank
    /\ chars' = chars + 1
    /\ IF At(chars) = "newline" THEN line' = line + 1 /\ UNCHANGED column
       ELSE column' = column + 1 /\ UNCHANGED line
    /\ UNCHANGED <<text, call, tok, to_come>>

SkipNothing ==
    /\ call # "idle" /\ At(chars) \in Blank
    /\ column' = (column % MaxText) + 1
    /\ UNCHANGED <<text, chars, line, call, tok, to_come>>

\* isspace: Pos::next of the character, and around the loop again.
SkipBlank ==
    /\ call # "idle" /\ At(chars) \in Blank
    /\ chars' = chars + 1
    /\ IF At(chars) = "newline" THEN line' = line + 1 /\ column' = 1
       ELSE column' = column + 1 /\ UNCHANGED line
    /\ UNCHANGED <<text, call, tok, to_come>>

\* With a token peek returns it, and next and match go past it, to its end.
Return(t, width) ==
    /\ call' = "idle"
    /\ IF call \in {"peek", "peek_some"}
       THEN tok' = t /\ UNCHANGED <<chars, column, to_come>>
       ELSE /\ IF call \in {"next", t.type}
               THEN /\ chars' = chars + t.size /\ column' = column + width
                    /\ to_come' = IF to_come = << >> THEN << >> ELSE Tail(to_come)
               ELSE UNCHANGED <<chars, column, to_come>>
            /\ UNCHANGED tok
    /\ UNCHANGED <<text, line>>

\* Without one, at the end or a character that starts none, peek_some throws.
NoToken ==
    /\ call # "idle"
    /\ \/ At(chars) \in {"NUL", "other"}
       \/ At(chars) = "_" /\ At(chars + 1) # "_"
    /\ call' = "idle"
    /\ tok' = CASE call = "peek" -> Token(None, 0)
                [] call = "peek_some" -> Token("LexError", 0)
                [] OTHER -> tok
    /\ UNCHANGED <<text, chars, line, column, to_come>>

LexMark ==
    /\ call # "idle" /\ At(chars) \in Mark
    /\ Return(Token(At(chars), 1), 1)

\* `end` starts at the underscores: the position does not count them.
LexPrimop ==
    /\ call # "idle" /\ At(chars) = "_" /\ At(chars + 1) = "_"
    /\ LET n == Run(chars + 2, Alnum) IN Return(Token("PRIMOP", n + 2), n)

\* strncmp(chars_, word, size) == 0: the token is a prefix of the word.
Compares(size, word) ==
    size <= Len(word) /\ \A j \in 1..size : At(chars + j - 1) = word[j]

WordType(size) ==
    LET same == {k \in DOMAIN Keywords : Compares(size, Keywords[k].word)} IN
    IF same = {} THEN "ID" ELSE Keywords[Min(same)].type

\* Mutant of LexId: a digit ends an identifier.
LexLetters ==
    /\ call # "idle" /\ At(chars) \in Letter
    /\ LET n == Run(chars, Letter) IN Return(Token(WordType(n), n), n)

LexId ==
    /\ call # "idle" /\ At(chars) \in Letter
    /\ LET n == Run(chars, Alnum) IN Return(Token(WordType(n), n), n)

LexInt ==
    /\ call # "idle" /\ At(chars) \in Digit
    /\ LET n == Run(chars, Digit) IN Return(Token("INT", n), n)

Lex == SkipBlank \/ NoToken \/ LexMark \/ LexPrimop \/ LexId \/ LexInt

Next == Call \/ Lex

\* A method that has been called runs on.
Spec == Init /\ [][Next]_vars /\ WF_vars(Lex)

-----------------------------------------------------------------------------
Cursor == INSTANCE TokenCursor WITH rest <- to_come, got <- tok.type

-----------------------------------------------------------------------------
\* The lexer is a cursor in the tokens of the text: the blanks that peek skips, the
\* token that match leaves and the end where the text goes on with a character it does
\* not know lose none and give none twice.
ReadsTokens == Cursor!Spec

\* Reported positions have the line, and the column but for the two underscores of
\* each primitive operator before it on the line.
PositionsCount ==
    LET before == {p \in 1..(chars - 1) : text[p] = "newline"}
        first == IF before = {} THEN 1 ELSE Max(before) + 1
    IN  /\ line = Cardinality(before) + 1
        /\ column = Cardinality({p \in first..(chars - 1) : text[p] # "_"}) + 1

\* Every method returns: the loop over blanks ends.
Returns == []<>(call = "idle")
=============================================================================
