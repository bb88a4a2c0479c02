---------------------------- MODULE ParserProofs ----------------------------
(***************************************************************************)
(* Proofs about the parser, for texts of any length and nesting of any     *)
(* depth.                                                                  *)
(***************************************************************************)
EXTENDS Parser, SequenceTheorems, TLAPS

Symbol == Nonterminal \cup Token \cup {End, Nothing}

(* Sequences, from the front.                                              *)

LEMMA Front ==
    ASSUME NEW X, NEW x \in X, NEW s \in Seq(X), NEW u, u = <<x>> \o s
    PROVE  /\ u \in Seq(X) /\ u # << >> /\ Len(u) = Len(s) + 1
           /\ DOMAIN u = 1..(Len(s) + 1) /\ DOMAIN s = 1..Len(s) /\ Len(s) \in Nat
           /\ u[1] = x /\ \A i \in 1..Len(s) : u[i + 1] = s[i]
           /\ Head(u) = x /\ Tail(u) = s
<1>1. <<x>> \in Seq(X) /\ Len(<<x>>) = 1 /\ Len(s) \in Nat /\ DOMAIN s = 1..Len(s)
    BY LenProperties
<1>2. /\ u \in Seq(X) /\ Len(u) = 1 + Len(s)
      /\ \A i \in 1..(1 + Len(s)) : u[i] = IF i <= 1 THEN <<x>>[i] ELSE s[i - 1]
    BY <1>1, ConcatProperties
<1>3. u \in Seq(X) /\ Len(u) = Len(s) + 1 /\ DOMAIN u = 1..(Len(s) + 1) /\ u # << >>
    BY <1>1, <1>2, LenProperties, EmptySeq
<1>4. u[1] = x /\ \A i \in 1..Len(s) : u[i + 1] = s[i]
    BY <1>1, <1>2
<1>5. Head(u) = x
    BY <1>3, <1>4
<1>6. Tail(u) = s
    <2>1. /\ Tail(u) \in Seq(X) /\ Len(Tail(u)) = Len(s)
          /\ \A i \in 1..Len(s) : Tail(u)[i] = u[i + 1]
        BY <1>1, <1>3, HeadTailProperties
    <2> DEFINE t == Tail(u)
    <2>2. \A i \in 1..Len(t) : t[i] = s[i]
        BY <1>4, <2>1
    <2> QED
        <3> HIDE DEF t
        <3>1. t \in Seq(X) /\ Len(t) = Len(s)
            BY <2>1 DEF t
        <3> QED
            BY <2>2, <3>1, SeqEqual DEF t
<1> QED
    BY <1>1, <1>3, <1>4, <1>5, <1>6

\* What is left of a sequence from m on.
LEMMA SuffixIs ==
    ASSUME NEW X, NEW u \in Seq(X), NEW m \in 1..(Len(u) + 1)
    PROVE  /\ SubSeq(u, m, Len(u)) \in Seq(X) /\ Len(SubSeq(u, m, Len(u))) = Len(u) - m + 1
           /\ \A i \in 1..(Len(u) - m + 1) : SubSeq(u, m, Len(u))[i] = u[m + i - 1]
<1> DEFINE n == Len(u)
<1>1. n \in Nat /\ n \in Int /\ m \in Int /\ m <= n + 1 /\ \A i \in m..n : u[i] \in X
    BY LenProperties, ElementOfSeq
<1> HIDE DEF n
<1>2. /\ SubSeq(u, m, n) \in Seq(X)
      /\ Len(SubSeq(u, m, n)) = IF m <= n THEN n - m + 1 ELSE 0
      /\ \A i \in 1..(n - m + 1) : SubSeq(u, m, n)[i] = u[m + i - 1]
    BY <1>1, SubSeqProperties
<1>3. Len(SubSeq(u, m, n)) = n - m + 1
    BY <1>1, <1>2
<1> QED
    BY <1>2, <1>3 DEF n

\* A sequence begins with its head, and so does what it is put before.
LEMMA FrontOfConcat ==
    ASSUME NEW X, NEW s \in Seq(X), s # << >>, NEW t \in Seq(X)
    PROVE  s \o t = <<Head(s)>> \o (Tail(s) \o t)
<1>1. Head(s) \in X /\ Tail(s) \in Seq(X) /\ Len(Tail(s)) = Len(s) - 1
      /\ \A i \in 1..(Len(s) - 1) : Tail(s)[i] = s[i + 1]
    BY HeadTailProperties
<1>2. <<Head(s)>> \in Seq(X) /\ s[1] = Head(s) /\ Len(s) \in Nat
    BY <1>1, LenProperties
<1>3. s = <<Head(s)>> \o Tail(s)
    <2> DEFINE h == Head(s)
               u == <<h>> \o Tail(s)
    <2> HIDE DEF h
    <2>1. /\ u \in Seq(X) /\ Len(u) = Len(s)
          /\ u[1] = h /\ \A i \in 1..(Len(s) - 1) : u[i + 1] = s[i + 1]
        BY <1>1, <1>2, Front DEF h
    <2> HIDE DEF u
    <2>2. \A i \in 1..Len(s) : u[i] = s[i]
        <3>1. ASSUME NEW i \in 1..Len(s) PROVE u[i] = s[i]
            <4>1. CASE i = 1
                BY <1>2, <2>1, <4>1 DEF h
            <4>2. CASE i # 1
                <5>1. i - 1 \in 1..(Len(s) - 1) /\ (i - 1) + 1 = i
                    BY <1>2, <4>2
                <5> QED
                    BY <2>1, <5>1
            <4> QED
                BY <4>1, <4>2
        <3> QED
            BY <3>1
    <2>3. u = s
        BY <2>1, <2>2, SeqEqual
    <2> QED
        BY <2>3 DEF u, h
<1>4. (<<Head(s)>> \o Tail(s)) \o t = <<Head(s)>> \o (Tail(s) \o t)
    BY <1>1, <1>2, ConcatAssociative
<1> QED
    BY <1>3, <1>4

-----------------------------------------------------------------------------
(* What After gives, symbol by symbol.                                     *)

Stops(s, t, k) == ~Skipped(s[k], t) /\ \A i \in 1..(k - 1) : Skipped(s[i], t)
Begun(x, t) == IF x \in Nonterminal THEN Tail(Rule(x, t)) ELSE << >>

LEMMA AfterStops ==
    ASSUME NEW s \in Seq(Symbol), NEW t, NEW k \in DOMAIN s, Stops(s, t, k)
    PROVE  After(s, t).rest = IF t \in Begins(s[k])
                              THEN Begun(s[k], t) \o SubSeq(s, k + 1, Len(s))
                              ELSE <<Nothing>>
<1> DEFINE c == CHOOSE i \in DOMAIN s : Stops(s, t, i)
<1>1. c \in DOMAIN s /\ Stops(s, t, c)
    OBVIOUS
<1>2. DOMAIN s = 1..Len(s) /\ Len(s) \in Nat
    BY LenProperties
<1> HIDE DEF c
<1>3. c = k
    <2>1. ~(c < k)
        <3>1. SUFFICES ASSUME c < k PROVE FALSE
            OBVIOUS
        <3>2. c \in 1..(k - 1)
            BY <1>1, <1>2, <3>1
        <3> QED
            BY <1>1, <3>2 DEF Stops
    <2>2. ~(k < c)
        <3>1. SUFFICES ASSUME k < c PROVE FALSE
            OBVIOUS
        <3>2. k \in 1..(c - 1)
            BY <1>1, <1>2, <3>1
        <3> QED
            BY <1>1, <3>2 DEF Stops
    <2> QED
        BY <1>1, <1>2, <2>1, <2>2
<1>4. After(s, t).rest =
        IF (\E i \in DOMAIN s : Stops(s, t, i)) /\ t \in Begins(s[c])
        THEN Begun(s[c], t) \o SubSeq(s, c + 1, Len(s)) ELSE <<Nothing>>
    BY DEF After, c, Stops, Begun
<1>5. \E i \in DOMAIN s : Stops(s, t, i)
    OBVIOUS
<1> QED
    BY <1>3, <1>4, <1>5

LEMMA AfterNone ==
    ASSUME NEW s \in Seq(Symbol), NEW t, \A k \in DOMAIN s : ~Stops(s, t, k)
    PROVE  After(s, t).rest = <<Nothing>>
<1> DEFINE c == CHOOSE i \in DOMAIN s : Stops(s, t, i)
<1>1. After(s, t).rest =
        IF (\E i \in DOMAIN s : Stops(s, t, i)) /\ t \in Begins(s[c])
        THEN Begun(s[c], t) \o SubSeq(s, c + 1, Len(s)) ELSE <<Nothing>>
    BY DEF After, Stops, Begun
<1> QED
    BY <1>1

LEMMA AfterLacks ==
    ASSUME NEW s, NEW t
    PROVE  After(s, t).missing # {} <=>
             \E i \in DOMAIN s : s[i] \in Matched /\ \A j \in 1..i : Skipped(s[j], t)
BY DEF After

\* A symbol that t begins.
LEMMA AfterBegun ==
    ASSUME NEW x \in Symbol, NEW s \in Seq(Symbol), NEW t, t \in Begins(x),
           NEW u, u = <<x>> \o s
    PROVE  After(u, t).rest = Begun(x, t) \o s /\ After(u, t).missing = {}
<1>1. /\ u \in Seq(Symbol) /\ Len(u) = Len(s) + 1 /\ DOMAIN u = 1..(Len(s) + 1)
      /\ Len(s) \in Nat /\ u[1] = x /\ Tail(u) = s /\ u # << >>
    BY Front
<1>2. 1 \in DOMAIN u /\ Stops(u, t, 1)
    BY <1>1 DEF Stops, Skipped
<1>3. SubSeq(u, 1 + 1, Len(u)) = s
    BY <1>1, TailIsSubSeq
<1>4. After(u, t).rest = Begun(x, t) \o s
    BY <1>1, <1>2, <1>3, AfterStops
<1>5. After(u, t).missing = {}
    <2>1. \A i \in DOMAIN u : 1 \in 1..i
        BY <1>1
    <2>2. ~Skipped(u[1], t)
        BY <1>1 DEF Skipped
    <2> QED
        BY <2>1, <2>2, AfterLacks
<1> QED
    BY <1>4, <1>5

\* A symbol that is there to stay and that t does not begin.
LEMMA AfterRefused ==
    ASSUME NEW x \in Symbol, NEW s \in Seq(Symbol), NEW t, t \notin Begins(x),
           x \notin Matched \cup MayBeEmpty, NEW u, u = <<x>> \o s
    PROVE  After(u, t).rest = <<Nothing>> /\ After(u, t).missing = {}
<1>1. /\ u \in Seq(Symbol) /\ DOMAIN u = 1..(Len(s) + 1) /\ Len(s) \in Nat /\ u[1] = x
    BY Front
<1>2. 1 \in DOMAIN u /\ Stops(u, t, 1)
    BY <1>1 DEF Stops, Skipped
<1>3. After(u, t).rest = <<Nothing>>
    BY <1>1, <1>2, AfterStops
<1>4. After(u, t).missing = {}
    <2>1. \A i \in DOMAIN u : 1 \in 1..i
        BY <1>1
    <2>2. ~Skipped(u[1], t)
        BY <1>1 DEF Skipped
    <2> QED
        BY <2>1, <2>2, AfterLacks
<1> QED
    BY <1>3, <1>4

\* A symbol that is skipped.
LEMMA AfterSkipped ==
    ASSUME NEW x \in Symbol, NEW s \in Seq(Symbol), NEW t, Skipped(x, t),
           NEW u, u = <<x>> \o s
    PROVE  /\ After(u, t).rest = After(s, t).rest
           /\ After(u, t).missing # {} <=> x \in Matched \/ After(s, t).missing # {}
<1>1. /\ u \in Seq(Symbol) /\ Len(u) = Len(s) + 1 /\ DOMAIN u = 1..(Len(s) + 1)
      /\ Len(s) \in Nat /\ u[1] = x /\ DOMAIN s = 1..Len(s)
      /\ \A i \in 1..Len(s) : u[i + 1] = s[i]
    BY Front
<1>2. ~Stops(u, t, 1)
    BY <1>1 DEF Stops
<1>3. ASSUME NEW k \in 1..Len(s)
      PROVE  (\A i \in 1..k : Skipped(u[i], t)) <=> \A i \in 1..(k - 1) : Skipped(s[i], t)
    <2>1. ASSUME \A i \in 1..k : Skipped(u[i], t), NEW i \in 1..(k - 1)
          PROVE  Skipped(s[i], t)
        <3>1. i + 1 \in 1..k /\ i \in 1..Len(s)
            BY <1>1
        <3> QED
            BY <1>1, <2>1, <3>1
    <2>2. ASSUME \A i \in 1..(k - 1) : Skipped(s[i], t), NEW i \in 1..k
          PROVE  Skipped(u[i], t)
        <3>1. CASE i = 1
            BY <1>1, <3>1
        <3>2. CASE i # 1
            <4>1. i - 1 \in 1..(k - 1) /\ i - 1 \in 1..Len(s) /\ (i - 1) + 1 = i
                BY <1>1, <3>2
            <4> QED
                BY <1>1, <2>2, <4>1
        <3> QED
            BY <3>1, <3>2
    <2> QED
        BY <2>1, <2>2
<1>4. ASSUME NEW k \in 1..Len(s)
      PROVE  Stops(u, t, k + 1) <=> Stops(s, t, k)
    <2>1. (k + 1) - 1 = k
        BY <1>1
    <2> QED
        BY <1>1, <1>3, <2>1 DEF Stops
<1>5. After(u, t).rest = After(s, t).rest
    <2>1. CASE \E k \in DOMAIN s : Stops(s, t, k)
        <3>1. PICK k \in DOMAIN s : Stops(s, t, k)
            BY <2>1
        <3>2. k + 1 \in DOMAIN u /\ Stops(u, t, k + 1) /\ u[k + 1] = s[k]
            BY <1>1, <1>4, <3>1
        <3>3. SubSeq(u, (k + 1) + 1, Len(u)) = SubSeq(s, k + 1, Len(s))
            <4> DEFINE a == SubSeq(u, (k + 1) + 1, Len(u))
                       b == SubSeq(s, k + 1, Len(s))
            <4>3. /\ a \in Seq(Symbol) /\ Len(a) = Len(u) - ((k + 1) + 1) + 1
                  /\ \A i \in 1..(Len(u) - ((k + 1) + 1) + 1) : a[i] = u[((k + 1) + 1) + i - 1]
                BY <1>1, <3>1, SuffixIs
            <4>4. /\ b \in Seq(Symbol) /\ Len(b) = Len(s) - (k + 1) + 1
                  /\ \A i \in 1..(Len(s) - (k + 1) + 1) : b[i] = s[(k + 1) + i - 1]
                BY <1>1, <3>1, SuffixIs
            <4> HIDE DEF a, b
            <4>5. Len(a) = Len(b) /\ k \in 1..Len(s)
                BY <1>1, <3>1, <4>3, <4>4
            <4>6. ASSUME NEW i \in 1..Len(a) PROVE a[i] = b[i]
                <5>1. /\ i \in 1..(Len(u) - ((k + 1) + 1) + 1) /\ i \in 1..(Len(s) - (k + 1) + 1)
                      /\ (k + 1) + i - 1 \in 1..Len(s)
                      /\ ((k + 1) + 1) + i - 1 = ((k + 1) + i - 1) + 1
                    BY <1>1, <4>3, <4>5
                <5> QED
                    BY <1>1, <4>3, <4>4, <5>1
            <4>7. a = b
                BY <4>3, <4>4, <4>5, <4>6, SeqEqual
            <4> QED
                BY <4>7 DEF a, b
        <3>4. After(s, t).rest = IF t \in Begins(s[k])
                    THEN Begun(s[k], t) \o SubSeq(s, k + 1, Len(s)) ELSE <<Nothing>>
            BY <3>1, AfterStops
        <3>5. After(u, t).rest = IF t \in Begins(u[k + 1])
                    THEN Begun(u[k + 1], t) \o SubSeq(u, (k + 1) + 1, Len(u)) ELSE <<Nothing>>
            BY <1>1, <3>2, AfterStops
        <3> QED
            BY <3>2, <3>3, <3>4, <3>5
    <2>2. CASE \A k \in DOMAIN s : ~Stops(s, t, k)
        <3>1. ASSUME NEW k \in DOMAIN u PROVE ~Stops(u, t, k)
            <4>1. CASE k = 1
                BY <1>2, <4>1
            <4>2. CASE k # 1
                <5>1. k - 1 \in 1..Len(s) /\ (k - 1) + 1 = k
                    BY <1>1, <4>2
                <5> QED
                    BY <1>1, <1>4, <2>2, <5>1
            <4> QED
                BY <4>1, <4>2
        <3> QED
            BY <1>1, <2>2, <3>1, AfterNone
    <2> QED
        BY <2>1, <2>2
<1>6. After(u, t).missing # {} <=> x \in Matched \/ After(s, t).missing # {}
    <2>1. ASSUME x \in Matched PROVE After(u, t).missing # {}
        <3>1. \A j \in 1..1 : Skipped(u[j], t)
            BY <1>1
        <3>2. 1 \in DOMAIN u /\ u[1] \in Matched
            BY <1>1, <2>1
        <3> QED
            BY <3>1, <3>2, AfterLacks
    <2>2. ASSUME NEW i \in DOMAIN s, s[i] \in Matched, \A j \in 1..i : Skipped(s[j], t)
          PROVE  After(u, t).missing # {}
        <3>1. \A j \in 1..(i - 1) : Skipped(s[j], t)
            BY <1>1, <2>2
        <3>2. \A j \in 1..i : Skipped(u[j], t)
            BY <1>1, <1>3, <3>1
        <3>3. u[i + 1] = s[i] /\ i + 1 \in DOMAIN u /\ \A j \in 1..(i + 1) : j \in 1..i \/ j = i + 1
            BY <1>1
        <3>4. Skipped(s[i], t)
            <4>1. i \in 1..i
                BY <1>1
            <4> QED
                BY <2>2, <4>1
        <3>5. \A j \in 1..(i + 1) : Skipped(u[j], t)
            BY <3>2, <3>3, <3>4
        <3> QED
            BY <2>2, <3>3, <3>5, AfterLacks
    <2>3. ASSUME NEW i \in DOMAIN u, u[i] \in Matched, \A j \in 1..i : Skipped(u[j], t),
                 x \notin Matched
          PROVE  After(s, t).missing # {}
        <3>1. i # 1 /\ i - 1 \in DOMAIN s /\ i - 1 \in 1..Len(s) /\ (i - 1) + 1 = i
            BY <1>1, <2>3
        <3>2. \A j \in 1..(i - 1) : Skipped(u[j], t)
            BY <1>1, <2>3
        <3>3. \A j \in 1..((i - 1) - 1) : Skipped(s[j], t)
            BY <1>3, <3>1, <3>2
        <3>4. Skipped(s[i - 1], t) /\ s[i - 1] \in Matched
            BY <1>1, <2>3, <3>1
        <3>5. \A j \in 1..(i - 1) : j \in 1..((i - 1) - 1) \/ j = i - 1
            BY <1>1, <3>1
        <3>6. \A j \in 1..(i - 1) : Skipped(s[j], t)
            BY <3>3, <3>4, <3>5
        <3> QED
            BY <3>1, <3>4, <3>6, AfterLacks
    <2> QED
        BY <2>1, <2>2, <2>3, AfterLacks
<1> QED
    BY <1>5, <1>6

-----------------------------------------------------------------------------
(* The rules of Grammar.                                                   *)

LEMMA RuleIs ==
    ASSUME NEW x \in Nonterminal, NEW r \in Rules[x], r # << >>,
           \A q \in Rules[x] : q # << >> /\ q[1] = r[1] => q = r
    PROVE  Begun(x, r[1]) = Tail(r)
BY DEF Begun, Rule

LEMMA TailOfOne == \A x : Tail(<<x>>) = << >>
<1>1. ASSUME NEW x PROVE Tail(<<x>>) = << >>
    <2>1. <<x>> \in Seq({x}) /\ <<x>> # << >> /\ Len(<<x>>) = 1
        OBVIOUS
    <2>2. Tail(<<x>>) \in Seq({x}) /\ Len(Tail(<<x>>)) = 0
        BY <2>1, HeadTailProperties
    <2> QED
        BY <2>2, EmptySeq
<1> QED
    BY <1>1

LEMMA Symbols ==
    /\ Nonterminal = {"program", "params", "params2", "pat", "anns", "block", "stmts",
                      "expr", "arglists", "args", "args2", "callee"}
    /\ Matched \cap Nonterminal = {} /\ Matched \subseteq Token /\ Token \subseteq Symbol
    /\ End \in Symbol /\ End \notin Nonterminal /\ End \notin Matched /\ End # Nothing
    /\ Token \cap Nonterminal = {}
BY DEF Nonterminal, Rules, Matched, Token, Symbol, End, Nothing

\* The tails of the longer rules (the strings are hidden from the provers).
LEMMA Tails ==
    /\ Tail(<<"{", "stmts", "expr", "}">>)
            = <<"stmts", "expr", "}">>
    /\ Tail(<<"if", "expr", "block", "else", "block">>)
            = <<"expr", "block", "else", "block">>
    /\ Tail(<<"primop", "(", "args", ")">>)
            = <<"(", "args", ")">>
    /\ Tail(<<"val", "pat", "=", "expr", ";", "stmts">>)
            = <<"pat", "=", "expr", ";", "stmts">>
    /\ Tail(<<"val", "pat", "=", "expr">>)
            = <<"pat", "=", "expr">>
    /\ Tail(<<"fun", "id", "(", "params", ")", ":", "type", "block">>)
            = <<"id", "(", "params", ")", ":", "type", "block">>
    /\ Tail(<<"fun", "id", "(", "params", ")", ":", "type", "block", "program">>)
            = <<"id", "(", "params", ")", ":", "type", "block", "program">>
<1> DEFINE open_ == "{"
           stmts_ == "stmts"
           expr_ == "expr"
           close_ == "}"
           if_ == "if"
           block_ == "block"
           else_ == "else"
           primop_ == "primop"
           left_ == "("
           right_ == ")"
           args_ == "args"
           val_ == "val"
           pat_ == "pat"
           is_ == "="
           semi_ == ";"
           fun_ == "fun"
           id_ == "id"
           params_ == "params"
           of_ == ":"
           type_ == "type"
           program_ == "program"
<1> HIDE DEF open_, stmts_, expr_, close_, if_, block_, else_, primop_, left_, right_,
       args_, val_, pat_, is_, semi_, fun_, id_, params_, of_, type_, program_
<1>1. Tail(<<open_, stmts_, expr_, close_>>) = <<stmts_, expr_, close_>>
    OBVIOUS
<1>2. Tail(<<if_, expr_, block_, else_, block_>>) = <<expr_, block_, else_, block_>>
    OBVIOUS
<1>3. Tail(<<primop_, left_, args_, right_>>) = <<left_, args_, right_>>
    OBVIOUS
<1>4. Tail(<<val_, pat_, is_, expr_, semi_, stmts_>>) = <<pat_, is_, expr_, semi_, stmts_>>
    OBVIOUS
<1>5. Tail(<<val_, pat_, is_, expr_>>) = <<pat_, is_, expr_>>
    OBVIOUS
<1>6. Tail(<<fun_, id_, left_, params_, right_, of_, type_, block_>>) = <<id_, left_, params_, right_, of_, type_, block_>>
    OBVIOUS
<1>7. Tail(<<fun_, id_, left_, params_, right_, of_, type_, block_, program_>>) = <<id_, left_, params_, right_, of_, type_, block_, program_>>
    OBVIOUS
<1> QED
    BY <1>1, <1>2, <1>3, <1>4, <1>5, <1>6, <1>7 DEF open_, stmts_, expr_, close_, if_,
       block_, else_, primop_, left_, right_, args_, val_, pat_, is_, semi_, fun_, id_,
       params_, of_, type_, program_

LEMMA ProgramRules ==
    /\ Begins("program") = {"fun"}
    /\ Begun("program", "fun") = <<"id", "(", "params", ")", ":", "type", "block", "program">>
    /\ "program" \in MayBeEmpty
<1> DEFINE r == <<"fun", "id", "(", "params", ")", ":", "type", "block", "program">>
<1>1. Rules["program"] = {r, << >>} /\ r # << >> /\ r[1] = "fun"
    BY DEF Rules
<1>2. Tail(r) = <<"id", "(", "params", ")", ":", "type", "block", "program">>
    BY Tails
<1> HIDE DEF r
<1>3. Begins("program") = {"fun"} /\ "program" \in MayBeEmpty
    BY <1>1, Symbols DEF Begins, MayBeEmpty
<1>4. Begun("program", r[1]) = Tail(r)
    BY <1>1, RuleIs, Symbols
<1> QED
    BY <1>1, <1>2, <1>3, <1>4

LEMMA CalleeIs ==
    /\ Callee \subseteq Seq(Symbol) /\ << >> \notin Callee
    /\ Rules["callee"] = Callee /\ "callee" \in Nonterminal
    /\ \A c, d \in Callee : c[1] = d[1] => c = d
<1> DEFINE a == <<"{", "stmts", "expr", "}">>
           b == <<"if", "expr", "block", "else", "block">>
           c == <<"primop", "(", "args", ")">>
           d == <<"id">>
           e == <<"literal">>
<1>1. Callee = {a, b, c, d, e} /\ Rules["callee"] = Callee
    BY DEF Rules, Callee
<1>2. /\ a # << >> /\ b # << >> /\ c # << >> /\ d # << >> /\ e # << >>
      /\ a[1] = "{" /\ b[1] = "if" /\ c[1] = "primop" /\ d[1] = "id" /\ e[1] = "literal"
    OBVIOUS
<1>3. /\ {"{", "stmts", "expr", "}", "if", "block", "else", "primop", "(", ")", "args",
          "id", "literal"} \subseteq Symbol
    BY Symbols DEF Symbol, Token
<1>4. /\ \A s1, s2, s3, s4 \in Symbol : <<s1, s2, s3, s4>> \in Seq(Symbol)
      /\ \A s1, s2, s3, s4, s5 \in Symbol : <<s1, s2, s3, s4, s5>> \in Seq(Symbol)
      /\ \A s1 \in Symbol : <<s1>> \in Seq(Symbol)
    OBVIOUS
<1>5. a \in Seq(Symbol) /\ b \in Seq(Symbol) /\ c \in Seq(Symbol)
      /\ d \in Seq(Symbol) /\ e \in Seq(Symbol)
    BY <1>3, <1>4, Zenon DEF a, b, c, d, e
<1> HIDE DEF a, b, c, d, e
<1>6. Callee \subseteq Seq(Symbol) /\ << >> \notin Callee
    BY <1>1, <1>2, <1>4, <1>5
<1>7. \A p, q \in Callee : p[1] = q[1] => p = q
    BY <1>1, <1>2
<1> QED
    BY <1>1, <1>6, <1>7, Symbols

LEMMA CalleeRules ==
    /\ Begins("callee") = {"{", "if", "primop", "id", "literal"}
    /\ Begun("callee", "{") = <<"stmts", "expr", "}">>
    /\ Begun("callee", "if") = <<"expr", "block", "else", "block">>
    /\ Begun("callee", "primop") = <<"(", "args", ")">>
    /\ Begun("callee", "id") = << >> /\ Begun("callee", "literal") = << >>
    /\ "callee" \notin MayBeEmpty
<1> DEFINE a == <<"{", "stmts", "expr", "}">>
           b == <<"if", "expr", "block", "else", "block">>
           c == <<"primop", "(", "args", ")">>
           d == <<"id">>
           e == <<"literal">>
<1>1. Rules["callee"] = {a, b, c, d, e}
    BY DEF Rules, Callee
<1>2. /\ a # << >> /\ b # << >> /\ c # << >> /\ d # << >> /\ e # << >>
      /\ a[1] = "{" /\ b[1] = "if" /\ c[1] = "primop" /\ d[1] = "id" /\ e[1] = "literal"
    OBVIOUS
<1>3. /\ Tail(a) = <<"stmts", "expr", "}">> /\ Tail(b) = <<"expr", "block", "else", "block">>
      /\ Tail(c) = <<"(", "args", ")">>
    BY Tails
<1>6. Tail(d) = << >> /\ Tail(e) = << >>
    BY TailOfOne, Zenon
<1> HIDE DEF a, b, c, d, e
<1>4. Begins("callee") = {"{", "if", "primop", "id", "literal"} /\ "callee" \notin MayBeEmpty
    BY <1>1, <1>2, Symbols DEF Begins, MayBeEmpty
<1>5. /\ Begun("callee", a[1]) = Tail(a) /\ Begun("callee", b[1]) = Tail(b)
      /\ Begun("callee", c[1]) = Tail(c) /\ Begun("callee", d[1]) = Tail(d)
      /\ Begun("callee", e[1]) = Tail(e)
    BY <1>1, <1>2, RuleIs, Symbols, ZenonT(60)
<1> QED
    BY <1>2, <1>3, <1>4, <1>5, <1>6

LEMMA ParamsRules ==
    /\ Begins("params") = {"id"} /\ Begun("params", "id") = <<"anns", "params2">>
    /\ "params" \in MayBeEmpty
<1> DEFINE r == <<"id", "anns", "params2">>
<1>1. Rules["params"] = {r, << >>} /\ r # << >> /\ r[1] = "id"
    BY DEF Rules
<1>2. Tail(r) = <<"anns", "params2">>
    OBVIOUS
<1> HIDE DEF r
<1>3. Begins("params") = {"id"} /\ "params" \in MayBeEmpty
    BY <1>1, Symbols DEF Begins, MayBeEmpty
<1>4. Begun("params", r[1]) = Tail(r)
    BY <1>1, RuleIs, Symbols
<1> QED
    BY <1>1, <1>2, <1>3, <1>4

LEMMA Params2Rules ==
    /\ Begins("params2") = {","} /\ Begun("params2", ",") = <<"pat", "params2">>
    /\ "params2" \in MayBeEmpty
<1> DEFINE r == <<",", "pat", "params2">>
<1>1. Rules["params2"] = {r, << >>} /\ r # << >> /\ r[1] = ","
    BY DEF Rules
<1>2. Tail(r) = <<"pat", "params2">>
    OBVIOUS
<1> HIDE DEF r
<1>3. Begins("params2") = {","} /\ "params2" \in MayBeEmpty
    BY <1>1, Symbols DEF Begins, MayBeEmpty
<1>4. Begun("params2", r[1]) = Tail(r)
    BY <1>1, RuleIs, Symbols
<1> QED
    BY <1>1, <1>2, <1>3, <1>4

LEMMA PatRules ==
    /\ Begins("pat") = {"id"} /\ Begun("pat", "id") = <<"anns">>
    /\ "pat" \notin MayBeEmpty
<1> DEFINE r == <<"id", "anns">>
<1>1. Rules["pat"] = {r} /\ r # << >> /\ r[1] = "id"
    BY DEF Rules
<1>2. Tail(r) = <<"anns">>
    OBVIOUS
<1> HIDE DEF r
<1>3. Begins("pat") = {"id"} /\ "pat" \notin MayBeEmpty
    BY <1>1, Symbols DEF Begins, MayBeEmpty
<1>4. Begun("pat", r[1]) = Tail(r)
    BY <1>1, RuleIs, Symbols
<1> QED
    BY <1>1, <1>2, <1>3, <1>4

LEMMA AnnsRules ==
    /\ Begins("anns") = {":"} /\ Begun("anns", ":") = <<"type", "anns">>
    /\ "anns" \in MayBeEmpty
<1> DEFINE r == <<":", "type", "anns">>
<1>1. Rules["anns"] = {r, << >>} /\ r # << >> /\ r[1] = ":"
    BY DEF Rules
<1>2. Tail(r) = <<"type", "anns">>
    OBVIOUS
<1> HIDE DEF r
<1>3. Begins("anns") = {":"} /\ "anns" \in MayBeEmpty
    BY <1>1, Symbols DEF Begins, MayBeEmpty
<1>4. Begun("anns", r[1]) = Tail(r)
    BY <1>1, RuleIs, Symbols
<1> QED
    BY <1>1, <1>2, <1>3, <1>4

LEMMA BlockRules ==
    /\ Begins("block") = {"{"} /\ Begun("block", "{") = <<"stmts", "expr", "}">>
    /\ "block" \notin MayBeEmpty
<1> DEFINE r == <<"{", "stmts", "expr", "}">>
<1>1. Rules["block"] = {r} /\ r # << >> /\ r[1] = "{"
    BY DEF Rules
<1>2. Tail(r) = <<"stmts", "expr", "}">>
    BY Tails
<1> HIDE DEF r
<1>3. Begins("block") = {"{"} /\ "block" \notin MayBeEmpty
    BY <1>1, Symbols DEF Begins, MayBeEmpty
<1>4. Begun("block", r[1]) = Tail(r)
    BY <1>1, RuleIs, Symbols
<1> QED
    BY <1>1, <1>2, <1>3, <1>4

LEMMA StmtsRules ==
    /\ Begins("stmts") = {"val"} /\ Begun("stmts", "val") = <<"pat", "=", "expr", ";", "stmts">>
    /\ "stmts" \in MayBeEmpty
<1> DEFINE r == <<"val", "pat", "=", "expr", ";", "stmts">>
<1>1. Rules["stmts"] = {r, << >>} /\ r # << >> /\ r[1] = "val"
    BY DEF Rules
<1>2. Tail(r) = <<"pat", "=", "expr", ";", "stmts">>
    BY Tails
<1> HIDE DEF r
<1>3. Begins("stmts") = {"val"} /\ "stmts" \in MayBeEmpty
    BY <1>1, Symbols DEF Begins, MayBeEmpty
<1>4. Begun("stmts", r[1]) = Tail(r)
    BY <1>1, RuleIs, Symbols
<1> QED
    BY <1>1, <1>2, <1>3, <1>4

LEMMA ArglistsRules ==
    /\ Begins("arglists") = {"("} /\ Begun("arglists", "(") = <<"args", ")", "arglists">>
    /\ "arglists" \in MayBeEmpty
<1> DEFINE r == <<"(", "args", ")", "arglists">>
<1>1. Rules["arglists"] = {r, << >>} /\ r # << >> /\ r[1] = "("
    BY DEF Rules
<1>2. Tail(r) = <<"args", ")", "arglists">>
    OBVIOUS
<1> HIDE DEF r
<1>3. Begins("arglists") = {"("} /\ "arglists" \in MayBeEmpty
    BY <1>1, Symbols DEF Begins, MayBeEmpty
<1>4. Begun("arglists", r[1]) = Tail(r)
    BY <1>1, RuleIs, Symbols
<1> QED
    BY <1>1, <1>2, <1>3, <1>4

LEMMA Args2Rules ==
    /\ Begins("args2") = {","} /\ Begun("args2", ",") = <<"expr", "args2">>
    /\ "args2" \in MayBeEmpty
<1> DEFINE r == <<",", "expr", "args2">>
<1>1. Rules["args2"] = {r, << >>} /\ r # << >> /\ r[1] = ","
    BY DEF Rules
<1>2. Tail(r) = <<"expr", "args2">>
    OBVIOUS
<1> HIDE DEF r
<1>3. Begins("args2") = {","} /\ "args2" \in MayBeEmpty
    BY <1>1, Symbols DEF Begins, MayBeEmpty
<1>4. Begun("args2", r[1]) = Tail(r)
    BY <1>1, RuleIs, Symbols
<1> QED
    BY <1>1, <1>2, <1>3, <1>4

LEMMA CalleeThenMore ==
    ASSUME NEW m \in Seq(Symbol)
    PROVE  << >> \notin {c \o m : c \in Callee}
<1>1. ASSUME NEW c \in Callee PROVE c \o m # << >>
    <2>1. c \in Seq(Symbol) /\ c # << >>
        BY CalleeIs
    <2>2. Head(c) \in Symbol /\ Tail(c) \o m \in Seq(Symbol)
        BY <2>1, HeadTailProperties, ConcatProperties
    <2> QED
        BY <2>1, <2>2, FrontOfConcat, Front
<1> QED
    BY <1>1

\* What expr and args have of callee.
LEMMA CalleeFollowed ==
    ASSUME NEW x \in Nonterminal, NEW m \in Seq(Symbol),
           Rules[x] \ {<< >>} = {c \o m : c \in Callee}
    PROVE  /\ Begins(x) = Begins("callee")
           /\ \A t \in Begins("callee") : Begun(x, t) = Begun("callee", t) \o m
<1>1. /\ Rules["callee"] = Callee /\ << >> \notin Callee /\ Callee \subseteq Seq(Symbol)
      /\ "callee" \in Nonterminal
    BY CalleeIs
<1>2. \A c, d \in Callee : c[1] = d[1] => c = d
    BY CalleeIs
<1>3. ASSUME NEW c \in Callee
      PROVE  /\ c \o m \in Rules[x] /\ c \o m # << >> /\ (c \o m)[1] = c[1]
             /\ Tail(c \o m) = Tail(c) \o m
    <2>1. c \in Seq(Symbol) /\ c # << >>
        BY <1>1
    <2>2. /\ c \o m = <<Head(c)>> \o (Tail(c) \o m) /\ Head(c) \in Symbol
          /\ Tail(c) \in Seq(Symbol) /\ Tail(c) \o m \in Seq(Symbol)
        BY <2>1, FrontOfConcat, HeadTailProperties, ConcatProperties
    <2>3. /\ c \o m # << >> /\ (c \o m)[1] = Head(c) /\ Tail(c \o m) = Tail(c) \o m
        BY <2>2, Front
    <2>4. Head(c) = c[1]
        OBVIOUS
    <2>5. c \o m \in Rules[x]
        OBVIOUS
    <2> QED
        BY <2>3, <2>4, <2>5
<1>4. Begins(x) = Begins("callee")
    <2>1. Begins(x) = {r[1] : r \in {c \o m : c \in Callee}}
        BY DEF Begins
    <2>2. Begins("callee") = {c[1] : c \in Callee}
        BY <1>1 DEF Begins
    <2>3. ASSUME NEW t \in Begins(x) PROVE t \in Begins("callee")
        <3>1. PICK c \in Callee : t = (c \o m)[1]
            BY <2>1
        <3> QED
            BY <1>3, <2>2, <3>1
    <2>4. ASSUME NEW t \in Begins("callee") PROVE t \in Begins(x)
        <3>1. PICK c \in Callee : t = c[1]
            BY <2>2
        <3>2. t = (c \o m)[1]
            BY <1>3, <3>1
        <3> QED
            BY <2>1, <3>2
    <2> QED
        BY <2>3, <2>4
<1>5. ASSUME NEW t \in Begins("callee")
      PROVE  Begun(x, t) = Begun("callee", t) \o m
    <2>1. PICK c \in Callee : t = c[1]
        BY <1>1 DEF Begins
    <2>2. Begun("callee", t) = Tail(c)
        BY <1>1, <1>2, <2>1, RuleIs
    <2>3. \A q \in Rules[x] : q # << >> /\ q[1] = (c \o m)[1] => q = c \o m
        <3>1. ASSUME NEW q \in Rules[x], q # << >>, q[1] = (c \o m)[1]
              PROVE  q = c \o m
            <4>1. PICK d \in Callee : q = d \o m
                BY <3>1
            <4> QED
                BY <1>2, <1>3, <3>1, <4>1
        <3> QED
            BY <3>1
    <2>4. Begun(x, (c \o m)[1]) = Tail(c \o m)
        BY <1>3, <2>3, RuleIs
    <2> QED
        BY <1>3, <2>1, <2>2, <2>4
<1> QED
    BY <1>4, <1>5

LEMMA ExprRules ==
    /\ Begins("expr") = Begins("callee") /\ "expr" \notin MayBeEmpty
    /\ \A t \in Begins("callee") : Begun("expr", t) = Begun("callee", t) \o <<"arglists">>
<1> DEFINE m == <<"arglists">>
<1>1. m \in Seq(Symbol)
    BY Symbols DEF Symbol
<1>2. Rules["expr"] = {c \o m : c \in Callee}
    BY DEF Rules
<1> HIDE DEF m
<1>3. << >> \notin Rules["expr"]
    BY <1>1, <1>2, CalleeThenMore
<1>4. Rules["expr"] \ {<< >>} = {c \o m : c \in Callee} /\ "expr" \in Nonterminal
    BY <1>2, <1>3, Symbols
<1>5. /\ Begins("expr") = Begins("callee")
      /\ \A t \in Begins("callee") : Begun("expr", t) = Begun("callee", t) \o m
    BY <1>1, <1>4, CalleeFollowed
<1> QED
    BY <1>3, <1>5 DEF MayBeEmpty, m

LEMMA ArgsRules ==
    /\ Begins("args") = Begins("callee") /\ "args" \in MayBeEmpty
    /\ \A t \in Begins("callee") :
            Begun("args", t) = Begun("callee", t) \o <<"arglists", "args2">>
<1> DEFINE m == <<"arglists", "args2">>
<1>1. m \in Seq(Symbol)
    BY Symbols DEF Symbol
<1>2. Rules["args"] = {c \o m : c \in Callee} \cup {<< >>}
    BY DEF Rules
<1> HIDE DEF m
<1>3. << >> \notin {c \o m : c \in Callee}
    BY <1>1, CalleeThenMore
<1>4. Rules["args"] \ {<< >>} = {c \o m : c \in Callee} /\ "args" \in Nonterminal
    BY <1>2, <1>3, Symbols
<1>5. /\ Begins("args") = Begins("callee")
      /\ \A t \in Begins("callee") : Begun("args", t) = Begun("callee", t) \o m
    BY <1>1, <1>4, CalleeFollowed
<1> QED
    BY <1>2, <1>4, <1>5 DEF MayBeEmpty, m

LEMMA TokenRules ==
    \A t \in Token \cup {End} : Begins(t) = {t} /\ Begun(t, t) = << >> /\ t \notin MayBeEmpty
BY Symbols DEF Begins, Begun, MayBeEmpty

\* Only the end of the text begins with it.
LEMMA EndBeginsNothing == \A x \in Symbol \ {End} : End \notin Begins(x)
<1>1. End \notin Begins("callee") /\ Begins("expr") = Begins("callee")
      /\ Begins("args") = Begins("callee")
    BY CalleeRules, ExprRules, ArgsRules DEF End
<1>2. /\ End \notin Begins("program") /\ End \notin Begins("params")
      /\ End \notin Begins("params2") /\ End \notin Begins("pat") /\ End \notin Begins("anns")
    BY ProgramRules, ParamsRules, Params2Rules, PatRules, AnnsRules DEF End
<1>5. /\ End \notin Begins("block") /\ End \notin Begins("stmts")
      /\ End \notin Begins("arglists") /\ End \notin Begins("args2")
    BY BlockRules, StmtsRules, ArglistsRules, Args2Rules DEF End
<1>3. \A x \in Nonterminal : End \notin Begins(x)
    BY <1>1, <1>2, <1>5, Symbols
<1>4. \A x \in Symbol \ Nonterminal : Begins(x) = {x}
    BY DEF Begins
<1> QED
    BY <1>3, <1>4

-----------------------------------------------------------------------------
(* The symbols that what is on the stack reads: a call is at work for what *)
(* is left of its rule, lists with the token that ends them.               *)

Meaning ==
    [defs |-> <<"program">>, id |-> <<"id">>, type |-> <<"type">>,
     params |-> <<"params", ")">>, params2 |-> <<"params2", ")">>,
     pat |-> <<"pat">>, anns |-> <<"anns">>, block |-> <<"block">>,
     stmts |-> <<"stmts", "expr", "}">>, expr |-> <<"expr">>, callee |-> <<"callee">>,
     calls |-> <<"arglists">>, arglist |-> <<"(", "args", ")">>,
     args |-> <<"args", ")">>, args2 |-> <<"args2", ")">>]

Step == {Match(t) : t \in Matched} \cup {Call(f) : f \in DOMAIN Meaning}
Sym(x) == IF x \in {Match(t) : t \in Matched} THEN <<x[2]>> ELSE Meaning[x[2]]

\* Texts end, and what may be left out comes before something that may not.
Proper(S) == S \in Seq(Symbol) /\ S # << >> /\ S[Len(S)] = End
Guarded(S) == \E k \in DOMAIN S : S[k] \notin MayBeEmpty /\ \A i \in 1..k : S[i] # End

Unguarded == {Call("defs"), Call("block"), Call("stmts"), Match("}")}
Fits(x, S) == (x = Call("defs") => S = <<End>>) /\ (x \notin Unguarded => Guarded(S))

ReadsBy(st, f) ==
    /\ f \in [1..(Len(st) + 1) -> Seq(Symbol)]
    /\ f[Len(st) + 1] = <<End>>
    /\ \A k \in 1..Len(st) : f[k] = Sym(st[k]) \o f[k + 1] /\ Fits(st[k], f[k + 1])
    /\ \A k \in 1..(Len(st) + 1) : Proper(f[k])
Reads(st, S) == st \in Seq(Step) /\ \E f : ReadsBy(st, f) /\ f[1] = S

LEMMA MatchSym == \A t \in Matched : Match(t) \in Step /\ Sym(Match(t)) = <<t>>
BY DEF Step, Sym, Match

LEMMA CallSym == \A f \in DOMAIN Meaning : Call(f) \in Step /\ Sym(Call(f)) = Meaning[f]
<1>1. ASSUME NEW f \in DOMAIN Meaning PROVE Call(f) \notin {Match(t) : t \in Matched}
    BY DEF Call, Match
<1>2. ASSUME NEW f \in DOMAIN Meaning PROVE Call(f)[2] = f
    BY DEF Call
<1> QED
    BY <1>1, <1>2 DEF Step, Sym

LEMMA Meanings ==
    /\ DOMAIN Meaning = {"defs", "id", "type", "params", "params2", "pat", "anns", "block",
            "stmts", "expr", "callee", "calls", "arglist", "args", "args2"}
    /\ Meaning["defs"] = <<"program">> /\ Meaning["id"] = <<"id">>
    /\ Meaning["type"] = <<"type">>
    /\ Meaning["params"] = <<"params", ")">> /\ Meaning["params2"] = <<"params2", ")">>
    /\ Meaning["pat"] = <<"pat">> /\ Meaning["anns"] = <<"anns">>
    /\ Meaning["block"] = <<"block">> /\ Meaning["stmts"] = <<"stmts", "expr", "}">>
    /\ Meaning["expr"] = <<"expr">> /\ Meaning["callee"] = <<"callee">>
    /\ Meaning["calls"] = <<"arglists">> /\ Meaning["arglist"] = <<"(", "args", ")">>
    /\ Meaning["args"] = <<"args", ")">> /\ Meaning["args2"] = <<"args2", ")">>
BY DEF Meaning

LEMMA SymInSymbols == \A x \in Step : Sym(x) \in Seq(Symbol) /\ Sym(x) # << >>
<1>1. \A t \in Matched : <<t>> \in Seq(Symbol) /\ <<t>> # << >>
    BY Symbols DEF Symbol
<1>2. {"program", "id", "type", "params", "params2", "pat", "anns", "block", "stmts", "expr",
       "}", "callee", "arglists", "(", ")", "args", "args2"} \subseteq Symbol
    BY Symbols DEF Symbol, Token
<1>3. /\ \A a \in Symbol : <<a>> \in Seq(Symbol) /\ <<a>> # << >>
      /\ \A a, b \in Symbol : <<a, b>> \in Seq(Symbol) /\ <<a, b>> # << >>
      /\ \A a, b, c \in Symbol : <<a, b, c>> \in Seq(Symbol) /\ <<a, b, c>> # << >>
    OBVIOUS
<1>4. /\ <<"program">> \in Seq(Symbol) /\ <<"program">> # << >>
      /\ <<"id">> \in Seq(Symbol) /\ <<"id">> # << >>
      /\ <<"type">> \in Seq(Symbol) /\ <<"type">> # << >>
      /\ <<"pat">> \in Seq(Symbol) /\ <<"pat">> # << >>
      /\ <<"anns">> \in Seq(Symbol) /\ <<"anns">> # << >>
      /\ <<"block">> \in Seq(Symbol) /\ <<"block">> # << >>
      /\ <<"expr">> \in Seq(Symbol) /\ <<"expr">> # << >>
      /\ <<"callee">> \in Seq(Symbol) /\ <<"callee">> # << >>
      /\ <<"arglists">> \in Seq(Symbol) /\ <<"arglists">> # << >>
    BY <1>2, <1>3, Zenon
<1>5. /\ <<"params", ")">> \in Seq(Symbol) /\ <<"params", ")">> # << >>
      /\ <<"params2", ")">> \in Seq(Symbol) /\ <<"params2", ")">> # << >>
      /\ <<"args", ")">> \in Seq(Symbol) /\ <<"args", ")">> # << >>
      /\ <<"args2", ")">> \in Seq(Symbol) /\ <<"args2", ")">> # << >>
      /\ <<"(", "args", ")">> \in Seq(Symbol) /\ <<"(", "args", ")">> # << >>
      /\ <<"stmts", "expr", "}">> \in Seq(Symbol) /\ <<"stmts", "expr", "}">> # << >>
    BY <1>2, <1>3, Zenon
<1>6. \A f \in DOMAIN Meaning : Meaning[f] \in Seq(Symbol) /\ Meaning[f] # << >>
    BY <1>4, <1>5, Meanings
<1> QED
    BY <1>1, <1>6, MatchSym, CallSym DEF Step

LEMMA ProperConcat ==
    ASSUME NEW m \in Seq(Symbol), NEW S, Proper(S)
    PROVE  Proper(m \o S)
<1>1. S \in Seq(Symbol) /\ Len(S) \in Nat /\ S # << >> /\ S[Len(S)] = End /\ Len(m) \in Nat
    BY LenProperties DEF Proper
<1>2. Len(S) # 0
    BY <1>1, EmptySeq
<1>3. /\ m \o S \in Seq(Symbol) /\ Len(m \o S) = Len(m) + Len(S)
      /\ \A i \in 1..(Len(m) + Len(S)) : (m \o S)[i] = IF i <= Len(m) THEN m[i] ELSE S[i - Len(m)]
    BY <1>1, ConcatProperties
<1> DEFINE T == m \o S
<1> HIDE DEF T
<1>4. T[Len(m) + Len(S)] = S[Len(S)]
    <2>1. Len(m) + Len(S) \in 1..(Len(m) + Len(S)) /\ ~(Len(m) + Len(S) <= Len(m))
          /\ (Len(m) + Len(S)) - Len(m) = Len(S)
        BY <1>1, <1>2
    <2> QED
        BY <1>3, <2>1 DEF T
<1>5. T # << >>
    BY <1>1, <1>2, <1>3, EmptySeq DEF T
<1> QED
    BY <1>1, <1>3, <1>4, <1>5 DEF Proper, T

\* No text that ends reads nothing.
LEMMA ProperIsSomething == ASSUME NEW S, Proper(S) PROVE S # <<Nothing>>
BY Symbols DEF Proper

LEMMA ReadsEmpty == Reads(<< >>, <<End>>)
<1> DEFINE f == [k \in 1..1 |-> <<End>>]
           e == << >>
<1>1. e \in Seq(Step) /\ Len(e) = 0
    OBVIOUS
<1>2. <<End>> \in Seq(Symbol) /\ Proper(<<End>>)
    BY Symbols DEF Proper
<1> HIDE DEF e
<1>3. f \in [1..(Len(e) + 1) -> Seq(Symbol)] /\ f[1] = <<End>> /\ f[Len(e) + 1] = <<End>>
    BY <1>1, <1>2
<1>4. \A k \in 1..(Len(e) + 1) : Proper(f[k])
    BY <1>1, <1>2
<1>5. ReadsBy(e, f)
    BY <1>1, <1>3, <1>4 DEF ReadsBy
<1> QED
    BY <1>1, <1>3, <1>5 DEF Reads, e

LEMMA ReadsProper ==
    ASSUME NEW st, NEW S, Reads(st, S)
    PROVE  st \in Seq(Step) /\ Proper(S) /\ S \in Seq(Symbol)
<1>1. PICK f : ReadsBy(st, f) /\ f[1] = S
    BY DEF Reads
<1>2. 1 \in 1..(Len(st) + 1) /\ st \in Seq(Step)
    BY LenProperties DEF Reads
<1> QED
    BY <1>1, <1>2 DEF ReadsBy, Proper

LEMMA ReadsPush ==
    ASSUME NEW st, NEW S, Reads(st, S), NEW x \in Step, Fits(x, S)
    PROVE  Reads(<<x>> \o st, Sym(x) \o S)
<1> DEFINE T == Sym(x) \o S
           u == <<x>> \o st
<1>1. PICK f : ReadsBy(st, f) /\ f[1] = S
    BY DEF Reads
<1>2. st \in Seq(Step) /\ Proper(S) /\ Len(st) \in Nat
    BY ReadsProper, LenProperties
<1>3. Proper(T) /\ T \in Seq(Symbol)
    BY <1>2, SymInSymbols, ProperConcat DEF Proper
<1>4. /\ u \in Seq(Step) /\ Len(u) = Len(st) + 1 /\ u[1] = x
      /\ \A i \in 1..Len(st) : u[i + 1] = st[i]
    BY <1>2, Front
<1> DEFINE g == [k \in 1..(Len(st) + 2) |-> IF k = 1 THEN T ELSE f[k - 1]]
<1> HIDE DEF T, u
<1>5. ASSUME NEW k \in 1..(Len(st) + 2)
      PROVE  g[k] \in Seq(Symbol) /\ Proper(g[k]) /\ (k # 1 => k - 1 \in 1..(Len(st) + 1))
    <2>1. CASE k = 1
        BY <1>3, <2>1
    <2>2. CASE k # 1
        <3>1. k - 1 \in 1..(Len(st) + 1)
            BY <1>2, <2>2
        <3> QED
            BY <1>1, <2>2, <3>1 DEF ReadsBy
    <2> QED
        BY <2>1, <2>2
<1>6. g \in [1..(Len(u) + 1) -> Seq(Symbol)]
    <2>1. Len(u) + 1 = Len(st) + 2
        BY <1>2, <1>4
    <2>2. g \in [1..(Len(st) + 2) -> Seq(Symbol)]
        BY <1>5
    <2> QED
        BY <2>1, <2>2
<1>7. g[Len(u) + 1] = <<End>> /\ g[1] = T
    <2>1. Len(u) + 1 \in 1..(Len(st) + 2) /\ Len(u) + 1 # 1 /\ (Len(u) + 1) - 1 = Len(st) + 1
          /\ 1 \in 1..(Len(st) + 2)
        BY <1>2, <1>4
    <2> QED
        BY <1>1, <2>1 DEF ReadsBy
<1>8. ASSUME NEW k \in 1..Len(u)
      PROVE  g[k] = Sym(u[k]) \o g[k + 1] /\ Fits(u[k], g[k + 1])
    <2>0. k + 1 \in 1..(Len(st) + 2) /\ k + 1 # 1 /\ (k + 1) - 1 = k /\ k \in 1..(Len(st) + 2)
        BY <1>2, <1>4
    <2>1. g[k + 1] = f[k]
        BY <2>0
    <2> HIDE DEF g
    <2>2. CASE k = 1
        BY <1>1, <1>4, <1>7, <2>1, <2>2 DEF T
    <2>3. CASE k # 1
        <3>1. k - 1 \in 1..Len(st) /\ (k - 1) + 1 = k
            BY <1>2, <1>4, <2>3
        <3>2. g[k] = f[k - 1]
            BY <2>0, <2>3 DEF g
        <3>3. u[k] = st[k - 1]
            BY <1>4, <3>1
        <3> QED
            BY <1>1, <2>1, <3>1, <3>2, <3>3 DEF ReadsBy
    <2> QED
        BY <2>2, <2>3
<1>9. \A k \in 1..(Len(u) + 1) : Proper(g[k])
    BY <1>2, <1>4, <1>5
<1> HIDE DEF g
<1>10. ReadsBy(u, g)
    BY <1>6, <1>7, <1>8, <1>9 DEF ReadsBy
<1> QED
    BY <1>4, <1>7, <1>10 DEF Reads, T, u

LEMMA ReadsPop ==
    ASSUME NEW st, NEW S, Reads(st, S), st # << >>
    PROVE  /\ Head(st) \in Step
           /\ \E S1 : Reads(Tail(st), S1) /\ S = Sym(Head(st)) \o S1 /\ Fits(Head(st), S1)
<1>1. PICK f : ReadsBy(st, f) /\ f[1] = S
    BY DEF Reads
<1>2. st \in Seq(Step) /\ Len(st) \in Nat /\ Len(st) # 0
    BY ReadsProper, LenProperties, EmptySeq
<1> DEFINE tl == Tail(st)
           g == [k \in 1..Len(st) |-> f[k + 1]]
<1>3. /\ tl \in Seq(Step) /\ Len(tl) = Len(st) - 1 /\ Head(st) \in Step
      /\ \A i \in 1..Len(tl) : tl[i] = st[i + 1]
    BY <1>2, HeadTailProperties
<1>4. Head(st) = st[1]
    OBVIOUS
<1> HIDE DEF tl
<1>5. \A k \in 1..Len(st) : k + 1 \in 1..(Len(st) + 1)
    BY <1>2
<1>6. g \in [1..(Len(tl) + 1) -> Seq(Symbol)]
    <2>1. Len(tl) + 1 = Len(st)
        BY <1>2, <1>3
    <2>2. g \in [1..Len(st) -> Seq(Symbol)]
        BY <1>1, <1>5 DEF ReadsBy
    <2> QED
        BY <2>1, <2>2
<1>7. g[Len(tl) + 1] = <<End>> /\ \A k \in 1..(Len(tl) + 1) : Proper(g[k])
    <2>1. Len(tl) + 1 = Len(st) /\ Len(st) \in 1..Len(st)
        BY <1>2, <1>3
    <2> QED
        BY <1>1, <1>5, <2>1 DEF ReadsBy
<1>8. ASSUME NEW k \in 1..Len(tl)
      PROVE  g[k] = Sym(tl[k]) \o g[k + 1] /\ Fits(tl[k], g[k + 1])
    <2>1. k \in 1..Len(st) /\ k + 1 \in 1..Len(st)
        BY <1>2, <1>3
    <2>2. g[k] = f[k + 1] /\ g[k + 1] = f[(k + 1) + 1] /\ tl[k] = st[k + 1]
        BY <1>3, <2>1
    <2> QED
        BY <1>1, <2>1, <2>2 DEF ReadsBy
<1>9. 1 \in 1..Len(st) /\ g[1] = f[2]
    <2>1. 1 \in 1..Len(st) /\ 1 + 1 = 2
        BY <1>2
    <2> QED
        BY <2>1
<1> HIDE DEF g
<1>10. Reads(tl, g[1])
    BY <1>3, <1>6, <1>7, <1>8 DEF Reads, ReadsBy
<1>11. S = Sym(Head(st)) \o g[1] /\ Fits(Head(st), g[1])
    <2>1. f[1] = Sym(st[1]) \o f[1 + 1] /\ Fits(st[1], f[1 + 1])
        BY <1>1, <1>9 DEF ReadsBy
    <2>2. f[1 + 1] = g[1]
        BY <1>9
    <2> HIDE DEF Sym, Fits
    <2> QED
        BY <1>1, <1>4, <2>1, <2>2
<1> QED
    BY <1>3, <1>10, <1>11 DEF tl

\* Guarded, from the front.
LEMMA GuardedPush ==
    ASSUME NEW x \in Symbol, x # End, NEW S \in Seq(Symbol),
           x \notin MayBeEmpty \/ Guarded(S)
    PROVE  Guarded(<<x>> \o S)
<1> DEFINE u == <<x>> \o S
<1>1. /\ DOMAIN u = 1..(Len(S) + 1) /\ DOMAIN S = 1..Len(S) /\ Len(S) \in Nat
      /\ u[1] = x /\ \A i \in 1..Len(S) : u[i + 1] = S[i]
    BY Front
<1> HIDE DEF u
<1>2. CASE x \notin MayBeEmpty
    <2>1. 1 \in DOMAIN u /\ u[1] \notin MayBeEmpty /\ \A i \in 1..1 : u[i] # End
        BY <1>1, <1>2
    <2> QED
        BY <2>1 DEF Guarded, u
<1>3. CASE Guarded(S)
    <2>1. PICK k \in 1..Len(S) : S[k] \notin MayBeEmpty /\ \A i \in 1..k : S[i] # End
        BY <1>1, <1>3 DEF Guarded
    <2>2. ASSUME NEW i \in 1..(k + 1) PROVE u[i] # End
        <3>1. CASE i = 1
            BY <1>1, <3>1
        <3>2. CASE i # 1
            <4>1. i - 1 \in 1..k /\ i - 1 \in 1..Len(S) /\ (i - 1) + 1 = i
                BY <1>1, <2>1, <3>2
            <4> QED
                BY <1>1, <2>1, <4>1
        <3> QED
            BY <3>1, <3>2
    <2>3. k + 1 \in DOMAIN u /\ u[k + 1] \notin MayBeEmpty
        BY <1>1, <2>1
    <2> QED
        BY <2>2, <2>3 DEF Guarded, u
<1> QED
    BY <1>2, <1>3

\* Where a text ends early, either a token is missing or it cannot end.
LEMMA AfterEnd ==
    ASSUME NEW S \in Seq(Symbol), Guarded(S)
    PROVE  After(S, End).missing # {} \/ After(S, End).rest = <<Nothing>>
<1>1. SUFFICES ASSUME After(S, End).missing = {} PROVE After(S, End).rest = <<Nothing>>
    OBVIOUS
<1>2. DOMAIN S = 1..Len(S) /\ Len(S) \in Nat
    BY LenProperties
<1>3. PICK g \in DOMAIN S : S[g] \notin MayBeEmpty /\ \A i \in 1..g : S[i] # End
    BY DEF Guarded
<1>4. CASE \E k \in DOMAIN S : Stops(S, End, k)
    <2>1. PICK k \in DOMAIN S : Stops(S, End, k)
        BY <1>4
    <2>2. k <= g
        <3>1. SUFFICES ASSUME g < k PROVE FALSE
            BY <1>2
        <3>2. g \in 1..(k - 1) /\ \A j \in 1..g : j \in 1..(k - 1)
            BY <1>2, <3>1
        <3>3. \A j \in 1..g : Skipped(S[j], End)
            BY <2>1, <3>2 DEF Stops
        <3>4. S[g] \in Matched
            BY <1>3, <2>1, <3>2 DEF Stops, Skipped
        <3> QED
            BY <1>1, <1>3, <3>3, <3>4, AfterLacks
    <2>3. k \in 1..g /\ S[k] # End /\ S[k] \in Symbol
        BY <1>2, <1>3, <2>1, <2>2, ElementOfSeq
    <2>4. End \notin Begins(S[k])
        BY <2>3, EndBeginsNothing
    <2> QED
        BY <2>1, <2>4, AfterStops
<1>5. CASE \A k \in DOMAIN S : ~Stops(S, End, k)
    BY <1>5, AfterNone
<1> QED
    BY <1>4, <1>5

-----------------------------------------------------------------------------
(* Steps and symbols that are put before others, one by one.               *)

LEMMA Unfold2 ==
    ASSUME NEW X, NEW s \in Seq(X), NEW a \in X, NEW b \in X
    PROVE  <<a, b>> \o s = <<a>> \o (<<b>> \o s)
<1> DEFINE u == <<a, b>>
<1>1. u \in Seq(X) /\ u # << >> /\ Head(u) = a
    OBVIOUS
<1>2. Tail(u) = <<b>>
    OBVIOUS
<1> HIDE DEF u
<1>3. u \o s = <<a>> \o (<<b>> \o s)
    BY <1>1, <1>2, FrontOfConcat, ZenonT(60)
<1> QED
    BY <1>3 DEF u

LEMMA Unfold3 ==
    ASSUME NEW X, NEW s \in Seq(X), NEW a \in X, NEW b \in X, NEW c \in X
    PROVE  <<a, b, c>> \o s = <<a>> \o (<<b, c>> \o s)
<1> DEFINE u == <<a, b, c>>
<1>1. u \in Seq(X) /\ u # << >> /\ Head(u) = a
    OBVIOUS
<1>2. Tail(u) = <<b, c>>
    OBVIOUS
<1> HIDE DEF u
<1>3. u \o s = <<a>> \o (<<b, c>> \o s)
    BY <1>1, <1>2, FrontOfConcat, ZenonT(60)
<1> QED
    BY <1>3 DEF u

LEMMA Apart3 ==
    ASSUME NEW X, NEW s \in Seq(X), NEW a \in X, NEW b \in X, NEW c \in X
    PROVE  <<a, b, c>> \o s = <<a>> \o (<<b>> \o (<<c>> \o s))
<1>1. <<a, b, c>> \o s = <<a>> \o (<<b, c>> \o s)
    BY Unfold3, SMTT(30)
<1>2. <<b, c>> \o s = <<b>> \o (<<c>> \o s)
    BY Unfold2
<1> QED
    BY <1>1, <1>2

LEMMA Peel ==
    ASSUME NEW X, NEW s \in Seq(X), s # << >>, NEW t \in Seq(X), NEW h, NEW r,
           Head(s) = h, Tail(s) = r
    PROVE  s \o t = <<h>> \o (r \o t)
BY FrontOfConcat

LEMMA FunDefApart ==
    ASSUME NEW S \in Seq(Symbol)
    PROVE  <<"id", "(", "params", ")", ":", "type", "block">> \o S
            = <<"id">> \o (<<"(">> \o (<<"params">> \o (<<")">> \o (<<":">> \o
              (<<"type">> \o (<<"block">> \o S))))))
<1> DEFINE id_ == "id"
           left_ == "("
           params_ == "params"
           right_ == ")"
           of_ == ":"
           type_ == "type"
           block_ == "block"
           u1 == <<id_, left_, params_, right_, of_, type_, block_>>
           u2 == <<left_, params_, right_, of_, type_, block_>>
           u3 == <<params_, right_, of_, type_, block_>>
           u4 == <<right_, of_, type_, block_>>
           u5 == <<of_, type_, block_>>
           u6 == <<type_, block_>>
           u7 == <<block_>>
<1>1. S \in Seq(Symbol)
    OBVIOUS
<1>2. {id_, left_, params_, right_, of_, type_, block_} \subseteq Symbol
    BY Symbols DEF Symbol, Token
<1> HIDE DEF id_, left_, params_, right_, of_, type_, block_
<1>3. u1 \in Seq(Symbol) /\ u1 # << >> /\ Head(u1) = id_
    BY <1>2
<1>4. u2 \in Seq(Symbol) /\ u2 # << >> /\ Head(u2) = left_
    BY <1>2
<1>5. u3 \in Seq(Symbol) /\ u3 # << >> /\ Head(u3) = params_
    BY <1>2
<1>6. u4 \in Seq(Symbol) /\ u4 # << >> /\ Head(u4) = right_
    BY <1>2
<1>7. u5 \in Seq(Symbol) /\ u5 # << >> /\ Head(u5) = of_
    BY <1>2
<1>8. u6 \in Seq(Symbol) /\ u6 # << >> /\ Head(u6) = type_
    BY <1>2
<1>9. Tail(u1) = u2
    OBVIOUS
<1>10. Tail(u2) = u3
    OBVIOUS
<1>11. Tail(u3) = u4
    OBVIOUS
<1>12. Tail(u4) = u5
    OBVIOUS
<1>13. Tail(u5) = u6
    OBVIOUS
<1>14. Tail(u6) = u7
    OBVIOUS
<1> HIDE DEF u1, u2, u3, u4, u5, u6, u7
<1>15. u1 \o S = <<id_>> \o (u2 \o S)
    BY <1>1, <1>3, <1>9, Peel
<1>16. u2 \o S = <<left_>> \o (u3 \o S)
    BY <1>1, <1>4, <1>10, Peel
<1>17. u3 \o S = <<params_>> \o (u4 \o S)
    BY <1>1, <1>5, <1>11, Peel
<1>18. u4 \o S = <<right_>> \o (u5 \o S)
    BY <1>1, <1>6, <1>12, Peel
<1>19. u5 \o S = <<of_>> \o (u6 \o S)
    BY <1>1, <1>7, <1>13, Peel
<1>20. u6 \o S = <<type_>> \o (u7 \o S)
    BY <1>1, <1>8, <1>14, Peel
<1>21. u1 \o S
        = <<id_>> \o (<<left_>> \o (<<params_>> \o (<<right_>> \o (<<of_>> \o
          (<<type_>> \o (u7 \o S))))))
    BY <1>15, <1>16, <1>17, <1>18, <1>19, <1>20
<1> QED
    BY <1>21 DEF u1, u7, id_, left_, params_, right_, of_, type_, block_

LEMMA ProgramApart ==
    ASSUME NEW S \in Seq(Symbol)
    PROVE  <<"id", "(", "params", ")", ":", "type", "block", "program">> \o S
            = <<"id">> \o (<<"(">> \o (<<"params">> \o (<<")">> \o (<<":">> \o
              (<<"type">> \o (<<"block">> \o (<<"program">> \o S)))))))
<1> DEFINE id_ == "id"
           left_ == "("
           params_ == "params"
           right_ == ")"
           of_ == ":"
           type_ == "type"
           block_ == "block"
           program_ == "program"
           u1 == <<id_, left_, params_, right_, of_, type_, block_, program_>>
           u2 == <<left_, params_, right_, of_, type_, block_, program_>>
           u3 == <<params_, right_, of_, type_, block_, program_>>
           u4 == <<right_, of_, type_, block_, program_>>
           u5 == <<of_, type_, block_, program_>>
           u6 == <<type_, block_, program_>>
           u7 == <<block_, program_>>
           u8 == <<program_>>
<1>1. S \in Seq(Symbol)
    OBVIOUS
<1>2. {id_, left_, params_, right_, of_, type_, block_, program_} \subseteq Symbol
    BY Symbols DEF Symbol, Token
<1> HIDE DEF id_, left_, params_, right_, of_, type_, block_, program_
<1>3. u1 \in Seq(Symbol) /\ u1 # << >> /\ Head(u1) = id_
    BY <1>2
<1>4. u2 \in Seq(Symbol) /\ u2 # << >> /\ Head(u2) = left_
    BY <1>2
<1>5. u3 \in Seq(Symbol) /\ u3 # << >> /\ Head(u3) = params_
    BY <1>2
<1>6. u4 \in Seq(Symbol) /\ u4 # << >> /\ Head(u4) = right_
    BY <1>2
<1>7. u5 \in Seq(Symbol) /\ u5 # << >> /\ Head(u5) = of_
    BY <1>2
<1>8. u6 \in Seq(Symbol) /\ u6 # << >> /\ Head(u6) = type_
    BY <1>2
<1>9. u7 \in Seq(Symbol) /\ u7 # << >> /\ Head(u7) = block_
    BY <1>2
<1>10. Tail(u1) = u2
    OBVIOUS
<1>11. Tail(u2) = u3
    OBVIOUS
<1>12. Tail(u3) = u4
    OBVIOUS
<1>13. Tail(u4) = u5
    OBVIOUS
<1>14. Tail(u5) = u6
    OBVIOUS
<1>15. Tail(u6) = u7
    OBVIOUS
<1>16. Tail(u7) = u8
    OBVIOUS
<1> HIDE DEF u1, u2, u3, u4, u5, u6, u7, u8
<1>17. u1 \o S = <<id_>> \o (u2 \o S)
    BY <1>1, <1>3, <1>10, Peel
<1>18. u2 \o S = <<left_>> \o (u3 \o S)
    BY <1>1, <1>4, <1>11, Peel
<1>19. u3 \o S = <<params_>> \o (u4 \o S)
    BY <1>1, <1>5, <1>12, Peel
<1>20. u4 \o S = <<right_>> \o (u5 \o S)
    BY <1>1, <1>6, <1>13, Peel
<1>21. u5 \o S = <<of_>> \o (u6 \o S)
    BY <1>1, <1>7, <1>14, Peel
<1>22. u6 \o S = <<type_>> \o (u7 \o S)
    BY <1>1, <1>8, <1>15, Peel
<1>23. u7 \o S = <<block_>> \o (u8 \o S)
    BY <1>1, <1>9, <1>16, Peel, SMTT(30)
<1>24. u1 \o S
        = <<id_>> \o (<<left_>> \o (<<params_>> \o (<<right_>> \o (<<of_>> \o
          (<<type_>> \o (<<block_>> \o (u8 \o S)))))))
    BY <1>17, <1>18, <1>19, <1>20, <1>21, <1>22, <1>23
<1> QED
    BY <1>24 DEF u1, u8, id_, left_, params_, right_, of_, type_, block_, program_

LEMMA IfApart ==
    ASSUME NEW S \in Seq(Symbol)
    PROVE  <<"expr", "block", "else", "block">> \o S
            = <<"expr">> \o (<<"block">> \o (<<"else">> \o (<<"block">> \o S)))
<1> DEFINE expr_ == "expr"
           block_ == "block"
           else_ == "else"
           u1 == <<expr_, block_, else_, block_>>
           u2 == <<block_, else_, block_>>
           u3 == <<else_, block_>>
           u4 == <<block_>>
<1>1. S \in Seq(Symbol)
    OBVIOUS
<1>2. {expr_, block_, else_} \subseteq Symbol
    BY Symbols DEF Symbol, Token
<1> HIDE DEF expr_, block_, else_
<1>3. u1 \in Seq(Symbol) /\ u1 # << >> /\ Head(u1) = expr_
    BY <1>2
<1>4. u2 \in Seq(Symbol) /\ u2 # << >> /\ Head(u2) = block_
    BY <1>2
<1>5. u3 \in Seq(Symbol) /\ u3 # << >> /\ Head(u3) = else_
    BY <1>2
<1>6. Tail(u1) = u2
    OBVIOUS
<1>7. Tail(u2) = u3
    OBVIOUS
<1>8. Tail(u3) = u4
    OBVIOUS
<1> HIDE DEF u1, u2, u3, u4
<1>9. u1 \o S = <<expr_>> \o (u2 \o S)
    BY <1>1, <1>3, <1>6, Peel
<1>10. u2 \o S = <<block_>> \o (u3 \o S)
    BY <1>1, <1>4, <1>7, Peel
<1>11. u3 \o S = <<else_>> \o (u4 \o S)
    BY <1>1, <1>5, <1>8, Peel
<1>12. u1 \o S
        = <<expr_>> \o (<<block_>> \o (<<else_>> \o (u4 \o S)))
    BY <1>9, <1>10, <1>11
<1> QED
    BY <1>12 DEF u1, u4, expr_, block_, else_

LEMMA StmtsApart ==
    ASSUME NEW S \in Seq(Symbol)
    PROVE  <<"pat", "=", "expr", ";", "stmts">> \o S
            = <<"pat">> \o (<<"=">> \o (<<"expr">> \o (<<";">> \o (<<"stmts">> \o S))))
<1> DEFINE pat_ == "pat"
           is_ == "="
           expr_ == "expr"
           semi_ == ";"
           stmts_ == "stmts"
           u1 == <<pat_, is_, expr_, semi_, stmts_>>
           u2 == <<is_, expr_, semi_, stmts_>>
           u3 == <<expr_, semi_, stmts_>>
           u4 == <<semi_, stmts_>>
           u5 == <<stmts_>>
<1>1. S \in Seq(Symbol)
    OBVIOUS
<1>2. {pat_, is_, expr_, semi_, stmts_} \subseteq Symbol
    BY Symbols DEF Symbol, Token
<1> HIDE DEF pat_, is_, expr_, semi_, stmts_
<1>3. u1 \in Seq(Symbol) /\ u1 # << >> /\ Head(u1) = pat_
    BY <1>2
<1>4. u2 \in Seq(Symbol) /\ u2 # << >> /\ Head(u2) = is_
    BY <1>2
<1>5. u3 \in Seq(Symbol) /\ u3 # << >> /\ Head(u3) = expr_
    BY <1>2
<1>6. u4 \in Seq(Symbol) /\ u4 # << >> /\ Head(u4) = semi_
    BY <1>2
<1>7. Tail(u1) = u2
    OBVIOUS
<1>8. Tail(u2) = u3
    OBVIOUS
<1>9. Tail(u3) = u4
    OBVIOUS
<1>10. Tail(u4) = u5
    OBVIOUS
<1> HIDE DEF u1, u2, u3, u4, u5
<1>11. u1 \o S = <<pat_>> \o (u2 \o S)
    BY <1>1, <1>3, <1>7, Peel
<1>12. u2 \o S = <<is_>> \o (u3 \o S)
    BY <1>1, <1>4, <1>8, Peel
<1>13. u3 \o S = <<expr_>> \o (u4 \o S)
    BY <1>1, <1>5, <1>9, Peel
<1>14. u4 \o S = <<semi_>> \o (u5 \o S)
    BY <1>1, <1>6, <1>10, Peel
<1>15. u1 \o S
        = <<pat_>> \o (<<is_>> \o (<<expr_>> \o (<<semi_>> \o (u5 \o S))))
    BY <1>11, <1>12, <1>13, <1>14
<1> QED
    BY <1>15 DEF u1, u5, pat_, is_, expr_, semi_, stmts_

LEMMA StmtApart ==
    ASSUME NEW S \in Seq(Symbol)
    PROVE  <<"pat", "=", "expr">> \o S
            = <<"pat">> \o (<<"=">> \o (<<"expr">> \o S))
<1> DEFINE pat_ == "pat"
           is_ == "="
           expr_ == "expr"
           u1 == <<pat_, is_, expr_>>
           u2 == <<is_, expr_>>
           u3 == <<expr_>>
<1>1. S \in Seq(Symbol)
    OBVIOUS
<1>2. {pat_, is_, expr_} \subseteq Symbol
    BY Symbols DEF Symbol, Token
<1> HIDE DEF pat_, is_, expr_
<1>3. u1 \in Seq(Symbol) /\ u1 # << >> /\ Head(u1) = pat_
    BY <1>2
<1>4. u2 \in Seq(Symbol) /\ u2 # << >> /\ Head(u2) = is_
    BY <1>2
<1>5. Tail(u1) = u2
    OBVIOUS
<1>6. Tail(u2) = u3
    OBVIOUS
<1> HIDE DEF u1, u2, u3
<1>7. u1 \o S = <<pat_>> \o (u2 \o S)
    BY <1>1, <1>3, <1>5, Peel
<1>8. u2 \o S = <<is_>> \o (u3 \o S)
    BY <1>1, <1>4, <1>6, Peel
<1>9. u1 \o S
        = <<pat_>> \o (<<is_>> \o (u3 \o S))
    BY <1>7, <1>8
<1> QED
    BY <1>9 DEF u1, u3, pat_, is_, expr_

LEMMA BodyApart ==
    ASSUME NEW S \in Seq(Symbol)
    PROVE  <<"stmts", "expr", "}">> \o S
            = <<"stmts">> \o (<<"expr">> \o (<<"}">> \o S))
<1> DEFINE stmts_ == "stmts"
           expr_ == "expr"
           close_ == "}"
           u1 == <<stmts_, expr_, close_>>
           u2 == <<expr_, close_>>
           u3 == <<close_>>
<1>1. S \in Seq(Symbol)
    OBVIOUS
<1>2. {stmts_, expr_, close_} \subseteq Symbol
    BY Symbols DEF Symbol, Token
<1> HIDE DEF stmts_, expr_, close_
<1>3. u1 \in Seq(Symbol) /\ u1 # << >> /\ Head(u1) = stmts_
    BY <1>2
<1>4. u2 \in Seq(Symbol) /\ u2 # << >> /\ Head(u2) = expr_
    BY <1>2
<1>5. Tail(u1) = u2
    OBVIOUS
<1>6. Tail(u2) = u3
    OBVIOUS
<1> HIDE DEF u1, u2, u3
<1>7. u1 \o S = <<stmts_>> \o (u2 \o S)
    BY <1>1, <1>3, <1>5, Peel
<1>8. u2 \o S = <<expr_>> \o (u3 \o S)
    BY <1>1, <1>4, <1>6, Peel
<1>9. u1 \o S
        = <<stmts_>> \o (<<expr_>> \o (u3 \o S))
    BY <1>7, <1>8
<1> QED
    BY <1>9 DEF u1, u3, stmts_, expr_, close_

LEMMA ArgsApart ==
    ASSUME NEW S \in Seq(Symbol)
    PROVE  <<"args", ")", "arglists">> \o S
            = <<"args">> \o (<<")">> \o (<<"arglists">> \o S))
<1> DEFINE args_ == "args"
           right_ == ")"
           arglists_ == "arglists"
           u1 == <<args_, right_, arglists_>>
           u2 == <<right_, arglists_>>
           u3 == <<arglists_>>
<1>1. S \in Seq(Symbol)
    OBVIOUS
<1>2. {args_, right_, arglists_} \subseteq Symbol
    BY Symbols DEF Symbol, Token
<1> HIDE DEF args_, right_, arglists_
<1>3. u1 \in Seq(Symbol) /\ u1 # << >> /\ Head(u1) = args_
    BY <1>2
<1>4. u2 \in Seq(Symbol) /\ u2 # << >> /\ Head(u2) = right_
    BY <1>2
<1>5. Tail(u1) = u2
    OBVIOUS
<1>6. Tail(u2) = u3
    OBVIOUS
<1> HIDE DEF u1, u2, u3
<1>7. u1 \o S = <<args_>> \o (u2 \o S)
    BY <1>1, <1>3, <1>5, Peel
<1>8. u2 \o S = <<right_>> \o (u3 \o S)
    BY <1>1, <1>4, <1>6, Peel
<1>9. u1 \o S
        = <<args_>> \o (<<right_>> \o (u3 \o S))
    BY <1>7, <1>8
<1> QED
    BY <1>9 DEF u1, u3, args_, right_, arglists_

LEMMA FunDefSteps ==
    ASSUME NEW st \in Seq(Step)
    PROVE  <<Next1, Call("id"), Match("("), Call("params"), Match(":"), Call("type"),
             Call("block")>> \o st
            = <<Next1>> \o (<<Call("id")>> \o (<<Match("(")>> \o (<<Call("params")>> \o
              (<<Match(":")>> \o (<<Call("type")>> \o (<<Call("block")>> \o st))))))
<1> DEFINE next_ == Next1
           id_ == Call("id")
           left_ == Match("(")
           params_ == Call("params")
           of_ == Match(":")
           type_ == Call("type")
           block_ == Call("block")
           X == Step \cup {Next1}
           u1 == <<next_, id_, left_, params_, of_, type_, block_>>
           u2 == <<id_, left_, params_, of_, type_, block_>>
           u3 == <<left_, params_, of_, type_, block_>>
           u4 == <<params_, of_, type_, block_>>
           u5 == <<of_, type_, block_>>
           u6 == <<type_, block_>>
           u7 == <<block_>>
<1>1. st \in Seq(X)
    BY SeqMonotonic
<1>2. {next_, id_, left_, params_, of_, type_, block_} \subseteq X
    BY SeqMonotonic, CallSym, MatchSym, Meanings DEF Matched
<1> HIDE DEF next_, id_, left_, params_, of_, type_, block_, X
<1>3. u1 \in Seq(X) /\ u1 # << >> /\ Head(u1) = next_
    BY <1>2
<1>4. u2 \in Seq(X) /\ u2 # << >> /\ Head(u2) = id_
    BY <1>2
<1>5. u3 \in Seq(X) /\ u3 # << >> /\ Head(u3) = left_
    BY <1>2
<1>6. u4 \in Seq(X) /\ u4 # << >> /\ Head(u4) = params_
    BY <1>2
<1>7. u5 \in Seq(X) /\ u5 # << >> /\ Head(u5) = of_
    BY <1>2
<1>8. u6 \in Seq(X) /\ u6 # << >> /\ Head(u6) = type_
    BY <1>2
<1>9. Tail(u1) = u2
    OBVIOUS
<1>10. Tail(u2) = u3
    OBVIOUS
<1>11. Tail(u3) = u4
    OBVIOUS
<1>12. Tail(u4) = u5
    OBVIOUS
<1>13. Tail(u5) = u6
    OBVIOUS
<1>14. Tail(u6) = u7
    OBVIOUS
<1> HIDE DEF u1, u2, u3, u4, u5, u6, u7
<1>15. u1 \o st = <<next_>> \o (u2 \o st)
    BY <1>1, <1>3, <1>9, Peel, SMTT(30)
<1>16. u2 \o st = <<id_>> \o (u3 \o st)
    BY <1>1, <1>4, <1>10, Peel
<1>17. u3 \o st = <<left_>> \o (u4 \o st)
    BY <1>1, <1>5, <1>11, Peel
<1>18. u4 \o st = <<params_>> \o (u5 \o st)
    BY <1>1, <1>6, <1>12, Peel
<1>19. u5 \o st = <<of_>> \o (u6 \o st)
    BY <1>1, <1>7, <1>13, Peel
<1>20. u6 \o st = <<type_>> \o (u7 \o st)
    BY <1>1, <1>8, <1>14, Peel
<1>21. u1 \o st
        = <<next_>> \o (<<id_>> \o (<<left_>> \o (<<params_>> \o (<<of_>> \o
          (<<type_>> \o (u7 \o st))))))
    BY <1>15, <1>16, <1>17, <1>18, <1>19, <1>20
<1> QED
    BY <1>21 DEF u1, u7, next_, id_, left_, params_, of_, type_, block_

LEMMA IfSteps ==
    ASSUME NEW st \in Seq(Step)
    PROVE  <<Next1, Call("expr"), Call("block"), Match("else"), Call("block")>> \o st
            = <<Next1>> \o (<<Call("expr")>> \o (<<Call("block")>> \o
              (<<Match("else")>> \o (<<Call("block")>> \o st))))
<1> DEFINE next_ == Next1
           expr_ == Call("expr")
           block_ == Call("block")
           else_ == Match("else")
           X == Step \cup {Next1}
           u1 == <<next_, expr_, block_, else_, block_>>
           u2 == <<expr_, block_, else_, block_>>
           u3 == <<block_, else_, block_>>
           u4 == <<else_, block_>>
           u5 == <<block_>>
<1>1. st \in Seq(X)
    BY SeqMonotonic
<1>2. {next_, expr_, block_, else_} \subseteq X
    BY SeqMonotonic, CallSym, MatchSym, Meanings DEF Matched
<1> HIDE DEF next_, expr_, block_, else_, X
<1>3. u1 \in Seq(X) /\ u1 # << >> /\ Head(u1) = next_
    BY <1>2
<1>4. u2 \in Seq(X) /\ u2 # << >> /\ Head(u2) = expr_
    BY <1>2
<1>5. u3 \in Seq(X) /\ u3 # << >> /\ Head(u3) = block_
    BY <1>2
<1>6. u4 \in Seq(X) /\ u4 # << >> /\ Head(u4) = else_
    BY <1>2
<1>7. Tail(u1) = u2
    OBVIOUS
<1>8. Tail(u2) = u3
    OBVIOUS
<1>9. Tail(u3) = u4
    OBVIOUS
<1>10. Tail(u4) = u5
    OBVIOUS
<1> HIDE DEF u1, u2, u3, u4, u5
<1>11. u1 \o st = <<next_>> \o (u2 \o st)
    BY <1>1, <1>3, <1>7, Peel, SMTT(30)
<1>12. u2 \o st = <<expr_>> \o (u3 \o st)
    BY <1>1, <1>4, <1>8, Peel
<1>13. u3 \o st = <<block_>> \o (u4 \o st)
    BY <1>1, <1>5, <1>9, Peel
<1>14. u4 \o st = <<else_>> \o (u5 \o st)
    BY <1>1, <1>6, <1>10, Peel
<1>15. u1 \o st
        = <<next_>> \o (<<expr_>> \o (<<block_>> \o (<<else_>> \o (u5 \o st))))
    BY <1>11, <1>12, <1>13, <1>14
<1> QED
    BY <1>15 DEF u1, u5, next_, expr_, block_, else_

LEMMA StmtSteps ==
    ASSUME NEW st \in Seq(Step)
    PROVE  <<Next1, Call("pat"), Match("="), Call("expr")>> \o st
            = <<Next1>> \o (<<Call("pat")>> \o (<<Match("=")>> \o (<<Call("expr")>> \o
              st)))
<1> DEFINE next_ == Next1
           pat_ == Call("pat")
           is_ == Match("=")
           expr_ == Call("expr")
           X == Step \cup {Next1}
           u1 == <<next_, pat_, is_, expr_>>
           u2 == <<pat_, is_, expr_>>
           u3 == <<is_, expr_>>
           u4 == <<expr_>>
<1>1. st \in Seq(X)
    BY SeqMonotonic
<1>2. {next_, pat_, is_, expr_} \subseteq X
    BY SeqMonotonic, CallSym, MatchSym, Meanings DEF Matched
<1> HIDE DEF next_, pat_, is_, expr_, X
<1>3. u1 \in Seq(X) /\ u1 # << >> /\ Head(u1) = next_
    BY <1>2
<1>4. u2 \in Seq(X) /\ u2 # << >> /\ Head(u2) = pat_
    BY <1>2
<1>5. u3 \in Seq(X) /\ u3 # << >> /\ Head(u3) = is_
    BY <1>2
<1>6. Tail(u1) = u2
    OBVIOUS
<1>7. Tail(u2) = u3
    OBVIOUS
<1>8. Tail(u3) = u4
    OBVIOUS
<1> HIDE DEF u1, u2, u3, u4
<1>9. u1 \o st = <<next_>> \o (u2 \o st)
    BY <1>1, <1>3, <1>6, Peel, SMTT(30)
<1>10. u2 \o st = <<pat_>> \o (u3 \o st)
    BY <1>1, <1>4, <1>7, Peel
<1>11. u3 \o st = <<is_>> \o (u4 \o st)
    BY <1>1, <1>5, <1>8, Peel
<1>12. u1 \o st
        = <<next_>> \o (<<pat_>> \o (<<is_>> \o (u4 \o st)))
    BY <1>9, <1>10, <1>11
<1> QED
    BY <1>12 DEF u1, u4, next_, pat_, is_, expr_

LEMMA StmtsSteps ==
    ASSUME NEW st \in Seq(Step)
    PROVE  <<Call("stmt"), Match(";"), Call("stmts")>> \o st
            = <<Call("stmt")>> \o (<<Match(";")>> \o (<<Call("stmts")>> \o st))
<1> DEFINE stmt_ == Call("stmt")
           semi_ == Match(";")
           stmts_ == Call("stmts")
           X == Step \cup {Call("stmt")}
           u1 == <<stmt_, semi_, stmts_>>
           u2 == <<semi_, stmts_>>
           u3 == <<stmts_>>
<1>1. st \in Seq(X)
    BY SeqMonotonic
<1>2. {stmt_, semi_, stmts_} \subseteq X
    BY SeqMonotonic, CallSym, MatchSym, Meanings DEF Matched
<1> HIDE DEF stmt_, semi_, stmts_, X
<1>3. u1 \in Seq(X) /\ u1 # << >> /\ Head(u1) = stmt_
    BY <1>2
<1>4. u2 \in Seq(X) /\ u2 # << >> /\ Head(u2) = semi_
    BY <1>2
<1>5. Tail(u1) = u2
    OBVIOUS
<1>6. Tail(u2) = u3
    OBVIOUS
<1> HIDE DEF u1, u2, u3
<1>7. u1 \o st = <<stmt_>> \o (u2 \o st)
    BY <1>1, <1>3, <1>5, Peel, SMTT(30)
<1>8. u2 \o st = <<semi_>> \o (u3 \o st)
    BY <1>1, <1>4, <1>6, Peel
<1>9. u1 \o st
        = <<stmt_>> \o (<<semi_>> \o (u3 \o st))
    BY <1>7, <1>8
<1> QED
    BY <1>9 DEF u1, u3, stmt_, semi_, stmts_

\* next() and the calls after it.
LEMMA NextApart ==
    ASSUME NEW st \in Seq(Step)
    PROVE  /\ \A a \in Step : <<Next1, a>> \o st = <<Next1>> \o (<<a>> \o st)
           /\ \A a, b \in Step :
                <<Next1, a, b>> \o st = <<Next1>> \o (<<a>> \o (<<b>> \o st))
<1> DEFINE X == Step \cup {Next1}
           n == Next1
<1>1. st \in Seq(X) /\ n \in X /\ Step \subseteq X
    BY SeqMonotonic
<1> HIDE DEF X, n
<1>2. ASSUME NEW a \in Step PROVE <<n, a>> \o st = <<n>> \o (<<a>> \o st)
    <2>1. a \in X
        BY <1>1
    <2> QED
        BY <1>1, <2>1, Unfold2
<1>3. ASSUME NEW a \in Step, NEW b \in Step
      PROVE  <<n, a, b>> \o st = <<n>> \o (<<a>> \o (<<b>> \o st))
    <2>1. a \in X /\ b \in X
        BY <1>1
    <2> QED
        BY <1>1, <2>1, Apart3
<1> QED
    BY <1>2, <1>3 DEF n

LEMMA OneMore ==
    ASSUME NEW x \in Symbol, NEW S, Proper(S)
    PROVE  Proper(<<x>> \o S) /\ <<x>> \o S \in Seq(Symbol)
<1>1. <<x>> \in Seq(Symbol)
    OBVIOUS
<1>2. Proper(<<x>> \o S)
    BY <1>1, ProperConcat
<1> QED
    BY <1>2 DEF Proper

\* What a token leaves of the rule that it begins.
LEMMA BegunInSymbols ==
    \A x \in Symbol : \A t \in Begins(x) : Begun(x, t) \in Seq(Symbol)
<1>1. {"id", "(", "params", ")", ":", "type", "block", "program", "stmts", "expr", "}", "else",
       "args", "anns", "params2", "pat", "=", ";", "arglists", "args2"} \subseteq Symbol
    BY Symbols DEF Symbol, Token
<1>2. /\ \A a \in Symbol : <<a>> \in Seq(Symbol)
      /\ \A a, b \in Symbol : <<a, b>> \in Seq(Symbol)
      /\ \A a, b, c \in Symbol : <<a, b, c>> \in Seq(Symbol)
      /\ \A a, b, c, d \in Symbol : <<a, b, c, d>> \in Seq(Symbol)
      /\ \A a, b, c, d, e \in Symbol : <<a, b, c, d, e>> \in Seq(Symbol)
      /\ \A a, b, c, d, e, f, g, h \in Symbol : <<a, b, c, d, e, f, g, h>> \in Seq(Symbol)
    OBVIOUS
<1>3. /\ <<"id", "(", "params", ")", ":", "type", "block", "program">> \in Seq(Symbol)
      /\ <<"expr", "block", "else", "block">> \in Seq(Symbol)
      /\ <<"pat", "=", "expr", ";", "stmts">> \in Seq(Symbol)
    BY <1>1, <1>2, Zenon
<1>4. /\ <<"stmts", "expr", "}">> \in Seq(Symbol) /\ <<"(", "args", ")">> \in Seq(Symbol)
      /\ <<"args", ")", "arglists">> \in Seq(Symbol)
    BY <1>1, <1>2, Zenon
<1>5. /\ <<"anns", "params2">> \in Seq(Symbol) /\ <<"pat", "params2">> \in Seq(Symbol)
      /\ <<"type", "anns">> \in Seq(Symbol) /\ <<"expr", "args2">> \in Seq(Symbol)
      /\ <<"arglists", "args2">> \in Seq(Symbol)
      /\ <<"anns">> \in Seq(Symbol) /\ <<"arglists">> \in Seq(Symbol)
    BY <1>1, <1>2, Zenon
<1>6. << >> \in Seq(Symbol)
    OBVIOUS
<1>7. \A t \in Begins("callee") : Begun("callee", t) \in Seq(Symbol)
    BY <1>3, <1>4, <1>6, CalleeRules
<1>8. \A t \in Begins("expr") : Begun("expr", t) \in Seq(Symbol)
    BY <1>5, <1>7, ExprRules, ConcatProperties
<1>9. \A t \in Begins("args") : Begun("args", t) \in Seq(Symbol)
    BY <1>5, <1>7, ArgsRules, ConcatProperties
<1>10. /\ \A t \in Begins("program") : Begun("program", t) \in Seq(Symbol)
       /\ \A t \in Begins("params") : Begun("params", t) \in Seq(Symbol)
       /\ \A t \in Begins("params2") : Begun("params2", t) \in Seq(Symbol)
       /\ \A t \in Begins("pat") : Begun("pat", t) \in Seq(Symbol)
    BY <1>3, <1>5, ProgramRules, ParamsRules, Params2Rules, PatRules
<1>11. /\ \A t \in Begins("anns") : Begun("anns", t) \in Seq(Symbol)
       /\ \A t \in Begins("block") : Begun("block", t) \in Seq(Symbol)
       /\ \A t \in Begins("stmts") : Begun("stmts", t) \in Seq(Symbol)
    BY <1>3, <1>4, <1>5, AnnsRules, BlockRules, StmtsRules
<1>12. /\ \A t \in Begins("arglists") : Begun("arglists", t) \in Seq(Symbol)
       /\ \A t \in Begins("args2") : Begun("args2", t) \in Seq(Symbol)
    BY <1>4, <1>5, ArglistsRules, Args2Rules
<1>13. \A x \in Nonterminal : \A t \in Begins(x) : Begun(x, t) \in Seq(Symbol)
    BY <1>7, <1>8, <1>9, <1>10, <1>11, <1>12, Symbols
<1>14. \A x \in Symbol \ Nonterminal : \A t : Begun(x, t) = << >>
    BY DEF Begun
<1> QED
    BY <1>6, <1>13, <1>14

-----------------------------------------------------------------------------
(* The text that the stack reads against the one that Grammar expects.     *)

\* They go on alike from here, unless a token is missing and the parser will notice.
Agrees(S) ==
    \/ Final.rest = After(S, tok).rest /\ (After(S, tok).missing # {} => Lacks)
    \/ Lacks /\ After(S, tok).rest = <<Nothing>>

NoWorse(S, T) ==
    \/ /\ After(T, tok).rest = After(S, tok).rest
       /\ After(T, tok).missing # {} => After(S, tok).missing # {}
    \/ /\ After(T, tok).rest = <<Nothing>> /\ After(T, tok).missing = {}
       /\ After(S, tok).rest = <<Nothing>> \/ After(S, tok).missing # {}

LEMMA AgreesStill == ASSUME NEW S, NEW T, Agrees(S), NoWorse(S, T) PROVE Agrees(T)
BY DEF Agrees, NoWorse

LEMMA FailsWell ==
    ASSUME NEW S, Agrees(S), After(S, tok).rest = <<Nothing>> \/ After(S, tok).missing # {}
    PROVE  Lacks \/ Final.rest = <<Nothing>>
BY DEF Agrees

LEMMA AgreesBegun ==
    ASSUME NEW x \in Symbol, NEW S, Proper(S), Agrees(<<x>> \o S), tok \in Begins(x)
    PROVE  Final.rest = Begun(x, tok) \o S
<1>1. After(<<x>> \o S, tok).rest = Begun(x, tok) \o S
    BY AfterBegun DEF Proper
<1>2. Begun(x, tok) \o S # <<Nothing>>
    BY BegunInSymbols, ProperConcat, ProperIsSomething
<1> QED
    BY <1>1, <1>2 DEF Agrees

LEMMA AgreesRefused ==
    ASSUME NEW x \in Symbol, NEW S, Proper(S), Agrees(<<x>> \o S), tok \notin Begins(x),
           x \notin Matched \cup MayBeEmpty
    PROVE  Lacks \/ Final.rest = <<Nothing>>
<1>1. After(<<x>> \o S, tok).rest = <<Nothing>>
    BY AfterRefused DEF Proper
<1> QED
    BY <1>1, FailsWell

LEMMA AgreesSkipped ==
    ASSUME NEW x \in Symbol, NEW S, Proper(S), Agrees(<<x>> \o S), Skipped(x, tok)
    PROVE  Agrees(S) /\ (x \in Matched => Lacks)
<1>1. /\ After(<<x>> \o S, tok).rest = After(S, tok).rest
      /\ After(<<x>> \o S, tok).missing # {} <=> x \in Matched \/ After(S, tok).missing # {}
    BY AfterSkipped DEF Proper
<1> QED
    BY <1>1 DEF Agrees

\* A call that goes on as what its symbol begins with.
LEMMA AgreesAs ==
    ASSUME NEW x \in Symbol, NEW y \in Symbol, NEW m \in Seq(Symbol), NEW S, Proper(S),
           Agrees(<<x>> \o S), Begins(x) = Begins(y),
           \A t \in Begins(x) : Begun(x, t) = Begun(y, t) \o m,
           {x, y} \cap (Matched \cup MayBeEmpty) = {}
    PROVE  Agrees(<<y>> \o (m \o S))
<1> DEFINE A == After(<<x>> \o S, tok)
           B == After(<<y>> \o (m \o S), tok)
<1>1. S \in Seq(Symbol) /\ m \o S \in Seq(Symbol)
    BY ConcatProperties DEF Proper
<1>2. CASE tok \in Begins(x)
    <2>1. A.rest = Begun(x, tok) \o S /\ A.missing = {}
        BY <1>1, <1>2, AfterBegun
    <2>2. B.rest = Begun(y, tok) \o (m \o S) /\ B.missing = {}
        BY <1>1, <1>2, AfterBegun
    <2>3. Begun(y, tok) \in Seq(Symbol)
        BY <1>2, BegunInSymbols
    <2>4. (Begun(y, tok) \o m) \o S = Begun(y, tok) \o (m \o S)
        BY <1>1, <2>3, ConcatAssociative
    <2>5. A.rest = B.rest
        BY <1>2, <2>1, <2>2, <2>4
    <2> QED
        BY <2>1, <2>2, <2>5, AgreesStill DEF NoWorse
<1>3. CASE tok \notin Begins(x)
    <2>1. A.rest = <<Nothing>>
        BY <1>1, <1>3, AfterRefused
    <2>2. B.rest = <<Nothing>> /\ B.missing = {}
        BY <1>1, <1>3, AfterRefused
    <2> QED
        BY <2>1, <2>2, AgreesStill DEF NoWorse
<1> QED
    BY <1>2, <1>3

-----------------------------------------------------------------------------
(* The invariant.                                                          *)

FunDef == <<"id", "(", "params", ")", ":", "type", "block">>
Stmt == <<"pat", "=", "expr">>

\* The functions that go on with next() have seen the token.
Follows(st, S) ==
    \/ stack = st /\ Agrees(S)
    \/ stack = <<Next1>> \o st /\ Final.rest = S
    \/ stack = <<Call("fundef")>> \o st /\ Final.rest = FunDef \o S
    \/ stack = <<Call("stmt")>> \o st /\ Guarded(S) /\ Final.rest = Stmt \o S

\* When the definitions end, Grammar expects the end, whatever is missing.
AcceptedAtEnd == outcome = "accepted" => Final.rest = << >>

ParserInv ==
    /\ outcome = "parsing" => \E st, S : Reads(st, S) /\ Follows(st, S)
    /\ GrammaticalAccepted
    /\ AcceptedAtEnd

LEMMA NotSteps == Next1 \notin Step /\ Call("fundef") \notin Step /\ Call("stmt") \notin Step
<1>1. \A t, f : Next1 # Match(t) /\ Next1 # Call(f)
    BY DEF Next1, Match, Call
<1>2. \A t, f : Call(f) # Match(t)
    BY DEF Match, Call
<1>3. \A f \in DOMAIN Meaning : f # "fundef" /\ f # "stmt"
    BY Meanings
<1>4. \A f : Call(f) = Call("fundef") => f = "fundef"
    BY DEF Call
<1>5. \A f : Call(f) = Call("stmt") => f = "stmt"
    BY DEF Call
<1> QED
    BY <1>1, <1>2, <1>3, <1>4, <1>5 DEF Step

LEMMA InCall == \A f, g : Call(f) = Call(g) => f = g
BY DEF Call

\* What a step sees.
LEMMA Popped ==
    ASSUME ParserInv, NEW x \in Step, Do(x)
    PROVE  \E S : /\ Reads(Tail(stack), S) /\ Fits(x, S) /\ Agrees(Sym(x) \o S)
                  /\ Proper(S) /\ S \in Seq(Symbol) /\ Tail(stack) \in Seq(Step)
<1>1. PICK st, S : Reads(st, S) /\ Follows(st, S)
    BY DEF ParserInv, Do
<1>2. stack # << >> /\ Head(stack) = x
    BY DEF Do
<1>3. ASSUME NEW y, stack = <<y>> \o st PROVE y = x
    <2> DEFINE X == Step \cup {y}
    <2>1. st \in Seq(X) /\ y \in X
        BY <1>1, ReadsProper, SeqMonotonic
    <2>2. Head(stack) = y
        BY <1>3, <2>1, Front
    <2> QED
        BY <1>2, <2>2
<1>4. stack = st /\ Agrees(S)
    BY <1>1, <1>3, NotSteps DEF Follows
<1>5. PICK S1 : Reads(Tail(st), S1) /\ S = Sym(Head(st)) \o S1 /\ Fits(Head(st), S1)
    BY <1>1, <1>2, <1>4, ReadsPop
<1>6. Proper(S1) /\ S1 \in Seq(Symbol) /\ Tail(st) \in Seq(Step)
    BY <1>5, ReadsProper
<1> QED
    BY <1>2, <1>4, <1>5, <1>6

LEMMA SameText ==
    ASSUME UNCHANGED textVars
    PROVE  Final' = Final /\ (Lacks' <=> Lacks) /\ \A S : Agrees(S) <=> Agrees(S)'
<1>1. tok' = tok /\ expected' = expected /\ lacking' = lacking
    BY DEF textVars
<1>2. Final' = Final
    BY <1>1 DEF Final
<1> QED
    BY <1>1, <1>2 DEF Agrees, Lacks

LEMMA Keeps ==
    ASSUME UNCHANGED <<outcome, textVars>>, outcome = "parsing",
           NEW st, NEW S, Reads(st, S), stack' = st, Agrees(S)
    PROVE  ParserInv'
<1>1. UNCHANGED textVars /\ outcome' = "parsing"
    OBVIOUS
<1>2. Follows(st, S)'
    BY <1>1, SameText DEF Follows
<1> QED
    BY <1>1, <1>2 DEF ParserInv, GrammaticalAccepted, AcceptedAtEnd

LEMMA KeepsNext ==
    ASSUME UNCHANGED <<outcome, textVars>>, outcome = "parsing",
           NEW st, NEW S, Reads(st, S), stack' = <<Next1>> \o st, Final.rest = S
    PROVE  ParserInv'
<1>1. UNCHANGED textVars /\ outcome' = "parsing"
    OBVIOUS
<1>2. Follows(st, S)'
    BY <1>1, SameText DEF Follows
<1> QED
    BY <1>1, <1>2 DEF ParserInv, GrammaticalAccepted, AcceptedAtEnd

LEMMA KeepsFailing ==
    ASSUME UNCHANGED textVars, outcome' \in {"error", "assert"},
           Lacks \/ Final.rest = <<Nothing>>
    PROVE  ParserInv'
<1>1. outcome' # "parsing" /\ outcome' # "accepted"
    OBVIOUS
<1>2. (Lacks' <=> Lacks) /\ Final' = Final
    BY SameText
<1> QED
    BY <1>1, <1>2 DEF ParserInv, GrammaticalAccepted, AcceptedAtEnd

-----------------------------------------------------------------------------
(* The steps.                                                              *)

LEMMA ReadsCall ==
    ASSUME NEW st, NEW S, Reads(st, S), NEW f \in DOMAIN Meaning, f # "defs",
           Guarded(S) \/ f \in {"block", "stmts"}
    PROVE  Reads(<<Call(f)>> \o st, Meaning[f] \o S)
<1>1. Call(f) # Call("defs") /\ (f \in {"block", "stmts"} => Call(f) \in Unguarded)
    BY InCall DEF Unguarded
<1>2. Fits(Call(f), S)
    BY <1>1 DEF Fits
<1> QED
    BY <1>2, CallSym, ReadsPush

LEMMA ReadsMatch ==
    ASSUME NEW st, NEW S, Reads(st, S), NEW t \in Matched, Guarded(S) \/ t = "}"
    PROVE  Reads(<<Match(t)>> \o st, <<t>> \o S)
<1>1. Match(t) # Call("defs") /\ (t = "}" => Match(t) \in Unguarded)
    BY DEF Unguarded, Match, Call
<1>2. Fits(Match(t), S)
    BY <1>1 DEF Fits
<1> QED
    BY <1>2, MatchSym, ReadsPush

LEMMA PoppedCall ==
    ASSUME ParserInv, NEW f \in DOMAIN Meaning, In(f)
    PROVE  \E S : /\ Reads(Tail(stack), S) /\ Agrees(Meaning[f] \o S)
                  /\ Proper(S) /\ S \in Seq(Symbol) /\ Tail(stack) \in Seq(Step)
                  /\ f = "defs" => S = <<End>>
                  /\ f \notin {"defs", "block", "stmts"} => Guarded(S)
<1>1. Do(Call(f)) /\ Call(f) \in Step /\ Sym(Call(f)) = Meaning[f]
    BY CallSym DEF In
<1>2. PICK S : /\ Reads(Tail(stack), S) /\ Fits(Call(f), S) /\ Agrees(Meaning[f] \o S)
               /\ Proper(S) /\ S \in Seq(Symbol) /\ Tail(stack) \in Seq(Step)
    BY <1>1, Popped
<1>3. f \notin {"defs", "block", "stmts"} => Call(f) \notin Unguarded
    <2>1. \A t : Call(f) # Match(t)
        BY DEF Call, Match
    <2> QED
        BY <2>1, InCall DEF Unguarded
<1>4. (f = "defs" => S = <<End>>) /\ (f \notin {"defs", "block", "stmts"} => Guarded(S))
    BY <1>2, <1>3 DEF Fits
<1> QED
    BY <1>2, <1>4

\* The symbols that may be left out.
LEMMA Left ==
    /\ \A x \in Token \cup {"pat", "block", "expr", "callee"} : x \notin MayBeEmpty /\ x # End
    /\ {"program", "params", "params2", "anns", "stmts", "arglists", "args", "args2"}
            \subseteq MayBeEmpty
<1>1. \A x \in Token : x \notin MayBeEmpty /\ x # End
    BY TokenRules DEF Token, End
<1>2. /\ "pat" \notin MayBeEmpty /\ "block" \notin MayBeEmpty /\ "expr" \notin MayBeEmpty
      /\ "callee" \notin MayBeEmpty
    BY PatRules, BlockRules, ExprRules, CalleeRules
<1>3. "pat" # End /\ "block" # End /\ "expr" # End /\ "callee" # End
    BY DEF End
<1>4. /\ "program" \in MayBeEmpty /\ "params" \in MayBeEmpty /\ "params2" \in MayBeEmpty
      /\ "anns" \in MayBeEmpty
    BY ProgramRules, ParamsRules, Params2Rules, AnnsRules
<1>5. /\ "stmts" \in MayBeEmpty /\ "arglists" \in MayBeEmpty /\ "args" \in MayBeEmpty
      /\ "args2" \in MayBeEmpty
    BY StmtsRules, ArglistsRules, ArgsRules, Args2Rules
<1> QED
    BY <1>1, <1>2, <1>3, <1>4, <1>5

LEMMA GuardedBy ==
    ASSUME NEW x \in Token \cup {"pat", "block", "expr", "callee"}, NEW S \in Seq(Symbol)
    PROVE  Guarded(<<x>> \o S)
BY Left, Symbols, GuardedPush DEF Symbol

\* A token that is there, and what goes on with next() for it.
LEMMA KeepsToken ==
    ASSUME UNCHANGED <<outcome, textVars>>, outcome = "parsing", NEW x \in Token, tok = x,
           NEW st, NEW S, Reads(st, S), Agrees(<<x>> \o S), stack' = <<Next1>> \o st
    PROVE  ParserInv'
<1>1. Proper(S) /\ S \in Seq(Symbol)
    BY ReadsProper
<1>2. x \in Symbol /\ tok \in Begins(x) /\ Begun(x, tok) = << >>
    BY TokenRules, Symbols
<1>3. Final.rest = << >> \o S
    BY <1>1, <1>2, AgreesBegun
<1>4. << >> \o S = S
    BY <1>1
<1> QED
    BY <1>3, <1>4, KeepsNext

\* What parameters and arguments have in common: L stands for the list, E for an
\* element and M for what follows one.
ListOf(list, element, more, L, E, M) ==
    /\ {list, element, more} \subseteq DOMAIN Meaning \ {"defs", "block", "stmts"}
    /\ L \in Nonterminal \cap MayBeEmpty /\ M \in Nonterminal \cap MayBeEmpty
    /\ E \in Nonterminal \ MayBeEmpty
    /\ Meaning[list] = <<L, ")">> /\ Meaning[element] = <<E>> /\ Meaning[more] = <<M, ")">>
    /\ Begins(L) = Begins(E) /\ ")" \notin Begins(L)
    /\ \A t \in Begins(L) : Begun(L, t) = Begun(E, t) \o <<M>>
    /\ Begins(M) = {","} /\ Begun(M, ",") = <<E, M>>

LEMMA ListKeeps ==
    ASSUME ParserInv, NEW list, NEW element, NEW more, NEW L, NEW E, NEW M,
           ListOf(list, element, more, L, E, M), ParseList(list, element, more)
    PROVE  ParserInv'
<1> DEFINE st == Tail(stack)
           paren == ")"
           comma == ","
<1>1. /\ UNCHANGED textVars /\ outcome = "parsing" /\ None = End
      /\ paren \in Token /\ paren \in Matched /\ paren \in Symbol /\ paren # comma
      /\ Begins(paren) = {paren} /\ L \in Symbol /\ E \in Symbol /\ M \in Symbol
      /\ E \notin Matched /\ paren # End /\ paren \notin MayBeEmpty /\ comma # End
    BY Symbols, TokenRules DEF ListOf, ParseList, In, Do, None, Symbol, Token, Matched, End
<1>7. /\ list \in DOMAIN Meaning /\ list \notin {"defs", "block", "stmts"}
      /\ element \in DOMAIN Meaning /\ element # "defs"
      /\ more \in DOMAIN Meaning /\ more \notin {"defs", "block", "stmts"}
      /\ L \in MayBeEmpty /\ M \in MayBeEmpty /\ E \notin MayBeEmpty
    BY DEF ListOf
<1>8. Meaning[list] = <<L, paren>> /\ Meaning[element] = <<E>> /\ Meaning[more] = <<M, paren>>
    BY DEF ListOf
<1>9. /\ Begins(L) = Begins(E) /\ paren \notin Begins(L)
      /\ Begins(M) = {comma} /\ Begun(M, comma) = <<E, M>>
    BY DEF ListOf
<1>10. \A t \in Begins(L) : Begun(L, t) = Begun(E, t) \o <<M>>
    BY DEF ListOf
<1>2. L # End /\ M # End /\ E # End
    BY Symbols DEF ListOf
<1>3. ASSUME NEW S \in Seq(Symbol), NEW x \in Symbol
      PROVE  <<x, paren>> \o S = <<x>> \o (<<paren>> \o S)
    <2>1. paren \in Symbol
        BY <1>1
    <2> HIDE DEF paren
    <2> QED
        BY ONLY <1>3, <2>1, Unfold2
<1>4. ASSUME NEW S, Proper(S), NEW x \in Symbol
      PROVE  Proper(<<paren>> \o S) /\ Proper(<<x>> \o S) /\ <<paren>> \o S \in Seq(Symbol)
    <2>1. Proper(<<paren>> \o S) /\ <<paren>> \o S \in Seq(Symbol)
        BY <1>1, <1>4, OneMore
    <2>2. Proper(<<x>> \o S)
        BY <1>4, OneMore
    <2> QED
        BY <2>1, <2>2
<1> HIDE DEF paren, comma
<1>5. CASE In(list) /\ Some(IF tok = ")" THEN <<Next1>> ELSE <<Call(element), Call(more)>>)
    <2>1. PICK S : /\ Reads(st, S) /\ Agrees(<<L, paren>> \o S) /\ Proper(S)
                   /\ S \in Seq(Symbol) /\ st \in Seq(Step) /\ Guarded(S)
        BY <1>5, <1>7, <1>8, PoppedCall
    <2>2. Agrees(<<L>> \o (<<paren>> \o S)) /\ Proper(<<paren>> \o S)
        BY <1>1, <1>3, <1>4, <2>1
    <2>3. CASE tok = None
        <3>1. Skipped(L, tok) /\ Skipped(paren, tok)
            BY <1>1, <1>2, <1>7, <2>3, EndBeginsNothing DEF Skipped
        <3>2. Lacks
            BY <1>1, <2>1, <2>2, <3>1, AgreesSkipped
        <3>3. outcome' = "error"
            BY <1>5, <2>3 DEF Some, Fails
        <3> QED
            BY <1>1, <3>2, <3>3, KeepsFailing
    <2>4. CASE tok # None /\ tok = paren
        <3>1. stack' = <<Next1>> \o st /\ UNCHANGED outcome
            BY <1>5, <2>4 DEF Some, Then, paren
        <3>2. Skipped(L, tok)
            BY <1>1, <1>7, <1>9, <2>4 DEF Skipped
        <3>3. Agrees(<<paren>> \o S)
            BY <1>1, <2>2, <3>2, AgreesSkipped
        <3> QED
            BY <1>1, <2>1, <2>4, <3>1, <3>3, KeepsToken
    <2>5. CASE tok # None /\ tok # paren
        <3>1. stack' = <<Call(element), Call(more)>> \o st /\ UNCHANGED outcome
            BY <1>5, <2>5 DEF Some, Then, paren
        <3>2. stack' = <<Call(element)>> \o (<<Call(more)>> \o st)
            BY <1>7, <2>1, <3>1, CallSym, Unfold2
        <3> DEFINE T == <<paren>> \o S
        <3>3. Reads(<<Call(more)>> \o st, <<M>> \o T)
            <4>1. Reads(<<Call(more)>> \o st, Meaning[more] \o S)
                BY <1>7, <2>1, ReadsCall
            <4>2. Meaning[more] \o S = <<M>> \o T
                BY <1>1, <1>3, <1>8, <2>1
            <4> QED
                BY <4>1, <4>2
        <3>4. Guarded(<<M>> \o T) /\ Proper(T) /\ T \in Seq(Symbol)
              /\ Proper(<<M>> \o T) /\ <<M>> \o T \in Seq(Symbol)
            <4>1. Guarded(T)
                BY <1>1, <2>1, GuardedBy DEF paren
            <4>2. T \in Seq(Symbol) /\ Proper(T)
                BY <1>1, <1>4, <2>1, <2>2
            <4> QED
                BY <1>1, <1>2, <1>4, <4>1, <4>2, GuardedPush DEF Proper
        <3>5. Reads(stack', <<E>> \o (<<M>> \o T))
            BY <1>7, <1>8, <3>2, <3>3, <3>4, ReadsCall
        <3>6. Agrees(<<E>> \o (<<M>> \o T))
            <4>1. CASE tok \in Begins(L)
                <5>1. After(<<L>> \o T, tok).rest = Begun(L, tok) \o T
                      /\ After(<<L>> \o T, tok).missing = {}
                    BY <1>1, <1>9, <3>4, <4>1, AfterBegun
                <5>2. /\ After(<<E>> \o (<<M>> \o T), tok).rest = Begun(E, tok) \o (<<M>> \o T)
                      /\ After(<<E>> \o (<<M>> \o T), tok).missing = {}
                    BY <1>1, <1>9, <3>4, <4>1, AfterBegun
                <5>3. Begun(L, tok) \o T = Begun(E, tok) \o (<<M>> \o T)
                    <6>1. Begun(E, tok) \in Seq(Symbol)
                        BY <1>1, <1>9, <4>1, BegunInSymbols
                    <6>3. <<M>> \in Seq(Symbol) /\ T \in Seq(Symbol)
                        BY <1>1, <3>4
                    <6> DEFINE b == Begun(E, tok)
                               m == <<M>>
                    <6>2. (b \o m) \o T = b \o (m \o T)
                        <7> HIDE DEF b, m, T
                        <7> QED
                            BY <6>1, <6>3, ConcatAssociative DEF b, m
                    <6> QED
                        BY <1>10, <4>1, <6>2
                <5>4. NoWorse(<<L>> \o T, <<E>> \o (<<M>> \o T))
                    BY <5>1, <5>2, <5>3 DEF NoWorse
                <5> QED
                    BY <2>2, <5>4, AgreesStill
            <4>2. CASE tok \notin Begins(L)
                <5>1. Skipped(L, tok) /\ Skipped(paren, tok)
                    BY <1>1, <1>7, <2>5, <4>2 DEF Skipped
                <5>2. Lacks
                    BY <1>1, <2>1, <2>2, <5>1, AgreesSkipped
                <5>3. After(<<E>> \o (<<M>> \o T), tok).rest = <<Nothing>>
                    <6>1. E \in Symbol /\ E \notin Matched \cup MayBeEmpty /\ tok \notin Begins(E)
                        BY <1>1, <1>7, <1>9, <4>2
                    <6> QED
                        BY <3>4, <6>1, AfterRefused
                <5> QED
                    BY <5>2, <5>3 DEF Agrees
            <4> QED
                BY <4>1, <4>2
        <3> QED
            BY <1>1, <3>1, <3>5, <3>6, Keeps
    <2> QED
        BY <2>3, <2>4, <2>5
<1>6. CASE In(more) /\ Some(IF tok = "," THEN <<Next1, Call(element), Call(more)>>
                            ELSE <<Match(")")>>)
    <2>1. PICK S : /\ Reads(st, S) /\ Agrees(<<M, paren>> \o S) /\ Proper(S)
                   /\ S \in Seq(Symbol) /\ st \in Seq(Step) /\ Guarded(S)
        BY <1>6, <1>7, <1>8, PoppedCall
    <2>2. Agrees(<<M>> \o (<<paren>> \o S)) /\ Proper(<<paren>> \o S)
        BY <1>1, <1>3, <1>4, <2>1
    <2>3. CASE tok = None
        <3>1. Skipped(M, tok) /\ Skipped(paren, tok)
            BY <1>1, <1>2, <1>7, <2>3, EndBeginsNothing DEF Skipped
        <3>2. Lacks
            BY <1>1, <2>1, <2>2, <3>1, AgreesSkipped
        <3>3. outcome' = "error"
            BY <1>6, <2>3 DEF Some, Fails
        <3> QED
            BY <1>1, <3>2, <3>3, KeepsFailing
    <2>4. CASE tok # None /\ tok = comma
        <3>1. stack' = <<Next1, Call(element), Call(more)>> \o st /\ UNCHANGED outcome
            BY <1>6, <2>4 DEF Some, Then, comma
        <3>2. stack' = <<Next1>> \o (<<Call(element)>> \o (<<Call(more)>> \o st))
            <4>1. Call(element) \in Step /\ Call(more) \in Step
                BY <1>7, CallSym
            <4> QED
                BY <2>1, <3>1, <4>1, NextApart
        <3> DEFINE T == <<paren>> \o S
        <3>3. Reads(<<Call(more)>> \o st, <<M>> \o T)
            <4>1. Reads(<<Call(more)>> \o st, Meaning[more] \o S)
                BY <1>7, <2>1, ReadsCall
            <4>2. Meaning[more] \o S = <<M>> \o T
                BY <1>1, <1>3, <1>8, <2>1
            <4> QED
                BY <4>1, <4>2
        <3>4. Guarded(<<M>> \o T) /\ T \in Seq(Symbol) /\ Proper(T)
              /\ Proper(<<M>> \o T) /\ <<M>> \o T \in Seq(Symbol)
            <4>1. Guarded(T)
                BY <1>1, <2>1, GuardedBy DEF paren
            <4>2. T \in Seq(Symbol) /\ Proper(T)
                BY <1>1, <1>4, <2>1, <2>2
            <4> QED
                BY <1>1, <1>2, <1>4, <4>1, <4>2, GuardedPush DEF Proper
        <3>5. Reads(<<Call(element)>> \o (<<Call(more)>> \o st), <<E>> \o (<<M>> \o T))
            BY <1>7, <1>8, <3>3, <3>4, ReadsCall
        <3>6. Final.rest = <<E>> \o (<<M>> \o T)
            <4>1. Final.rest = <<E, M>> \o T
                BY <1>1, <1>9, <2>2, <2>4, AgreesBegun
            <4>2. <<E, M>> \o T = <<E>> \o (<<M>> \o T)
                <5> HIDE DEF T
                <5> QED
                    BY <1>1, <3>4, Unfold2
            <4> QED
                BY <4>1, <4>2
        <3> QED
            BY <1>1, <3>1, <3>2, <3>5, <3>6, KeepsNext
    <2>5. CASE tok # None /\ tok # comma
        <3>1. stack' = <<Match(paren)>> \o st /\ UNCHANGED outcome
            BY <1>6, <2>5 DEF Some, Then, comma, paren
        <3>2. Reads(stack', <<paren>> \o S)
            BY <1>1, <2>1, <3>1, ReadsMatch
        <3>3. Skipped(M, tok)
            BY <1>7, <1>9, <2>5 DEF Skipped
        <3>4. Agrees(<<paren>> \o S)
            BY <1>1, <2>2, <3>3, AgreesSkipped
        <3> QED
            BY <1>1, <3>1, <3>2, <3>4, Keeps
    <2> QED
        BY <2>3, <2>4, <2>5
<1> QED
    BY <1>5, <1>6 DEF ParseList

LEMMA ParsingStep ==
    ASSUME NEW x, Do(x)
    PROVE  outcome = "parsing" /\ stack # << >> /\ Head(stack) = x
BY DEF Do

\* The token goes where Grammar has the text that the stack reads.
LEMMA KeepsDiscard ==
    ASSUME Discard, UNCHANGED outcome, outcome = "parsing",
           NEW st, NEW S, Reads(st, S), stack' = st, Final.rest = S
    PROVE  ParserInv'
<1>1. expected' = S /\ outcome' = "parsing"
    BY DEF Discard
<1>2. Final' = After(S, tok')
    BY <1>1 DEF Final
<1>3. Agrees(S)'
    BY <1>2 DEF Agrees, Lacks
<1>4. Follows(st, S)'
    BY <1>3 DEF Follows
<1> QED
    BY <1>1, <1>4 DEF ParserInv, GrammaticalAccepted, AcceptedAtEnd

LEMMA NextKeeps == ASSUME ParserInv, LexerNext PROVE ParserInv'
<1>1. /\ outcome = "parsing" /\ stack # << >> /\ Head(stack) = Next1
      /\ Discard /\ stack' = << >> \o Tail(stack) /\ UNCHANGED outcome
    BY ParsingStep DEF LexerNext, Then
<1>2. PICK st, S : Reads(st, S) /\ Follows(st, S)
    BY <1>1 DEF ParserInv
<1>3. st \in Seq(Step)
    BY <1>2, ReadsProper
<1>4. ASSUME NEW y, stack = <<y>> \o st PROVE y = Next1 /\ Tail(stack) = st
    <2> DEFINE X == Step \cup {y}
    <2>1. st \in Seq(X) /\ y \in X
        BY <1>3, SeqMonotonic
    <2>2. Head(stack) = y /\ Tail(stack) = st
        BY <1>4, <2>1, Front
    <2> QED
        BY <1>1, <2>2
<1>5. stack # st
    <2>1. SUFFICES ASSUME stack = st PROVE FALSE
        OBVIOUS
    <2> QED
        BY <1>1, <1>2, <2>1, ReadsPop, NotSteps
<1>6. Next1 # Call("fundef") /\ Next1 # Call("stmt")
    BY DEF Next1, Call
<1>7. Tail(stack) = st /\ Final.rest = S
    BY <1>2, <1>4, <1>5, <1>6 DEF Follows
<1>8. stack' = st
    BY <1>1, <1>3, <1>7
<1> QED
    BY <1>1, <1>2, <1>7, <1>8, KeepsDiscard

\* match is asked for no other tokens.
LEMMA MatchMatched ==
    ASSUME ParserInv, NEW t \in Token, Do(Match(t))
    PROVE  t \in Matched
<1>1. outcome = "parsing" /\ stack # << >> /\ Head(stack) = Match(t)
    BY ParsingStep
<1>2. PICK st, S : Reads(st, S) /\ Follows(st, S)
    BY <1>1 DEF ParserInv
<1>3. st \in Seq(Step)
    BY <1>2, ReadsProper
<1>4. ASSUME NEW y, stack = <<y>> \o st PROVE y = Match(t)
    <2> DEFINE X == Step \cup {y}
    <2>1. st \in Seq(X) /\ y \in X
        BY <1>3, SeqMonotonic
    <2>2. Head(stack) = y
        BY <1>4, <2>1, Front
    <2> QED
        BY <1>1, <2>2
<1>5. Match(t) # Next1 /\ Match(t) # Call("fundef") /\ Match(t) # Call("stmt")
    BY DEF Match, Next1, Call
<1>6. stack = st
    BY <1>2, <1>4, <1>5 DEF Follows
<1>7. Match(t) \in Step
    BY <1>1, <1>2, <1>6, ReadsPop
<1>8. \A f : Match(t) # Call(f)
    BY DEF Match, Call
<1>9. \A u : Match(u) = Match(t) => u = t
    BY DEF Match
<1> QED
    BY <1>7, <1>8, <1>9 DEF Step

LEMMA MatchKeeps == ASSUME ParserInv, LexerMatch PROVE ParserInv'
<1>1. PICK t \in Token : Do(Match(t)) /\ (IF tok = t THEN Discard ELSE UNCHANGED textVars)
    BY DEF LexerMatch
<1>2. outcome = "parsing" /\ stack' = << >> \o Tail(stack) /\ UNCHANGED outcome
    BY <1>1, ParsingStep DEF LexerMatch, Then
<1>3. t \in Matched /\ Match(t) \in Step /\ Sym(Match(t)) = <<t>>
    BY <1>1, MatchMatched, MatchSym
<1>4. PICK S : /\ Reads(Tail(stack), S) /\ Agrees(<<t>> \o S)
               /\ Proper(S) /\ S \in Seq(Symbol) /\ Tail(stack) \in Seq(Step)
    BY <1>1, <1>3, Popped
<1>5. stack' = Tail(stack)
    BY <1>2, <1>4
<1>6. t \in Symbol /\ Begins(t) = {t} /\ Begun(t, t) = << >>
    BY Symbols, TokenRules
<1>7. CASE tok = t
    <2>1. Final.rest = << >> \o S
        BY <1>4, <1>6, <1>7, AgreesBegun
    <2>2. << >> \o S = S
        BY <1>4
    <2> QED
        BY <1>1, <1>2, <1>4, <1>5, <1>7, <2>1, <2>2, KeepsDiscard
<1>8. CASE tok # t
    <2>1. Skipped(t, tok)
        BY <1>3, <1>6, <1>8 DEF Skipped
    <2>2. Agrees(S)
        BY <1>4, <1>6, <2>1, AgreesSkipped
    <2> QED
        BY <1>1, <1>2, <1>4, <1>5, <1>8, <2>2, Keeps
<1> QED
    BY <1>7, <1>8

LEMMA KeepsFunDef ==
    ASSUME UNCHANGED <<outcome, textVars>>, outcome = "parsing", NEW st, NEW S, Reads(st, S),
           stack' = <<Call("fundef")>> \o st, Final.rest = FunDef \o S
    PROVE  ParserInv'
<1>1. UNCHANGED textVars /\ outcome' = "parsing"
    OBVIOUS
<1>2. Follows(st, S)'
    BY <1>1, SameText DEF Follows
<1> QED
    BY <1>1, <1>2 DEF ParserInv, GrammaticalAccepted, AcceptedAtEnd

LEMMA KeepsStmt ==
    ASSUME UNCHANGED <<outcome, textVars>>, outcome = "parsing", NEW st, NEW S, Reads(st, S),
           stack' = <<Call("stmt")>> \o st, Guarded(S), Final.rest = Stmt \o S
    PROVE  ParserInv'
<1>1. UNCHANGED textVars /\ outcome' = "parsing"
    OBVIOUS
<1>2. Follows(st, S)'
    BY <1>1, SameText DEF Follows
<1> QED
    BY <1>1, <1>2 DEF ParserInv, GrammaticalAccepted, AcceptedAtEnd

LEMMA DefsKeeps == ASSUME ParserInv, ParseDefs PROVE ParserInv'
<1>1. In("defs") /\ UNCHANGED textVars /\ outcome = "parsing"
    BY DEF ParseDefs, In, Do
<1>2. PICK S : /\ Reads(Tail(stack), S) /\ Agrees(<<"program">> \o S) /\ S = <<End>>
               /\ Proper(S) /\ S \in Seq(Symbol) /\ Tail(stack) \in Seq(Step)
    BY <1>1, PoppedCall, Meanings
<1>3. "program" \in Symbol /\ End \in Symbol /\ "program" \in MayBeEmpty
      /\ "program" \notin Matched /\ Begins("program") = {"fun"}
    BY Symbols, ProgramRules DEF Symbol
<1>4. Begins(End) = {End} /\ Begun(End, End) = << >> /\ End \notin Matched \cup MayBeEmpty
      /\ End # "fun" /\ None = End
    BY TokenRules, Symbols DEF None, End
<1> DEFINE e == << >>
<1>5. e \in Seq(Symbol) /\ <<End>> = <<End>> \o e
    BY <1>3
<1> HIDE DEF e
<1>6. CASE tok = "fun"
    <2>1. stack' = <<Call("fundef"), Call("defs")>> \o Tail(stack) /\ UNCHANGED outcome
        BY <1>4, <1>6 DEF ParseDefs, Then
    <2> DEFINE st == <<Call("defs")>> \o Tail(stack)
               T == <<"program">> \o S
    <2>2. stack' = <<Call("fundef")>> \o st
        <3> DEFINE X == Step \cup {Call("fundef")}
        <3>1. Call("fundef") \in X /\ Call("defs") \in X /\ Tail(stack) \in Seq(X)
            BY <1>2, CallSym, Meanings, SeqMonotonic
        <3> HIDE DEF X
        <3> QED
            BY <2>1, <3>1, Unfold2
    <2>3. Reads(st, T)
        <3>1. Fits(Call("defs"), S) /\ Call("defs") \in Step /\ Sym(Call("defs")) = <<"program">>
            BY <1>2, CallSym, Meanings DEF Fits, Unguarded
        <3> QED
            BY <1>2, <3>1, ReadsPush
    <2>4. Final.rest = FunDef \o T
        <3>1. Final.rest = <<"id", "(", "params", ")", ":", "type", "block", "program">> \o S
            BY <1>2, <1>3, <1>6, AgreesBegun, ProgramRules
        <3>2. T \in Seq(Symbol)
            BY <1>2, <1>3, OneMore
        <3>3. FunDef \o T = <<"id">> \o (<<"(">> \o (<<"params">> \o (<<")">> \o (<<":">> \o
                    (<<"type">> \o (<<"block">> \o T))))))
            BY <3>2, FunDefApart DEF FunDef
        <3> QED
            BY <1>2, <3>1, <3>3, ProgramApart
    <2> HIDE DEF st, T
    <2> QED
        BY <1>1, <2>1, <2>2, <2>3, <2>4, KeepsFunDef
<1>7. CASE tok = None
    <2>1. outcome' = "accepted"
        BY <1>4, <1>7 DEF ParseDefs, Fails
    <2>2. Skipped("program", tok)
        BY <1>3, <1>4, <1>7 DEF Skipped
    <2>3. Agrees(<<End>>)
        BY <1>2, <1>3, <2>2, AgreesSkipped
    <2>4. After(<<End>>, End).rest = Begun(End, End) \o e
        <3>1. End \in Symbol /\ End \in Begins(End)
            BY <1>3, <1>4
        <3> QED
            BY <1>5, <3>1, AfterBegun
    <2>5. After(<<End>>, End).rest = << >>
        BY <1>4, <2>4 DEF e
    <2>6. << >> # <<Nothing>>
        OBVIOUS
    <2>7. Final.rest = << >>
        BY <1>4, <1>7, <2>3, <2>5, <2>6 DEF Agrees
    <2>8. Final' = Final
        BY <1>1, SameText
    <2> QED
        BY <2>1, <2>7, <2>8 DEF ParserInv, GrammaticalAccepted, AcceptedAtEnd
<1>8. CASE tok # "fun" /\ tok # None
    <2>1. outcome' = "error"
        BY <1>8 DEF ParseDefs, Fails
    <2>2. Skipped("program", tok)
        BY <1>3, <1>8 DEF Skipped
    <2>3. Agrees(<<End>>)
        BY <1>2, <1>3, <2>2, AgreesSkipped
    <2>4. After(<<End>>, tok).rest = <<Nothing>>
        <3>1. tok \notin Begins(End)
            BY <1>4, <1>8
        <3> QED
            BY <1>3, <1>4, <1>5, <3>1, AfterRefused
    <2> QED
        BY <1>1, <2>1, <2>3, <2>4, FailsWell, KeepsFailing
<1> QED
    BY <1>6, <1>7, <1>8

LEMMA FunDefKeeps == ASSUME ParserInv, ParseFunDef PROVE ParserInv'
<1>1. /\ Do(Call("fundef")) /\ UNCHANGED textVars /\ UNCHANGED outcome
      /\ stack' = <<Next1, Call("id"), Match("("), Call("params"), Match(":"), Call("type"),
                    Call("block")>> \o Tail(stack)
    BY DEF ParseFunDef, In, Then
<1>2. outcome = "parsing" /\ stack # << >> /\ Head(stack) = Call("fundef")
    BY <1>1, ParsingStep
<1>3. PICK st, S : Reads(st, S) /\ Follows(st, S)
    BY <1>2 DEF ParserInv
<1>4. st \in Seq(Step) /\ Proper(S) /\ S \in Seq(Symbol)
    BY <1>3, ReadsProper
<1>5. ASSUME NEW y, stack = <<y>> \o st PROVE y = Call("fundef") /\ Tail(stack) = st
    <2> DEFINE X == Step \cup {y}
    <2>1. st \in Seq(X) /\ y \in X
        BY <1>4, SeqMonotonic
    <2>2. Head(stack) = y /\ Tail(stack) = st
        BY <1>5, <2>1, Front
    <2> QED
        BY <1>2, <2>2
<1>6. stack # st
    <2>1. SUFFICES ASSUME stack = st PROVE FALSE
        OBVIOUS
    <2> QED
        BY <1>2, <1>3, <2>1, ReadsPop, NotSteps
<1>7. Next1 # Call("fundef") /\ Call("stmt") # Call("fundef")
    BY DEF Next1, Call
<1>8. Tail(stack) = st /\ Final.rest = FunDef \o S
    BY <1>3, <1>5, <1>6, <1>7 DEF Follows
<1>9. stack' = <<Next1>> \o (<<Call("id")>> \o (<<Match("(")>> \o (<<Call("params")>> \o
        (<<Match(":")>> \o (<<Call("type")>> \o (<<Call("block")>> \o st))))))
    BY <1>1, <1>4, <1>8, FunDefSteps
<1>10. FunDef \o S = <<"id">> \o (<<"(">> \o (<<"params">> \o (<<")">> \o (<<":">> \o
        (<<"type">> \o (<<"block">> \o S))))))
    BY <1>4, FunDefApart DEF FunDef
<1> DEFINE S1 == <<"block">> \o S
           S2 == <<"type">> \o S1
           S3 == <<":">> \o S2
           S4 == <<")">> \o S3
           S5 == <<"params">> \o S4
           S6 == <<"(">> \o S5
           t1 == <<Call("block")>> \o st
           t2 == <<Call("type")>> \o t1
           t3 == <<Match(":")>> \o t2
           t4 == <<Call("params")>> \o t3
           t5 == <<Match("(")>> \o t4
           t6 == <<Call("id")>> \o t5
<1>11. /\ "block" \in Symbol /\ "type" \in Symbol /\ ":" \in Symbol /\ ")" \in Symbol
       /\ "params" \in Symbol /\ "(" \in Symbol
       /\ "params" # End /\ ":" \in Matched /\ "(" \in Matched
       /\ "type" \in Token /\ ":" \in Token /\ ")" \in Token /\ "(" \in Token
    BY Symbols DEF Symbol, Token, Matched, End
<1>12. Proper(S1) /\ S1 \in Seq(Symbol) /\ Guarded(S1)
    BY <1>4, <1>11, OneMore, GuardedBy
<1>13. Reads(t1, S1)
    BY <1>3, ReadsCall, Meanings
<1> HIDE DEF S1, t1
<1>14. Proper(S2) /\ S2 \in Seq(Symbol) /\ Guarded(S2)
    BY <1>11, <1>12, OneMore, GuardedBy
<1>15. Reads(t2, S2)
    BY <1>12, <1>13, ReadsCall, Meanings
<1> HIDE DEF S2, t2
<1>16. Proper(S3) /\ S3 \in Seq(Symbol) /\ Guarded(S3)
    BY <1>11, <1>14, OneMore, GuardedBy
<1>17. Reads(t3, S3)
    BY <1>11, <1>14, <1>15, ReadsMatch
<1> HIDE DEF S3, t3
<1>18. Proper(S4) /\ S4 \in Seq(Symbol) /\ Guarded(S4)
    BY <1>11, <1>16, OneMore, GuardedBy
<1>19. Reads(t4, S5) /\ <<"params", ")">> \o S3 = S5
    <2>1. Reads(t4, Meaning["params"] \o S3)
        BY <1>16, <1>17, ReadsCall, Meanings
    <2>2. <<"params", ")">> \o S3 = S5
        BY <1>11, <1>16, Unfold2
    <2> QED
        BY <2>1, <2>2, Meanings
<1> HIDE DEF S4, t4
<1>20. Proper(S5) /\ S5 \in Seq(Symbol) /\ Guarded(S5)
    BY <1>11, <1>18, OneMore, GuardedPush
<1>21. Reads(t5, S6)
    BY <1>11, <1>19, <1>20, ReadsMatch
<1> HIDE DEF S5, t5
<1>22. Proper(S6) /\ S6 \in Seq(Symbol) /\ Guarded(S6)
    BY <1>11, <1>20, OneMore, GuardedBy
<1>23. Reads(t6, <<"id">> \o S6)
    BY <1>21, <1>22, ReadsCall, Meanings
<1>24. stack' = <<Next1>> \o t6
    BY <1>9 DEF t1, t2, t3, t4, t5
<1>25. Final.rest = <<"id">> \o S6
    BY <1>8, <1>10 DEF S1, S2, S3, S4, S5
<1> HIDE DEF t6, S6
<1> QED
    BY <1>1, <1>2, <1>23, <1>24, <1>25, KeepsNext

\* The empty sequence of steps.
LEMMA NoMore == ASSUME NEW st \in Seq(Step) PROVE << >> \o st = st
OBVIOUS

LEMMA Two == ASSUME NEW a, NEW b PROVE <<a, b>> = <<a>> \o <<b>>
<1> DEFINE X == {a, b}
           u == <<a, b>>
           v == <<b>>
           e == << >>
<1>1. u \in Seq(X) /\ u # << >> /\ Head(u) = a /\ v \in Seq(X) /\ e \in Seq(X)
    OBVIOUS
<1>2. Tail(u) = v
    OBVIOUS
<1>3. u \o e = u /\ v \o e = v
    BY <1>1
<1> HIDE DEF X, u, v, e
<1>4. u \o e = <<a>> \o (v \o e)
    BY <1>1, <1>2, Peel
<1> QED
    BY <1>3, <1>4 DEF u, v

LEMMA ParamsKeep == ASSUME ParserInv, ParseParams PROVE ParserInv'
<1>1. "params" \in MayBeEmpty /\ "params2" \in MayBeEmpty /\ "pat" \notin MayBeEmpty
    BY Left
<1>2. /\ Begins("params") = Begins("pat") /\ ")" \notin Begins("params")
      /\ Begins("params2") = {","} /\ Begun("params2", ",") = <<"pat", "params2">>
    BY ParamsRules, PatRules, Params2Rules
<1>3. Begun("params", "id") = Begun("pat", "id") \o <<"params2">>
    <2> DEFINE a == "anns"
               b == "params2"
    <2> HIDE DEF a, b
    <2>1. <<a, b>> = <<a>> \o <<b>>
        BY Two
    <2> QED
        BY <2>1, ParamsRules, PatRules DEF a, b
<1>4. \A t \in Begins("params") : Begun("params", t) = Begun("pat", t) \o <<"params2">>
    BY <1>3, ParamsRules
<1>5. ListOf("params", "pat", "params2", "params", "pat", "params2")
    BY <1>1, <1>2, <1>4, Meanings, Symbols DEF ListOf
<1> QED
    BY <1>5, ListKeeps DEF ParseParams

LEMMA ArgsKeep == ASSUME ParserInv, ParseArgs PROVE ParserInv'
<1>1. "args" \in MayBeEmpty /\ "args2" \in MayBeEmpty /\ "expr" \notin MayBeEmpty
    BY Left
<1>2. /\ Begins("args") = Begins("expr") /\ ")" \notin Begins("args")
      /\ Begins("args2") = {","} /\ Begun("args2", ",") = <<"expr", "args2">>
    <2>1. Begins("args") = Begins("callee") /\ Begins("expr") = Begins("callee")
        BY ArgsRules, ExprRules
    <2>2. ")" \notin Begins("callee")
        BY CalleeRules
    <2> QED
        BY <2>1, <2>2, Args2Rules
<1>3. ASSUME NEW t \in Begins("args")
      PROVE  Begun("args", t) = Begun("expr", t) \o <<"args2">>
    <2> DEFINE a == "arglists"
               b == "args2"
               c == Begun("callee", t)
    <2>1. c \in Seq(Symbol) /\ a \in Symbol /\ b \in Symbol
        BY ArgsRules, BegunInSymbols, Symbols DEF Symbol
    <2>2. Begun("args", t) = c \o <<a, b>> /\ Begun("expr", t) = c \o <<a>>
        BY ArgsRules, ExprRules
    <2> HIDE DEF a, b, c
    <2>3. <<a, b>> = <<a>> \o <<b>>
        BY Two
    <2>4. <<a>> \in Seq(Symbol) /\ <<b>> \in Seq(Symbol)
        BY <2>1
    <2>5. (c \o <<a>>) \o <<b>> = c \o (<<a>> \o <<b>>)
        BY <2>1, <2>4, ConcatAssociative
    <2>6. Begun("args", t) = Begun("expr", t) \o <<b>>
        BY <2>2, <2>3, <2>5
    <2> QED
        BY <2>6 DEF b
<1>5. ListOf("args", "expr", "args2", "args", "expr", "args2")
    BY <1>1, <1>2, <1>3, Meanings, Symbols DEF ListOf
<1> QED
    BY <1>5, ListKeeps DEF ParseArgs

LEMMA ArglistKeeps == ASSUME ParserInv, ParseArglist PROVE ParserInv'
<1> DEFINE st == Tail(stack)
<1>1. /\ In("arglist") /\ UNCHANGED textVars /\ outcome = "parsing" /\ UNCHANGED outcome
      /\ stack' = <<Match("("), Call("args")>> \o st
    BY DEF ParseArglist, In, Do, Then
<1>2. PICK S : /\ Reads(st, S) /\ Agrees(<<"(", "args", ")">> \o S) /\ Guarded(S)
               /\ Proper(S) /\ S \in Seq(Symbol) /\ st \in Seq(Step)
    BY <1>1, PoppedCall, Meanings
<1>3. /\ "(" \in Symbol /\ "args" \in Symbol /\ ")" \in Symbol /\ "args" # End
      /\ "(" \in Matched /\ ")" \in Token
    BY Symbols DEF Symbol, Token, Matched, End
<1>4. <<"(", "args", ")">> \o S = <<"(">> \o (<<"args">> \o (<<")">> \o S))
    BY <1>2, <1>3, Apart3
<1>5. <<"args", ")">> \o S = <<"args">> \o (<<")">> \o S)
    BY <1>2, <1>3, Unfold2
<1>6. Guarded(<<"args">> \o (<<")">> \o S))
    <2>1. Guarded(<<")">> \o S) /\ <<")">> \o S \in Seq(Symbol)
        BY <1>2, <1>3, OneMore, GuardedBy
    <2> QED
        BY <1>3, <2>1, GuardedPush
<1>7. Reads(<<Call("args")>> \o st, <<"args">> \o (<<")">> \o S))
    BY <1>2, <1>5, ReadsCall, Meanings
<1>8. stack' = <<Match("(")>> \o (<<Call("args")>> \o st)
    BY <1>1, <1>2, <1>3, MatchSym, CallSym, Meanings, Unfold2, ZenonT(60)
<1>9. Reads(stack', <<"(">> \o (<<"args">> \o (<<")">> \o S)))
    BY <1>3, <1>6, <1>7, <1>8, ReadsMatch
<1> QED
    BY <1>1, <1>2, <1>4, <1>9, Keeps

LEMMA TokenKeeps == ASSUME ParserInv, ParseToken PROVE ParserInv'
<1>1. PICK t \in {"id", "type"} : In(t) /\ (IF tok = t THEN Then(<<Next1>>) ELSE Fails("error"))
    BY DEF ParseToken
<1>2. UNCHANGED textVars /\ outcome = "parsing"
    BY <1>1 DEF ParseToken, In, Do
<1>3. t \in Token /\ t \in Symbol /\ t \in DOMAIN Meaning /\ Meaning[t] = <<t>> /\ t \notin Matched
    BY <1>1, Meanings, Symbols DEF Symbol, Token, Matched
<1>4. PICK S : /\ Reads(Tail(stack), S) /\ Agrees(<<t>> \o S)
               /\ Proper(S) /\ S \in Seq(Symbol) /\ Tail(stack) \in Seq(Step)
    BY <1>1, <1>3, PoppedCall
<1>5. CASE tok = t
    <2>1. stack' = <<Next1>> \o Tail(stack) /\ UNCHANGED outcome
        BY <1>1, <1>5 DEF Then
    <2> QED
        BY <1>2, <1>3, <1>4, <1>5, <2>1, KeepsToken
<1>6. CASE tok # t
    <2>1. outcome' = "error"
        BY <1>1, <1>6 DEF Fails
    <2>2. tok \notin Begins(t) /\ t \notin MayBeEmpty
        BY <1>3, <1>6, TokenRules
    <2>3. Lacks \/ Final.rest = <<Nothing>>
        BY <1>3, <1>4, <2>2, AgreesRefused
    <2> QED
        BY <1>2, <2>1, <2>3, KeepsFailing
<1> QED
    BY <1>5, <1>6

LEMMA BlockKeeps == ASSUME ParserInv, ParseBlock PROVE ParserInv'
<1>1. In("block") /\ UNCHANGED textVars /\ outcome = "parsing"
    BY DEF ParseBlock, In, Do
<1>2. PICK S : /\ Reads(Tail(stack), S) /\ Agrees(<<"block">> \o S)
               /\ Proper(S) /\ S \in Seq(Symbol) /\ Tail(stack) \in Seq(Step)
    BY <1>1, PoppedCall, Meanings
<1>3. /\ "block" \in Symbol /\ "block" \notin Matched \cup MayBeEmpty
      /\ Begins("block") = {"{"} /\ None # "{"
    BY Symbols, BlockRules DEF Symbol, None, End
<1>4. CASE tok = "{"
    <2>1. stack' = <<Next1, Call("stmts")>> \o Tail(stack) /\ UNCHANGED outcome
        BY <1>3, <1>4 DEF ParseBlock, Some, Then
    <2>2. stack' = <<Next1>> \o (<<Call("stmts")>> \o Tail(stack))
        BY <1>2, <2>1, CallSym, Meanings, NextApart
    <2>3. Reads(<<Call("stmts")>> \o Tail(stack), <<"stmts", "expr", "}">> \o S)
        BY <1>2, ReadsCall, Meanings
    <2>4. Final.rest = <<"stmts", "expr", "}">> \o S
        BY <1>2, <1>3, <1>4, AgreesBegun, BlockRules
    <2> QED
        BY <1>1, <2>1, <2>2, <2>3, <2>4, KeepsNext
<1>5. CASE tok # "{"
    <2>1. outcome' \in {"error", "assert"}
        BY <1>3, <1>5 DEF ParseBlock, Some, Fails
    <2>2. Lacks \/ Final.rest = <<Nothing>>
        BY <1>2, <1>3, <1>5, AgreesRefused
    <2> QED
        BY <1>1, <2>1, <2>2, KeepsFailing
<1> QED
    BY <1>4, <1>5

LEMMA StmtsKeep == ASSUME ParserInv, ParseStmts PROVE ParserInv'
<1> DEFINE st == Tail(stack)
<1>1. In("stmts") /\ UNCHANGED textVars /\ outcome = "parsing"
    BY DEF ParseStmts, In, Do
<1>2. PICK S : /\ Reads(st, S) /\ Agrees(<<"stmts", "expr", "}">> \o S)
               /\ Proper(S) /\ S \in Seq(Symbol) /\ st \in Seq(Step)
    BY <1>1, PoppedCall, Meanings
<1>3. /\ "stmts" \in Symbol /\ "expr" \in Symbol /\ "}" \in Symbol /\ ";" \in Symbol
      /\ "}" \in Matched /\ "}" \in Token /\ ";" \in Matched /\ ";" \in Token
      /\ "expr" \notin Matched \cup MayBeEmpty /\ "stmts" \in MayBeEmpty
      /\ Begins("stmts") = {"val"} /\ None # "val" /\ None = End /\ "stmts" \notin Matched
    BY Symbols, StmtsRules, ExprRules DEF Symbol, Token, Matched, None, End
<1>4. <<"stmts", "expr", "}">> \o S = <<"stmts">> \o (<<"expr">> \o (<<"}">> \o S))
    BY <1>2, BodyApart
<1> DEFINE E == <<"expr">> \o (<<"}">> \o S)
           T == <<"stmts">> \o E
<1>5. /\ Proper(<<"}">> \o S) /\ <<"}">> \o S \in Seq(Symbol) /\ Guarded(<<"}">> \o S)
    BY <1>2, <1>3, OneMore, GuardedBy
<1>6. Proper(E) /\ E \in Seq(Symbol)
    BY <1>3, <1>5, OneMore
<1>7. Proper(T) /\ T \in Seq(Symbol)
    BY <1>3, <1>6, OneMore
<1>8. Agrees(T)
    BY <1>2, <1>4
<1>9. CASE tok = "val"
    <2>1. stack' = <<Call("stmt"), Match(";"), Call("stmts")>> \o st /\ UNCHANGED outcome
        BY <1>3, <1>9 DEF ParseStmts, Some, Then
    <2>2. stack' = <<Call("stmt")>> \o (<<Match(";")>> \o (<<Call("stmts")>> \o st))
        BY <1>2, <2>1, StmtsSteps
    <2>3. Reads(<<Call("stmts")>> \o st, T)
        BY <1>2, <1>4, ReadsCall, Meanings
    <2>4. Guarded(<<";">> \o T)
        BY <1>3, <1>7, GuardedBy
    <2>5. Final.rest = Stmt \o (<<";">> \o T)
        <3>1. Final.rest = <<"pat", "=", "expr", ";", "stmts">> \o E
            BY <1>3, <1>6, <1>8, <1>9, AgreesBegun, StmtsRules
        <3>2. <<"pat", "=", "expr", ";", "stmts">> \o E
                = <<"pat">> \o (<<"=">> \o (<<"expr">> \o (<<";">> \o T)))
            BY <1>6, StmtsApart
        <3>3. <<"pat", "=", "expr">> \o (<<";">> \o T)
                = <<"pat">> \o (<<"=">> \o (<<"expr">> \o (<<";">> \o T)))
            <4>1. <<";">> \o T \in Seq(Symbol)
                BY <1>3, <1>7, OneMore
            <4> DEFINE Z == <<";">> \o T
            <4> HIDE DEF E, T, Z
            <4>3. <<"pat", "=", "expr">> \o Z = <<"pat">> \o (<<"=">> \o (<<"expr">> \o Z))
                BY <4>1, StmtApart DEF Z
            <4> QED
                BY <4>3 DEF Z
        <3> QED
            BY <3>1, <3>2, <3>3 DEF Stmt
    <2> HIDE DEF T
    <2>6. Guarded(T) \/ Guarded(<<";">> \o T)
        BY <2>4
    <2>7. Reads(<<Match(";")>> \o (<<Call("stmts")>> \o st), <<";">> \o T)
        <3>1. Guarded(T)
            BY <1>3, <1>5, <1>6, GuardedBy, GuardedPush, Symbols DEF T
        <3> QED
            BY <1>3, <2>3, <3>1, ReadsMatch
    <2> QED
        BY <1>1, <2>1, <2>2, <2>4, <2>5, <2>7, KeepsStmt
<1>10. CASE tok = None
    <2>1. outcome' = "error"
        BY <1>10 DEF ParseStmts, Some, Fails
    <2>2. Skipped("stmts", tok) /\ tok \notin Begins("expr")
        BY <1>3, <1>10, EndBeginsNothing, Symbols DEF Skipped
    <2>3. Agrees(E)
        BY <1>3, <1>6, <1>8, <2>2, AgreesSkipped
    <2>4. Lacks \/ Final.rest = <<Nothing>>
        BY <1>3, <1>5, <2>2, <2>3, AgreesRefused
    <2> QED
        BY <1>1, <2>1, <2>4, KeepsFailing
<1>11. CASE tok # "val" /\ tok # None
    <2>1. stack' = <<Call("expr"), Match("}")>> \o st /\ UNCHANGED outcome
        BY <1>11 DEF ParseStmts, Some, Then
    <2>2. stack' = <<Call("expr")>> \o (<<Match("}")>> \o st)
        <3>1. Call("expr") \in Step /\ Match("}") \in Step
            BY <1>3, CallSym, MatchSym, Meanings
        <3> HIDE DEF E, T, st
        <3> QED
            BY <1>2, <2>1, <3>1, Unfold2
    <2>3. Skipped("stmts", tok)
        BY <1>3, <1>11 DEF Skipped
    <2>4. Agrees(E)
        BY <1>3, <1>6, <1>8, <2>3, AgreesSkipped
    <2>5. Reads(<<Match("}")>> \o st, <<"}">> \o S)
        BY <1>2, <1>3, ReadsMatch
    <2>6. Reads(stack', E)
        BY <1>5, <2>2, <2>5, ReadsCall, Meanings
    <2> QED
        BY <1>1, <2>1, <2>4, <2>6, Keeps
<1> QED
    BY <1>9, <1>10, <1>11

LEMMA StmtKeeps == ASSUME ParserInv, ParseStmt PROVE ParserInv'
<1>1. /\ Do(Call("stmt")) /\ UNCHANGED textVars /\ UNCHANGED outcome
      /\ stack' = <<Next1, Call("pat"), Match("="), Call("expr")>> \o Tail(stack)
    BY DEF ParseStmt, In, Then
<1>2. outcome = "parsing" /\ stack # << >> /\ Head(stack) = Call("stmt")
    BY <1>1, ParsingStep
<1>3. PICK st, S : Reads(st, S) /\ Follows(st, S)
    BY <1>2 DEF ParserInv
<1>4. st \in Seq(Step) /\ Proper(S) /\ S \in Seq(Symbol)
    BY <1>3, ReadsProper
<1>5. ASSUME NEW y, stack = <<y>> \o st PROVE y = Call("stmt") /\ Tail(stack) = st
    <2> DEFINE X == Step \cup {y}
    <2>1. st \in Seq(X) /\ y \in X
        BY <1>4, SeqMonotonic
    <2>2. Head(stack) = y /\ Tail(stack) = st
        BY <1>5, <2>1, Front
    <2> QED
        BY <1>2, <2>2
<1>6. stack # st
    <2>1. SUFFICES ASSUME stack = st PROVE FALSE
        OBVIOUS
    <2> QED
        BY <1>2, <1>3, <2>1, ReadsPop, NotSteps
<1>7. Next1 # Call("stmt") /\ Call("fundef") # Call("stmt")
    BY DEF Next1, Call
<1>8. Tail(stack) = st /\ Guarded(S) /\ Final.rest = Stmt \o S
    BY <1>3, <1>5, <1>6, <1>7 DEF Follows
<1> DEFINE S1 == <<"expr">> \o S
           S2 == <<"=">> \o S1
           t1 == <<Call("expr")>> \o st
           t2 == <<Match("=")>> \o t1
           t3 == <<Call("pat")>> \o t2
<1>9. stack' = <<Next1>> \o t3
    BY <1>1, <1>4, <1>8, StmtSteps
<1>10. Stmt \o S = <<"pat">> \o S2
    BY <1>4, StmtApart DEF Stmt
<1>11. "expr" \in Symbol /\ "=" \in Symbol /\ "=" \in Matched /\ "=" \in Token
    BY Symbols DEF Symbol, Token, Matched
<1>12. S1 \in Seq(Symbol) /\ Proper(S1) /\ Guarded(S1)
    BY <1>4, <1>11, OneMore, GuardedBy
<1>13. Reads(t1, S1)
    BY <1>3, <1>8, ReadsCall, Meanings
<1> HIDE DEF S1, t1
<1>14. Guarded(S2) /\ Reads(t2, S2)
    BY <1>11, <1>12, <1>13, GuardedBy, ReadsMatch
<1> HIDE DEF S2, t2
<1>15. Reads(t3, <<"pat">> \o S2)
    BY <1>14, ReadsCall, Meanings
<1> HIDE DEF t3
<1> QED
    BY <1>1, <1>2, <1>8, <1>9, <1>10, <1>15, KeepsNext

LEMMA ExprKeeps == ASSUME ParserInv, ParseExpr PROVE ParserInv'
<1> DEFINE st == Tail(stack)
<1>1. /\ In("expr") /\ UNCHANGED textVars /\ outcome = "parsing" /\ UNCHANGED outcome
      /\ stack' = <<Call("callee"), Call("calls")>> \o st
    BY DEF ParseExpr, In, Do, Then
<1>2. PICK S : /\ Reads(st, S) /\ Agrees(<<"expr">> \o S) /\ Guarded(S)
               /\ Proper(S) /\ S \in Seq(Symbol) /\ st \in Seq(Step)
    BY <1>1, PoppedCall, Meanings, ZenonT(60)
<1>3. /\ "expr" \in Symbol /\ "callee" \in Symbol /\ "arglists" \in Symbol /\ "arglists" # End
      /\ {"expr", "callee"} \cap (Matched \cup MayBeEmpty) = {}
    BY Symbols, Left DEF Symbol, Token, Matched, End
<1> DEFINE m == <<"arglists">>
<1>4. m \in Seq(Symbol)
    BY <1>3
<1>5. /\ Begins("expr") = Begins("callee")
      /\ \A t \in Begins("expr") : Begun("expr", t) = Begun("callee", t) \o m
    BY ExprRules
<1>6. Guarded(m \o S)
    BY <1>2, <1>3, GuardedPush
<1>7. Reads(<<Call("calls")>> \o st, m \o S)
    BY <1>2, ReadsCall, Meanings
<1> HIDE DEF m
<1>8. Agrees(<<"callee">> \o (m \o S))
    BY <1>2, <1>3, <1>4, <1>5, AgreesAs
<1>9. stack' = <<Call("callee")>> \o (<<Call("calls")>> \o st)
    <2>1. Call("callee") \in Step /\ Call("calls") \in Step
        BY CallSym, Meanings
    <2> QED
        BY <1>1, <1>2, <2>1, Unfold2
<1>10. Reads(stack', <<"callee">> \o (m \o S))
    BY <1>6, <1>7, <1>9, ReadsCall, Meanings
<1> QED
    BY <1>1, <1>8, <1>10, Keeps

LEMMA CallsKeep == ASSUME ParserInv, ParseCalls PROVE ParserInv'
<1> DEFINE st == Tail(stack)
<1>1. In("calls") /\ UNCHANGED textVars /\ outcome = "parsing"
    BY DEF ParseCalls, In, Do
<1>2. PICK S : /\ Reads(st, S) /\ Agrees(<<"arglists">> \o S) /\ Guarded(S)
               /\ Proper(S) /\ S \in Seq(Symbol) /\ st \in Seq(Step)
    BY <1>1, PoppedCall, Meanings
<1>3. /\ "arglists" \in Symbol /\ "arglists" # End /\ "arglists" \in MayBeEmpty
      /\ "arglists" \notin Matched
      /\ "(" \in Symbol /\ "args" \in Symbol /\ ")" \in Symbol /\ None = End
    BY Symbols, Left DEF Symbol, Token, Matched, End, None
<1>4. Begins("arglists") = {"("} /\ None # "("
    BY ArglistsRules DEF None, End
<1> DEFINE T == <<"arglists">> \o S
<1>5. Proper(T) /\ T \in Seq(Symbol) /\ Guarded(T)
    BY <1>2, <1>3, OneMore, GuardedPush
<1>6. CASE tok = None
    <2>1. outcome' = "error"
        BY <1>6 DEF ParseCalls, Some, Fails
    <2>2. After(T, End).missing # {} \/ After(T, End).rest = <<Nothing>>
        BY <1>5, AfterEnd
    <2>3. Lacks \/ Final.rest = <<Nothing>>
        BY <1>2, <1>3, <1>6, <2>2, FailsWell
    <2> QED
        BY <1>1, <2>1, <2>3, KeepsFailing
<1>7. CASE tok = "("
    <2>1. stack' = <<Call("arglist"), Call("calls")>> \o st /\ UNCHANGED outcome
        BY <1>4, <1>7 DEF ParseCalls, Some, Then
    <2>2. stack' = <<Call("arglist")>> \o (<<Call("calls")>> \o st)
        <3>1. Call("arglist") \in Step /\ Call("calls") \in Step
            BY CallSym, Meanings
        <3> QED
            BY <1>2, <2>1, <3>1, Unfold2
    <2>3. Reads(<<Call("calls")>> \o st, T)
        BY <1>2, ReadsCall, Meanings
    <2>4. Agrees(<<"(", "args", ")">> \o T)
        <3>1. /\ After(T, tok).rest = <<"args", ")", "arglists">> \o S
              /\ After(T, tok).missing = {}
            <4>1. /\ After(T, tok).rest = Begun("arglists", tok) \o S
                  /\ After(T, tok).missing = {}
                <5>1. "arglists" \in Symbol /\ S \in Seq(Symbol) /\ tok \in Begins("arglists")
                    BY <1>2, <1>3, <1>4, <1>7
                <5> QED
                    BY <5>1, AfterBegun
            <4>2. Begun("arglists", tok) = <<"args", ")", "arglists">>
                BY <1>7, ArglistsRules
            <4> QED
                BY <4>1, <4>2
        <3> DEFINE U == <<"args", ")">> \o T
        <3>2. <<"args", ")", "arglists">> \o S = U
            <4>1. <<"args", ")", "arglists">> \o S
                    = <<"args">> \o (<<")">> \o (<<"arglists">> \o S))
                BY <1>2, ArgsApart
            <4>2. <<"args", ")">> \o T = <<"args">> \o (<<")">> \o T)
                <5> HIDE DEF T
                <5> QED
                    BY <1>3, <1>5, Unfold2
            <4> QED
                BY <4>1, <4>2
        <3>3. U \in Seq(Symbol)
            BY <1>3, <1>5, ConcatProperties
        <3>4. <<"(", "args", ")">> \o T = <<"(">> \o U
            <4> HIDE DEF T
            <4> QED
                BY <1>3, <1>5, Unfold3
        <3>5. Begins("(") = {"("} /\ Begun("(", "(") = << >>
            BY TokenRules DEF Token
        <3> HIDE DEF U
        <3>6. /\ After(<<"(">> \o U, tok).rest = << >> \o U
              /\ After(<<"(">> \o U, tok).missing = {}
            <4>1. tok \in Begins("(") /\ "(" \in Symbol /\ Begun("(", tok) = << >>
                BY <1>3, <1>7, <3>5
            <4>2. /\ After(<<"(">> \o U, tok).rest = Begun("(", tok) \o U
                  /\ After(<<"(">> \o U, tok).missing = {}
                BY <3>3, <4>1, AfterBegun
            <4> QED
                BY <4>1, <4>2
        <3>7. << >> \o U = U
            BY <3>3
        <3> HIDE DEF T
        <3>8. After(<<"(">> \o U, tok).rest = After(T, tok).rest
            BY <3>1, <3>2, <3>6, <3>7
        <3>9. Agrees(T)
            BY <1>2 DEF T
        <3> QED
            BY <3>1, <3>4, <3>6, <3>8, <3>9, AgreesStill DEF NoWorse
    <2>5. Reads(stack', <<"(", "args", ")">> \o T)
        BY <1>5, <2>2, <2>3, ReadsCall, Meanings
    <2> QED
        BY <1>1, <2>1, <2>4, <2>5, Keeps
<1>8. CASE tok # None /\ tok # "("
    <2>1. stack' = << >> \o st /\ UNCHANGED outcome
        BY <1>8 DEF ParseCalls, Some, Then
    <2>2. stack' = st
        BY <1>2, <2>1, NoMore
    <2>3. Skipped("arglists", tok)
        BY <1>3, <1>4, <1>8 DEF Skipped
    <2>4. Agrees(S)
        BY <1>2, <1>3, <2>3, AgreesSkipped
    <2> QED
        BY <1>1, <1>2, <2>1, <2>2, <2>4, Keeps
<1> QED
    BY <1>6, <1>7, <1>8

LEMMA CalleeKeeps == ASSUME ParserInv, ParseCallee PROVE ParserInv'
<1> DEFINE st == Tail(stack)
<1>1. In("callee") /\ UNCHANGED textVars /\ outcome = "parsing"
    BY DEF ParseCallee, In, Do
<1>2. PICK S : /\ Reads(st, S) /\ Agrees(<<"callee">> \o S) /\ Guarded(S)
               /\ Proper(S) /\ S \in Seq(Symbol) /\ st \in Seq(Step)
    BY <1>1, PoppedCall, Meanings, ZenonT(60)
<1>3. /\ "callee" \in Symbol /\ "callee" \notin Matched \cup MayBeEmpty
      /\ "block" \in Symbol /\ "block" \notin Matched \cup MayBeEmpty
      /\ "else" \in Symbol /\ "else" \in Matched /\ "else" \in Token
    BY Symbols, Left DEF Symbol, Token, Matched
<1>4. Begins("callee") = {"{", "if", "primop", "id", "literal"} /\ Begins("block") = {"{"}
    BY CalleeRules, BlockRules
<1>5. CASE tok = "{"
    <2>1. stack' = <<Call("block")>> \o st /\ UNCHANGED outcome
        BY <1>5 DEF ParseCallee, Then
    <2>2. Reads(stack', <<"block">> \o S)
        BY <1>2, <2>1, ReadsCall, Meanings
    <2>3. /\ After(<<"callee">> \o S, tok).rest = <<"stmts", "expr", "}">> \o S
          /\ After(<<"callee">> \o S, tok).missing = {}
        <3>1. /\ After(<<"callee">> \o S, tok).rest = Begun("callee", tok) \o S
              /\ After(<<"callee">> \o S, tok).missing = {}
            BY <1>2, <1>3, <1>4, <1>5, AfterBegun
        <3>2. Begun("callee", tok) = <<"stmts", "expr", "}">>
            BY <1>5, CalleeRules
        <3> QED
            BY <3>1, <3>2
    <2>4. /\ After(<<"block">> \o S, tok).rest = <<"stmts", "expr", "}">> \o S
          /\ After(<<"block">> \o S, tok).missing = {}
        <3>1. /\ After(<<"block">> \o S, tok).rest = Begun("block", tok) \o S
              /\ After(<<"block">> \o S, tok).missing = {}
            BY <1>2, <1>3, <1>4, <1>5, AfterBegun
        <3>2. Begun("block", tok) = <<"stmts", "expr", "}">>
            BY <1>5, BlockRules
        <3> QED
            BY <3>1, <3>2
    <2>5. Agrees(<<"block">> \o S)
        BY <1>2, <2>3, <2>4, AgreesStill DEF NoWorse
    <2> QED
        BY <1>1, <2>1, <2>2, <2>5, Keeps
<1>6. CASE tok = "if"
    <2>1. stack' = <<Next1, Call("expr"), Call("block"), Match("else"), Call("block")>> \o st
          /\ UNCHANGED outcome
        BY <1>6 DEF ParseCallee, Then
    <2> DEFINE S1 == <<"block">> \o S
               S2 == <<"else">> \o S1
               S3 == <<"block">> \o S2
               t1 == <<Call("block")>> \o st
               t2 == <<Match("else")>> \o t1
               t3 == <<Call("block")>> \o t2
               t4 == <<Call("expr")>> \o t3
    <2>2. stack' = <<Next1>> \o t4
        BY <1>2, <2>1, IfSteps
    <2>3. Final.rest = <<"expr">> \o S3
        <3>1. Final.rest = <<"expr", "block", "else", "block">> \o S
            BY <1>2, <1>3, <1>4, <1>6, AgreesBegun, CalleeRules
        <3> QED
            BY <1>2, <3>1, IfApart
    <2>4. Proper(S1) /\ S1 \in Seq(Symbol) /\ Guarded(S1)
        BY <1>2, <1>3, OneMore, GuardedBy
    <2>5. Reads(t1, S1)
        BY <1>2, ReadsCall, Meanings
    <2> HIDE DEF S1, t1
    <2>6. Proper(S2) /\ S2 \in Seq(Symbol)
        BY <1>3, <2>4, OneMore
    <2>7. Reads(t2, S2)
        BY <1>3, <2>4, <2>5, ReadsMatch
    <2> HIDE DEF S2, t2
    <2>8. Guarded(S3)
        BY <2>6, GuardedBy
    <2>9. Reads(t3, S3)
        BY <2>7, ReadsCall, Meanings
    <2> HIDE DEF S3, t3
    <2>10. Reads(t4, <<"expr">> \o S3)
        BY <2>8, <2>9, ReadsCall, Meanings
    <2> HIDE DEF t4
    <2> QED
        BY <1>1, <2>1, <2>2, <2>3, <2>10, KeepsNext
<1>7. CASE tok = "primop"
    <2>1. stack' = <<Next1, Call("arglist")>> \o st /\ UNCHANGED outcome
        BY <1>7 DEF ParseCallee, Then
    <2>2. stack' = <<Next1>> \o (<<Call("arglist")>> \o st)
        BY <1>2, <2>1, CallSym, Meanings, NextApart
    <2>3. Reads(<<Call("arglist")>> \o st, <<"(", "args", ")">> \o S)
        BY <1>2, ReadsCall, Meanings
    <2>4. Final.rest = <<"(", "args", ")">> \o S
        BY <1>2, <1>3, <1>4, <1>7, AgreesBegun, CalleeRules
    <2> QED
        BY <1>1, <2>1, <2>2, <2>3, <2>4, KeepsNext
<1>8. CASE tok \in {"id", "literal"}
    <2>1. stack' = <<Next1>> \o st /\ UNCHANGED outcome
        BY <1>8 DEF ParseCallee, Then
    <2>2. Begun("callee", tok) = << >>
        BY <1>8, CalleeRules
    <2>3. Final.rest = << >> \o S
        BY <1>2, <1>3, <1>4, <1>8, <2>2, AgreesBegun
    <2>4. << >> \o S = S
        BY <1>2
    <2> QED
        BY <1>1, <1>2, <2>1, <2>3, <2>4, KeepsNext
<1>9. CASE tok \notin {"{", "if", "primop", "id", "literal"}
    <2>1. outcome' = "error"
        BY <1>9 DEF ParseCallee, Fails
    <2>2. Lacks \/ Final.rest = <<Nothing>>
        BY <1>2, <1>3, <1>4, <1>9, AgreesRefused
    <2> QED
        BY <1>1, <2>1, <2>2, KeepsFailing
<1> QED
    BY <1>5, <1>6, <1>7, <1>8, <1>9

LEMMA PatKeeps == ASSUME ParserInv, ParsePat PROVE ParserInv'
<1> DEFINE st == Tail(stack)
<1>1. UNCHANGED textVars /\ outcome = "parsing"
    BY DEF ParsePat, In, Do
<1>2. /\ "pat" \in Symbol /\ "id" \in Symbol /\ "anns" \in Symbol /\ "type" \in Symbol
      /\ "anns" # End /\ "anns" \in MayBeEmpty /\ "anns" \notin Matched /\ None = End
      /\ {"pat", "id"} \cap (Matched \cup MayBeEmpty) = {}
    BY Symbols, Left DEF Symbol, Token, Matched, None, End
<1>3. CASE In("pat") /\ Then(<<Call("id"), Call("anns")>>)
    <2>1. stack' = <<Call("id"), Call("anns")>> \o st /\ UNCHANGED outcome
        BY <1>3 DEF Then
    <2>2. PICK S : /\ Reads(st, S) /\ Agrees(<<"pat">> \o S) /\ Guarded(S)
                   /\ Proper(S) /\ S \in Seq(Symbol) /\ st \in Seq(Step)
        BY <1>3, PoppedCall, Meanings, ZenonT(60)
    <2> DEFINE m == <<"anns">>
    <2>3. m \in Seq(Symbol) /\ Guarded(m \o S)
        BY <1>2, <2>2, GuardedPush
    <2>4. /\ Begins("pat") = Begins("id")
          /\ \A t \in Begins("pat") : Begun("pat", t) = Begun("id", t) \o m
        <3>1. Begins("pat") = {"id"} /\ Begun("pat", "id") = m
            BY PatRules
        <3>2. Begins("id") = {"id"} /\ Begun("id", "id") = << >>
            BY TokenRules DEF Token
        <3>3. << >> \o m = m
            BY <2>3
        <3> QED
            BY <3>1, <3>2, <3>3
    <2>5. Reads(<<Call("anns")>> \o st, m \o S)
        BY <2>2, ReadsCall, Meanings
    <2> HIDE DEF m
    <2>6. Agrees(<<"id">> \o (m \o S))
        BY <1>2, <2>2, <2>3, <2>4, AgreesAs
    <2>7. stack' = <<Call("id")>> \o (<<Call("anns")>> \o st)
        <3>1. Call("id") \in Step /\ Call("anns") \in Step
            BY CallSym, Meanings
        <3> QED
            BY <2>1, <2>2, <3>1, Unfold2
    <2>8. Reads(stack', <<"id">> \o (m \o S))
        BY <2>3, <2>5, <2>7, ReadsCall, Meanings
    <2> QED
        BY <1>1, <2>1, <2>6, <2>8, Keeps
<1>4. CASE In("anns") /\ Some(IF tok = ":" THEN <<Next1, Call("type"), Call("anns")>> ELSE << >>)
    <2>1. PICK S : /\ Reads(st, S) /\ Agrees(<<"anns">> \o S) /\ Guarded(S)
                   /\ Proper(S) /\ S \in Seq(Symbol) /\ st \in Seq(Step)
        BY <1>4, PoppedCall, Meanings
    <2> DEFINE T == <<"anns">> \o S
    <2>2. Proper(T) /\ T \in Seq(Symbol) /\ Guarded(T)
        BY <1>2, <2>1, OneMore, GuardedPush
    <2>3. Begins("anns") = {":"} /\ None # ":"
        BY AnnsRules DEF None, End
    <2>4. CASE tok = None
        <3>1. outcome' = "error"
            BY <1>4, <2>4 DEF Some, Fails
        <3>2. After(T, End).missing # {} \/ After(T, End).rest = <<Nothing>>
            BY <2>2, AfterEnd
        <3>3. Lacks \/ Final.rest = <<Nothing>>
            BY <1>2, <2>1, <2>4, <3>2, FailsWell
        <3> QED
            BY <1>1, <3>1, <3>3, KeepsFailing
    <2>5. CASE tok = ":"
        <3>1. stack' = <<Next1, Call("type"), Call("anns")>> \o st /\ UNCHANGED outcome
            BY <1>4, <2>3, <2>5 DEF Some, Then
        <3>2. stack' = <<Next1>> \o (<<Call("type")>> \o (<<Call("anns")>> \o st))
            <4>1. Call("type") \in Step /\ Call("anns") \in Step
                BY CallSym, Meanings
            <4> QED
                BY <2>1, <3>1, <4>1, NextApart
        <3>3. Final.rest = <<"type", "anns">> \o S
            BY <1>2, <2>1, <2>3, <2>5, AgreesBegun, AnnsRules
        <3>4. <<"type", "anns">> \o S = <<"type">> \o T
            BY <1>2, <2>1, Unfold2
        <3>5. Reads(<<Call("anns")>> \o st, T)
            BY <2>1, ReadsCall, Meanings
        <3> HIDE DEF T
        <3>6. Reads(<<Call("type")>> \o (<<Call("anns")>> \o st), <<"type">> \o T)
            BY <2>2, <3>5, ReadsCall, Meanings
        <3> QED
            BY <1>1, <3>1, <3>2, <3>3, <3>4, <3>6, KeepsNext
    <2>6. CASE tok # None /\ tok # ":"
        <3>1. stack' = << >> \o st /\ UNCHANGED outcome
            BY <1>4, <2>6 DEF Some, Then
        <3>2. stack' = st
            BY <2>1, <3>1, NoMore
        <3>3. Skipped("anns", tok)
            BY <1>2, <2>3, <2>6 DEF Skipped
        <3>4. Agrees(S)
            BY <1>2, <2>1, <3>3, AgreesSkipped
        <3> QED
            BY <1>1, <2>1, <3>1, <3>2, <3>4, Keeps
    <2> QED
        BY <2>4, <2>5, <2>6
<1> QED
    BY <1>3, <1>4 DEF ParsePat

-----------------------------------------------------------------------------

LEMMA ParserInit == Init => ParserInv
<1>1. SUFFICES ASSUME Init PROVE ParserInv
    OBVIOUS
<1>2. stack = <<Call("defs")>> /\ outcome = "parsing" /\ expected = <<"program", End>>
    BY <1>1 DEF Init
<1> DEFINE e == << >>
           S == <<"program", End>>
<1>3. Fits(Call("defs"), <<End>>) /\ Call("defs") \in Step /\ Sym(Call("defs")) = <<"program">>
    BY CallSym, Meanings DEF Fits, Unguarded
<1>4. Reads(<<Call("defs")>> \o e, <<"program">> \o <<End>>)
    BY <1>3, ReadsEmpty, ReadsPush
<1>5. <<"program">> \o <<End>> = S
    BY Two
<1>6. <<Call("defs")>> \o e = <<Call("defs")>>
    OBVIOUS
<1>7. Reads(stack, S)
    BY <1>2, <1>4, <1>5, <1>6
<1>8. Agrees(S)
    BY <1>2 DEF Agrees, Final, Lacks
<1>9. Follows(stack, S)
    BY <1>8 DEF Follows
<1> QED
    BY <1>2, <1>7, <1>9 DEF ParserInv, GrammaticalAccepted, AcceptedAtEnd

LEMMA ParserStep == ParserInv /\ [Next]_vars => ParserInv'
<1>1. SUFFICES ASSUME ParserInv, [Next]_vars PROVE ParserInv'
    OBVIOUS
<1>2. CASE UNCHANGED vars
    <2>1. UNCHANGED textVars /\ stack' = stack /\ outcome' = outcome
        BY <1>2 DEF vars
    <2>2. Final' = Final /\ (Lacks' <=> Lacks) /\ \A S : Agrees(S) <=> Agrees(S)'
        BY <2>1, SameText
    <2>3. \A st, S : Follows(st, S) <=> Follows(st, S)'
        BY <2>1, <2>2 DEF Follows
    <2> QED
        BY <1>1, <2>1, <2>2, <2>3 DEF ParserInv, GrammaticalAccepted, AcceptedAtEnd
<1>3. CASE Next
    BY <1>1, <1>3, NextKeeps, MatchKeeps, DefsKeeps, FunDefKeeps, ParamsKeep, ArglistKeeps,
       ArgsKeep, TokenKeeps, BlockKeeps, StmtsKeep, StmtKeeps, ExprKeeps, CallsKeep,
       CalleeKeeps, PatKeeps DEF Next
<1> QED
    BY <1>1, <1>2, <1>3

THEOREM ParserAlwaysInv == Spec => []ParserInv
BY ParserInit, ParserStep, PTL DEF Spec

\* No text of the language is refused: an exception of parse_* or a failed assertion
\* of parse_block has seen tokens that begin no text of Grammar, or lacks one.
THEOREM RefusesNothingGrammatical == Spec => []GrammaticalAccepted
<1>1. ParserInv => GrammaticalAccepted
    BY DEF ParserInv
<1> QED
    BY <1>1, ParserAlwaysInv, PTL

\* No other text is accepted: what program() returns a tree for is a text of Grammar,
\* unless match went on without a token.
THEOREM AcceptsNothingElse == Spec => []OnlyGrammaticalAccepted
<1>1. ParserInv => OnlyGrammaticalAccepted
    BY DEF ParserInv, AcceptedAtEnd, OnlyGrammaticalAccepted
<1> QED
    BY <1>1, ParserAlwaysInv, PTL
=============================================================================
